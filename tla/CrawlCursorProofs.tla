------------------------- MODULE CrawlCursorProofs -------------------------
(***************************************************************************)
(* CursorInv is an invariant of CrawlCursor for every set of ids, page     *)
(* limit, number of retries and number of outages, MAX_CONSECUTIVE_SKIPS   *)
(* is out of reach of broken rows among ids that it allows for, and        *)
(* CrawlCursor implements CrawlFeed.                                       *)
(***************************************************************************)
EXTENDS CrawlCursor, FiniteSetTheorems, WellFoundedInduction, TLAPS

----------------------------------------------------------------------------
(* Pages. *)

(* A page of one row that holds a broken row starts at a broken row. *)
LEMMA OneRowFails ==
    ASSUME TypeOK, NEW o \in Nat, NEW p \in SUBSET rows,
           IsPage(p, o, 1), p \cap broken # {}
    PROVE  FirstIsBroken(o)
<1>1. PICK b \in p : b \in broken
  OBVIOUS
<1>2. IsFiniteSet(p) /\ rows \subseteq Nat
  <2>1. IsFiniteSet(rows) /\ rows \subseteq Nat
    BY IdsAssumption, FS_Subset DEF TypeOK
  <2> QED
    BY <2>1, FS_Subset
<1>3. Cardinality(p) = 1
  BY <1>1, <1>2, FS_EmptySet, FS_CardinalityType DEF IsPage
<1>4. p = {b}
  BY <1>1, <1>2, <1>3, FS_Singleton
<1>5. \A r \in From(o) : b <= r
  BY <1>2, <1>4 DEF IsPage, From
<1> QED
  BY <1>1, <1>5 DEF FirstIsBroken, IsPage, From

(* A page of one row without a broken row does not start at a broken row. *)
LEMMA OneRowSucceeds ==
    ASSUME TypeOK, NEW o \in Nat, NEW p \in SUBSET rows,
           IsPage(p, o, 1), p \cap broken = {}
    PROVE  ~FirstIsBroken(o)
<1> SUFFICES ASSUME NEW b \in broken, b >= o, \A r \in From(o) : b <= r
             PROVE  FALSE
  BY DEF FirstIsBroken
<1>1. b \in From(o) /\ b \notin p
  BY DEF From, TypeOK
<1>2. p # {}
  <2>1. SUFFICES ASSUME p = {} PROVE FALSE
    OBVIOUS
  <2>2. Cardinality(p) = 0
    BY <2>1, FS_EmptySet
  <2> QED
    BY <1>1, <2>1, <2>2 DEF IsPage
<1>3. PICK r \in p : TRUE
  BY <1>2
<1>4. rows \subseteq Nat /\ r \in From(o)
  BY <1>3, IdsAssumption DEF TypeOK, IsPage
<1>5. b < r
  BY <1>1, <1>3, <1>4 DEF From, TypeOK
<1> QED
  BY <1>1, <1>3, <1>5 DEF IsPage

(* A page that is not full holds every row from its offset on. *)
LEMMA LastPage ==
    ASSUME TypeOK, NEW p \in SUBSET rows, IsPage(p, offset, pageLimit),
           p \cap seen = {}, p \ seen = {} \/ Cardinality(p) < pageLimit
    PROVE  p = From(offset)
<1>1. CASE Cardinality(p) < pageLimit
  BY <1>1 DEF IsPage
<1>2. CASE p \ seen = {}
  <2>1. p = {}
    BY <1>2
  <2>2. Cardinality(p) < pageLimit
    BY <2>1, FS_EmptySet, LimitAssumption DEF TypeOK
  <2> QED
    BY <2>2 DEF IsPage
<1> QED
  BY <1>1, <1>2

----------------------------------------------------------------------------
(* Steps that several actions share. *)

(* Bisecting or skipping keeps the invariant, whichever end was found. *)
LEMMA SettleInv ==
    ASSUME CursorInv, NEW l \in Nat, NEW h \in Nat, NEW f \in Nat,
           lo # None, lo <= l, l < h, pc = "request",
           outages' = 0 => outages = 0 /\ FirstIsBroken(l) /\ ~FirstIsBroken(h),
           Settle(l, h, f),
           outages' \in 0..Outages, attempt' \in 0..Retries,
           UNCHANGED <<server, pageLimit, jump, seen, pc>>
    PROVE  CursorInv'
<1> USE DEF CursorInv, server
<1>1. badStart \in Nat /\ badStart <= l /\ Settled = badStart
  BY DEF ZoneOK, TypeOK, Settled, None
<1>2. CASE /\ h - l > 1
           /\ offset' = (l + h) \div 2
           /\ lo' = l /\ hi' = h
           /\ probes' = f
           /\ UNCHANGED <<badStart, skips>>
  <2>1. l < offset' /\ offset' < h /\ offset' \in Nat
    BY <1>2
  <2>2. TypeOK'
    BY <1>2, <2>1 DEF TypeOK
  <2>3. ZoneOK'
    BY <1>1, <1>2, <2>1 DEF ZoneOK, None
  <2>4. EndsOK'
    BY <1>2 DEF EndsOK, FirstIsBroken, From
  <2>5. Settled' = Settled
    BY <1>1, <1>2 DEF Settled, None
  <2>6. SkipsBehind'
    BY <1>2, <2>5 DEF SkipsBehind
  <2>7. SkipEndsWithBrokenRow'
    BY <1>2 DEF SkipEndsWithBrokenRow
  <2>8. EachRowSettledOnce'
    BY <1>2, <2>5 DEF EachRowSettledOnce, Behind, PassedOver
  <2> QED
    BY <2>2, <2>3, <2>4, <2>6, <2>7, <2>8
<1>3. CASE /\ h - l <= 1
           /\ skips' = skips \cup {<<badStart, l>>}
           /\ offset' = h
           /\ lo' = None /\ hi' = None /\ badStart' = None
           /\ probes' = 0
  <2>1. h = l + 1
    BY <1>3
  <2>2. TypeOK'
    BY <1>1, <1>3 DEF TypeOK
  <2>3. ZoneOK'
    BY <1>3 DEF ZoneOK
  <2>4. EndsOK'
    BY <1>3 DEF EndsOK
  <2>5. Settled' = l + 1
    BY <1>3, <2>1 DEF Settled
  <2>6. SkipsBehind'
    BY <1>1, <1>3, <2>5 DEF SkipsBehind, TypeOK
  <2>7. SkipEndsWithBrokenRow'
    <3>1. SUFFICES ASSUME outages' = 0 PROVE l \in broken
      BY <1>1, <1>3, <3>1 DEF SkipEndsWithBrokenRow
    <3>2. PICK b \in broken : b >= l /\ \A r \in From(l) : b <= r
      BY <3>1 DEF FirstIsBroken
    <3>3. broken \subseteq Nat /\ rows \subseteq Nat
      BY IdsAssumption DEF TypeOK
    <3>4. CASE b >= h
      BY <2>1, <3>1, <3>2, <3>3, <3>4 DEF FirstIsBroken, From
    <3>5. CASE b < h
      BY <2>1, <3>2, <3>3, <3>5
    <3> QED
      BY <3>3, <3>4, <3>5
  <2>8. EachRowSettledOnce'
    <3>1. SUFFICES ASSUME NEW r \in rows
                   PROVE  /\ Behind(r)' => (r \in seen <=> ~PassedOver(r)')
                          /\ ~Behind(r)' => r \notin seen /\ ~PassedOver(r)'
      BY DEF EachRowSettledOnce
    <3>2. r \in Nat /\ start \in Nat
      BY IdsAssumption DEF TypeOK
    <3>3. PassedOver(r)' <=> PassedOver(r) \/ (badStart <= r /\ r <= l)
      <4>1. \E s \in {<<badStart, l>>} : s[1] <= r /\ r <= s[2]
              <=> badStart <= r /\ r <= l
        OBVIOUS
      <4>2. PassedOver(r)' <=> \E s \in skips \cup {<<badStart, l>>} :
                                   s[1] <= r /\ r <= s[2]
        BY <1>3 DEF PassedOver
      <4> QED
        BY <4>1, <4>2, Zenon DEF PassedOver
    <3>4. Behind(r)' <=> start <= r /\ r <= l
      BY <1>3, <2>5, <3>2 DEF Behind
    <3>5. Behind(r) <=> start <= r /\ r < badStart
      BY <1>1 DEF Behind
    <3>6. start <= badStart
      BY <1>1 DEF SkipsBehind
    <3> QED
      BY <1>1, <3>2, <3>3, <3>4, <3>5, <3>6 DEF EachRowSettledOnce
  <2> QED
    BY <2>2, <2>3, <2>4, <2>6, <2>7, <2>8
<1> QED
  BY <1>2, <1>3 DEF Settle, Bisect, SkipZone
----------------------------------------------------------------------------
(* The invariant, action by action. *)

(* The walk starts in the invariant (lines 127-135). *)
LEMMA CursorInit == Init => CursorInv
<1> SUFFICES ASSUME Init PROVE CursorInv
  OBVIOUS
<1> USE DEF Init
<1>1. rows \subseteq Nat /\ start \in Nat
  BY IdsAssumption
<1>2. TypeOK
  BY <1>1, LimitAssumption, BoundsAssumption DEF TypeOK
<1>3. ZoneOK /\ EndsOK
  BY DEF ZoneOK, EndsOK
<1>4. SkipsBehind /\ SkipEndsWithBrokenRow
  BY <1>1 DEF SkipsBehind, Settled, SkipEndsWithBrokenRow
<1>5. EachRowSettledOnce
  BY <1>1 DEF EachRowSettledOnce, Behind, PassedOver, Settled
<1> QED
  BY <1>2, <1>3, <1>4, <1>5 DEF CursorInv

(* A step that leaves the zone, the pages and the ranges alone. *)
LEMMA QuietInv ==
    ASSUME CursorInv, pageLimit' \in 1..Limit, lo # None => pageLimit' = 1,
           probes' \in Nat, attempt' \in 0..Retries,
           outages' \in 0..Outages, outages' = 0 => outages = 0,
           pc = "request", pc' \in {"request", "raised", "gaveup"},
           UNCHANGED <<server, offset, badStart, lo, hi, jump, seen, skips>>
    PROVE  CursorInv'
<1> USE DEF CursorInv, server
<1>1. TypeOK'
  BY DEF TypeOK
<1>2. ZoneOK' /\ EndsOK'
  BY DEF ZoneOK, EndsOK, FirstIsBroken, From
<1>3. SkipsBehind' /\ SkipEndsWithBrokenRow'
  BY DEF SkipsBehind, Settled, SkipEndsWithBrokenRow
<1>4. EachRowSettledOnce'
  BY DEF EachRowSettledOnce, Behind, PassedOver, Settled
<1> QED
  BY <1>1, <1>2, <1>3, <1>4

(* The server counts its outages and keeps to the bound. *)
LEMMA OutageCount ==
    TypeOK /\ Answers500 =>
        outages' \in 0..Outages /\ (outages' = 0 => outages = 0)
BY BoundsAssumption DEF TypeOK, Answers500

(* Before any outage, a 500 for one row tells that its first row is broken. *)
LEMMA FailureTells ==
    TypeOK /\ Answers500 /\ pageLimit = 1 /\ outages' = 0 => FirstIsBroken(offset)
<1> SUFFICES ASSUME TypeOK, Answers500, pageLimit = 1, outages' = 0
             PROVE  FirstIsBroken(offset)
  OBVIOUS
<1>1. PICK p \in SUBSET rows : IsPage(p, offset, 1) /\ p \cap broken # {}
  BY DEF Answers500, TypeOK
<1> QED
  BY <1>1, OneRowFails DEF TypeOK

(* A probe that fails ahead extends the zone: its offset is the new lo. *)
LEMMA ProbeFailAheadInv == CursorInv /\ ProbeFailAhead => CursorInv'
<1> SUFFICES ASSUME CursorInv, ProbeFailAhead PROVE CursorInv'
  OBVIOUS
<1> USE DEF CursorInv, ProbeFailAhead, NextJump, ZoneStart, server
<1>1. outages' \in 0..Outages /\ (outages' = 0 => outages = 0)
  BY OutageCount
<1>2. jump' \in Nat \ {0} /\ offset' \in Nat /\ lo' = offset /\ offset < offset'
  BY DEF TypeOK
<1>3. badStart' \in Nat /\ badStart' = Settled /\ badStart' <= offset
  BY DEF TypeOK, Settled, ZoneOK, None
<1>4. TypeOK'
  BY <1>1, <1>2, <1>3, BoundsAssumption DEF TypeOK
<1>5. ZoneOK'
  BY <1>2, <1>3 DEF ZoneOK, None
<1>6. EndsOK'
  BY <1>1, <1>2, FailureTells DEF EndsOK, FirstIsBroken, From
<1>7. Settled' = Settled
  BY <1>2, <1>3 DEF Settled, TypeOK, None
<1>8. SkipsBehind' /\ SkipEndsWithBrokenRow'
  BY <1>1, <1>7 DEF SkipsBehind, SkipEndsWithBrokenRow
<1>9. EachRowSettledOnce'
  BY <1>7 DEF EachRowSettledOnce, Behind, PassedOver
<1> QED
  BY <1>4, <1>5, <1>6, <1>8, <1>9

(* A probe that fails while bisecting moves lo up, or ends the zone. *)
LEMMA ProbeFailBetweenInv == CursorInv /\ ProbeFailBetween => CursorInv'
<1> SUFFICES ASSUME CursorInv, ProbeFailBetween PROVE CursorInv'
  OBVIOUS
<1> USE DEF CursorInv, ProbeFailBetween
<1>1. outages' \in 0..Outages /\ attempt' \in 0..Retries
  BY OutageCount, BoundsAssumption
<1>2. /\ offset \in Nat /\ hi \in Nat /\ probes + 1 \in Nat
      /\ lo # None /\ lo <= offset /\ offset < hi
  BY DEF TypeOK, ZoneOK, None
<1>3. outages' = 0 => outages = 0 /\ FirstIsBroken(offset) /\ ~FirstIsBroken(hi)
  BY FailureTells, OutageCount, <1>2 DEF EndsOK
<1> QED
  BY <1>1, <1>2, <1>3, SettleInv

(* A probe that succeeds moves hi down, or ends the zone. *)
LEMMA ProbeSucceedsInv == CursorInv /\ ProbeSucceeds => CursorInv'
<1> SUFFICES ASSUME CursorInv, ProbeSucceeds PROVE CursorInv'
  OBVIOUS
<1> USE DEF CursorInv, ProbeSucceeds
<1>1. outages' \in 0..Outages /\ attempt' \in 0..Retries
  BY BoundsAssumption DEF TypeOK
<1>2. /\ offset \in Nat /\ lo \in Nat /\ probes \in Nat
      /\ lo <= lo /\ lo < offset /\ pageLimit = 1
  BY DEF TypeOK, ZoneOK, None
<1>3. PICK p \in SUBSET rows : IsPage(p, offset, 1) /\ p \cap broken = {}
  BY <1>2 DEF Answers200
<1>4. ~FirstIsBroken(offset)
  BY <1>2, <1>3, OneRowSucceeds
<1>5. outages' = 0 => outages = 0 /\ FirstIsBroken(lo) /\ ~FirstIsBroken(offset)
  BY <1>4 DEF EndsOK
<1> QED
  BY <1>1, <1>2, <1>5, SettleInv

(* A full page holds exactly the rows from the offset to its greatest id. *)
LEMMA FullPage ==
    ASSUME TypeOK, NEW p \in SUBSET rows, DeliverPage(p)
    PROVE  \E m \in p : /\ m \in From(offset)
                        /\ offset' = m + 1
                        /\ p = {r \in From(offset) : r <= m}
<1>1. PICK m \in p : (\A r \in p : r <= m) /\ offset' = m + 1
  BY DEF DeliverPage
<1>2. /\ p \subseteq From(offset)
      /\ \A r \in p, q \in From(offset) : q < r => q \in p
  BY DEF DeliverPage, Answers200, IsPage
<1>3. From(offset) \subseteq Nat /\ m \in Nat
  BY IdsAssumption DEF From, TypeOK
<1>4. p = {r \in From(offset) : r <= m}
  <2>1. ASSUME NEW r \in From(offset), r <= m PROVE r \in p
    BY <1>1, <1>2, <1>3, <2>1
  <2> QED
    BY <1>1, <1>2, <2>1
<1> QED
  BY <1>1, <1>2, <1>4

(* A full page settles exactly the rows from the offset to its greatest id. *)
LEMMA DeliverPageInv ==
    ASSUME CursorInv, NEW p \in SUBSET rows, DeliverPage(p)
    PROVE  CursorInv'
<1> USE DEF CursorInv, server, probing
<1>1. PICK m \in p : /\ m \in From(offset)
                     /\ offset' = m + 1
                     /\ p = {r \in From(offset) : r <= m}
  BY FullPage
<1>2. rows \subseteq Nat /\ m \in Nat /\ offset \in Nat /\ m >= offset
  BY <1>1, IdsAssumption DEF TypeOK, From
<1>3. pageLimit' \in 1..Limit
  BY LimitAssumption DEF DeliverPage, TypeOK, AtMostLimit
<1>4. TypeOK'
  <2>1. offset' \in Nat
    BY <1>1, <1>2
  <2>2. attempt' \in 0..Retries /\ seen' \subseteq rows
    BY BoundsAssumption DEF DeliverPage, TypeOK
  <2> QED
    BY <1>3, <2>1, <2>2 DEF TypeOK, DeliverPage
<1>5. ZoneOK' /\ EndsOK'
  BY DEF ZoneOK, EndsOK, DeliverPage
<1>6. lo = None /\ Settled = offset /\ Settled' = m + 1
  BY <1>1 DEF DeliverPage, Settled
<1>7. SkipsBehind'
  BY <1>2, <1>6 DEF SkipsBehind, DeliverPage, TypeOK
<1>8. SkipEndsWithBrokenRow'
  BY DEF SkipEndsWithBrokenRow, DeliverPage
<1>9. EachRowSettledOnce'
  <2>1. SUFFICES ASSUME NEW r \in rows
                 PROVE  /\ Behind(r)' => (r \in seen' <=> ~PassedOver(r)')
                        /\ ~Behind(r)' => r \notin seen' /\ ~PassedOver(r)'
    BY DEF EachRowSettledOnce, DeliverPage
  <2>2. PassedOver(r)' <=> PassedOver(r)
    BY DEF PassedOver, DeliverPage
  <2>3. r \in seen' <=> r \in seen \/ (offset <= r /\ r <= m)
    BY <1>1, <1>2 DEF DeliverPage, From
  <2>4. Behind(r) <=> start <= r /\ r < offset
    BY <1>6 DEF Behind, DeliverPage
  <2>5. Behind(r)' <=> start <= r /\ r <= m
    BY <1>2, <1>6 DEF Behind, DeliverPage
  <2>6. start <= offset /\ start \in Nat
    BY <1>6 DEF SkipsBehind, TypeOK
  <2> QED
    BY <1>2, <2>2, <2>3, <2>4, <2>5, <2>6 DEF EachRowSettledOnce
<1> QED
  BY <1>4, <1>5, <1>7, <1>8, <1>9

(* Nothing at or beyond the cursor has been yielded. *)
LEMMA NothingAhead ==
    ASSUME CursorInv, pc = "request", lo = None,
           NEW p \in SUBSET rows, IsPage(p, offset, pageLimit)
    PROVE  p \cap seen = {}
<1>1. p \subseteq From(offset) /\ rows \subseteq Nat /\ offset \in Nat
  BY IdsAssumption DEF IsPage, CursorInv, TypeOK
<1>2. \A r \in p : ~Behind(r)
  BY <1>1 DEF Behind, Settled, From
<1> QED
  BY <1>2 DEF CursorInv, EachRowSettledOnce

(* The last page settles every row that is left. *)
LEMMA DeliverLastInv ==
    ASSUME CursorInv, NEW p \in SUBSET rows, DeliverLast(p)
    PROVE  CursorInv'
<1> USE DEF CursorInv, server, probing, DeliverLast
<1>1. p = From(offset)
  BY NothingAhead, LastPage DEF Answers200
<1>2. TypeOK'
  BY BoundsAssumption DEF TypeOK
<1>3. ZoneOK' /\ EndsOK'
  BY DEF ZoneOK, EndsOK
<1>4. Settled = offset /\ Settled' = offset
  BY DEF Settled
<1>5. SkipsBehind' /\ SkipEndsWithBrokenRow'
  BY <1>4 DEF SkipsBehind, SkipEndsWithBrokenRow
<1>6. EachRowSettledOnce'
  <2>1. SUFFICES ASSUME NEW r \in rows
                 PROVE  /\ Behind(r)' => (r \in seen' <=> ~PassedOver(r)')
                        /\ ~Behind(r)' => r \notin seen' /\ ~PassedOver(r)'
    BY DEF EachRowSettledOnce
  <2>2. r \in Nat /\ offset \in Nat /\ start \in Nat /\ start <= offset
    BY <1>4, IdsAssumption DEF TypeOK, SkipsBehind
  <2>3. PassedOver(r)' <=> PassedOver(r)
    BY DEF PassedOver
  <2>4. Behind(r)' <=> start <= r
    BY DEF Behind
  <2>5. Behind(r) <=> start <= r /\ r < offset
    BY <1>4 DEF Behind
  <2>6. r \in seen' <=> r \in seen \/ offset <= r
    BY <1>1, <2>2 DEF From
  <2> QED
    BY <2>2, <2>3, <2>4, <2>5, <2>6 DEF EachRowSettledOnce
<1> QED
  BY <1>2, <1>3, <1>5, <1>6

(* The invariant is inductive. *)
LEMMA CursorStep == CursorInv /\ [Next]_vars => CursorInv'
<1> SUFFICES ASSUME CursorInv, [Next]_vars PROVE CursorInv'
  OBVIOUS
<1>1. ASSUME Retry PROVE CursorInv'
  <2>1. attempt' \in 0..Retries
    BY <1>1, BoundsAssumption DEF Retry, CursorInv, TypeOK
  <2> QED
    BY <1>1, <2>1, QuietInv DEF Retry, CursorInv, TypeOK, ZoneOK, server, probing
<1>2. ASSUME Raise PROVE CursorInv'
  BY <1>2, QuietInv DEF Raise, CursorInv, TypeOK, ZoneOK, server, probing
<1>3. ASSUME Narrow PROVE CursorInv'
  <2>1. pageLimit' \in 1..Limit
    <3>1. pageLimit \in 1..Limit /\ pageLimit' = AtLeastOne(pageLimit \div 4)
      BY <1>3 DEF Narrow, CursorInv, TypeOK
    <3>2. pageLimit \div 4 \in Nat /\ pageLimit \div 4 <= pageLimit
      BY <3>1, LimitAssumption
    <3> QED
      BY <3>1, <3>2, LimitAssumption DEF AtLeastOne
  <2>2. outages' \in 0..Outages /\ (outages' = 0 => outages = 0)
    BY <1>3, OutageCount DEF Narrow, CursorInv
  <2> QED
    BY <1>3, <2>1, <2>2, QuietInv, BoundsAssumption
    DEF Narrow, CursorInv, TypeOK, ZoneOK, server, probing
<1>4. ASSUME GiveUp PROVE CursorInv'
  <2>1. outages' \in 0..Outages /\ (outages' = 0 => outages = 0)
    BY <1>4, OutageCount DEF GiveUp, CursorInv
  <2> QED
    BY <1>4, <2>1, QuietInv, BoundsAssumption
    DEF GiveUp, CursorInv, TypeOK, ZoneOK, server
<1>5. ASSUME ProbeFailAhead PROVE CursorInv'
  BY <1>5, ProbeFailAheadInv
<1>6. ASSUME ProbeFailBetween PROVE CursorInv'
  BY <1>6, ProbeFailBetweenInv
<1>7. ASSUME ProbeSucceeds PROVE CursorInv'
  BY <1>7, ProbeSucceedsInv
<1>8. ASSUME NEW p \in SUBSET rows, DeliverPage(p) PROVE CursorInv'
  BY <1>8, DeliverPageInv
<1>9. ASSUME NEW p \in SUBSET rows, DeliverLast(p) PROVE CursorInv'
  BY <1>9, DeliverLastInv
<1>10. ASSUME UNCHANGED vars PROVE CursorInv'
  BY <1>10 DEF vars, CursorInv, TypeOK, ZoneOK, EndsOK, FirstIsBroken, From,
               SkipsBehind, Settled, SkipEndsWithBrokenRow,
               EachRowSettledOnce, Behind, PassedOver
<1> QED
  BY <1>1, <1>2, <1>3, <1>4, <1>5, <1>6, <1>7, <1>8, <1>9, <1>10 DEF Next

(* The invariant of the walk of iter_crawling_rows holds throughout: the   *)
(* zone being probed lies between an offset seen to fail and one seen to    *)
(* succeed, the skipped ranges lie behind it, and what is behind is settled. *)
THEOREM CursorInvariant == Spec => []CursorInv
BY CursorInit, CursorStep, PTL DEF Spec

(* Type correctness, for every set of ids and every bound. *)
THEOREM TypeCorrect == Spec => []TypeOK
BY CursorInvariant, PTL DEF CursorInv

(* Behind the cursor every row was yielded or lies in a range reported    *)
(* through on_skip, and never both.                                       *)
THEOREM RowsSettledOnce == Spec => []EachRowSettledOnce
BY CursorInvariant, PTL DEF CursorInv

(* Before any outage the bisection always blames a broken row. *)
THEOREM BlamesBrokenRow == Spec => []SkipEndsWithBrokenRow
BY CursorInvariant, PTL DEF CursorInv

----------------------------------------------------------------------------
(* How many probes a zone takes.  Before any outage a probe that fails has  *)
(* a broken row ahead of it, so the jumps double until one passes the last  *)
(* row at the latest, and the bisection halves the last jump.              *)

(* pow[i] is 2^i. *)
IsPowers(pow, k) ==
    /\ pow \in [0..k -> Nat]
    /\ pow[0] = 1
    /\ \A i \in 1..k : pow[i] = 2 * pow[i - 1]

(* After m + 1 failures at the beginning of a zone the jump is 2^m, and     *)
(* the greatest failing offset is as far.  When the ends are 2^j apart, j   *)
(* more failures are left to the bisection: few enough, unless the jump was *)
(* the longest possible one, after which nothing is broken.                *)
Spent(pow, k) ==
    outages = 0 =>
        /\ pc # "gaveup"
        /\ lo = None => probes = 0
        /\ lo # None /\ hi = None => \E m \in 0..k :
            probes = m + 1 /\ jump = pow[m] /\ offset = lo + jump /\ jump <= lo + 1
        /\ hi # None => \E j \in 1..k :
            /\ hi - lo = pow[j] /\ offset = lo + pow[j - 1]
            /\ probes + j <= 2 * k - 1 \/ pow[k] <= lo + 1

(* There are powers of two up to every exponent. *)
LEMMA PowersExist == \A k \in Nat : \E pow : IsPowers(pow, k)
<1> DEFINE P == {k \in Nat : \E pow : IsPowers(pow, k)}
<1>1. 0 \in P
  <2>1. IsPowers([i \in 0..0 |-> 1], 0)
    BY DEF IsPowers
  <2> QED
    BY <2>1
<1>2. ASSUME NEW k \in P PROVE k + 1 \in P
  <2>1. PICK pow : IsPowers(pow, k)
    OBVIOUS
  <2> DEFINE next == [i \in 0..(k + 1) |-> IF i = k + 1 THEN 2 * pow[k] ELSE pow[i]]
  <2>2. next \in [0..(k + 1) -> Nat] /\ next[0] = 1
    BY <2>1 DEF IsPowers
  <2>3. ASSUME NEW i \in 1..(k + 1) PROVE next[i] = 2 * next[i - 1]
    <3>1. CASE i = k + 1
      BY <2>1, <3>1 DEF IsPowers
    <3>2. CASE i # k + 1
      <4>1. i \in 1..k /\ i - 1 \in 0..k
        BY <3>2
      <4>2. next[i] = pow[i] /\ next[i - 1] = pow[i - 1]
        BY <4>1
      <4> QED
        BY <2>1, <4>1, <4>2 DEF IsPowers
    <3> QED
      BY <3>1, <3>2
  <2> HIDE DEF next
  <2>4. IsPowers(next, k + 1)
    BY <2>2, <2>3 DEF IsPowers
  <2> QED
    BY <2>4
<1>3. ASSUME Nat \ P # {} PROVE FALSE
  <2>1. PICK d \in Nat \ P : \A e \in Nat \ P : <<e, d>> \notin OpToRel(<, Nat)
    BY <1>3, NatLessThanWellFounded, WFMin
  <2>2. d # 0 /\ d - 1 \in Nat /\ d - 1 < d /\ (d - 1) + 1 = d
    BY <1>1
  <2>3. d - 1 \in P
    BY <2>1, <2>2 DEF OpToRel
  <2> QED
    BY <1>2, <2>1, <2>2, <2>3
<1> QED
  BY <1>3

(* A power but the first is twice the one before, so it is no less than 2. *)
LEMMA PowersGrow ==
    ASSUME NEW k \in Nat, NEW pow, IsPowers(pow, k), NEW i \in 0..k, pow[i] >= 1
    PROVE  i > 0 => pow[i] >= 2 /\ pow[i - 1] >= 1 /\ pow[i] = 2 * pow[i - 1]
<1> SUFFICES ASSUME i > 0
             PROVE  pow[i] >= 2 /\ pow[i - 1] >= 1 /\ pow[i] = 2 * pow[i - 1]
  OBVIOUS
<1>1. pow[i] = 2 * pow[i - 1] /\ pow[i - 1] \in Nat
  BY DEF IsPowers
<1> QED
  BY <1>1

(* An answer to the bisection, or the first success, leaves ends that are  *)
(* a power apart: half as far with the next answer.                        *)
LEMMA SettleSpent ==
    ASSUME NEW k \in Nat \ {0}, NEW pow, IsPowers(pow, k), NEW i \in 0..k,
           NEW l \in Nat, NEW h \in Nat, NEW f \in Nat, l < h, h - l = pow[i],
           f + i <= 2 * k - 1 \/ pow[k] <= l + 1,
           Settle(l, h, f), pc' = "request"
    PROVE  Spent(pow, k)'
<1>1. pow[i] \in Nat /\ pow[i] >= 1
  BY DEF IsPowers
<1>2. CASE i = 0
  <2>1. h - l = 1
    BY <1>2 DEF IsPowers
  <2>2. lo' = None /\ hi' = None /\ probes' = 0
    BY <2>1 DEF Settle, Bisect, SkipZone
  <2> QED
    BY <2>2 DEF Spent
<1>3. CASE i > 0
  <2>1. pow[i] >= 2 /\ pow[i - 1] \in Nat /\ pow[i] = 2 * pow[i - 1]
    BY <1>1, <1>3, PowersGrow DEF IsPowers
  <2>2. offset' = (l + h) \div 2 /\ lo' = l /\ hi' = h /\ probes' = f
    BY <2>1 DEF Settle, Bisect, SkipZone
  <2>3. (l + h) \div 2 = l + pow[i - 1]
    BY <2>1
  <2>4. l # None /\ h # None
    BY DEF None
  <2> QED
    BY <1>3, <2>2, <2>3, <2>4 DEF Spent
<1> QED
  BY <1>2, <1>3

(* Before any outage a failing offset is at most as great as some id. *)
LEMMA FailsWithinIds ==
    ASSUME CursorInv, Answers500, pageLimit = 1, outages' = 0
    PROVE  outages = 0 /\ \E i \in Ids : offset <= i
<1>1. FirstIsBroken(offset) /\ outages = 0
  BY FailureTells, OutageCount DEF CursorInv
<1> QED
  BY <1>1, IdsAssumption DEF FirstIsBroken, CursorInv, TypeOK

(* MAX_CONSECUTIVE_SKIPS is not reached. *)
LEMMA SpentStep ==
    ASSUME NEW k \in Nat \ {0}, 2 * k <= MaxSkips, NEW pow, IsPowers(pow, k),
           \A i \in Ids : i < pow[k], CursorInv, Spent(pow, k), [Next]_vars
    PROVE  Spent(pow, k)'
<1> SUFFICES ASSUME outages' = 0 PROVE Spent(pow, k)'
  BY DEF Spent
<1>1. outages = 0
  BY OutageCount DEF CursorInv, Next, vars, Retry, Raise, Narrow, GiveUp, ProbeFailAhead,
                     ProbeFailBetween, ProbeSucceeds, DeliverPage, DeliverLast
<1>2. /\ MaxSkips \in Nat /\ Ids \subseteq Nat /\ pow \in [0..k -> Nat] /\ pow[0] = 1
      /\ probes \in Nat /\ offset \in Nat /\ jump \in Nat \ {0} /\ pow[k] \in Nat
  BY BoundsAssumption, IdsAssumption DEF IsPowers, CursorInv, TypeOK
<1>3. /\ lo # None => lo \in Nat /\ lo < offset
      /\ hi # None => hi \in Nat /\ offset < hi /\ lo # None
  BY DEF CursorInv, TypeOK, ZoneOK
(* Between the ends of a zone: how far they are apart, and what is left. *)
<1>4. ASSUME hi # None
      PROVE  \E j \in 1..k :
                /\ hi - lo = 2 * pow[j - 1] /\ offset = lo + pow[j - 1] /\ pow[j - 1] \in Nat
                /\ probes + j <= 2 * k - 1 \/ pow[k] <= lo + 1
  <2>1. PICK j \in 1..k :
            /\ hi - lo = pow[j] /\ offset = lo + pow[j - 1]
            /\ probes + j <= 2 * k - 1 \/ pow[k] <= lo + 1
    BY <1>1, <1>4 DEF Spent
  <2>2. pow[j] = 2 * pow[j - 1] /\ pow[j - 1] \in Nat
    BY <1>2 DEF IsPowers
  <2> QED
    BY <2>1, <2>2
(* At the end of a jump. *)
<1>5. ASSUME lo # None, hi = None
      PROVE  \E m \in 0..k :
                probes = m + 1 /\ jump = pow[m] /\ offset = lo + jump /\ jump <= lo + 1
  BY <1>1, <1>5 DEF Spent
<1>6. lo = None => probes = 0
  BY <1>1 DEF Spent
<1>7. ASSUME Answers500, pageLimit = 1 PROVE offset < pow[k]
  BY <1>2, <1>7, FailsWithinIds
(* A jump that fails was not the longest one. *)
<1>8. ASSUME Answers500, pageLimit = 1, lo # None, hi = None
      PROVE  \E m \in 0..(k - 1) :
                probes = m + 1 /\ jump = pow[m] /\ offset = lo + jump /\ jump <= lo + 1
  <2>1. PICK m \in 0..k :
            probes = m + 1 /\ jump = pow[m] /\ offset = lo + jump /\ jump <= lo + 1
    BY <1>5, <1>8
  <2>2. m # k
    BY <1>2, <1>3, <1>7, <1>8, <2>1
  <2> QED
    BY <2>1, <2>2
(* A failure between the ends leaves another one to come. *)
<1>9. ASSUME Answers500, pageLimit = 1, hi # None
      PROVE  \E j \in 1..k :
                /\ hi - offset = pow[j - 1] /\ probes + 1 + (j - 1) <= 2 * k - 1
  <2>1. PICK j \in 1..k :
                /\ hi - lo = 2 * pow[j - 1] /\ offset = lo + pow[j - 1] /\ pow[j - 1] \in Nat
                /\ probes + j <= 2 * k - 1 \/ pow[k] <= lo + 1
    BY <1>4, <1>9
  <2>2. hi - offset = pow[j - 1]
    BY <1>2, <1>3, <1>9, <2>1
  <2>3. probes + j <= 2 * k - 1
    BY <1>2, <1>3, <1>7, <1>9, <2>1
  <2> QED
    BY <1>2, <2>2, <2>3
<1>10. CASE Retry
  BY <1>1, <1>10 DEF Retry, probing, Spent
<1>11. CASE Raise
  BY <1>1, <1>11 DEF Raise, probing, Spent
<1>12. CASE Narrow
  BY <1>1, <1>12 DEF Narrow, probing, Spent
<1>13. CASE GiveUp
  <2>1. Answers500 /\ pageLimit = 1 /\ probes + 1 > MaxSkips
    BY <1>13 DEF GiveUp
  <2>2. CASE lo = None
    BY <1>2, <1>6, <2>1, <2>2
  <2>3. CASE lo # None /\ hi = None
    BY <1>2, <1>8, <2>1, <2>3
  <2>4. CASE hi # None
    BY <1>2, <1>9, <2>1, <2>4
  <2> QED
    BY <2>2, <2>3, <2>4
<1>14. CASE ProbeFailAhead
  <2>1. /\ Answers500 /\ pageLimit = 1 /\ hi = None /\ hi' = None
        /\ probes' = probes + 1 /\ jump' = NextJump /\ lo' = offset
        /\ offset' = offset + jump' /\ pc' = "request" /\ offset # None
    BY <1>2, <1>14 DEF ProbeFailAhead, None
  <2>2. CASE lo = None
    <3>1. probes' = 0 + 1 /\ jump' = pow[0] /\ jump' <= lo' + 1 /\ 0 \in 0..k
      BY <1>2, <1>6, <2>1, <2>2 DEF NextJump
    <3> QED
      BY <2>1, <3>1 DEF Spent
  <2>3. CASE lo # None
    <3>1. PICK m \in 0..(k - 1) :
              probes = m + 1 /\ jump = pow[m] /\ offset = lo + jump /\ jump <= lo + 1
      BY <1>8, <2>1, <2>3
    <3>2. m + 1 \in 1..k /\ (m + 1) - 1 = m
      OBVIOUS
    <3>3. jump' = jump * 2
      BY <2>1, <2>3 DEF NextJump
    <3>4. jump' = pow[m + 1]
      <4>1. pow[m + 1] = 2 * pow[(m + 1) - 1]
        BY <3>2 DEF IsPowers
      <4> QED
        BY <1>2, <3>1, <3>2, <3>3, <4>1
    <3>5. \E n \in 0..k :
              probes' = n + 1 /\ jump' = pow[n] /\ offset' = lo' + jump' /\ jump' <= lo' + 1
      <4>1. offset' = lo' + jump' /\ probes' = (m + 1) + 1
        BY <2>1, <3>1
      <4>2. jump * 2 <= offset + 1
        BY <1>2, <1>3, <2>3, <3>1
      <4>3. m + 1 \in 0..k
        BY <3>2
      <4> QED
        BY <2>1, <3>3, <3>4, <4>1, <4>2, <4>3
    <3> QED
      BY <2>1, <3>5 DEF Spent
  <2> QED
    BY <2>2, <2>3
<1>15. CASE ProbeFailBetween
  <2>1. /\ Answers500 /\ pageLimit = 1 /\ hi # None /\ pc' = "request"
        /\ Settle(offset, hi, probes + 1)
    BY <1>15 DEF ProbeFailBetween
  <2>2. PICK j \in 1..k : hi - offset = pow[j - 1] /\ probes + 1 + (j - 1) <= 2 * k - 1
    BY <1>9, <2>1
  <2>3. j - 1 \in 0..k /\ probes + 1 \in Nat /\ hi \in Nat /\ offset < hi
    BY <1>2, <1>3, <2>1
  <2> QED
    BY <1>2, <2>1, <2>2, <2>3, SettleSpent
<1>16. CASE ProbeSucceeds
  <2>1. lo # None /\ lo \in Nat /\ lo < offset /\ Settle(lo, offset, probes) /\ pc' = "request"
    BY <1>3, <1>16 DEF ProbeSucceeds
  <2>2. CASE hi = None
    <3>1. PICK m \in 0..k :
              probes = m + 1 /\ jump = pow[m] /\ offset = lo + jump /\ jump <= lo + 1
      BY <1>5, <2>1, <2>2
    <3>2. offset - lo = pow[m]
      BY <1>2, <2>1, <3>1
    <3>3. probes + m <= 2 * k - 1 \/ pow[k] <= lo + 1
      BY <3>1
    <3> QED
      BY <1>2, <2>1, <3>2, <3>3, SettleSpent
  <2>3. CASE hi # None
    <3>1. PICK j \in 1..k :
                /\ hi - lo = 2 * pow[j - 1] /\ offset = lo + pow[j - 1] /\ pow[j - 1] \in Nat
                /\ probes + j <= 2 * k - 1 \/ pow[k] <= lo + 1
      BY <1>4, <2>3
    <3>2. j - 1 \in 0..k /\ offset - lo = pow[j - 1]
      BY <1>2, <2>1, <3>1
    <3>3. probes + (j - 1) <= 2 * k - 1 \/ pow[k] <= lo + 1
      BY <1>2, <3>1
    <3> QED
      BY <1>2, <2>1, <3>2, <3>3, SettleSpent
  <2> QED
    BY <2>2, <2>3
<1>17. ASSUME NEW p \in SUBSET rows, DeliverPage(p) PROVE Spent(pow, k)'
  BY <1>6, <1>3, <1>17 DEF DeliverPage, probing, Spent
<1>18. ASSUME NEW p \in SUBSET rows, DeliverLast(p) PROVE Spent(pow, k)'
  BY <1>6, <1>3, <1>18 DEF DeliverLast, probing, Spent
<1>19. CASE UNCHANGED vars
  BY <1>1, <1>19 DEF vars, Spent
<1> QED
  BY <1>10, <1>11, <1>12, <1>13, <1>14, <1>15, <1>16, <1>17, <1>18, <1>19 DEF Next

(* If all ids are below a power of two with half of MAX_CONSECUTIVE_SKIPS  *)
(* as its exponent (2^50 for the value of the code, 100), however they are *)
(* spread and whichever are broken, the walk gives up only when the server *)
(* has failed for healthy rows too.                                        *)
THEOREM GivesUpLate ==
    ASSUME NEW k \in Nat \ {0}, 2 * k <= MaxSkips, NEW pow, IsPowers(pow, k),
           \A i \in Ids : i < pow[k]
    PROVE  Spec => []GivesUpOnlyInOutage
<1>1. Init => Spent(pow, k)
  BY DEF Init, Spent
<1>2. CursorInv /\ Spent(pow, k) /\ [Next]_vars => Spent(pow, k)'
  BY SpentStep
<1>3. CursorInv /\ Spent(pow, k) => GivesUpOnlyInOutage
  BY BoundsAssumption DEF Spent, GivesUpOnlyInOutage, CursorInv, TypeOK
<1> QED
  BY <1>1, <1>2, <1>3, CursorInvariant, PTL DEF Spec

----------------------------------------------------------------------------
(* Refinement: the probes are stutters of the feed, a skip is its Skip, a *)
(* page its Deliver or Finish.                                            *)

(* The initial states of the walk are initial states of the feed. *)
LEMMA FeedInit == Init => Feed!Init
BY IdsAssumption DEF Init, Feed!Init, Settled

(* A step that settles nothing is a stutter, unless it is an outage. *)
LEMMA QuietIsFeedStep ==
    ASSUME outages \in Nat, outages' \in Nat, outages <= outages',
           Settled' = Settled, UNCHANGED <<server, seen, skips, pc>>
    PROVE  [Feed!Next]_(Feed!vars)
<1>1. CASE outages > 0 \/ outages' = 0
  <2>1. (outages > 0)' <=> outages > 0
    BY <1>1
  <2> QED
    BY <2>1 DEF Feed!vars, server
<1>2. CASE outages' > 0
  BY <1>2 DEF Feed!Next, Feed!Outage, server
<1> QED
  BY <1>1, <1>2

(* The count of outages never goes down. *)
LEMMA OutagesGrow == CursorInv /\ Answers500 => outages <= outages'
BY DEF CursorInv, TypeOK, Answers500

(* Bisecting is invisible to the feed, and ending a zone is a skip. *)
LEMMA SettleIsFeedStep ==
    ASSUME CursorInv, NEW l \in Nat, NEW h \in Nat, NEW f,
           lo # None, lo <= l, l < h, pc = "request",
           outages <= outages',
           Settle(l, h, f), CursorInv',
           UNCHANGED <<server, pageLimit, jump, seen, pc>>
    PROVE  [Feed!Next]_(Feed!vars)
<1> USE DEF server
<1>1. Settled = badStart /\ badStart \in Nat /\ badStart <= l
  BY DEF Settled, CursorInv, ZoneOK, TypeOK, None
<1>2. CASE h - l > 1 /\ lo' = l /\ UNCHANGED <<badStart, skips>>
  BY <1>1, <1>2, QuietIsFeedStep DEF Settled, None, CursorInv, TypeOK
<1>3. CASE /\ h - l <= 1
           /\ skips' = skips \cup {<<badStart, l>>}
           /\ offset' = h
           /\ lo' = None
  <2>1. Settled' = l + 1 /\ Settled' - 1 = l
    BY <1>3 DEF Settled
  <2>2. l \in broken \/ outages' > 0
    <3>1. CASE outages' = 0
      <4>1. <<badStart, l>> \in skips' /\ <<badStart, l>>[2] = l
        BY <1>3
      <4>2. \A s \in skips' : s[2] \in broken
        BY <3>1 DEF CursorInv, SkipEndsWithBrokenRow
      <4> QED
        BY <4>1, <4>2
    <3> QED
      BY <3>1 DEF CursorInv, TypeOK
  <2>3. Settled' > Settled
    BY <1>1, <2>1
  <2>4. skips' = skips \cup {<<Settled, Settled' - 1>>}
    BY <1>1, <1>3, <2>1
  <2>5. Settled' - 1 \in broken \/ outages' > 0
    BY <2>1, <2>2
  <2>6. outages > 0 => outages' > 0
    BY BoundsAssumption DEF CursorInv, TypeOK
  <2>7. Feed!Skip
    BY <2>3, <2>4, <2>5, <2>6 DEF Feed!Skip
  <2> QED
    BY <2>7 DEF Feed!Next
<1> QED
  BY <1>2, <1>3 DEF Settle, Bisect, SkipZone

(* Every step of the walk is a step of the feed or leaves it alone. *)
LEMMA FeedStep == CursorInv /\ CursorInv' /\ [Next]_vars => [Feed!Next]_(Feed!vars)
<1> SUFFICES ASSUME CursorInv, CursorInv', [Next]_vars
             PROVE  [Feed!Next]_(Feed!vars)
  OBVIOUS
<1> USE DEF server, probing
<1> outages \in Nat /\ outages' \in Nat
  BY DEF CursorInv, TypeOK
<1>1. ASSUME Retry \/ Narrow \/ UNCHANGED vars
      PROVE  [Feed!Next]_(Feed!vars)
  BY <1>1, QuietIsFeedStep, OutagesGrow DEF Retry, Narrow, vars, Settled
<1>2. ASSUME Raise \/ GiveUp PROVE Feed!Fail
  <2>1. outages > 0 => outages' > 0
    BY <1>2, OutagesGrow DEF Raise, GiveUp
  <2> QED
    BY <1>2, <2>1 DEF Raise, GiveUp, Feed!Fail, Settled
<1>3. ASSUME ProbeFailAhead PROVE [Feed!Next]_(Feed!vars)
  <2>1. Settled' = Settled
    BY <1>3 DEF ProbeFailAhead, ZoneStart, Settled, CursorInv, TypeOK, None
  <2> QED
    BY <1>3, <2>1, QuietIsFeedStep, OutagesGrow DEF ProbeFailAhead
<1>4. ASSUME ProbeFailBetween PROVE [Feed!Next]_(Feed!vars)
  <2>1. /\ offset \in Nat /\ hi \in Nat /\ lo # None
        /\ lo <= offset /\ offset < hi
    BY <1>4 DEF ProbeFailBetween, CursorInv, TypeOK, ZoneOK, None
  <2> QED
    BY <1>4, <2>1, OutagesGrow, SettleIsFeedStep DEF ProbeFailBetween
<1>5. ASSUME ProbeSucceeds PROVE [Feed!Next]_(Feed!vars)
  <2>1. /\ offset \in Nat /\ lo \in Nat /\ lo # None
        /\ lo <= lo /\ lo < offset
    BY <1>5 DEF ProbeSucceeds, CursorInv, TypeOK, ZoneOK, None
  <2> QED
    BY <1>5, <2>1, SettleIsFeedStep DEF ProbeSucceeds
<1>6. ASSUME NEW p \in SUBSET rows, DeliverPage(p) PROVE Feed!Next
  <2>1. PICK m \in p : /\ m \in From(offset)
                       /\ offset' = m + 1
                       /\ p = {r \in From(offset) : r <= m}
    BY <1>6, FullPage DEF CursorInv
  <2>2. Settled = offset /\ Settled' = m + 1
    BY <1>6, <2>1 DEF DeliverPage, Settled
  <2>3. Feed!From(Settled) = From(offset)
    BY <2>2 DEF Feed!From, From
  <2>4. Feed!Deliver(m)
    BY <1>6, <2>1, <2>2, <2>3 DEF Feed!Deliver, DeliverPage, Answers200
  <2> QED
    BY <2>1, <2>3, <2>4 DEF Feed!Next
<1>7. ASSUME NEW p \in SUBSET rows, DeliverLast(p) PROVE Feed!Next
  <2>1. p = From(offset)
    BY <1>7, NothingAhead, LastPage DEF DeliverLast, Answers200, CursorInv
  <2>2. Settled = offset /\ Settled' = offset
    BY <1>7 DEF DeliverLast, Settled
  <2>3. Feed!From(Settled) = From(offset)
    BY <2>2 DEF Feed!From, From
  <2>4. Feed!Finish
    BY <1>7, <2>1, <2>2, <2>3 DEF Feed!Finish, DeliverLast, Answers200
  <2> QED
    BY <2>4 DEF Feed!Next
<1> QED
  BY <1>1, <1>2, <1>3, <1>4, <1>5, <1>6, <1>7 DEF Next, Feed!Next

(* The cursor implements the promise of CrawlFeed. *)
THEOREM CursorImplementsFeed == Spec => ImplementsFeed
<1>1. Spec => []CursorInv /\ Init /\ [][Next]_vars
  BY CursorInvariant, PTL DEF Spec
<1>2. CursorInv /\ CursorInv' /\ [Next]_vars => [Feed!Next]_(Feed!vars)
  BY FeedStep
<1> QED
  BY <1>1, <1>2, FeedInit, PTL DEF ImplementsFeed, Feed!Spec

=============================================================================
