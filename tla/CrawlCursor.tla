---------------------------- MODULE CrawlCursor ----------------------------
(***************************************************************************)
(* iter_crawling_rows of apps/services/crawl_client.py: the cursor that    *)
(* walks GET /api/crawling?offset=&limit= in id order.  A page is the      *)
(* `limit' smallest ids from `offset' on, and the server answers 500 when  *)
(* one of them is broken.  The cursor then narrows the page to one row,    *)
(* jumps forward by 1, 2, 4, ... until a request succeeds, bisects back to *)
(* the last failing offset and skips the range in between.                 *)
(*                                                                         *)
(* The crawl server is external: it is the variables rows and broken, and  *)
(* the operators IsPage, Answers500 and Answers200.                        *)
(***************************************************************************)
EXTENDS Integers, FiniteSets

CONSTANTS
    Ids,            \* ids a row of the crawl server may have
    Limit,          \* DEFAULT_LIMIT
    MaxSkips,       \* MAX_CONSECUTIVE_SKIPS
    Retries,        \* retries of _get_with_retry
    Outages         \* bound: 500s the server gives without a broken row

ASSUME IdsAssumption == Ids \subseteq Nat /\ IsFiniteSet(Ids)
ASSUME LimitAssumption == Limit \in Nat \ {0}
ASSUME BoundsAssumption == MaxSkips \in Nat /\ Retries \in Nat /\ Outages \in Nat

VARIABLES
    start,          \* start_offset, the argument
    rows,           \* ids of the rows the crawl server holds
    broken,         \* rows that make the server answer 500
    outages,        \* 500s the server gave without a broken row
    offset,         \* offset of the next request
    pageLimit,      \* limit of the next request
    probes,         \* 500s at page limit 1 since the last skip
    badStart,       \* first offset of the zone being probed, or None
    lo,             \* greatest offset known to fail, or None
    hi,             \* least offset known to succeed, or None
    jump,           \* distance of the next probe beyond lo
    attempt,        \* failed attempts of the current _get_with_retry call
    seen,           \* seen_ids: every id yielded
    skips,          \* ranges handed to on_skip
    pc              \* "request", "done", "raised" or "gaveup"

server == <<start, rows, broken>>
probing == <<probes, badStart, lo, hi, jump>>
vars == <<start, rows, broken, outages, offset, pageLimit, probes, badStart, lo, hi,
          jump, attempt, seen, skips, pc>>

None == -1          \* offsets are naturals

AtLeastOne_Dropped(n) == n              \* mutant: page_limit // 4 alone
AtLeastOne(n) == IF n < 1 THEN 1 ELSE n
AtMostLimit(n) == IF n > Limit THEN Limit ELSE n

----------------------------------------------------------------------------
(* The crawl server, as the cursor sees it. *)

From(o) == {r \in rows : r >= o}

(* p holds the n smallest ids from o on, or all of them if there are fewer *)
IsPage(p, o, n) ==
    /\ p \subseteq From(o)
    /\ \A r \in p, q \in From(o) : q < r => q \in p
    /\ Cardinality(p) <= n
    /\ Cardinality(p) < n => p = From(o)

Answers200(p) == IsPage(p, offset, pageLimit) /\ p \cap broken = {}

Answers500 ==
    \/ /\ \E p \in SUBSET rows :
            IsPage(p, offset, pageLimit) /\ p \cap broken # {}
       /\ outages' = outages
    \/ /\ outages < Outages
       /\ \E p \in SUBSET rows : Answers200(p)
       /\ outages' = outages + 1

----------------------------------------------------------------------------
(* Type invariant of the locals of iter_crawling_rows: offsets are naturals *)
(* or None, a page limit stays in 1..DEFAULT_LIMIT.                        *)
TypeOK ==
    /\ start \in Nat
    /\ rows \subseteq Ids /\ broken \subseteq rows
    /\ outages \in 0..Outages
    /\ offset \in Nat
    /\ pageLimit \in 1..Limit
    /\ probes \in Nat
    /\ badStart \in Nat \cup {None}
    /\ lo \in Nat \cup {None}
    /\ hi \in Nat \cup {None}
    /\ jump \in Nat \ {0}
    /\ attempt \in 0..Retries
    /\ seen \subseteq rows
    /\ skips \subseteq Nat \X Nat
    /\ pc \in {"request", "done", "raised", "gaveup"}

Init ==
    /\ rows \in SUBSET Ids
    /\ broken \in SUBSET rows
    /\ outages = 0
    /\ start \in Ids \cup {0}
    /\ offset = start
    /\ pageLimit \in 1..Limit           \* start_limit, clamped
    /\ probes = 0
    /\ badStart = None /\ lo = None /\ hi = None
    /\ jump = 1
    /\ attempt = 0
    /\ seen = {}
    /\ skips = {}
    /\ pc = "request"

(* A connection error, 502, 503, or 429 with Retry-After: _get_with_retry *)
(* asks again, up to Retries times.                                       *)
Retry ==
    /\ pc = "request"
    /\ attempt < Retries
    /\ attempt' = attempt + 1
    /\ UNCHANGED <<server, outages, offset, pageLimit, probing, seen, skips, pc>>

(* The retries are used up, or the error is none of those (429 without     *)
(* Retry-After, 401, a socket timeout): it reaches the consumer.           *)
Raise ==
    /\ pc = "request"
    /\ pc' = "raised"
    /\ UNCHANGED <<server, outages, offset, pageLimit, probing, attempt, seen, skips>>

(* 500 for a page of several rows: a quarter of the page is tried. *)
Narrow ==
    /\ pc = "request"
    /\ Answers500
    /\ pageLimit > 1
    /\ pageLimit' = AtLeastOne(pageLimit \div 4)
    /\ attempt' = 0
    /\ UNCHANGED <<server, offset, probing, seen, skips, pc>>

(* More than MAX_CONSECUTIVE_SKIPS 500s at one row: the error is raised. *)
GiveUp ==
    /\ pc = "request"
    /\ Answers500
    /\ pageLimit = 1
    /\ probes + 1 > MaxSkips
    /\ probes' = probes + 1
    /\ pc' = "gaveup"
    /\ attempt' = 0
    /\ UNCHANGED <<server, offset, pageLimit, badStart, lo, hi, jump, seen, skips>>

(* With both ends of the zone known, lines 166-173: ask in the middle ... *)
Bisect(l, h, failed) ==
    /\ h - l > 1
    /\ offset' = (l + h) \div 2
    /\ lo' = l /\ hi' = h
    /\ probes' = failed
    /\ UNCHANGED <<badStart, skips>>

(* mutant: one row too many is skipped silently *)
SkipZone_PastHi(l, h) ==
    /\ h - l <= 1
    /\ skips' = skips \cup {<<badStart, l>>}
    /\ offset' = h + 1
    /\ lo' = None /\ hi' = None /\ badStart' = None
    /\ probes' = 0

(* mutant: the walk goes on at lo instead of hi *)
SkipZone_AtLo(l, h) ==
    /\ h - l <= 1
    /\ skips' = skips \cup {<<badStart, l>>}
    /\ offset' = l
    /\ lo' = None /\ hi' = None /\ badStart' = None
    /\ probes' = 0

(* mutant: the bisection stops one offset early *)
SkipZone_Early(l, h) ==
    /\ h - l <= 2
    /\ skips' = skips \cup {<<badStart, l>>}
    /\ offset' = h
    /\ lo' = None /\ hi' = None /\ badStart' = None
    /\ probes' = 0

(* ... or, when they are neighbours, skip up to lo and go on at hi. *)
SkipZone(l, h) ==
    /\ h - l <= 1
    /\ skips' = skips \cup {<<badStart, l>>}
    /\ offset' = h
    /\ lo' = None /\ hi' = None /\ badStart' = None
    /\ probes' = 0

Settle(l, h, failed) == Bisect(l, h, failed) \/ SkipZone(l, h)

ZoneStart_Last == offset                \* mutant: forgets where the zone began
ZoneStart == IF lo = None THEN offset ELSE badStart

NextJump_Constant == 1                  \* mutant: the jumps do not double
NextJump == IF lo = None THEN 1 ELSE jump * 2

(* 500 for a page of one row, no succeeding offset known yet: jump ahead, *)
(* one further the first time and then twice as far each time.            *)
ProbeFailAhead ==
    /\ pc = "request"
    /\ Answers500
    /\ pageLimit = 1
    /\ probes + 1 <= MaxSkips
    /\ hi = None
    /\ probes' = probes + 1
    /\ badStart' = ZoneStart
    /\ jump' = NextJump
    /\ lo' = offset
    /\ offset' = offset + jump'
    /\ attempt' = 0
    /\ UNCHANGED <<server, pageLimit, hi, seen, skips, pc>>

(* 500 for a page of one row while bisecting: the offset is the new lo. *)
ProbeFailBetween ==
    /\ pc = "request"
    /\ Answers500
    /\ pageLimit = 1
    /\ probes + 1 <= MaxSkips
    /\ hi # None
    /\ Settle(offset, hi, probes + 1)
    /\ attempt' = 0
    /\ UNCHANGED <<server, pageLimit, jump, seen, pc>>

(* A request succeeds while a zone is probed: its offset is the new hi, *)
(* and the page is dropped (it is asked for again after the skip).      *)
ProbeSucceeds ==
    /\ pc = "request"
    /\ lo # None
    /\ \E p \in SUBSET rows : Answers200(p)
    /\ Settle(lo, offset, probes)
    /\ attempt' = 0
    /\ UNCHANGED <<server, outages, pageLimit, jump, seen, pc>>

(* A page that is not the last: its unseen rows are yielded, the cursor   *)
(* moves past its greatest id and the page limit grows back.              *)
DeliverPage(p) ==
    /\ pc = "request"
    /\ lo = None
    /\ Answers200(p)
    /\ p \ seen # {}
    /\ Cardinality(p) >= pageLimit
    /\ seen' = seen \cup p
    /\ \E m \in p : (\A r \in p : r <= m) /\ offset' = m + 1
    /\ pageLimit' = AtMostLimit(pageLimit * 2)
    /\ attempt' = 0
    /\ UNCHANGED <<server, outages, probing, skips, pc>>

(* An empty page, a short one, or one with nothing new: the walk ends. *)
DeliverLast(p) ==
    /\ pc = "request"
    /\ lo = None
    /\ Answers200(p)
    /\ p \ seen = {} \/ Cardinality(p) < pageLimit
    /\ seen' = seen \cup p
    /\ pc' = "done"
    /\ attempt' = 0
    /\ UNCHANGED <<server, outages, offset, pageLimit, probing, skips>>

Next ==
    \/ Retry
    \/ Raise
    \/ Narrow
    \/ GiveUp
    \/ ProbeFailAhead
    \/ ProbeFailBetween
    \/ ProbeSucceeds
    \/ \E p \in SUBSET rows : DeliverPage(p) \/ DeliverLast(p)

(* The generator is driven by one loop that always asks for the next row, *)
(* so its steps are never put off for ever.                               *)
Spec == Init /\ [][Next]_vars /\ WF_vars(Next)

----------------------------------------------------------------------------
(* Every row below Settled is behind the cursor. *)
Settled == IF lo = None THEN offset ELSE badStart

Behind(r) == start <= r /\ (r < Settled \/ pc = "done")

PassedOver(r) == \E s \in skips : s[1] <= r /\ r <= s[2]

(* The walk leaves nothing behind without saying so, and skips nothing it  *)
(* has yielded: a row behind the cursor was yielded or lies in a range     *)
(* handed to on_skip, never both (lines 166-197).                          *)
EachRowSettledOnce ==
    \A r \in rows :
        /\ Behind(r) => (r \in seen <=> ~PassedOver(r))
        /\ ~Behind(r) => r \notin seen /\ ~PassedOver(r)

(* Before any outage a skipped range ends with a broken row: the         *)
(* bisection never blames a healthy one (lines 120-122).                 *)
SkipEndsWithBrokenRow ==
    outages = 0 => \A s \in skips : s[1] <= s[2] /\ s[2] \in broken

(* MAX_CONSECUTIVE_SKIPS is out of reach of broken rows alone: jumps that *)
(* double and a bisection that halves need few probes whatever the gaps,  *)
(* so the walk gives up only when the server fails for healthy rows too.  *)
GivesUpOnlyInOutage == pc = "gaveup" => outages > 0

(* Every walk comes to an end: the generator returns or raises. *)
Terminates == <>(pc # "request")

----------------------------------------------------------------------------
(* The inductive invariant of CrawlCursorProofs. *)

(* A zone is probed one row at a time, between its two known ends. *)
ZoneOK ==
    /\ lo = None => badStart = None /\ hi = None
    /\ lo # None =>
        /\ pageLimit = 1
        /\ badStart # None /\ badStart <= lo /\ lo < offset
        /\ hi # None => offset < hi

(* The first row from offset o on is broken. *)
FirstIsBroken(o) == \E b \in broken : b >= o /\ \A r \in From(o) : b <= r

(* The ends were seen to fail and to succeed. *)
EndsOK ==
    outages = 0 =>
        /\ lo # None => FirstIsBroken(lo)
        /\ hi # None => ~FirstIsBroken(hi)

SkipsBehind ==
    /\ start <= Settled
    /\ \A s \in skips : start <= s[1] /\ s[2] < Settled

CursorInv ==
    /\ TypeOK
    /\ ZoneOK
    /\ EndsOK
    /\ SkipsBehind
    /\ SkipEndsWithBrokenRow
    /\ EachRowSettledOnce

----------------------------------------------------------------------------
(* The walk is a CrawlFeed. *)
Feed == INSTANCE CrawlFeed WITH
    outage <- outages > 0,
    pos <- Settled,
    delivered <- seen,
    status <- CASE pc = "request" -> "open"
                [] pc = "done" -> "done"
                [] OTHER -> "failed"

ImplementsFeed == Feed!Spec
=============================================================================
