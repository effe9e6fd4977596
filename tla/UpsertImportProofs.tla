------------------------- MODULE UpsertImportProofs -------------------------
(***************************************************************************)
(* What flask import-csv leaves behind, for every file, every table, every *)
(* CHUNK_SIZE and any number of failures, crashes and resets: the run that *)
(* completes stores what one undisturbed run would, the newest row of a    *)
(* car stays, the counters add up, and a reset lasts.                      *)
(*                                                                         *)
(* The argument.  A row that is not stored over another is not stored over *)
(* anything that this other is in the way of (KeptOutToo).  So a run that  *)
(* starts from the table that the beginning of the same file has left      *)
(* agrees with one run over the file from the row on at which the earlier  *)
(* attempt ended (CoupledNext, MergedTwice), and it does not matter how    *)
(* many attempts there were (Reaching).                                    *)
(***************************************************************************)
EXTENDS UpsertImport, SequenceTheorems, FiniteSetTheorems, WellFoundedInduction, TLAPS

----------------------------------------------------------------------------
(* Induction and the fold of _flush_chunk over a chunk. *)

(* Induction over the natural numbers, for a set instead of a predicate. *)
LEMMA SetInduction ==
    ASSUME NEW P \in SUBSET Nat, 0 \in P, \A n \in P : n + 1 \in P
    PROVE  P = Nat
<1> SUFFICES ASSUME Nat \ P # {} PROVE FALSE
  OBVIOUS
<1>1. PICK d \in Nat \ P : \A e \in Nat \ P : <<e, d>> \notin OpToRel(<, Nat)
  BY NatLessThanWellFounded, WFMin
<1>2. d # 0 /\ d - 1 \in Nat
  OBVIOUS
<1>3. d - 1 \in P
  <2>1. d - 1 < d
    BY <1>2
  <2> QED
    BY <1>1, <1>2, <2>1 DEF OpToRel
<1>4. (d - 1) + 1 = d
  OBVIOUS
<1> QED
  BY <1>3, <1>4

(* A nonempty set of numbers up to n has a largest one, which is Max. *)
LEMMA MaxOf ==
    ASSUME NEW n \in Nat, NEW S \in SUBSET (1..n), S # {}
    PROVE  Max(S) \in S /\ \A i \in S : i <= Max(S)
<1> DEFINE Distances == {n - j : j \in S}
<1>1. Distances \subseteq Nat /\ Distances # {}
  <2>1. \A j \in S : n - j \in Nat
    OBVIOUS
  <2> QED
    BY <2>1
<1>2. PICK d \in Distances : \A e \in Distances : <<e, d>> \notin OpToRel(<, Nat)
  BY <1>1, NatLessThanWellFounded, WFMin
<1>3. \A e \in Distances : ~(e < d)
  BY <1>1, <1>2 DEF OpToRel
<1>4. PICK j \in S : d = n - j
  OBVIOUS
<1>5. \A i \in S : j >= i
  <2> TAKE i \in S
  <2>1. ~(n - i < n - j)
    BY <1>3, <1>4
  <2> QED
    BY <2>1
<1> QED
  BY <1>5 DEF Max

(* At(i) and Takes as constant operators. *)
Of(f, i) == [ts |-> f[i].ts, hasId |-> f[i].hasId, from |-> i]
Beats(new, old) == old = Absent \/ Newer(new, old) \/ NeedsBackfill(new, old)

(* Merged as a constant operator; for all rows or for the accepted ones only. *)
Offered(f, rows, acc, i) ==
    IF rows = "all" \/ f[i].ok
    THEN IF Beats(Of(f, i), acc.table[f[i].car])
         THEN [table |-> [acc.table EXCEPT ![f[i].car] = Of(f, i)],
               counts |-> [acc.counts EXCEPT !.saved = @ + 1]]
         ELSE [acc EXCEPT !.counts.skipped = @ + 1]
    ELSE acc

(* g is the fold of Offered over every subset of the first n places of q. *)
Folding(g, f, rows, a, q, n) ==
    g = [s \in SUBSET (1..n) |->
            IF s = {} THEN a ELSE Offered(f, rows, g[s \ {Max(s)}], q[Max(s)])]
Folded(f, rows, t, c, q, n) ==
    (CHOOSE g : Folding(g, f, rows, [table |-> t, counts |-> c], q, n))[1..n]

(* _flush_chunk is the fold of Offered over all rows of the chunk. *)
LEMMA FlushIs ==
    ASSUME NEW t, NEW c, NEW s, NEW n \in Nat, DOMAIN s = 1..n
    PROVE  Flush(t, c, s) = Folded(file, "all", t, c, s, n)
BY DEF Flush, FoldLeft, MapThenFoldSet, Folded, Folding, Offered, Merged, Takes, At, Of, Beats

(* One undisturbed run is the fold over the accepted rows of the file. *)
LEMMA AtOnceIs ==
    ASSUME NEW n \in Nat, DOMAIN file = 1..n
    PROVE  MergedAtOnce = Folded(file, "accepted", base, Zero, [i \in 1..n |-> i], n).table
<1> DEFINE q == [i \in DOMAIN file |-> i]
<1>1. DOMAIN q = 1..n /\ q = [i \in 1..n |-> i]
  OBVIOUS
<1> HIDE DEF q
<1>2. FoldLeft(LAMBDA acc, i : IF file[i].ok THEN Merged(acc, i) ELSE acc,
               [table |-> base, counts |-> Zero], q)
      = Folded(file, "accepted", base, Zero, q, n)
  BY <1>1 DEF FoldLeft, MapThenFoldSet, Folded, Folding, Offered, Merged, Takes, At, Of, Beats
<1> QED
  BY <1>1, <1>2 DEF MergedAtOnce, FoldLeftDomain, q

(* The recursive function that a fold stands for exists. *)
LEMMA FoldingExists ==
    ASSUME NEW f, NEW rows, NEW a, NEW q, NEW m \in Nat
    PROVE  \E g : Folding(g, f, rows, a, q, m)
<1> DEFINE P == {n \in Nat : \E g : Folding(g, f, rows, a, q, n)}
<1>1. 0 \in P
  <2>1. 1..0 = {}
    OBVIOUS
  <2>2. Folding([s \in SUBSET (1..0) |-> a], f, rows, a, q, 0)
    BY <2>1 DEF Folding
  <2> QED
    BY <2>2
<1>2. ASSUME NEW n \in P PROVE n + 1 \in P
  <2>1. PICK g : Folding(g, f, rows, a, q, n)
    OBVIOUS
  <2> DEFINE h == [s \in SUBSET (1..(n + 1)) |->
                     IF n + 1 \in s THEN Offered(f, rows, g[s \ {n + 1}], q[n + 1]) ELSE g[s]]
  <2>2. ASSUME NEW s \in SUBSET (1..(n + 1))
        PROVE  h[s] = IF s = {} THEN a ELSE Offered(f, rows, h[s \ {Max(s)}], q[Max(s)])
    <3>1. CASE n + 1 \in s
      <4>1. Max(s) = n + 1
        <5>1. n + 1 \in Nat /\ s # {} /\ s \subseteq 1..(n + 1)
          BY <3>1
        <5>2. Max(s) \in s /\ \A i \in s : i <= Max(s)
          BY <5>1, MaxOf
        <5>3. \A i \in 1..(n + 1) : n + 1 <= i => i = n + 1
          OBVIOUS
        <5> QED
          BY <5>1, <5>2, <5>3, <3>1
      <4>2. h[s \ {n + 1}] = g[s \ {n + 1}]
        OBVIOUS
      <4>3. h[s] = Offered(f, rows, g[s \ {n + 1}], q[n + 1])
        BY <3>1
      <4> HIDE DEF h
      <4> QED
        BY <3>1, <4>1, <4>2, <4>3
    <3>2. CASE n + 1 \notin s
      <4>1. s \in SUBSET (1..n)
        BY <3>2
      <4>2. h[s] = g[s]
        BY <3>2
      <4>3. CASE s = {}
        BY <2>1, <4>1, <4>2, <4>3 DEF Folding
      <4>4. CASE s # {}
        <5>1. Max(s) \in s
          BY MaxOf, <4>1, <4>4
        <5>2. h[s \ {Max(s)}] = g[s \ {Max(s)}]
          BY <3>2
        <5>3. g[s] = Offered(f, rows, g[s \ {Max(s)}], q[Max(s)])
          BY <2>1, <4>1, <4>4 DEF Folding
        <5> HIDE DEF h
        <5> QED
          BY <4>2, <4>4, <5>2, <5>3
      <4> QED
        BY <4>3, <4>4
    <3> QED
      BY <3>1, <3>2
  <2>3. h = [s \in SUBSET (1..(n + 1)) |-> h[s]]
    OBVIOUS
  <2>4. Folding(h, f, rows, a, q, n + 1)
    <3> HIDE DEF h
    <3> QED
      BY <2>2, <2>3 DEF Folding
  <2>5. n + 1 \in Nat
    OBVIOUS
  <2> QED
    BY <2>4, <2>5
<1>3. P = Nat
  <2>1. P \subseteq Nat
    OBVIOUS
  <2> HIDE DEF P
  <2> QED
    BY <1>1, <1>2, <2>1, SetInduction
<1> QED
  BY <1>3

(* What it says of the first k + 1 places, given the first k. *)
LEMMA FoldingStep ==
    ASSUME NEW g, NEW f, NEW rows, NEW a, NEW q, NEW n \in Nat, Folding(g, f, rows, a, q, n)
    PROVE  /\ g[{}] = a
           /\ \A k \in 0..(n - 1) : g[1..(k + 1)] = Offered(f, rows, g[1..k], q[k + 1])
<1>1. g[{}] = a
  BY DEF Folding
<1>2. ASSUME NEW k \in 0..(n - 1)
      PROVE  g[1..(k + 1)] = Offered(f, rows, g[1..k], q[k + 1])
  <2>1. 1..(k + 1) \in SUBSET (1..n) /\ k + 1 \in 1..(k + 1)
    OBVIOUS
  <2>2. Max(1..(k + 1)) = k + 1
    <3>1. /\ Max(1..(k + 1)) \in 1..(k + 1)
          /\ \A i \in 1..(k + 1) : i <= Max(1..(k + 1))
      BY MaxOf, <2>1
    <3> QED
      BY <2>1, <3>1
  <2>3. (1..(k + 1)) \ {k + 1} = 1..k
    OBVIOUS
  <2>4. 1..(k + 1) # {}
    BY <2>1
  <2> QED
    BY <2>1, <2>2, <2>3, <2>4 DEF Folding
<1> QED
  BY <1>1, <1>2

(* No row leaves the table and the counters as they are. *)
LEMMA FoldedNone ==
    ASSUME NEW f, NEW rows, NEW t, NEW c, NEW q
    PROVE  Folded(f, rows, t, c, q, 0) = [table |-> t, counts |-> c]
<1> DEFINE a == [table |-> t, counts |-> c]
           g == CHOOSE g : Folding(g, f, rows, a, q, 0)
<1>1. Folding(g, f, rows, a, q, 0)
  BY FoldingExists
<1>2. Folded(f, rows, t, c, q, 0) = g[1..0]
  BY DEF Folded
<1>3. 1..0 = {}
  OBVIOUS
<1> HIDE DEF g
<1> QED
  BY <1>1, <1>2, <1>3, FoldingStep

(* One row more is offered to what the rows before it have left, and only  *)
(* the rows that are folded matter.                                        *)
LEMMA FoldedNext ==
    ASSUME NEW f, NEW rows, NEW t, NEW c, NEW n \in Nat, NEW q, NEW r, \A k \in 1..n : r[k] = q[k]
    PROVE  Folded(f, rows, t, c, r, n + 1) = Offered(f, rows, Folded(f, rows, t, c, q, n), r[n + 1])
<1> DEFINE a == [table |-> t, counts |-> c]
           g == CHOOSE g : Folding(g, f, rows, a, q, n)
           h == CHOOSE h : Folding(h, f, rows, a, r, n + 1)
           P == {k \in Nat : k <= n => h[1..k] = g[1..k]}
<1>1. n + 1 \in Nat
  OBVIOUS
<1>3. Folding(g, f, rows, a, q, n) /\ Folding(h, f, rows, a, r, n + 1)
  BY <1>1, FoldingExists
<1>4. Folded(f, rows, t, c, q, n) = g[1..n] /\ Folded(f, rows, t, c, r, n + 1) = h[1..(n + 1)]
  BY DEF Folded
<1> HIDE DEF g, h
<1>5. 0 \in P
  <2>1. 1..0 = {}
    OBVIOUS
  <2>2. g[{}] = a /\ h[{}] = a
    BY <1>1, <1>3, FoldingStep
  <2> QED
    BY <2>1, <2>2
<1>6. ASSUME NEW k \in P PROVE k + 1 \in P
  <2> SUFFICES ASSUME k + 1 <= n PROVE h[1..(k + 1)] = g[1..(k + 1)]
    OBVIOUS
  <2>1. k \in 0..(n - 1) /\ k \in 0..((n + 1) - 1) /\ k + 1 \in 1..n /\ k <= n
    BY <1>1
  <2>4. k <= n => h[1..k] = g[1..k]
    OBVIOUS
  <2> HIDE DEF P, a
  <2>2. g[1..(k + 1)] = Offered(f, rows, g[1..k], q[k + 1])
    BY <1>1, <1>3, <2>1, FoldingStep
  <2>3. h[1..(k + 1)] = Offered(f, rows, h[1..k], r[k + 1])
    BY <1>1, <1>3, <2>1, FoldingStep
  <2> QED
    BY <2>1, <2>2, <2>3, <2>4
<1>7. P = Nat
  <2>1. P \subseteq Nat
    OBVIOUS
  <2> HIDE DEF P
  <2> QED
    BY <1>5, <1>6, <2>1, SetInduction
<1>8. h[1..n] = g[1..n]
  BY <1>1, <1>7
<1>9. h[1..(n + 1)] = Offered(f, rows, h[1..n], r[n + 1])
  <2>1. n \in 0..((n + 1) - 1)
    BY <1>1
  <2> QED
    BY <1>1, <1>3, <2>1, FoldingStep
<1> QED
  BY <1>4, <1>8, <1>9

----------------------------------------------------------------------------
(* What a row does to the table and to the counters. *)

Tab == [Cars -> Stored \cup {Absent}]
Merging == [table : Tab, counts : Counters]

(* The table after row i. *)
Put(f, t, i) == IF Beats(Of(f, i), t[f[i].car]) THEN [t EXCEPT ![f[i].car] = Of(f, i)] ELSE t

(* The rows of a file are rows, and what they store can be stored. *)
LEMMA RowTypes ==
    ASSUME NEW f \in Files, NEW i \in 1..Len(f)
    PROVE  f[i] \in Row /\ f[i].car \in Cars /\ Of(f, i) \in Stored
<1>1. f \in Seq(Row)
  BY FilesAssumption
<1>2. f[i] \in Row
  BY <1>1, ElementOfSeq
<1>3. i \in UNION {1..n : n \in Lengths}
  BY DEF Lengths
<1> QED
  BY <1>2, <1>3 DEF Row, Of, Stored

(* A row that is stored leaves a table. *)
LEMMA PutType ==
    ASSUME NEW f \in Files, NEW i \in 1..Len(f), NEW t \in Tab
    PROVE  Put(f, t, i) \in Tab
BY RowTypes DEF Put, Tab

(* One row more is saved or skipped: one less is without an outcome. *)
LEMMA CountMore ==
    ASSUME NEW b \in Counters, NEW c \in {[b EXCEPT !.saved = @ + 1], [b EXCEPT !.skipped = @ + 1]}
    PROVE  c \in Counters /\ c.total = b.total /\ Uncounted(c) = Uncounted(b) - 1
<1>1. b.total \in Nat /\ b.saved \in Nat /\ b.skipped \in Nat /\ b.rejected \in Nat
  BY DEF Counters
<1>2. c \in Counters /\ c.total = b.total /\ c.rejected = b.rejected
  BY DEF Counters
<1>3. \/ c.saved = b.saved + 1 /\ c.skipped = b.skipped
      \/ c.saved = b.saved /\ c.skipped = b.skipped + 1
  BY DEF Counters
<1> QED
  BY <1>1, <1>2, <1>3 DEF Uncounted

(* A row is read: an accepted one waits, a rejected one is settled. *)
LEMMA CountAccepted ==
    ASSUME NEW b \in Counters
    PROVE  LET c == [b EXCEPT !.total = @ + 1]
           IN  c \in Counters /\ c.total = b.total + 1 /\ Uncounted(c) = Uncounted(b) + 1
<1> DEFINE c == [b EXCEPT !.total = @ + 1]
<1>1. b.total \in Nat /\ b.saved \in Nat /\ b.skipped \in Nat /\ b.rejected \in Nat
  BY DEF Counters
<1>2. c = [total |-> b.total + 1, saved |-> b.saved, skipped |-> b.skipped,
           rejected |-> b.rejected]
  BY DEF Counters
<1> HIDE DEF c
<1>3. c.total = b.total + 1 /\ c.saved = b.saved /\ c.skipped = b.skipped
      /\ c.rejected = b.rejected /\ c \in Counters
  BY <1>1, <1>2 DEF Counters
<1>4. Uncounted(c) = Uncounted(b) + 1
  BY <1>1, <1>3 DEF Uncounted
<1> QED
  BY <1>3, <1>4 DEF c

(* A row is read and rejected at once: its outcome is counted. *)
LEMMA CountRejected ==
    ASSUME NEW b \in Counters
    PROVE  LET c == [b EXCEPT !.total = @ + 1, !.rejected = @ + 1]
           IN  c \in Counters /\ c.total = b.total + 1 /\ Uncounted(c) = Uncounted(b)
<1> DEFINE c == [b EXCEPT !.total = @ + 1, !.rejected = @ + 1]
<1>1. b.total \in Nat /\ b.saved \in Nat /\ b.skipped \in Nat /\ b.rejected \in Nat
  BY DEF Counters
<1>0. c = [[b EXCEPT !.total = @ + 1] EXCEPT !.rejected = @ + 1]
  OBVIOUS
<1> HIDE DEF c
<1>2. c = [total |-> b.total + 1, saved |-> b.saved, skipped |-> b.skipped,
           rejected |-> b.rejected + 1]
  BY <1>0 DEF Counters
<1>3. c \in Counters /\ c.total = b.total + 1 /\ Uncounted(c) = Uncounted(b)
  BY <1>1, <1>2 DEF Uncounted, Counters
<1> QED
  BY <1>3 DEF c

(* What one row does: to the table what Put does, to the counters one more *)
(* saved or skipped.                                                       *)
LEMMA OfferedIs ==
    ASSUME NEW f \in Files, NEW i \in 1..Len(f), NEW rows \in {"all", "accepted"}, NEW acc \in Merging
    PROVE  /\ Offered(f, rows, acc, i) \in Merging
           /\ Offered(f, rows, acc, i).table =
                IF rows = "all" \/ f[i].ok THEN Put(f, acc.table, i) ELSE acc.table
           /\ rows = "all" => LET c == Offered(f, rows, acc, i).counts
                     IN  /\ c.total = acc.counts.total
                         /\ Uncounted(c) = Uncounted(acc.counts) - 1
<1>1. acc.table \in Tab /\ acc.counts \in Counters
  BY DEF Merging
<1>2. CASE (rows = "all" \/ f[i].ok) /\ Beats(Of(f, i), acc.table[f[i].car])
  <2> DEFINE c == [acc.counts EXCEPT !.saved = @ + 1]
  <2>1. Offered(f, rows, acc, i) = [table |-> Put(f, acc.table, i), counts |-> c]
    BY <1>2 DEF Offered, Put
  <2>2. c \in Counters /\ c.total = acc.counts.total /\ Uncounted(c) = Uncounted(acc.counts) - 1
    BY <1>1, CountMore
  <2> HIDE DEF c
  <2> QED
    BY <1>1, <1>2, <2>1, <2>2, PutType DEF Merging
<1>3. CASE (rows = "all" \/ f[i].ok) /\ ~Beats(Of(f, i), acc.table[f[i].car])
  <2> DEFINE c == [acc.counts EXCEPT !.skipped = @ + 1]
  <2>1. Offered(f, rows, acc, i) = [table |-> Put(f, acc.table, i), counts |-> c]
    BY <1>1, <1>3 DEF Offered, Put, Merging
  <2>2. c \in Counters /\ c.total = acc.counts.total /\ Uncounted(c) = Uncounted(acc.counts) - 1
    BY <1>1, CountMore
  <2> HIDE DEF c
  <2> QED
    BY <1>1, <1>3, <2>1, <2>2, PutType DEF Merging
<1>4. CASE ~(rows = "all" \/ f[i].ok)
  BY <1>4 DEF Offered
<1> QED
  BY <1>2, <1>3, <1>4

(* After any rows the table is a table and the counters are counters. *)
LEMMA FoldedType ==
    ASSUME NEW f \in Files, NEW rows \in {"all", "accepted"}, NEW t \in Tab, NEW c \in Counters,
           NEW m \in Nat, NEW q, \A k \in 1..m : q[k] \in 1..Len(f)
    PROVE  Folded(f, rows, t, c, q, m) \in Merging
<1> DEFINE P == {n \in Nat : n <= m => Folded(f, rows, t, c, q, n) \in Merging}
<1>1. 0 \in P
  BY FoldedNone DEF Merging
<1>2. ASSUME NEW n \in P PROVE n + 1 \in P
  <2> SUFFICES ASSUME n + 1 <= m PROVE Folded(f, rows, t, c, q, n + 1) \in Merging
    OBVIOUS
  <2>1. n \in Nat /\ n + 1 \in 1..m /\ Folded(f, rows, t, c, q, n) \in Merging
    OBVIOUS
  <2>2. Folded(f, rows, t, c, q, n + 1) = Offered(f, rows, Folded(f, rows, t, c, q, n), q[n + 1])
    BY <2>1, FoldedNext
  <2> QED
    BY <2>1, <2>2, OfferedIs
<1>3. P \subseteq Nat
  OBVIOUS
<1> HIDE DEF P
<1>4. P = Nat
  BY <1>1, <1>2, <1>3, SetInduction
<1> QED
  BY <1>4 DEF P

(* The table after the rows of a chunk, and after the accepted ones of the *)
(* first r rows of the file.                                               *)
After(f, t, s) == Folded(f, "all", t, Zero, s, Len(s)).table
Upto(f, t, r) == Folded(f, "accepted", t, Zero, [i \in 1..r |-> i], r).table

(* A new job has counted nothing. *)
LEMMA ZeroCounts == Zero \in Counters /\ Uncounted(Zero) = 0
BY DEF Zero, Counters, Uncounted

(* What _flush_chunk does to the counters: every row of the chunk gets its *)
(* outcome, and the table does not depend on the counters.                 *)
LEMMA FlushFacts ==
    ASSUME NEW f \in Files, NEW t \in Tab, NEW c \in Counters, NEW s \in Seq(1..Len(f))
    PROVE  LET x == Folded(f, "all", t, c, s, Len(s))
           IN  /\ x.table = After(f, t, s)
               /\ x.table \in Tab /\ x.counts \in Counters
               /\ x.counts.total = c.total
               /\ Uncounted(x.counts) = Uncounted(c) - Len(s)
<1> DEFINE m == Len(s)
           x(n) == Folded(f, "all", t, c, s, n)
           y(n) == Folded(f, "all", t, Zero, s, n)
           P == {n \in Nat : n <= m =>
                    /\ x(n).table = y(n).table
                    /\ x(n).counts.total = c.total
                    /\ Uncounted(x(n).counts) = Uncounted(c) - n}
<1>1. m \in Nat /\ \A k \in 1..m : s[k] \in 1..Len(f)
  OBVIOUS
<1>2. \A n \in 0..m : x(n) \in Merging /\ y(n) \in Merging
  BY <1>1, FoldedType, ZeroCounts
<1>3. 0 \in P
  <2>1. x(0) = [table |-> t, counts |-> c] /\ y(0) = [table |-> t, counts |-> Zero]
    BY FoldedNone
  <2>2. Uncounted(c) - 0 = Uncounted(c)
    BY DEF Uncounted, Counters
  <2> HIDE DEF x, y
  <2> QED
    BY <2>1, <2>2
<1>4. ASSUME NEW n \in P PROVE n + 1 \in P
  <2> SUFFICES ASSUME n + 1 <= m
               PROVE  /\ x(n + 1).table = y(n + 1).table
                      /\ x(n + 1).counts.total = c.total
                      /\ Uncounted(x(n + 1).counts) = Uncounted(c) - (n + 1)
    OBVIOUS
  <2>1. n \in Nat /\ n + 1 \in 1..m /\ n \in 0..m
    BY <1>1
  <2>2. /\ x(n).table = y(n).table /\ x(n).counts.total = c.total
        /\ Uncounted(x(n).counts) = Uncounted(c) - n
    BY <2>1
  <2>3. /\ x(n + 1) = Offered(f, "all", x(n), s[n + 1])
        /\ y(n + 1) = Offered(f, "all", y(n), s[n + 1])
    BY <2>1, FoldedNext
  <2>4. x(n) \in Merging /\ y(n) \in Merging /\ s[n + 1] \in 1..Len(f)
    BY <1>1, <1>2, <2>1
  <2> HIDE DEF x, y, P
  <2>5. /\ x(n + 1).table = Put(f, x(n).table, s[n + 1])
        /\ y(n + 1).table = Put(f, y(n).table, s[n + 1])
        /\ x(n + 1).counts.total = x(n).counts.total
        /\ Uncounted(x(n + 1).counts) = Uncounted(x(n).counts) - 1
    BY <2>3, <2>4, OfferedIs
  <2>6. Uncounted(c) \in Int
    BY DEF Uncounted, Counters
  <2> QED
    BY <2>1, <2>2, <2>5, <2>6
<1>5. P \subseteq Nat
  OBVIOUS
<1>6. m \in P
  <2> HIDE DEF P
  <2>1. P = Nat
    BY <1>3, <1>4, <1>5, SetInduction
  <2> QED
    BY <1>1, <2>1
<1>7. x(m) \in Merging
  BY <1>1, <1>2
<1>8. /\ x(m).table = y(m).table /\ x(m).counts.total = c.total
      /\ Uncounted(x(m).counts) = Uncounted(c) - m
  BY <1>1, <1>6
<1> HIDE DEF P
<1> QED
  BY <1>7, <1>8 DEF Merging, After

(* The empty chunk changes nothing. *)
LEMMA AfterNone == ASSUME NEW f, NEW t PROVE After(f, t, <<>>) = t
BY FoldedNone DEF After

(* One row more in the chunk. *)
LEMMA AfterNext ==
    ASSUME NEW f \in Files, NEW t \in Tab, NEW s \in Seq(1..Len(f)), NEW i \in 1..Len(f)
    PROVE  After(f, t, Append(s, i)) = Put(f, After(f, t, s), i)
<1> DEFINE r == Append(s, i)
           n == Len(s)
<1>1. n \in Nat /\ Len(r) = n + 1 /\ r[n + 1] = i
  OBVIOUS
<1>2. (\A k \in 1..n : r[k] = s[k]) /\ (\A k \in 1..n : s[k] \in 1..Len(f))
  OBVIOUS
<1> HIDE DEF r, n
<1>3. Folded(f, "all", t, Zero, r, n + 1) = Offered(f, "all", Folded(f, "all", t, Zero, s, n), i)
  BY <1>1, <1>2, FoldedNext
<1>4. Folded(f, "all", t, Zero, s, n) \in Merging
  BY <1>1, <1>2, ZeroCounts, FoldedType
<1> QED
  BY <1>1, <1>3, <1>4, OfferedIs DEF After, r, n

(* What a prefix of the file leaves is a table. *)
LEMMA UptoType ==
    ASSUME NEW f \in Files, NEW t \in Tab, NEW r \in 0..Len(f)
    PROVE  Upto(f, t, r) \in Tab
<1> DEFINE q == [i \in 1..r |-> i]
<1>1. r \in Nat /\ Len(f) \in Nat
  BY FilesAssumption
<1>2. \A k \in 1..r : q[k] \in 1..Len(f)
  BY <1>1
<1> HIDE DEF q
<1> QED
  BY <1>1, <1>2, ZeroCounts, FoldedType DEF Upto, Merging, q

(* The empty prefix changes nothing. *)
LEMMA UptoNone == ASSUME NEW f, NEW t PROVE Upto(f, t, 0) = t
BY FoldedNone DEF Upto

(* One row more of the file, which may be rejected. *)
LEMMA UptoNext ==
    ASSUME NEW f \in Files, NEW t \in Tab, NEW r \in Nat, r + 1 <= Len(f)
    PROVE  Upto(f, t, r + 1) = IF f[r + 1].ok THEN Put(f, Upto(f, t, r), r + 1) ELSE Upto(f, t, r)
<1> DEFINE q == [i \in 1..r |-> i]
           p == [i \in 1..(r + 1) |-> i]
<1>1. Len(f) \in Nat /\ r + 1 \in 1..Len(f) /\ p[r + 1] = r + 1
  BY FilesAssumption
<1>2. (\A k \in 1..r : p[k] = q[k]) /\ (\A k \in 1..r : q[k] \in 1..Len(f))
  BY <1>1
<1> HIDE DEF q, p
<1>3. Folded(f, "accepted", t, Zero, p, r + 1) = Offered(f, "accepted", Folded(f, "accepted", t, Zero, q, r), r + 1)
  BY <1>1, <1>2, FoldedNext
<1>4. Folded(f, "accepted", t, Zero, q, r) \in Merging
  BY <1>1, <1>2, ZeroCounts, FoldedType
<1> QED
  BY <1>1, <1>3, <1>4, OfferedIs DEF Upto, q, p

----------------------------------------------------------------------------
(* Merging again what was merged before. *)

(* What is stored has a stamp, which is a number. *)
LEMMA StoredTypes ==
    ASSUME NEW x \in Stored \cup {Absent}
    PROVE  x.ts \in Nat /\ x.hasId \in BOOLEAN /\ x.from \in Int
<1>1. CASE x \in Stored
  <2>1. x.from \in {0} \cup UNION {1..n : n \in Lengths}
    BY <1>1 DEF Stored
  <2>2. Lengths \subseteq Nat
    BY FilesAssumption DEF Lengths
  <2>3. x.from \in Int
    BY <2>1, <2>2
  <2>4. x.ts \in Nat /\ x.hasId \in BOOLEAN
    BY <1>1, StampsAssumption DEF Stored
  <2> QED
    BY <2>3, <2>4
<1>2. CASE x = Absent
  BY <1>2 DEF Absent
<1> QED
  BY <1>1, <1>2

(* What a row is not stored over stays in the way of all the rows that it  *)
(* would keep out itself.                                                  *)
LEMMA KeptOutToo ==
    ASSUME NEW x \in Stored \cup {Absent}, NEW y \in Stored \cup {Absent},
           NEW z \in Stored \cup {Absent}, ~Beats(y, x), ~Beats(z, y)
    PROVE  ~Beats(z, x)
<1>1. x.ts \in Nat /\ y.ts \in Nat /\ z.ts \in Nat
  BY StoredTypes
<1>2. x.ts # 0 /\ y.ts # 0 /\ y.ts <= x.ts /\ z.ts <= y.ts
  BY <1>1 DEF Beats, Newer
<1>3. ~(z.ts > x.ts)
  BY <1>1, <1>2
<1> QED
  BY <1>2, <1>3 DEF Beats, Newer, NeedsBackfill

(* What a row does to one car. *)
LEMMA PutAt ==
    ASSUME NEW f \in Files, NEW i \in 1..Len(f), NEW t \in Tab, NEW k \in Cars
    PROVE  Put(f, t, i)[k] = IF f[i].car = k /\ Beats(Of(f, i), t[k]) THEN Of(f, i) ELSE t[k]
BY RowTypes DEF Put, Tab

(* One car under two merges of the same file, one of which starts with     *)
(* what the other has stored at row d: they agree, or the second has done  *)
(* nothing yet, or what the first has stored is in the way of what the     *)
(* second has stored, and is not what it stores at row d.                  *)
Coupled(x, y, v) == x = y \/ y = v \/ (~Beats(y, x) /\ x # v)

(* Two merges that are coupled stay so with every row. *)
LEMMA CoupledNext ==
    ASSUME NEW f \in Files, NEW i \in 1..Len(f), NEW t \in Tab, NEW u \in Tab, NEW k \in Cars,
           NEW v \in Stored \cup {Absent}, Coupled(t[k], u[k], v)
    PROVE  Coupled(Put(f, t, i)[k], Put(f, u, i)[k], v)
<1> DEFINE x == t[k]
           y == u[k]
           z == Of(f, i)
<1>1. {x, y, z} \subseteq Stored \cup {Absent}
  BY RowTypes DEF Tab
<1>2. /\ Put(f, t, i)[k] = IF f[i].car = k /\ Beats(z, x) THEN z ELSE x
      /\ Put(f, u, i)[k] = IF f[i].car = k /\ Beats(z, y) THEN z ELSE y
  BY PutAt
<1>3. Coupled(x, y, v)
  OBVIOUS
<1> HIDE DEF x, y, z
<1>4. CASE f[i].car # k
  BY <1>2, <1>3, <1>4
<1>5. CASE f[i].car = k /\ Beats(z, y)
  <2>1. CASE Beats(z, x)
    BY <1>2, <1>5, <2>1 DEF Coupled
  <2>2. CASE ~Beats(z, x)
    <3>1. CASE x = v
      <4>1. y = x \/ y = v
        BY <1>3, <3>1 DEF Coupled
      <4> QED
        BY <1>5, <2>2, <3>1, <4>1
    <3>2. CASE x # v
      BY <1>2, <1>5, <2>2, <3>2 DEF Coupled
    <3> QED
      BY <3>1, <3>2
  <2> QED
    BY <2>1, <2>2
<1>6. CASE f[i].car = k /\ ~Beats(z, y)
  <2>1. CASE x = y \/ y = v
    BY <1>2, <1>6, <2>1 DEF Coupled
  <2>2. CASE ~Beats(y, x) /\ x # v
    <3>1. ~Beats(z, x)
      BY <1>1, <1>6, <2>2, KeptOutToo
    <3> QED
      BY <1>2, <1>6, <2>2, <3>1 DEF Coupled
  <2> QED
    BY <1>3, <2>1, <2>2 DEF Coupled
<1> QED
  BY <1>4, <1>5, <1>6

(* Merging a file into a table that holds the merge of its beginning gives *)
(* the same as merging it once.                                            *)
LEMMA MergedTwice ==
    ASSUME NEW f \in Files, NEW t \in Tab, NEW d \in 0..Len(f)
    PROVE  Upto(f, Upto(f, t, d), Len(f)) = Upto(f, t, Len(f))
<1> DEFINE m == Len(f)
           u == Upto(f, t, d)
           x(n) == Upto(f, t, n)
           y(n) == Upto(f, u, n)
           P == {n \in Nat : n <= d => \A k \in Cars : Coupled(x(n)[k], y(n)[k], u[k])}
           Q == {n \in Nat : d <= n /\ n <= m => x(n) = y(n)}
<1>1. m \in Nat /\ d \in Nat /\ d <= m
  BY FilesAssumption
<1>2. u \in Tab
  BY UptoType
<1> HIDE DEF u
<1>3. \A n \in 0..m : x(n) \in Tab /\ y(n) \in Tab
  BY <1>2, UptoType
<1>4. \A n \in Nat : n + 1 <= m =>
        /\ x(n + 1) = IF f[n + 1].ok THEN Put(f, x(n), n + 1) ELSE x(n)
        /\ y(n + 1) = IF f[n + 1].ok THEN Put(f, y(n), n + 1) ELSE y(n)
  BY <1>2, UptoNext
<1>5. y(0) = u
  BY UptoNone
<1>6. x(d) = u
  BY DEF u
<1>7. Nat \subseteq P
  <2>1. 0 \in P
    BY <1>5 DEF Coupled
  <2>2. ASSUME NEW n \in P PROVE n + 1 \in P
    <3> SUFFICES ASSUME n + 1 <= d, NEW k \in Cars
                 PROVE  Coupled(x(n + 1)[k], y(n + 1)[k], u[k])
      OBVIOUS
    <3>1. n \in Nat /\ n + 1 <= m /\ n \in 0..m /\ n + 1 \in 1..m /\ n <= d
      BY <1>1
    <3>2. Coupled(x(n)[k], y(n)[k], u[k])
      BY <3>1
    <3>3. x(n) \in Tab /\ y(n) \in Tab /\ u[k] \in Stored \cup {Absent}
      BY <1>2, <1>3, <3>1 DEF Tab
    <3>4. Coupled(Put(f, x(n), n + 1)[k], Put(f, y(n), n + 1)[k], u[k])
      BY <3>1, <3>2, <3>3, CoupledNext
    <3> HIDE DEF x, y, P, Q
    <3> QED
      BY <1>4, <3>1, <3>2, <3>4
  <2>3. P \subseteq Nat
    OBVIOUS
  <2> HIDE DEF P
  <2> QED
    BY <2>1, <2>2, <2>3, SetInduction
<1>8. x(d) = y(d)
  <2>1. \A k \in Cars : Coupled(x(d)[k], y(d)[k], u[k])
    BY <1>1, <1>7
  <2>2. x(d) \in Tab /\ y(d) \in Tab
    BY <1>1, <1>3
  <2> HIDE DEF x, y, P, Q
  <2>3. \A k \in Cars : x(d)[k] = y(d)[k]
    BY <1>6, <2>1 DEF Coupled
  <2> QED
    BY <2>2, <2>3 DEF Tab
<1>9. Nat \subseteq Q
  <2>1. 0 \in Q
    BY <1>1, <1>8
  <2>2. ASSUME NEW n \in Q PROVE n + 1 \in Q
    <3> SUFFICES ASSUME d <= n + 1, n + 1 <= m PROVE x(n + 1) = y(n + 1)
      OBVIOUS
    <3>1. n \in Nat /\ n <= m
      BY <1>1
    <3>2. CASE d <= n
      <4>1. x(n) = y(n)
        BY <3>1, <3>2
      <4> HIDE DEF x, y, P, Q
      <4> QED
        BY <1>4, <3>1, <4>1
    <3>3. CASE d = n + 1
      BY <1>8, <3>3
    <3> QED
      BY <1>1, <3>1, <3>2, <3>3
  <2>3. Q \subseteq Nat
    OBVIOUS
  <2> HIDE DEF Q
  <2> QED
    BY <2>1, <2>2, <2>3, SetInduction
<1>10. m \in Q
  BY <1>1, <1>9
<1> QED
  BY <1>1, <1>10 DEF u

----------------------------------------------------------------------------
(* Which row of a car stays. *)

RowsIn(f, k) == {i \in 1..Len(f) : f[i].ok /\ f[i].car = k}
AllIds(f, k) == \A i \in RowsIn(f, k) : f[i].hasId
Earliest(f, k, v) == \A i \in RowsIn(f, k) : f[i].ts = v.ts /\ v.ts # 0 => v.from <= i

(* After r rows of the file have been merged over w, the car holds v. *)
Latest(f, k, w, v, r) ==
    /\ \A i \in RowsIn(f, k) : i <= r => v.hasId /\ f[i].ts <= v.ts
    /\ Earliest(f, k, v)
    /\ w = Absent \/ w.hasId => w.ts <= v.ts
    /\ v = w \/ v.hasId

(* The next row of the file, of this car or of another one. *)
LEMMA LatestNext ==
    ASSUME NEW f \in Files, NEW k \in Cars, AllIds(f, k), NEW n \in Nat, n + 1 <= Len(f),
           NEW w \in Stored \cup {Absent}, NEW v \in Stored \cup {Absent}, Latest(f, k, w, v, n)
    PROVE  /\ n + 1 \notin RowsIn(f, k) => Latest(f, k, w, v, n + 1)
           /\ n + 1 \in RowsIn(f, k) =>
                Latest(f, k, w, IF Beats(Of(f, n + 1), v) THEN Of(f, n + 1) ELSE v, n + 1)
<1> DEFINE z == Of(f, n + 1)
<1>1. /\ w.ts \in Nat /\ v.ts \in Nat /\ w.hasId \in BOOLEAN /\ v.hasId \in BOOLEAN
      /\ v.from \in Int
  BY StoredTypes
<1>2. /\ Len(f) \in Nat /\ n + 1 \in 1..Len(f)
      /\ \A i \in RowsIn(f, k) : i \in 1..Len(f) /\ f[i].ts \in Nat /\ f[i].hasId
  <2>1. Len(f) \in Nat
    BY FilesAssumption
  <2>2. ASSUME NEW i \in RowsIn(f, k)
        PROVE  i \in 1..Len(f) /\ f[i].ts \in Nat /\ f[i].hasId
    <3>1. i \in 1..Len(f) /\ f[i].hasId
      BY <2>2 DEF RowsIn, AllIds
    <3>2. f[i] \in Row
      BY <3>1, RowTypes
    <3> QED
      BY <3>1, <3>2, StampsAssumption DEF Row
  <2> QED
    BY <2>1, <2>2
<1>3. \A i \in RowsIn(f, k) : i <= n + 1 <=> i <= n \/ i = n + 1
  BY <1>2
<1>4. ASSUME n + 1 \notin RowsIn(f, k) PROVE Latest(f, k, w, v, n + 1)
  BY <1>3, <1>4 DEF Latest
<1>5. ASSUME n + 1 \in RowsIn(f, k), ~Beats(z, v) PROVE Latest(f, k, w, v, n + 1)
  <2>1. z.ts = f[n + 1].ts /\ z.hasId /\ z.ts \in Nat
    BY <1>2, <1>5 DEF Of
  <2>2. v.hasId /\ z.ts <= v.ts
    BY <1>1, <1>5, <2>1 DEF Beats, Newer, NeedsBackfill
  <2> QED
    BY <1>3, <2>1, <2>2 DEF Latest
<1>6. ASSUME n + 1 \in RowsIn(f, k), Beats(z, v) PROVE Latest(f, k, w, z, n + 1)
  <2>1. z.ts = f[n + 1].ts /\ z.hasId /\ z.ts \in Nat /\ z.from = n + 1
    BY <1>2, <1>6 DEF Of
  <2>2. v.hasId => v.ts = 0 \/ z.ts > v.ts
    BY <1>6 DEF Beats, Newer, NeedsBackfill, Absent
  <2>3. \A i \in RowsIn(f, k) : i <= n => f[i].ts <= z.ts /\ (f[i].ts = z.ts => z.ts = 0)
    <3> TAKE i \in RowsIn(f, k)
    <3> HAVE i <= n
    <3>1. v.hasId /\ f[i].ts <= v.ts
      BY DEF Latest
    <3> QED
      BY <1>1, <1>2, <2>1, <2>2, <3>1
  <2>4. \A i \in RowsIn(f, k) : i <= n + 1 => f[i].ts <= z.ts
    BY <1>2, <1>3, <2>1, <2>3
  <2>5. Earliest(f, k, z)
    <3> SUFFICES ASSUME NEW i \in RowsIn(f, k), f[i].ts = z.ts, z.ts # 0 PROVE n + 1 <= i
      BY <2>1 DEF Earliest
    <3>1. ~(i <= n)
      BY <2>3
    <3> QED
      BY <1>2, <3>1
  <2>6. w = Absent \/ w.hasId => w.ts <= z.ts
    <3>1. CASE v.hasId
      BY <1>1, <2>1, <2>2, <3>1 DEF Latest
    <3>2. CASE ~v.hasId
      <4>1. v = w
        BY <3>2 DEF Latest
      <4>2. w = Absent => w.ts <= z.ts
        BY <2>1 DEF Absent
      <4> QED
        BY <3>2, <4>1, <4>2
    <3> QED
      BY <3>1, <3>2
  <2> HIDE DEF z
  <2> QED
    BY <2>1, <2>4, <2>5, <2>6 DEF Latest
<1> QED
  BY <1>4, <1>5, <1>6

(* A prefix of the file leaves the latest of its rows. *)
LEMMA LatestUpto ==
    ASSUME NEW f \in Files, NEW t \in Tab, NEW k \in Cars, AllIds(f, k), Earliest(f, k, t[k]),
           NEW m \in 0..Len(f)
    PROVE  Latest(f, k, t[k], Upto(f, t, m)[k], m)
<1> DEFINE x(n) == Upto(f, t, n)
           P == {n \in Nat : n <= m => Latest(f, k, t[k], x(n)[k], n)}
<1>1. m \in Nat /\ Len(f) \in Nat /\ m <= Len(f)
  BY FilesAssumption
<1>2. t[k] \in Stored \cup {Absent} /\ t[k].ts \in Nat
  BY StoredTypes DEF Tab
<1>3. 0 \in P
  <2>1. x(0) = t
    BY UptoNone
  <2>2. \A i \in RowsIn(f, k) : ~(i <= 0)
    BY DEF RowsIn
  <2> HIDE DEF x
  <2> QED
    BY <1>2, <2>1, <2>2 DEF Latest
<1>4. ASSUME NEW n \in P PROVE n + 1 \in P
  <2> SUFFICES ASSUME n + 1 <= m PROVE Latest(f, k, t[k], x(n + 1)[k], n + 1)
    OBVIOUS
  <2>1. /\ n \in Nat /\ n \in 0..Len(f) /\ n + 1 \in 1..Len(f) /\ n + 1 <= Len(f)
        /\ n <= m
    BY <1>1
  <2>2. Latest(f, k, t[k], x(n)[k], n)
    BY <2>1
  <2>3. x(n) \in Tab
    BY <2>1, UptoType
  <2>4. x(n + 1) = IF f[n + 1].ok THEN Put(f, x(n), n + 1) ELSE x(n)
    BY <2>1, UptoNext
  <2> HIDE DEF x, P
  <2>5. Put(f, x(n), n + 1)[k] =
            IF f[n + 1].car = k /\ Beats(Of(f, n + 1), x(n)[k]) THEN Of(f, n + 1) ELSE x(n)[k]
    BY <2>1, <2>3, PutAt
  <2>6. x(n)[k] \in Stored \cup {Absent}
    BY <2>3 DEF Tab
  <2>7. n + 1 \in RowsIn(f, k) <=> f[n + 1].ok /\ f[n + 1].car = k
    BY <2>1 DEF RowsIn
  <2>8. x(n + 1)[k] = IF n + 1 \in RowsIn(f, k) /\ Beats(Of(f, n + 1), x(n)[k])
                      THEN Of(f, n + 1) ELSE x(n)[k]
    BY <2>4, <2>5, <2>7
  <2> QED
    BY <1>2, <2>1, <2>2, <2>6, <2>8, LatestNext
<1>5. P \subseteq Nat
  OBVIOUS
<1> HIDE DEF P
<1>6. P = Nat
  BY <1>3, <1>4, <1>5, SetInduction
<1> QED
  BY <1>1, <1>6 DEF P

----------------------------------------------------------------------------
(* The inductive invariant. *)

(* The counters in the session count the rows that were read, and a row    *)
(* that waits in pending_rows is the only one without an outcome.          *)
Counting ==
    /\ importing => tally.total = read /\ Uncounted(tally) = Len(pending)
    /\ Uncounted(counts) \in 0..(Chunk - 1)
    /\ job = "completed" =>
        /\ ~importing
        /\ counts.total = Len(file) /\ Uncounted(counts) = 0
        /\ table = Upto(file, base, Len(file))

(* No row of the file is stored that is after an equally late one. *)
Ordered(f, t) == \A k \in Cars : AllIds(f, k) => Earliest(f, k, t[k])

(* The table is what a prefix of the file makes of the table t that the    *)
(* last run started with, and from t a whole run reaches what one from the *)
(* base does.  The run that goes on has merged all that it has read, but   *)
(* for the pending rows.                                                   *)
From(t) ==
    /\ Ordered(file, t)
    /\ Upto(file, t, Len(file)) = Upto(file, base, Len(file))
    /\ \E d \in 0..Len(file) : table = Upto(file, t, d)
    /\ importing /\ job = "running" => After(file, table, pending) = Upto(file, t, read)
Reaching == Ordered(file, base) /\ \E t \in Tab : From(t)

UpsertInv == TypeOK /\ Counting /\ Reaching

(* A file has a length. *)
LEMMA FileLength == ASSUME NEW f \in Files PROVE Len(f) \in Nat
BY FilesAssumption

(* What the table may hold before the import is a table. *)
LEMMA TablesAreTables == Tables \cup [Cars -> Stored \cup {Absent}] = Tab
BY TablesAssumption DEF Tab

(* Nothing runs at first. *)
LEMMA TypeInit == Init => TypeOK
<1> SUFFICES ASSUME Init PROVE TypeOK
  OBVIOUS
<1>1. Len(file) \in Nat
  BY FileLength DEF Init
<1>2. read \in 0..Len(file) /\ faults \in 0..MaxFaults
  BY <1>1, SizesAssumption DEF Init
<1>3. pending \in Seq(1..read) /\ Len(pending) <= Chunk
  BY SizesAssumption DEF Init
<1>4. counts \in Counters /\ tally \in Counters
  BY ZeroCounts DEF Init
<1> QED
  BY <1>2, <1>3, <1>4, TablesAssumption DEF Init, TypeOK

(* Before the import no row of the file is stored. *)
LEMMA BaseOrdered == Init => Ordered(file, base)
<1> SUFFICES ASSUME Init, NEW k \in Cars, NEW i \in RowsIn(file, k) PROVE base[k].from <= i
  BY DEF Ordered, Earliest
<1>1. base \in Tab /\ base[k].from <= 0
  BY TablesAssumption DEF Init, Tab
<1>2. base[k].from \in Int
  BY <1>1, StoredTypes DEF Tab
<1>3. i \in Nat
  <2>1. Len(file) \in Nat
    BY FileLength DEF Init
  <2> QED
    BY <2>1 DEF RowsIn
<1> QED
  BY <1>1, <1>2, <1>3

(* The initial states satisfy the inductive invariant. *)
LEMMA InvInit == Init => UpsertInv
<1> SUFFICES ASSUME Init PROVE UpsertInv
  OBVIOUS
<1>1. TypeOK /\ Ordered(file, base)
  BY TypeInit, BaseOrdered
<1>2. Counting
  BY ZeroCounts, SizesAssumption DEF Init, Counting
<1>3. From(base) /\ base \in Tab
  <2>1. base \in Tab /\ Len(file) \in Nat /\ 0 \in 0..Len(file)
    BY FileLength, TablesAssumption DEF Init, Tab
  <2>2. table = Upto(file, base, 0)
    BY UptoNone DEF Init
  <2> QED
    BY <1>1, <2>1, <2>2 DEF From, Init
<1> QED
  BY <1>1, <1>2, <1>3 DEF UpsertInv, Reaching

(* What a chunk does. *)
LEMMA ChunkStored ==
    ASSUME TypeOK, StoreChunk
    PROVE  /\ table' = After(file, table, pending) /\ table' \in Tab
           /\ tally' \in Counters /\ counts' = tally'
           /\ tally'.total = tally.total
           /\ Uncounted(tally') = Uncounted(tally) - Len(pending)
<1> DEFINE x == Folded(file, "all", table, tally, pending, Len(pending))
<1>1. file \in Files /\ table \in Tab /\ tally \in Counters /\ read \in 0..Len(file)
  BY DEF TypeOK, Tab
<1>2. pending \in Seq(1..Len(file))
  <2>1. 1..read \subseteq 1..Len(file)
    BY <1>1, FileLength
  <2>2. pending \in Seq(1..read)
    BY DEF TypeOK
  <2> QED
    BY <2>1, <2>2, SeqMonotonic
<1>3. Len(pending) \in Nat /\ DOMAIN pending = 1..Len(pending)
  BY <1>2, LenProperties
<1>4. Flush(table, tally, pending) = x
  BY <1>3, FlushIs
<1>5. /\ x.table = After(file, table, pending) /\ x.table \in Tab
      /\ x.counts \in Counters /\ x.counts.total = tally.total
      /\ Uncounted(x.counts) = Uncounted(tally) - Len(pending)
  BY <1>1, <1>2, FlushFacts
<1>6. table' = x.table /\ tally' = x.counts /\ counts' = x.counts
  BY <1>4 DEF StoreChunk
<1> HIDE DEF x
<1> QED
  BY <1>5, <1>6

(* Every step preserves the type invariant. *)
LEMMA TypeNext == TypeOK /\ [Next]_vars => TypeOK'
<1> SUFFICES ASSUME TypeOK, [Next]_vars PROVE TypeOK'
  OBVIOUS
<1>a. file \in Files /\ Len(file) \in Nat /\ read \in 0..Len(file) /\ Zero \in Counters
  BY FileLength, ZeroCounts DEF TypeOK
<1>b. <<>> \in Seq(1..read) /\ <<>> \in Seq(1..0) /\ Len(<<>>) = 0 /\ 0 \in 0..Len(file)
  BY <1>a
<1>1. CASE Start
  BY <1>1, <1>a, <1>b, SizesAssumption DEF Start, TypeOK, reset
<1>2. CASE AcceptRow
  <2>1. read' = read + 1 /\ read' \in 0..Len(file) /\ Len(pending) < Chunk
    BY <1>2, <1>a DEF AcceptRow, NextRow
  <2>2. pending \in Seq(1..(read + 1)) /\ read + 1 \in 1..(read + 1)
    <3>1. 1..read \subseteq 1..(read + 1) /\ read + 1 \in 1..(read + 1)
      BY <1>a
    <3> QED
      BY <3>1, SeqMonotonic DEF TypeOK
  <2>3. pending' \in Seq(1..read') /\ Len(pending') = Len(pending) + 1
    BY <1>2, <2>1, <2>2, AppendProperties DEF AcceptRow
  <2>4. tally' \in Counters
    <3>1. tally \in Counters /\ tally' = [tally EXCEPT !.total = @ + 1]
      BY <1>2 DEF AcceptRow, TypeOK
    <3> QED
      BY <3>1, CountAccepted
  <2>5. Len(pending') <= Chunk
    BY <2>1, <2>2, <2>3, SizesAssumption
  <2> QED
    BY <1>2, <2>1, <2>3, <2>4, <2>5 DEF AcceptRow, TypeOK, reset
<1>3. CASE RejectRow
  <2>1. read' = read + 1 /\ read' \in 0..Len(file)
    BY <1>3, <1>a DEF RejectRow, NextRow
  <2>2. pending' \in Seq(1..read') /\ pending' = pending
    <3>1. 1..read \subseteq 1..(read + 1)
      BY <1>a
    <3> QED
      BY <1>3, <2>1, <3>1, SeqMonotonic DEF RejectRow, TypeOK
  <2>3. tally' \in Counters
    <3>1. tally \in Counters /\ tally' = [tally EXCEPT !.total = @ + 1, !.rejected = @ + 1]
      BY <1>3 DEF RejectRow, TypeOK
    <3> QED
      BY <3>1, CountRejected
  <2>4. counts' \in Counters
    BY <1>3, <2>3 DEF RejectRow, TypeOK
  <2> QED
    BY <1>3, <2>1, <2>2, <2>3, <2>4 DEF RejectRow, TypeOK, reset
<1>4. CASE StoreChunk
  <2>1. table' \in Tab /\ tally' \in Counters /\ counts' = tally'
    BY <1>4, ChunkStored
  <2> QED
    BY <1>4, <1>b, <2>1, SizesAssumption DEF StoreChunk, TypeOK, reset, Tab
<1>5. CASE Complete
  BY <1>5 DEF Complete, TypeOK, reset
<1>6. CASE Fail
  <2>1. faults' \in 0..MaxFaults
    BY <1>6, SizesAssumption DEF Fail, TypeOK
  <2>2. pending' \in Seq(1..read') /\ Len(pending') <= Chunk
    BY <1>6, <1>b, SizesAssumption DEF Fail
  <2> QED
    BY <1>6, <2>1, <2>2 DEF Fail, TypeOK, reset
<1>7. CASE Crash
  <2>1. faults' \in 0..MaxFaults
    BY <1>7, SizesAssumption DEF Crash, TypeOK
  <2>2. pending' \in Seq(1..read') /\ Len(pending') <= Chunk
    BY <1>7, <1>b, SizesAssumption DEF Crash
  <2> QED
    BY <1>7, <2>1, <2>2 DEF Crash, TypeOK, reset
<1>8. CASE ResetVehicles
  <2>1. faults' \in 0..MaxFaults
    BY <1>8, SizesAssumption DEF ResetVehicles, TypeOK
  <2> QED
    BY <1>8, <2>1 DEF ResetVehicles, TypeOK, run
<1>9. CASE ResetJobs
  <2>1. table' \in [Cars -> Stored \cup {Absent}]
    BY <1>9 DEF ResetJobs, TypeOK
  <2> QED
    BY <1>9, <1>a, <2>1 DEF ResetJobs, TypeOK, run
<1>10. CASE UNCHANGED vars
  BY <1>10 DEF vars, TypeOK, run, reset
<1> QED
  BY <1>1, <1>2, <1>3, <1>4, <1>5, <1>6, <1>7, <1>8, <1>9, <1>10 DEF Next

(* Every step keeps the counters and the rows read together. *)
LEMMA CountingNext ==
    TypeOK /\ Counting /\ Reaching /\ [Next]_vars => Counting'
<1> SUFFICES ASSUME TypeOK, Counting, Reaching, [Next]_vars PROVE Counting'
  OBVIOUS
<1>a. /\ file \in Files /\ Len(file) \in Nat /\ read \in 0..Len(file) /\ base \in Tab
      /\ tally \in Counters /\ counts \in Counters /\ pending \in Seq(1..read)
      /\ Len(pending) \in Nat
  BY FileLength, TablesAreTables, LenProperties DEF TypeOK
<1>b. Uncounted(Zero) = 0 /\ Zero.total = 0 /\ 0 \in 0..(Chunk - 1) /\ Chunk \in Nat
  BY ZeroCounts, SizesAssumption DEF Zero
<1>1. CASE Start
  BY <1>1, <1>b DEF Start, Counting
<1>2. CASE AcceptRow
  <2>1. importing /\ tally.total = read /\ Uncounted(tally) = Len(pending)
    BY <1>2 DEF AcceptRow, NextRow, Counting
  <2>2. tally'.total = tally.total + 1 /\ Uncounted(tally') = Uncounted(tally) + 1
    BY <1>2, <1>a, CountAccepted DEF AcceptRow
  <2>3. read' = read + 1 /\ Len(pending') = Len(pending) + 1
    <3>1. pending \in Seq(Nat) /\ read + 1 \in Nat
      BY <1>a, SeqMonotonic
    <3> QED
      BY <1>2, <3>1, AppendProperties DEF AcceptRow, NextRow
  <2> QED
    BY <1>2, <2>1, <2>2, <2>3 DEF AcceptRow, Counting, reset
<1>3. CASE RejectRow
  <2>1. importing /\ tally.total = read /\ Uncounted(tally) = Len(pending)
    BY <1>3 DEF RejectRow, NextRow, Counting
  <2>2. tally'.total = tally.total + 1 /\ Uncounted(tally') = Uncounted(tally)
    BY <1>3, <1>a, CountRejected DEF RejectRow
  <2>3. read' = read + 1 /\ pending' = pending /\ Len(pending) < Chunk
    BY <1>3 DEF RejectRow, NextRow
  <2>4. Uncounted(counts') \in 0..(Chunk - 1)
    <3>1. CASE counts' = tally'
      BY <1>a, <1>b, <2>1, <2>2, <2>3, <3>1
    <3>2. CASE counts' = counts
      BY <3>2 DEF Counting
    <3> QED
      BY <1>3, <3>1, <3>2 DEF RejectRow
  <2>5. job # "completed" /\ job' = job
    BY <1>3, <2>1 DEF RejectRow, Counting
  <2> QED
    BY <1>3, <2>1, <2>2, <2>3, <2>4, <2>5 DEF RejectRow, Counting
<1>4. CASE StoreChunk
  <2>1. /\ counts' = tally' /\ tally'.total = tally.total
        /\ Uncounted(tally') = Uncounted(tally) - Len(pending)
    BY <1>4, ChunkStored
  <2>2. importing /\ tally.total = read /\ Uncounted(tally) = Len(pending)
    BY <1>4 DEF StoreChunk, ChunkDue, Counting
  <2>3. Uncounted(tally') = 0
    BY <1>a, <2>1, <2>2
  <2>4. Len(pending') = 0 /\ job' = "running" /\ read' = read /\ importing' = importing
    BY <1>4 DEF StoreChunk
  <2> QED
    BY <1>b, <2>1, <2>2, <2>3, <2>4 DEF Counting
<1>5. CASE Complete
  <2>1. importing /\ tally.total = Len(file) /\ Uncounted(tally) = 0
    BY <1>5 DEF Complete, Counting
  <2>2. table = Upto(file, base, Len(file))
    <3>1. PICK t \in Tab : From(t)
      BY DEF Reaching
    <3>2. After(file, table, <<>>) = Upto(file, t, Len(file))
      BY <1>5, <3>1 DEF Complete, From
    <3> QED
      BY <3>1, <3>2, AfterNone DEF From
  <2> QED
    BY <1>5, <1>b, <2>1, <2>2 DEF Complete, Counting, reset
<1>6. CASE Fail
  BY <1>6 DEF Fail, Counting, reset
<1>7. CASE Crash
  BY <1>7 DEF Crash, Counting, reset
<1>8. CASE ResetVehicles
  BY <1>8 DEF ResetVehicles, Counting, run
<1>9. CASE ResetJobs
  BY <1>9, <1>b DEF ResetJobs, Counting, run
<1>10. CASE UNCHANGED vars
  BY <1>10 DEF vars, Counting, run
<1> QED
  BY <1>1, <1>2, <1>3, <1>4, <1>5, <1>6, <1>7, <1>8, <1>9, <1>10 DEF Next

(* What a prefix of the file leaves is ordered as a table before it is. *)
LEMMA OrderedUpto ==
    ASSUME NEW f \in Files, NEW t \in Tab, Ordered(f, t), NEW d \in 0..Len(f)
    PROVE  Ordered(f, Upto(f, t, d))
BY LatestUpto DEF Ordered, Latest

(* Every step keeps the table on the way to what one run leaves. *)
LEMMA ReachingNext ==
    TypeOK /\ Counting /\ Reaching /\ [Next]_vars => Reaching'
<1> SUFFICES ASSUME TypeOK, Counting, Reaching, [Next]_vars PROVE Reaching'
  OBVIOUS
<1>a. /\ file \in Files /\ Len(file) \in Nat /\ read \in 0..Len(file)
      /\ table \in Tab /\ base \in Tab /\ pending \in Seq(1..read)
      /\ 0 \in 0..Len(file)
  BY FileLength, TablesAreTables DEF TypeOK, Tab
<1>b. PICK t \in Tab : From(t)
  BY DEF Reaching
<1>c. PICK d \in 0..Len(file) : table = Upto(file, t, d)
  BY <1>b DEF From
<1>d. Ordered(file, table)
  BY <1>a, <1>b, <1>c, OrderedUpto DEF From
<1>e. Upto(file, table, 0) = table
  BY UptoNone
<1>f. pending \in Seq(1..Len(file))
  <2>1. 1..read \subseteq 1..Len(file)
    BY <1>a
  <2> QED
    BY <1>a, <2>1, SeqMonotonic
<1>1. CASE Start
  <2>1. Upto(file, table, Len(file)) = Upto(file, t, Len(file))
    BY <1>a, <1>b, <1>c, MergedTwice
  <2>2. After(file, table, <<>>) = table
    BY AfterNone
  <2>3. From(table)'
    BY <1>1, <1>a, <1>b, <1>d, <1>e, <2>1, <2>2 DEF Start, From, reset
  <2> QED
    BY <1>1, <1>a, <2>3 DEF Start, Reaching
<1>2. CASE AcceptRow
  <2>1. importing => read + 1 \in 1..Len(file) /\ read + 1 <= Len(file) /\ read \in Nat
    BY <1>2, <1>a DEF AcceptRow, NextRow
  <2>2. importing /\ job = "running" =>
            After(file, table, Append(pending, read + 1)) = Upto(file, t, read + 1)
    BY <1>2, <1>a, <1>b, <1>f, <2>1, AfterNext, UptoNext DEF AcceptRow, From
  <2>3. From(t)'
    BY <1>2, <1>b, <2>2 DEF AcceptRow, NextRow, From
  <2> QED
    BY <1>2, <1>b, <2>3 DEF AcceptRow, Reaching
<1>3. CASE RejectRow
  <2>1. read + 1 <= Len(file) /\ read \in Nat
    BY <1>3, <1>a DEF RejectRow, NextRow
  <2>2. Upto(file, t, read + 1) = Upto(file, t, read)
    BY <1>3, <1>a, <1>b, <2>1, UptoNext DEF RejectRow
  <2>3. From(t)'
    BY <1>3, <1>b, <2>2 DEF RejectRow, NextRow, From
  <2> QED
    BY <1>3, <1>b, <2>3 DEF RejectRow, Reaching
<1>4. CASE StoreChunk
  <2>1. table' = Upto(file, t, read)
    BY <1>4, <1>b, ChunkStored DEF StoreChunk, ChunkDue, From
  <2>2. After(file, table', <<>>) = table'
    BY AfterNone
  <2>3. From(t)'
    BY <1>4, <1>a, <1>b, <2>1, <2>2 DEF StoreChunk, From
  <2> QED
    BY <1>4, <1>b, <2>3 DEF StoreChunk, Reaching
<1>5. CASE Complete
  <2>1. From(t)'
    BY <1>5, <1>b DEF Complete, From
  <2> QED
    BY <1>5, <1>b, <2>1 DEF Complete, Reaching
<1>6. CASE Fail \/ Crash
  <2>1. From(t)'
    BY <1>6, <1>b DEF Fail, Crash, From
  <2> QED
    BY <1>6, <1>b, <2>1 DEF Fail, Crash, Reaching
<1>7. CASE ResetVehicles
  <2>1. From(t)'
    BY <1>7, <1>b DEF ResetVehicles, run, From
  <2> QED
    BY <1>7, <1>b, <2>1 DEF ResetVehicles, run, Reaching
<1>8. CASE ResetJobs
  <2>1. table' \in Tab /\ base' = table' /\ job' = "gone" /\ file' = file
    BY <1>8, <1>a DEF ResetJobs, Tab
  <2>5. PICK u \in Tab : u = table'
    BY <2>1
  <2>2. Ordered(file, u)
    <3> SUFFICES ASSUME NEW k \in Cars, AllIds(file, k) PROVE Earliest(file, k, u[k])
      BY DEF Ordered
    <3>1. u[k] = Absent \/ u[k] = table[k]
      BY <1>8, <2>5 DEF ResetJobs
    <3>2. Earliest(file, k, Absent)
      BY DEF Earliest, Absent
    <3> QED
      BY <1>d, <3>1, <3>2 DEF Ordered
  <2>3. Upto(file, u, 0) = u
    BY UptoNone
  <2>4. From(u)'
    BY <1>a, <2>1, <2>2, <2>3, <2>5 DEF From
  <2> QED
    BY <2>1, <2>2, <2>4, <2>5 DEF Reaching
<1>9. CASE UNCHANGED vars
  <2>1. From(t)'
    BY <1>9, <1>b DEF vars, run, From
  <2> QED
    BY <1>9, <1>b, <2>1 DEF vars, run, Reaching
<1> QED
  BY <1>1, <1>2, <1>3, <1>4, <1>5, <1>6, <1>7, <1>8, <1>9 DEF Next

(* Every step preserves the inductive invariant. *)
LEMMA InvNext == UpsertInv /\ [Next]_vars => UpsertInv'
BY TypeNext, CountingNext, ReachingNext DEF UpsertInv

(* The inductive invariant: the table is what a prefix of the file makes   *)
(* of a table from which a whole run reaches what it reaches from the      *)
(* base; the counters in the session count the rows read, and every row    *)
(* but the pending ones has an outcome (import_row_dicts, _flush_chunk).   *)
THEOREM UpsertInvariant == Spec => []UpsertInv
BY InvInit, InvNext, PTL DEF Spec

(* The types of the import's state, over all files, chunk sizes and faults. *)
THEOREM TypeCorrect == Spec => []TypeOK
<1>1. UpsertInv => TypeOK
  BY DEF UpsertInv
<1> QED
  BY <1>1, UpsertInvariant, PTL

(* A completed import, whatever runs before it were interrupted and with   *)
(* whichever chunks committed, leaves the table that one run over the file *)
(* leaves, because a row that is not stored over another keeps out itself  *)
(* the rows that this other keeps out.                                     *)
THEOREM RerunsReachSame == Spec => []RerunReachesSame
<1>1. UpsertInv => RerunReachesSame
  <2> SUFFICES ASSUME TypeOK, Counting, job = "completed" PROVE table = MergedAtOnce
    BY DEF UpsertInv, RerunReachesSame
  <2>1. Len(file) \in Nat /\ DOMAIN file = 1..Len(file)
    BY FilesAssumption DEF TypeOK
  <2>2. MergedAtOnce = Upto(file, base, Len(file))
    BY <2>1, AtOnceIs DEF Upto
  <2> QED
    BY <2>2 DEF Counting
<1> QED
  BY <1>1, UpsertInvariant, PTL

(* When the import has completed, a car whose rows have ids holds the      *)
(* first of the rows with the latest stamp, and nothing older than what it *)
(* held (the comparison of scraped_at in _flush_chunk).                    *)
THEOREM NewestStays == Spec => []NewestWins
<1>1. UpsertInv => NewestWins
  <2> SUFFICES ASSUME TypeOK, Counting, Reaching, job = "completed", NEW k \in Cars,
                      base[k] = Absent \/ base[k].hasId, \A i \in RowsOf(k) : file[i].hasId
               PROVE  /\ \A i \in RowsOf(k) :
                            /\ file[i].ts <= table[k].ts
                            /\ file[i].ts = table[k].ts /\ table[k].ts # 0 => table[k].from <= i
                      /\ base[k].ts <= table[k].ts
    BY DEF UpsertInv, NewestWins
  <2>1. /\ file \in Files /\ base \in Tab /\ Len(file) \in Nat /\ Len(file) \in 0..Len(file)
    BY FileLength, TablesAreTables DEF TypeOK
  <2>2. table = Upto(file, base, Len(file))
    BY DEF Counting
  <2>3. RowsOf(k) = RowsIn(file, k) /\ \A i \in RowsOf(k) : i <= Len(file)
    BY <2>1 DEF RowsOf, RowsIn
  <2>4. AllIds(file, k) /\ Earliest(file, k, base[k])
    BY <2>3 DEF AllIds, Reaching, Ordered
  <2>5. Latest(file, k, base[k], table[k], Len(file))
    BY <2>1, <2>2, <2>4, LatestUpto
  <2> QED
    BY <2>3, <2>5 DEF Latest, Earliest
<1> QED
  BY <1>1, UpsertInvariant, PTL

(* A completed job has counted every row once, and the committed counters  *)
(* never lag behind by a whole chunk.                                      *)
THEOREM CountsComplete == Spec => []CountsAddUp
<1>1. UpsertInv => CountsAddUp
  BY DEF UpsertInv, Counting, CountsAddUp
<1> QED
  BY <1>1, UpsertInvariant, PTL

(* After a reset the import under way stores nothing more: the chunk and   *)
(* the counters of the job, which is gone, are one transaction.            *)
THEOREM ResetStays == Spec => ResetSticks
<1>1. [Next]_vars =>
        [job = "gone" /\ job' = "gone" => \A k \in Cars : table'[k] \in {table[k], Absent}]_vars
  <2> SUFFICES ASSUME [Next]_vars, job = "gone", job' = "gone", NEW k \in Cars
               PROVE  table'[k] \in {table[k], Absent}
    OBVIOUS
  <2>1. CASE ResetJobs
    BY <2>1 DEF ResetJobs
  <2>2. CASE table' = table
    BY <2>2
  <2> QED
    BY <2>1, <2>2 DEF Next, Start, AcceptRow, RejectRow, StoreChunk, Complete, Fail, Crash,
                      ResetVehicles, vars
<1> QED
  BY <1>1, PTL DEF Spec, ResetSticks
==============================================================================
