------------------------- MODULE VehicleTableProofs -------------------------
(***************************************************************************)
(* The vehicles table under its writers (VehicleStore) and under those who *)
(* read it page by page (VehicleList), each for every value of its         *)
(* constants.                                                              *)
(*                                                                         *)
(* The writers.  A row changes only by a commit, and what a transaction    *)
(* commits is settled when it begins: by the fold of _flush_chunk          *)
(* (AfterRows, by induction over the chunk), by the rows that collect_rows *)
(* keeps, by the standard names.  So the invariant says, of every state in *)
(* between, that the row a process sees would follow the committed one if  *)
(* it were committed now (Follows), and that the statements to come fit    *)
(* that row (Current), unless another has committed the car meanwhile      *)
(* (disturbed).  A statement keeps this because it is executed on the row  *)
(* it was planned for; the commit of another because row locks keep it off *)
(* the rows that this one has written, and because what it changes counts  *)
(* as disturbed.  That no row is written by two transactions and that the  *)
(* ids are in one order is part of the types.                              *)
(*                                                                         *)
(* The readers.  What the client misses lies ahead of the page it asks     *)
(* for next.  A change of one row moves the others by one place at most,   *)
(* and towards the front only if it takes a row away from there: it was    *)
(* deleted, its day fell, or its new content leaves the list.  As no two   *)
(* rows have one place, at most one row for each of these gets ahead of    *)
(* that page unread (MissedGrows).                                         *)
(***************************************************************************)
EXTENDS VehicleStore, VehicleList, SequenceTheorems, FiniteSetTheorems, WellFoundedInduction, TLAPS

(***************************************************************************)
(* VehicleStore: the inductive invariant.                                  *)
(***************************************************************************)

(* The committed row and the one that a process of kind k would replace it *)
(* by, if nobody commits the car meanwhile: whole, no older and an alias   *)
(* still, up to what the properties except.                                *)
IsWhole(c, row) == row = Absent \/ Canon(row) \in Sources[c]
IsEntire(c, row) == row = Absent \/ Inspected(row) \in Entries[c]
IsAliased(row) == row # Absent /\ row.alias = row.color
Excused(k, chunk, c) ==
    \/ k = "import" /\ Refills(c, chunk)
    \/ k = "bulk" /\ StoresUnstamped(c, chunk)
Follows(k, chunk, c, old, new) ==
    /\ new = Absent => old = Absent \/ k = "reset"
    /\ IsWhole(c, old) => IsWhole(c, new)
    /\ IsEntire(c, old) => IsEntire(c, new) \/ k = "bulk"
    /\ k = "bulk" => new.inspected = old.inspected
    /\ new # Absent /\ new.stamp < old.stamp => ~old.id \/ Excused(k, chunk, c)
    /\ IsAliased(old) => new = Absent \/ IsAliased(new) \/ k \in {"bulk", "colors"}
Guarded(k, di, c) == k \in {"import", "fuels"} => c \notin di

(* What a process holds in each phase. *)
Phase(k, ph, td, pl, ow, di) ==
    IF ph \in {"stmts", "left"} THEN td # <<>> /\ (ph = "left" => k = "fuels")
    ELSE pl = <<>> /\ ow = <<>> /\ di = {}

FromInput(td) == \A u \in DOMAIN td : ToSet(td[u]) \subseteq Lines

(* The statement is one that a run of this kind has in this phase. *)
Fits(k, ph, chunk, s) ==
    CASE s.op = "update" -> \/ k = "import"
                            \/ k = "fuels" /\ ph = "left" /\ s.to = Refueled(s.from)
      [] s.op = "insert" -> /\ k = "import"
                            /\ \E r \in Lines : r.car = s.car /\ s.to = Made(r)
      [] s.op = "upsert" -> /\ k = "bulk"
                            /\ \E i \in KeptRows(chunk) :
                                    chunk[i] \in Lines /\ chunk[i].car = s.car /\ s.to = Made(chunk[i])
      [] s.op = "fuel" -> k = "fuels" /\ ph = "stmts" /\ s.to = InferFuel(s.from, {})
      [] s.op = "color" -> k = "colors" /\ s.to = Attr[s.from]
      [] s.op = "delete" -> k = "reset"
Placed == {"update", "insert"}
PlanFits(k, ph, chunk, pl) ==
    /\ \A i \in DOMAIN pl : Fits(k, ph, chunk, pl[i])
    /\ \A i, j \in DOMAIN pl :
            i # j /\ pl[i].op \in Placed /\ pl[j].op \in Placed => pl[i].car # pl[j].car

(* An UPDATE of the session still fits a row that nobody has committed. *)
Current(k, chunk, c, old, seen, s) ==
    s.op = "update" /\ s.car = c => s.from = seen /\ Follows(k, chunk, c, old, s.to)
PlanCurrent(k, chunk, t, v, pl, di) ==
    \A c \in Cars \ di : \A i \in DOMAIN pl : Current(k, chunk, c, t[c], v[c], pl[i])

ViewFollows(k, chunk, t, v, di) ==
    \A c \in Cars : Guarded(k, di, c) => Follows(k, chunk, c, t[c], v[c])

(* Whatever remap has not named is named by a statement to come. *)
Names == {Attr[a] : a \in DOMAIN Attr}
Awaits(k, ph, c, row, pl) ==
    /\ k = "fuels" /\ ph = "left" /\ row # Absent =>
            Refueled(row) = row \/ \E i \in DOMAIN pl : pl[i].op = "update" /\ pl[i].car = c
    /\ k = "colors" /\ ph = "stmts" /\ row # Absent =>
            row.color \in Names \/ \E i \in DOMAIN pl : pl[i].from = row.color
Settling(k, ph, v, pl, di) == \A c \in Cars \ di : Awaits(k, ph, c, v[c], pl)

(* The plan of a transaction and the rows it sees, t being the table.      *)
Consistent(k, ph, chunk, t, v, pl, di) ==
    /\ PlanFits(k, ph, chunk, pl)
    /\ PlanCurrent(k, chunk, t, v, pl, di)
    /\ ViewFollows(k, chunk, t, v, di)
    /\ Settling(k, ph, v, pl, di)

Sound(p) ==
    LET chunk == Head(todo[p])
    IN  /\ Phase(kind[p], pc[p], todo[p], plan[p], own[p], disturbed[p])
        /\ FromInput(todo[p])
        /\ Running(p) =>
            Consistent(kind[p], pc[p], chunk, table, View(p), plan[p], disturbed[p])

(* The ids put all rows in one order, those not committed included. *)
Known(c) == table[c] # Absent \/ \E p \in Procs : c \in DOMAIN own[p] /\ own[p][c] # Absent
IdsOrdered ==
    \A c, d \in Cars : c # d /\ Known(c) /\ Known(d) => (<<c, d>> \in older <=> <<d, c>> \notin older)

StoreInv == StoreTypeOK /\ own = [p \in Procs |-> own[p]] /\ IdsOrdered /\ \A p \in Procs : Sound(p)

----------------------------------------------------------------------------

(* A nonempty set of numbers has a least one. *)
LEMMA LeastOf ==
    ASSUME NEW S \in SUBSET Nat, S # {}
    PROVE  \E i \in S : \A j \in S : i <= j
<1>1. PICK i \in S : \A j \in S : <<j, i>> \notin OpToRel(<, Nat)
  BY NatLessThanWellFounded, WFMin
<1>2. \A j \in S : ~(j < i)
  BY <1>1 DEF OpToRel
<1> QED
  BY <1>2

(* A rule gives a standard name, or the one of a fuel that has none. *)
LEMMA RuleGives ==
    ASSUME NEW label, Matching(label) # {}
    PROVE  Rules[Min(Matching(label))][2] \in Standard \cup {{"cng"}}
<1>1. Matching(label) \subseteq 1..9
  BY DEF Matching, Rules
<1>2. Min(Matching(label)) \in 1..9
  BY <1>1, LeastOf DEF Min
<1>3. \A i \in 1..9 : Rules[i][2] \in Standard \cup {{"cng"}}
  BY DEF Rules, Standard
<1> QED
  BY <1>2, <1>3

(* The empty label is no name, and the fuel without a standard name is one. *)
LEMMA PlainLabels ==
    /\ {} \notin Standard /\ {} \notin DOMAIN Alias /\ Matching({}) = {}
    /\ {"cng"} \notin Standard /\ {"cng"} \notin DOMAIN Alias /\ Matching({"cng"}) = {5}
<1>1. {} \notin Standard /\ {"cng"} \notin Standard
  BY DEF Standard
<1>2. DOMAIN Alias = {{"gasoline", "electric"}, {"diesel", "electric"}}
  BY DEF Alias
<1>3. {} \notin DOMAIN Alias /\ {"cng"} \notin DOMAIN Alias
  BY <1>2
<1>4. Matching({}) = {}
  BY DEF Matching, Rules
<1>5. Matching({"cng"}) = {5}
  BY DEF Matching, Rules
<1> QED
  BY <1>1, <1>3, <1>4, <1>5

(* normalize_fuel maps a name to itself. *)
LEMMA NormalizeAgain ==
    ASSUME NEW label \in SUBSET Fragments
    PROVE  /\ NormalizeFuel(label) \in SUBSET Fragments
           /\ NormalizeFuel(NormalizeFuel(label)) = NormalizeFuel(label)
           /\ NormalizeFuel({}) = {}
<1>1. NormalizeFuel({"cng"}) = {"cng"}
  <2>1. Min({5}) = 5
    BY DEF Min
  <2>2. Rules[5][2] = {"cng"}
    BY DEF Rules
  <2> QED
    BY <2>1, <2>2, PlainLabels DEF NormalizeFuel
<1>2. \A l \in Standard : NormalizeFuel(l) = l /\ l \in SUBSET Fragments
  BY DEF NormalizeFuel, Standard, Fragments
<1>3. {"cng"} \in SUBSET Fragments /\ {"hybrid"} \in Standard
  BY DEF Fragments, Standard
<1>4. \A l \in DOMAIN Alias : Alias[l] = {"hybrid"}
  BY DEF Alias
<1>5. NormalizeFuel({}) = {}
  BY PlainLabels DEF NormalizeFuel
<1>6. \/ NormalizeFuel(label) \in Standard \cup {{"cng"}}
      \/ /\ NormalizeFuel(label) = label
  BY <1>3, <1>4, RuleGives DEF NormalizeFuel
<1> QED
  BY <1>1, <1>2, <1>3, <1>5, <1>6

(* infer_fuel maps what it gave to itself, and what it makes of a fuel     *)
(* alone does not change what it makes of fuel and grade.                  *)
LEMMA InferAgain ==
    ASSUME NEW fuel \in SUBSET Fragments, NEW grade \in SUBSET Fragments
    PROVE  /\ InferFuel(fuel, grade) \in SUBSET Fragments
           /\ InferFuel(InferFuel(fuel, grade), grade) = InferFuel(fuel, grade)
           /\ InferFuel(fuel, {}) \in SUBSET Fragments
           /\ InferFuel(InferFuel(fuel, {}), grade) = InferFuel(fuel, grade)
<1>1. /\ NormalizeFuel(fuel) \in SUBSET Fragments /\ NormalizeFuel(grade) \in SUBSET Fragments
      /\ NormalizeFuel(NormalizeFuel(fuel)) = NormalizeFuel(fuel)
      /\ NormalizeFuel(NormalizeFuel(grade)) = NormalizeFuel(grade)
      /\ NormalizeFuel({}) = {}
  BY NormalizeAgain
<1>2. {} \notin Standard
  BY PlainLabels
<1> QED
  BY <1>1, <1>2 DEF InferFuel

(* _apply_row stores a row, under standard names. *)
LEMMA MadeIs ==
    ASSUME NEW r \in InputRow
    PROVE  /\ Made(r) \in Row /\ Made(r).stamp = r.stamp /\ Made(r).id = r.id
           /\ Made(r).alias = Made(r).color /\ Canon(Made(r)) = Canon(r)
           /\ Inspected(Made(r)) = Inspected(r)
<1>1. /\ r.stamp \in Nat /\ r.id \in BOOLEAN /\ r.color \in DOMAIN Attr
      /\ r.fuel \in SUBSET Fragments /\ r.grade \in SUBSET Fragments /\ r.inspected \in Nat
  BY DEF InputRow
<1>2. Attr[r.color] \in DOMAIN Attr /\ Attr[Attr[r.color]] = Attr[r.color]
  BY <1>1, AttrAssumption
<1>3. /\ InferFuel(r.fuel, r.grade) \in SUBSET Fragments
      /\ InferFuel(InferFuel(r.fuel, r.grade), r.grade) = InferFuel(r.fuel, r.grade)
  BY <1>1, InferAgain
<1>4. Made(r) \in Row
  BY <1>1, <1>2, <1>3 DEF Made, Row
<1>5. Made(r).inspected = r.inspected
  BY DEF Made
<1>6. Canon(Made(r)) = Canon(r)
  BY <1>2, <1>3 DEF Made, Canon
<1> QED
  BY <1>2, <1>4, <1>5, <1>6 DEF Made, Inspected

(* A standard name in the place of another name of it: what remap_vehicle_ *)
(* fuels and remap_vehicle_attrs do to a row.                              *)
Renamed(row) == {[row EXCEPT !.fuel = InferFuel(row.fuel, row.grade)],
                 [row EXCEPT !.fuel = InferFuel(row.fuel, {})],
                 [row EXCEPT !.color = Attr[row.color]]}

(* Renamed rows are rows of the same source. *)
LEMMA RenamedIs ==
    ASSUME NEW row \in Row, NEW new \in Renamed(row)
    PROVE  /\ new \in Row /\ Canon(new) = Canon(row)
           /\ new.stamp = row.stamp /\ new.id = row.id /\ new.alias = row.alias
           /\ new.inspected = row.inspected
<1>1. /\ row.stamp \in Nat /\ row.id \in BOOLEAN /\ row.color \in DOMAIN Attr
      /\ row.fuel \in SUBSET Fragments /\ row.grade \in SUBSET Fragments
  BY DEF Row
<1>2. Attr[row.color] \in DOMAIN Attr /\ Attr[Attr[row.color]] = Attr[row.color]
  BY <1>1, AttrAssumption
<1>3. /\ InferFuel(row.fuel, row.grade) \in SUBSET Fragments
      /\ InferFuel(InferFuel(row.fuel, row.grade), row.grade) = InferFuel(row.fuel, row.grade)
      /\ InferFuel(row.fuel, {}) \in SUBSET Fragments
      /\ InferFuel(InferFuel(row.fuel, {}), row.grade) = InferFuel(row.fuel, row.grade)
  BY <1>1, InferAgain
<1>4. CASE new = [row EXCEPT !.color = Attr[row.color]]
  <2>1. new \in Row
    BY <1>2, <1>4 DEF Row
  <2> QED
    BY <1>2, <1>4, <2>1 DEF Row, Canon
<1>5. CASE \E f \in SUBSET Fragments : /\ InferFuel(f, row.grade) = InferFuel(row.fuel, row.grade)
                                       /\ new = [row EXCEPT !.fuel = f]
  <2>1. new \in Row
    BY <1>5 DEF Row
  <2> QED
    BY <1>5, <2>1 DEF Row, Canon
<1> QED
  BY <1>3, <1>4, <1>5 DEF Renamed

(* A row that remap_vehicle_fuels has named keeps its name. *)
LEMMA RefueledIs ==
    ASSUME NEW row \in Row
    PROVE  /\ Refueled(row) \in Renamed(row) /\ Refueled(Refueled(row)) = Refueled(row)
           /\ Refueled(row).color = row.color
           /\ Refueled(row) = row => InferFuel(row.fuel, row.grade) = row.fuel
<1>1. row.fuel \in SUBSET Fragments /\ row.grade \in SUBSET Fragments
  BY DEF Row
<1>2. InferFuel(InferFuel(row.fuel, row.grade), row.grade) = InferFuel(row.fuel, row.grade)
  BY <1>1, InferAgain
<1>3. Refueled(row).fuel = InferFuel(row.fuel, row.grade) /\ Refueled(row).grade = row.grade
  BY DEF Refueled, Row
<1>4. Refueled(Refueled(row)) = Refueled(row)
  BY <1>2, <1>3 DEF Refueled, Row
<1> QED
  BY <1>3, <1>4 DEF Refueled, Renamed, Row

(* Only Absent is no row. *)
LEMMA RowsAre ==
    /\ Absent \notin Row /\ Absent.stamp = -1 /\ Absent \in Stored
    /\ \A row \in Stored : row # Absent => row \in Row /\ row.stamp \in Nat
<1>1. Absent.stamp = -1
  BY DEF Absent
<1>2. \A row \in Row : row.stamp \in Nat
  BY DEF Row
<1>3. Absent \notin Row
  BY <1>1, <1>2
<1> QED
  BY <1>1, <1>2, <1>3 DEF Stored

(* The Korean column is a color or empty, and nothing is no inspection. *)
LEMMA AliasIs ==
    ASSUME NEW row \in Stored
    PROVE  row.alias \in DOMAIN Attr \cup {""} /\ row.inspected \in Nat
<1>1. Absent.alias = "" /\ Absent.inspected = 0
  BY DEF Absent
<1>2. row \in Row => row.alias \in DOMAIN Attr \cup {""} /\ row.inspected \in Nat
  BY DEF Row
<1>3. 0 \in Nat
  OBVIOUS
<1> QED
  BY <1>1, <1>2, <1>3, Zenon DEF Stored

----------------------------------------------------------------------------
(* SetToSeqs lists every element of a finite set once. *)
LEMMA ListOf ==
    ASSUME NEW S, IsFiniteSet(S), NEW s \in SetToSeqs(S)
    PROVE  /\ s \in Seq(S)
           /\ \A i, j \in DOMAIN s : i # j => s[i] # s[j]
           /\ \A x \in S : \E i \in DOMAIN s : s[i] = x
<1> DEFINE n == Cardinality(S)
           T == {s[i] : i \in 1..n}
<1>1. n \in Nat /\ s \in [1..n -> S] /\ \A i, j \in 1..n : i # j => s[i] # s[j]
  BY FS_CardinalityType DEF SetToSeqs
<1> HIDE DEF n
<1>2. s \in Bijection(1..n, T)
  <2>1. s \in [1..n -> T]
    BY <1>1
  <2>2. s \in Injection(1..n, T)
    BY <1>1, <2>1 DEF Injection, IsInjective
  <2>3. s \in Surjection(1..n, T)
    BY <2>1 DEF Surjection
  <2> QED
    BY <2>2, <2>3 DEF Bijection
<1>3. IsFiniteSet(1..n) /\ Cardinality(1..n) = n
  BY <1>1, FS_Interval
<1>4. Cardinality(T) = n
  BY <1>2, <1>3, FS_Bijection DEF ExistsBijection
<1>5. T \subseteq S
  BY <1>1
<1>6. T = S
  BY <1>4, <1>5, FS_Subset DEF n
<1>7. s \in Seq(S)
  BY <1>1
<1> QED
  BY <1>1, <1>6, <1>7

----------------------------------------------------------------------------
(* The fold of _flush_chunk over a chunk. *)

(* Induction over the natural numbers, for a set instead of a predicate. *)
LEMMA SetInduction ==
    ASSUME NEW P \in SUBSET Nat, 0 \in P, \A n \in P : n + 1 \in P
    PROVE  P = Nat
<1> SUFFICES ASSUME Nat \ P # {} PROVE FALSE
  OBVIOUS
<1>1. PICK d \in Nat \ P : \A e \in Nat \ P : d <= e
  BY LeastOf
<1>2. d # 0 /\ d - 1 \in Nat /\ ~(d <= d - 1)
  OBVIOUS
<1>3. d - 1 \in P
  BY <1>1, <1>2
<1>4. (d - 1) + 1 = d
  OBVIOUS
<1> QED
  BY <1>3, <1>4

(* A nonempty set of numbers up to n has a largest one, which is Max. *)
LEMMA MaxOf ==
    ASSUME NEW n \in Nat, NEW S \in SUBSET (1..n), S # {}
    PROVE  Max(S) \in S /\ \A i \in S : i <= Max(S)
<1> DEFINE Distances == {n - j : j \in S}
<1>1. Distances \in SUBSET Nat /\ Distances # {}
  <2>1. \A j \in S : n - j \in Nat
    OBVIOUS
  <2> QED
    BY <2>1
<1>2. PICK d \in Distances : \A e \in Distances : d <= e
  BY <1>1, LeastOf
<1>3. PICK j \in S : d = n - j
  OBVIOUS
<1>4. \A i \in S : j >= i
  <2> TAKE i \in S
  <2>1. n - j <= n - i
    BY <1>2, <1>3
  <2> QED
    BY <2>1
<1> QED
  BY <1>4 DEF Max

(* What a row of the chunk does to the rows in the session. *)
Offered(acc, r) == IF Takes(r, acc[r.car]) THEN [acc EXCEPT ![r.car] = Made(r)] ELSE acc

(* g is the fold of Offered over every subset of the first n places of q. *)
Folding(g, t, q, n) ==
    g = [s \in SUBSET (1..n) |-> IF s = {} THEN t ELSE Offered(g[s \ {Max(s)}], q[Max(s)])]

(* Merged is such a fold, and no fold is needed that does not exist. *)
LEMMA MergedFolds ==
    ASSUME NEW n \in Nat, NEW q, DOMAIN q = 1..n
    PROVE  Merged(q) = (CHOOSE g : Folding(g, table, q, n))[1..n]
BY DEF Merged, FoldLeft, MapThenFoldSet, Folding, Offered

(* There is such a fold for every chunk. *)
LEMMA FoldingExists ==
    ASSUME NEW t, NEW q, NEW m \in Nat
    PROVE  \E g : Folding(g, t, q, m)
<1> DEFINE P == {n \in Nat : \E g : Folding(g, t, q, n)}
<1>1. 0 \in P
  <2>1. 1..0 = {}
    OBVIOUS
  <2>2. Folding([s \in SUBSET (1..0) |-> t], t, q, 0)
    BY <2>1 DEF Folding
  <2> QED
    BY <2>2
<1>2. ASSUME NEW n \in P PROVE n + 1 \in P
  <2>1. PICK g : Folding(g, t, q, n)
    OBVIOUS
  <2> DEFINE h == [s \in SUBSET (1..(n + 1)) |->
                     IF n + 1 \in s THEN Offered(g[s \ {n + 1}], q[n + 1]) ELSE g[s]]
  <2>2. ASSUME NEW s \in SUBSET (1..(n + 1))
        PROVE  h[s] = IF s = {} THEN t ELSE Offered(h[s \ {Max(s)}], q[Max(s)])
    <3>1. CASE n + 1 \in s
      <4>1. Max(s) = n + 1
        <5>1. n + 1 \in Nat /\ s # {} /\ s \subseteq 1..(n + 1)
          BY <3>1
        <5>2. Max(s) \in s /\ \A i \in s : i <= Max(s)
          BY <5>1, MaxOf
        <5>3. \A i \in 1..(n + 1) : n + 1 <= i => i = n + 1
          OBVIOUS
        <5> QED
          BY <5>1, <5>2, <5>3, <3>1
      <4>2. h[s \ {n + 1}] = g[s \ {n + 1}]
        OBVIOUS
      <4>3. h[s] = Offered(g[s \ {n + 1}], q[n + 1])
        BY <3>1
      <4> HIDE DEF h
      <4> QED
        BY <3>1, <4>1, <4>2, <4>3
    <3>2. CASE n + 1 \notin s
      <4>1. s \in SUBSET (1..n)
        BY <3>2
      <4>2. h[s] = g[s]
        BY <3>2
      <4>3. CASE s = {}
        BY <2>1, <4>1, <4>2, <4>3 DEF Folding
      <4>4. CASE s # {}
        <5>1. Max(s) \in s
          BY MaxOf, <4>1, <4>4
        <5>2. h[s \ {Max(s)}] = g[s \ {Max(s)}]
          BY <3>2
        <5>3. g[s] = Offered(g[s \ {Max(s)}], q[Max(s)])
          BY <2>1, <4>1, <4>4 DEF Folding
        <5> HIDE DEF h
        <5> QED
          BY <4>2, <4>4, <5>2, <5>3
      <4> QED
        BY <4>3, <4>4
    <3> QED
      BY <3>1, <3>2
  <2>3. h = [s \in SUBSET (1..(n + 1)) |-> h[s]]
    OBVIOUS
  <2>4. Folding(h, t, q, n + 1)
    <3> HIDE DEF h
    <3> QED
      BY <2>2, <2>3 DEF Folding
  <2>5. n + 1 \in Nat
    OBVIOUS
  <2> QED
    BY <2>4, <2>5
<1>3. P = Nat
  <2>1. P \subseteq Nat
    OBVIOUS
  <2> HIDE DEF P
  <2> QED
    BY <1>1, <1>2, <2>1, SetInduction
<1> QED
  BY <1>3

(* What it says of the first k + 1 rows, given the first k. *)
LEMMA FoldingStep ==
    ASSUME NEW g, NEW t, NEW q, NEW n \in Nat, Folding(g, t, q, n)
    PROVE  g[{}] = t /\ \A k \in 0..(n - 1) : g[1..(k + 1)] = Offered(g[1..k], q[k + 1])
<1>1. g[{}] = t
  BY DEF Folding
<1>2. ASSUME NEW k \in 0..(n - 1)
      PROVE  g[1..(k + 1)] = Offered(g[1..k], q[k + 1])
  <2>1. 1..(k + 1) \in SUBSET (1..n) /\ k + 1 \in 1..(k + 1)
    OBVIOUS
  <2>2. Max(1..(k + 1)) = k + 1
    <3>1. /\ Max(1..(k + 1)) \in 1..(k + 1)
          /\ \A i \in 1..(k + 1) : i <= Max(1..(k + 1))
      BY MaxOf, <2>1
    <3> QED
      BY <2>1, <3>1
  <2>3. (1..(k + 1)) \ {k + 1} = 1..k
    OBVIOUS
  <2>4. 1..(k + 1) # {}
    BY <2>1
  <2> QED
    BY <2>1, <2>2, <2>3, <2>4 DEF Folding
<1> QED
  BY <1>1, <1>2

(* The row of c after the first k rows of the chunk, from what was stored. *)
AfterRows(chunk, k, c, old, row) ==
    /\ row \in Stored
    /\ row = old \/ \E i \in 1..k : chunk[i].car = c /\ row = Made(chunk[i])
    /\ old.id => row.id \/ \E i \in 1..k : chunk[i].car = c /\ ~chunk[i].id
    /\ row.stamp < old.stamp =>
            \/ ~old.id
            \/ \E i, j \in 1..k : /\ i < j /\ chunk[i].car = c /\ chunk[j].car = c
                                  /\ ~chunk[i].id /\ chunk[j].id

(* A row that is taken follows the row in the session. *)
LEMMA OneRowMore ==
    ASSUME NEW chunk, NEW k \in Nat, NEW c \in Cars, NEW old \in Stored, NEW row,
           chunk[k + 1] \in InputRow, chunk[k + 1].car = c, AfterRows(chunk, k, c, old, row),
           Takes(chunk[k + 1], row)
    PROVE  AfterRows(chunk, k + 1, c, old, Made(chunk[k + 1]))
<1> DEFINE r == chunk[k + 1]
<1>1. /\ Made(r) \in Stored /\ Made(r).stamp = r.stamp /\ Made(r).id = r.id
      /\ r.stamp \in Nat /\ r.id \in BOOLEAN
  BY MadeIs DEF Stored, InputRow
<1>2. k + 1 \in 1..(k + 1) /\ \A i \in 1..k : i \in 1..(k + 1) /\ i < k + 1
  OBVIOUS
<1>3. row \in Stored /\ row.stamp \in Int /\ old.stamp \in Int
  BY RowsAre DEF AfterRows
<1>4. row = Absent => row.stamp < r.stamp
  BY <1>1, RowsAre
<1>5. row.stamp = 0 \/ r.stamp > row.stamp => row.stamp <= r.stamp
  BY <1>1, <1>3
<1>6. row.stamp <= r.stamp \/ (~row.id /\ r.id)
  BY <1>1, <1>3, <1>4, <1>5 DEF Takes, Newer
<1>7. old.id => r.id \/ \E i \in 1..(k + 1) : chunk[i].car = c /\ ~chunk[i].id
  BY <1>2
<1>8. ASSUME r.stamp < old.stamp, old.id
      PROVE  \E i, j \in 1..(k + 1) : /\ i < j /\ chunk[i].car = c /\ chunk[j].car = c
                                      /\ ~chunk[i].id /\ chunk[j].id
  <2>1. CASE row.stamp <= r.stamp
    <3>1. row.stamp < old.stamp
      BY <1>1, <1>3, <1>8, <2>1
    <3> QED
      BY <1>2, <1>8, <3>1 DEF AfterRows
  <2>2. CASE ~row.id /\ r.id
    <3>1. PICK i \in 1..k : chunk[i].car = c /\ ~chunk[i].id
      BY <1>8, <2>2 DEF AfterRows
    <3> QED
      BY <1>2, <2>2, <3>1
  <2> QED
    BY <1>6, <2>1, <2>2
<1> QED
  BY <1>1, <1>2, <1>7, <1>8 DEF AfterRows

(* _flush_chunk: every row of the session follows the stored one. *)
LEMMA MergedRows ==
    ASSUME table \in [Cars -> Stored], NEW chunk \in Seq(InputRow)
    PROVE  /\ Merged(chunk) \in [Cars -> Stored]
           /\ \A c \in Cars : AfterRows(chunk, Len(chunk), c, table[c], Merged(chunk)[c])
<1> DEFINE n == Len(chunk)
           g == CHOOSE g : Folding(g, table, chunk, n)
           Sure(k) == /\ g[1..k] \in [Cars -> Stored]
                      /\ \A c \in Cars : AfterRows(chunk, k, c, table[c], g[1..k][c])
           P == {k \in Nat : k <= n => Sure(k)}
<1>1. n \in Nat /\ DOMAIN chunk = 1..n /\ \A i \in 1..n : chunk[i] \in InputRow
  OBVIOUS
<1>2. Folding(g, table, chunk, n)
  BY <1>1, FoldingExists
<1>3. Merged(chunk) = g[1..n]
  BY <1>1, MergedFolds
<1> HIDE DEF g, n
<1>4. 0 \in P
  <2>1. 1..0 = {} /\ g[{}] = table
    BY <1>1, <1>2, FoldingStep
  <2>2. \A c \in Cars : table[c].stamp \in Int
    BY RowsAre DEF Stored
  <2> QED
    BY <2>1, <2>2 DEF AfterRows
<1>5. ASSUME NEW k \in P PROVE k + 1 \in P
  <2> SUFFICES ASSUME k + 1 <= n PROVE Sure(k + 1)
    OBVIOUS
  <2>1. k \in Nat /\ k <= n /\ k \in 0..(n - 1) /\ k + 1 \in 1..n
    BY <1>1
  <2>2. Sure(k)
    BY <2>1
  <2> DEFINE acc == g[1..k]
             r == chunk[k + 1]
  <2>3. g[1..(k + 1)] = Offered(acc, r)
    BY <1>1, <1>2, <2>1, FoldingStep
  <2>4. r \in InputRow /\ r.car \in Cars
    BY <1>1, <2>1 DEF InputRow
  <2>5. \A c \in Cars : AfterRows(chunk, k + 1, c, table[c], acc[c])
    <3>1. \A i \in 1..k : i \in 1..(k + 1)
      BY <2>1
    <3> QED
      BY <2>2, <3>1 DEF AfterRows
  <2>6. Takes(r, acc[r.car]) => AfterRows(chunk, k + 1, r.car, table[r.car], Made(r))
    <3>1. AfterRows(chunk, k, r.car, table[r.car], acc[r.car]) /\ table[r.car] \in Stored
      BY <2>2, <2>4
    <3> QED
      BY <2>1, <2>4, <3>1, OneRowMore
  <2>7. acc \in [Cars -> Stored] /\ Made(r) \in Stored
    BY <2>2, <2>4, MadeIs DEF Stored
  <2> HIDE DEF acc, r
  <2> QED
    BY <2>3, <2>4, <2>5, <2>6, <2>7 DEF Offered
<1>6. P = Nat
  <2>1. P \subseteq Nat
    OBVIOUS
  <2> HIDE DEF P
  <2> QED
    BY <1>4, <1>5, <2>1, SetInduction
<1>7. Sure(n)
  BY <1>1, <1>6
<1> QED
  BY <1>3, <1>7 DEF n

(* The lines of the input are rows of it. *)
LEMMA LinesAre == Lines \subseteq InputRow
<1> SUFFICES ASSUME NEW p \in Procs, NEW u \in DOMAIN Input[p]
             PROVE  ToSet(Input[p][u]) \subseteq InputRow
  BY DEF Lines
<1>1. Input[p] \in Seq(Seq(InputRow) \ {<<>>})
  BY InputAssumption
<1>2. Input[p][u] \in Seq(InputRow)
  BY <1>1, ElementOfSeq
<1> QED
  BY <1>2 DEF ToSet

(* A line of the input is one of the sources of its car. *)
LEMMA FromLine ==
    ASSUME NEW r \in Lines
    PROVE  /\ IsWhole(r.car, Made(r)) /\ IsEntire(r.car, Made(r))
           /\ IsAliased(Made(r)) /\ Made(r) \in Row
<1>1. /\ r \in InputRow /\ r.car \in Cars
      /\ Canon(Made(r)) = Canon(r) /\ Inspected(Made(r)) = Inspected(r)
  BY LinesAre, MadeIs DEF InputRow
<1>2. r \in RowsOf(r.car)
  BY DEF RowsOf
<1>3. Canon(r) \in Sources[r.car] /\ Inspected(r) \in Entries[r.car]
  BY <1>1, <1>2 DEF Sources, Entries
<1> QED
  BY <1>1, <1>3, MadeIs, RowsAre DEF IsWhole, IsEntire, IsAliased

(* What _flush_chunk stores follows what it found, and is made of a line   *)
(* of the input where it differs.                                          *)
LEMMA MergedFollows ==
    ASSUME table \in [Cars -> Stored], NEW chunk \in Seq(InputRow), ToSet(chunk) \subseteq Lines,
           NEW c \in Cars
    PROVE  /\ Merged(chunk) \in [Cars -> Stored]
           /\ Follows("import", chunk, c, table[c], Merged(chunk)[c])
           /\ Merged(chunk)[c] # table[c] =>
                \E r \in Lines : r.car = c /\ Merged(chunk)[c] = Made(r) /\ Made(r) \in Row
<1> DEFINE row == Merged(chunk)[c]
<1>1. /\ Merged(chunk) \in [Cars -> Stored] /\ Len(chunk) \in Nat /\ DOMAIN chunk = 1..Len(chunk)
      /\ AfterRows(chunk, Len(chunk), c, table[c], row)
  BY MergedRows
<1>2. ASSUME NEW i \in DOMAIN chunk
      PROVE  chunk[i] \in Lines /\ chunk[i] \in InputRow
  <2>1. chunk[i] \in InputRow
    OBVIOUS
  <2> QED
    BY <2>1 DEF ToSet
<1> HIDE DEF row
<1>3. row # table[c] => \E r \in Lines : r.car = c /\ row = Made(r) /\ r \in InputRow
  BY <1>1, <1>2 DEF AfterRows
<1>4. row.stamp < table[c].stamp => ~table[c].id \/ Excused("import", chunk, c)
  BY <1>1 DEF AfterRows, Excused, Refills
<1>5. CASE row = table[c]
  <2>1. IsAliased(row) \in BOOLEAN /\ IsWhole(c, row) \in BOOLEAN /\ IsEntire(c, row) \in BOOLEAN
    BY DEF IsAliased, IsWhole, IsEntire
  <2> QED
    BY <1>1, <1>4, <1>5, <2>1 DEF Follows, row
<1>6. CASE row # table[c]
  <2>1. PICK r \in Lines : r.car = c /\ row = Made(r) /\ r \in InputRow
    BY <1>3, <1>6
  <2>2. IsWhole(c, row) /\ IsEntire(c, row) /\ IsAliased(row) /\ row \in Row
    BY <2>1, FromLine
  <2>3. row # Absent
    BY <2>2, RowsAre
  <2>4. Follows("import", chunk, c, table[c], row)
    BY <1>4, <2>2, <2>3 DEF Follows
  <2> QED
    BY <1>1, <2>1, <2>2, <2>4 DEF row
<1> QED
  BY <1>5, <1>6

----------------------------------------------------------------------------
(* What one statement makes of one row. *)

Ops == {"update", "insert", "upsert", "fuel", "color", "delete"}

(* The fields of a statement. *)
LEMMA StatementIs ==
    ASSUME NEW s \in Statements
    PROVE  /\ s.op \in Ops
           /\ s.op = "update" => s.from \in Row
           /\ s.op \in {"update", "insert", "upsert"} => s.car \in Cars /\ s.to \in Row
           /\ s.op = "fuel" => s.from \in SUBSET Fragments /\ s.to \in SUBSET Fragments
           /\ s.op = "color" => s.from \in DOMAIN Attr /\ s.to \in DOMAIN Attr
BY DEF Statements, Ops

(* The statement can be executed on the row. *)
Allowed(s, row) == (s.op = "insert" => row = Absent) /\ (s.op = "update" => row # Absent)

(* An UPDATE of the session leaves a row, and the one it means to if it    *)
(* finds the one that was read.                                            *)
LEMMA UpdatedIs ==
    ASSUME NEW s \in Statements, s.op = "update", NEW row \in Row
    PROVE  Updated(s, row) \in Row /\ (s.from = row => Updated(s, row) = s.to)
<1>1. s.to \in Row
  BY StatementIs
<1>2. Updated(s, row) \in Row
  <2>1. /\ Updated(s, row).stamp \in {s.to.stamp, row.stamp}
        /\ Updated(s, row).id \in {s.to.id, row.id}
        /\ Updated(s, row).color \in {s.to.color, row.color}
        /\ Updated(s, row).alias \in {s.to.alias, row.alias}
        /\ Updated(s, row).fuel \in {s.to.fuel, row.fuel}
        /\ Updated(s, row).grade \in {s.to.grade, row.grade}
        /\ Updated(s, row).inspected \in {s.to.inspected, row.inspected}
    BY DEF Updated
  <2> QED
    BY <1>1, <2>1 DEF Updated, Row
<1>3. s.from = row => Updated(s, row) = s.to
  BY <1>1 DEF Updated, Row
<1> QED
  BY <1>2, <1>3

(* Every statement leaves a row or none. *)
LEMMA WrittenType ==
    ASSUME NEW s \in Statements, NEW c \in Cars, NEW row \in Stored,
           Selects(s, c, row), Allowed(s, row)
    PROVE  Written(s, row) \in Stored
<1>1. CASE s.op = "update"
  <2>1. row \in Row
    BY <1>1, RowsAre DEF Allowed
  <2> QED
    BY <1>1, <2>1, UpdatedIs DEF Written, Stored
<1>2. CASE s.op = "insert"
  BY <1>2, StatementIs DEF Written, Stored
<1>3. CASE s.op = "upsert"
  <2>1. s.to \in Row /\ row.alias \in DOMAIN Attr \cup {""} /\ row.inspected \in Nat
    BY <1>3, StatementIs, AliasIs
  <2>2. [s.to EXCEPT !.alias = row.alias, !.inspected = row.inspected] \in Row
    BY <2>1 DEF Row
  <2> QED
    BY <1>3, <2>2 DEF Written, Upserted, Stored
<1>4. CASE s.op = "fuel"
  <2>1. row \in Row /\ s.to \in SUBSET Fragments
    BY <1>4, StatementIs, RowsAre DEF Selects
  <2>2. [row EXCEPT !.fuel = s.to] \in Row
    BY <2>1 DEF Row
  <2> QED
    BY <1>4, <2>2 DEF Written, Stored
<1>5. CASE s.op = "color"
  <2>1. row \in Row /\ s.to \in DOMAIN Attr
    BY <1>5, StatementIs, RowsAre DEF Selects
  <2>2. [row EXCEPT !.color = s.to] \in Row
    BY <2>1 DEF Row
  <2> QED
    BY <1>5, <2>2 DEF Written, Stored
<1>6. CASE s.op = "delete"
  BY <1>6, RowsAre DEF Written
<1> QED
  BY <1>1, <1>2, <1>3, <1>4, <1>5, <1>6, StatementIs DEF Ops

(* Follows is kept when a row is replaced by one under another name of its *)
(* fuel or, by remap_vehicle_attrs, of its color.                          *)
LEMMA FollowsRenamed ==
    ASSUME NEW k, NEW chunk, NEW c, NEW old, NEW row \in Row, NEW new \in Renamed(row),
           Follows(k, chunk, c, old, row), new.color = row.color \/ k = "colors"
    PROVE  Follows(k, chunk, c, old, new)
<1>1. /\ new \in Row /\ Canon(new) = Canon(row) /\ new.stamp = row.stamp
      /\ new.alias = row.alias /\ new.inspected = row.inspected
  BY RenamedIs
<1>2. row # Absent /\ new # Absent
  BY <1>1, RowsAre
<1>3. (IsWhole(c, new) <=> IsWhole(c, row)) /\ (IsEntire(c, new) <=> IsEntire(c, row))
  BY <1>1, <1>2 DEF IsWhole, IsEntire, Inspected
<1>4. IsAliased(row) => IsAliased(new) \/ k = "colors"
  BY <1>1, <1>2 DEF IsAliased
<1> QED
  BY <1>1, <1>2, <1>3, <1>4 DEF Follows

(* A statement leaves a row that follows the committed one, if the row was *)
(* such before and, for an UPDATE of the session, is the row it read.      *)
LEMMA WrittenFollows ==
    ASSUME NEW k, NEW ph, NEW chunk, NEW s \in Statements, NEW c \in Cars,
           NEW old \in Stored, NEW row \in Stored,
           Fits(k, ph, chunk, s), Selects(s, c, row), Allowed(s, row),
           Follows(k, chunk, c, old, row), Current(k, chunk, c, old, row, s)
    PROVE  Follows(k, chunk, c, old, Written(s, row))
<1>1. CASE s.op = "update"
  <2>1. c = s.car /\ row \in Row
    BY <1>1, RowsAre DEF Selects, Allowed
  <2>2. s.from = row /\ Follows(k, chunk, c, old, s.to)
    BY <1>1, <2>1 DEF Current
  <2>3. Written(s, row) = s.to
    BY <1>1, <2>1, <2>2, UpdatedIs DEF Written
  <2> QED
    BY <2>2, <2>3
<1>2. CASE s.op = "insert"
  <2>1. k = "import" /\ row = Absent /\ c = s.car /\ Written(s, row) = s.to
    BY <1>2 DEF Fits, Allowed, Selects, Written
  <2>2. old = Absent
    BY <2>1 DEF Follows
  <2>3. PICK r \in Lines : r.car = c /\ s.to = Made(r)
    BY <1>2, <2>1 DEF Fits
  <2>4. r \in InputRow
    BY <2>3, LinesAre
  <2>5. IsWhole(c, s.to) /\ IsEntire(c, s.to) /\ IsAliased(s.to) /\ s.to \in Row
    BY <2>3, <2>4, FromLine
  <2>6. s.to # Absent /\ s.to.stamp \in Nat /\ old.stamp = -1
    BY <2>2, <2>5, RowsAre DEF Stored
  <2>7. ~(s.to.stamp < old.stamp)
    BY <2>6
  <2> QED
    BY <2>1, <2>5, <2>6, <2>7 DEF Follows
<1>3. CASE s.op = "upsert"
  <2>1. k = "bulk" /\ c = s.car /\ Written(s, row) = Upserted(s.to, row)
    BY <1>3 DEF Fits, Selects, Written
  <2>2. CASE Upserted(s.to, row) = row
    BY <2>1, <2>2
  <2>3. CASE Upserted(s.to, row) # row
    <3> DEFINE new == [s.to EXCEPT !.alias = row.alias, !.inspected = row.inspected]
    <3>1. /\ Upserted(s.to, row) = new
          /\ row = Absent \/ row.stamp = 0 \/ s.to.stamp = 0 \/ s.to.stamp > row.stamp
      BY <2>3 DEF Upserted
    <3>2. PICK i \in KeptRows(chunk) : /\ chunk[i] \in Lines /\ chunk[i].car = c
                                       /\ s.to = Made(chunk[i])
      BY <1>3, <2>1 DEF Fits
    <3>3. Made(chunk[i]).stamp = chunk[i].stamp
      BY <3>2, LinesAre, MadeIs
    <3>4. IsWhole(c, s.to) /\ s.to \in Row /\ s.to.stamp = chunk[i].stamp /\ s.to.stamp \in Nat
      <4>1. IsWhole(c, s.to) /\ s.to \in Row
        BY <3>2, FromLine
      <4> QED
        BY <3>2, <3>3, <4>1 DEF Row
    <3>5. row.alias \in DOMAIN Attr \cup {""} /\ row.inspected \in Nat
      BY AliasIs
    <3>6. /\ new \in Row /\ Canon(new) = Canon(s.to) /\ new.stamp = s.to.stamp
          /\ new.inspected = row.inspected
      BY <3>4, <3>5 DEF Row, Canon
    <3>7. new # Absent /\ s.to # Absent
      BY <3>4, <3>6, RowsAre
    <3>8. IsWhole(c, new)
      BY <3>4, <3>6, <3>7 DEF IsWhole
    <3>9. new.stamp < old.stamp => ~old.id \/ Excused(k, chunk, c)
      <4> SUFFICES ASSUME new.stamp < old.stamp, s.to.stamp # 0
                   PROVE  ~old.id \/ Excused(k, chunk, c)
        BY <3>2, <3>4, <2>1, <3>6 DEF Excused, StoresUnstamped
      <4>1. old.stamp \in Int /\ row.stamp \in Int
        BY RowsAre
      <4>2. row # Absent
        <5>1. ~(s.to.stamp < -1)
          BY <3>4
        <5>2. old # Absent
          BY <3>6, <5>1, RowsAre
        <5> QED
          BY <2>1, <5>2 DEF Follows
      <4>3. row.stamp = 0 \/ s.to.stamp > row.stamp
        BY <3>1, <4>2
      <4>4. row.stamp < old.stamp
        BY <3>4, <3>6, <4>1, <4>3
      <4> QED
        BY <4>2, <4>4 DEF Follows
    <3>10. new.inspected = old.inspected
      BY <2>1, <3>6 DEF Follows
    <3> HIDE DEF new
    <3> QED
      BY <2>1, <3>1, <3>7, <3>8, <3>9, <3>10 DEF Follows
  <2> QED
    BY <2>2, <2>3
<1>4. CASE s.op = "fuel"
  <2>1. row \in Row /\ row.fuel = s.from /\ s.to = InferFuel(s.from, {})
    BY <1>4, RowsAre DEF Selects, Fits
  <2>2. Written(s, row) \in Renamed(row) /\ Written(s, row).color = row.color
    BY <1>4, <2>1 DEF Written, Renamed, Row
  <2> QED
    BY <2>1, <2>2, FollowsRenamed
<1>5. CASE s.op = "color"
  <2>1. row \in Row /\ row.color = s.from /\ s.to = Attr[s.from] /\ k = "colors"
    BY <1>5, RowsAre DEF Selects, Fits
  <2>2. Written(s, row) \in Renamed(row)
    BY <1>5, <2>1 DEF Written, Renamed
  <2> QED
    BY <2>1, <2>2, FollowsRenamed
<1>6. CASE s.op = "delete"
  BY <1>6 DEF Written, Follows, IsWhole, IsEntire, Fits
<1> QED
  BY <1>1, <1>2, <1>3, <1>4, <1>5, <1>6, StatementIs DEF Ops

----------------------------------------------------------------------------
(* What one statement does to the rows that a process sees. *)

(* The parts of a sequence that is not empty. *)
LEMMA TailIs ==
    ASSUME NEW S, NEW pl \in Seq(S), pl # <<>>
    PROVE  /\ Head(pl) = pl[1] /\ Head(pl) \in S /\ 1 \in DOMAIN pl
           /\ Tail(pl) \in Seq(S)
           /\ \A i \in DOMAIN Tail(pl) : i + 1 \in DOMAIN pl /\ i + 1 # 1 /\ Tail(pl)[i] = pl[i + 1]
           /\ \A i \in DOMAIN pl : i # 1 => i - 1 \in DOMAIN Tail(pl) /\ Tail(pl)[i - 1] = pl[i]
           /\ \A i, j \in DOMAIN Tail(pl) : i # j => i + 1 # j + 1
<1>1. Len(pl) \in Nat /\ Len(pl) # 0 /\ DOMAIN pl = 1..Len(pl)
  BY EmptySeq
<1>2. /\ Tail(pl) \in Seq(S) /\ Len(Tail(pl)) = Len(pl) - 1
      /\ \A i \in 1..(Len(pl) - 1) : Tail(pl)[i] = pl[i + 1]
  BY <1>1
<1>3. DOMAIN Tail(pl) = 1..(Len(pl) - 1)
  BY <1>2
<1>4. Head(pl) = pl[1] /\ 1 \in DOMAIN pl
  BY <1>1
<1>5. Head(pl) \in S
  BY <1>1, <1>4
<1>6. \A i \in 1..Len(pl) : i # 1 => i - 1 \in 1..(Len(pl) - 1) /\ Tail(pl)[i - 1] = pl[(i - 1) + 1]
  BY <1>1, <1>2
<1>7. \A i \in 1..Len(pl) : (i - 1) + 1 = i
  OBVIOUS
<1>8. \A i \in 1..(Len(pl) - 1) : i + 1 \in 1..Len(pl) /\ i + 1 # 1
  BY <1>1
<1>9. \A i, j \in 1..(Len(pl) - 1) : i # j => i + 1 # j + 1
  BY <1>1
<1> QED
  BY <1>1, <1>2, <1>3, <1>4, <1>5, <1>6, <1>7, <1>8, <1>9

(* w is what the process sees after a statement, if it saw v. *)
Executes(s, v, w) ==
    \A c \in Cars : w[c] = IF Selects(s, c, v[c]) THEN Written(s, v[c]) ELSE v[c]

(* What is known of a statement from the kind and the phase of its run. *)
LEMMA FitsIs ==
    ASSUME NEW s \in Statements, NEW k, NEW ph, NEW chunk, Fits(k, ph, chunk, s)
    PROVE  /\ s.op = "update" => k = "import" \/ (k = "fuels" /\ ph = "left" /\ s.to = Refueled(s.from))
           /\ k \in {"import"} \/ (k = "fuels" /\ ph = "left") => s.op \in Placed
           /\ k = "colors" => s.op = "color" /\ s.to = Attr[s.from]
<1>1. s.op \in Ops
  BY StatementIs
<1> QED
  BY <1>1 DEF Ops, Fits, Placed

(* A statement leaves the rest of the plan consistent with what the        *)
(* process sees.                                                           *)
LEMMA StatementKeeps ==
    ASSUME NEW k, NEW ph, NEW chunk, NEW t \in [Cars -> Stored], NEW v \in [Cars -> Stored],
           NEW w, NEW pl \in Seq(Statements), NEW di, pl # <<>>,
           Executes(Head(pl), v, w),
           \A c \in Cars : Selects(Head(pl), c, v[c]) => Allowed(Head(pl), v[c]),
           Consistent(k, ph, chunk, t, v, pl, di)
    PROVE  Consistent(k, ph, chunk, t, w, Tail(pl), di)
<1> DEFINE s == Head(pl)
<1>1. /\ s = pl[1] /\ s \in Statements /\ 1 \in DOMAIN pl
      /\ \A i \in DOMAIN Tail(pl) : i + 1 \in DOMAIN pl /\ i + 1 # 1 /\ Tail(pl)[i] = pl[i + 1]
      /\ \A i \in DOMAIN pl : i # 1 => i - 1 \in DOMAIN Tail(pl) /\ Tail(pl)[i - 1] = pl[i]
      /\ \A i, j \in DOMAIN Tail(pl) : i # j => i + 1 # j + 1
  BY TailIs
<1>2. \A i \in DOMAIN pl : pl[i] \in Statements /\ Fits(k, ph, chunk, pl[i])
  BY DEF Consistent, PlanFits
<1> HIDE DEF s
<1>3. /\ \A c \in Cars : w[c] = IF Selects(s, c, v[c]) THEN Written(s, v[c]) ELSE v[c]
      /\ \A c \in Cars : Selects(s, c, v[c]) => Allowed(s, v[c])
  BY DEF Executes, s
<1>4. PlanFits(k, ph, chunk, Tail(pl))
  BY <1>1 DEF Consistent, PlanFits
<1>5. PlanCurrent(k, chunk, t, w, Tail(pl), di)
  <2> SUFFICES ASSUME NEW c \in Cars \ di, NEW i \in DOMAIN Tail(pl),
                      Tail(pl)[i].op = "update", Tail(pl)[i].car = c
               PROVE  Tail(pl)[i].from = w[c] /\ Follows(k, chunk, c, t[c], Tail(pl)[i].to)
    BY DEF PlanCurrent, Current
  <2>1. /\ i + 1 \in DOMAIN pl /\ i + 1 # 1 /\ Tail(pl)[i] = pl[i + 1]
        /\ pl[i + 1].op = "update" /\ pl[i + 1].car = c
    BY <1>1
  <2>2. pl[i + 1].from = v[c] /\ Follows(k, chunk, c, t[c], pl[i + 1].to)
    BY <2>1 DEF Consistent, PlanCurrent, Current
  <2>3. s.op \in Placed
    BY <1>1, <1>2, <2>1, FitsIs
  <2>4. s.car # c
    BY <1>1, <2>1, <2>3 DEF Consistent, PlanFits, Placed
  <2>5. w[c] = v[c]
    BY <1>3, <2>3, <2>4 DEF Selects, Placed
  <2> QED
    BY <2>1, <2>2, <2>5
<1>6. ViewFollows(k, chunk, t, w, di)
  <2> SUFFICES ASSUME NEW c \in Cars, Guarded(k, di, c)
               PROVE  Follows(k, chunk, c, t[c], w[c])
    BY DEF ViewFollows
  <2>1. Follows(k, chunk, c, t[c], v[c]) /\ t[c] \in Stored /\ v[c] \in Stored
    BY DEF Consistent, ViewFollows
  <2>2. CASE ~Selects(s, c, v[c])
    BY <1>3, <2>1, <2>2
  <2>3. CASE Selects(s, c, v[c])
    <3>1. Current(k, chunk, c, t[c], v[c], s)
      <4> SUFFICES ASSUME s.op = "update" PROVE Current(k, chunk, c, t[c], v[c], s)
        BY DEF Current
      <4>1. k \in {"import", "fuels"}
        BY <1>1, <1>2, FitsIs
      <4>2. c \in Cars \ di
        BY <4>1 DEF Guarded
      <4> QED
        BY <1>1, <4>2 DEF Consistent, PlanCurrent
    <3>2. Allowed(s, v[c]) /\ Fits(k, ph, chunk, s)
      BY <1>1, <1>2, <1>3, <2>3
    <3>3. Follows(k, chunk, c, t[c], Written(s, v[c]))
      BY <1>1, <2>1, <2>3, <3>1, <3>2, WrittenFollows
    <3> QED
      BY <1>3, <2>3, <3>3
  <2> QED
    BY <2>2, <2>3
<1>7. Settling(k, ph, w, Tail(pl), di)
  <2> SUFFICES ASSUME NEW c \in Cars \ di PROVE Awaits(k, ph, c, w[c], Tail(pl))
    BY DEF Settling
  <2>1. Awaits(k, ph, c, v[c], pl) /\ v[c] \in Stored
    BY DEF Consistent, Settling
  <2>2. ASSUME k = "fuels", ph = "left", w[c] # Absent
        PROVE  Refueled(w[c]) = w[c] \/ \E i \in DOMAIN Tail(pl) : /\ Tail(pl)[i].op = "update"
                                                                   /\ Tail(pl)[i].car = c
    <3>1. s.op \in Placed /\ (s.op = "update" => s.to = Refueled(s.from))
      BY <1>1, <1>2, <2>2, FitsIs
    <3>2. s.op = "update"
      BY <1>1, <1>2, <2>2, <3>1 DEF Placed, Fits
    <3>3. CASE s.car = c
      <4>1. s.from = v[c] /\ Selects(s, c, v[c])
        BY <1>1, <3>2, <3>3 DEF Consistent, PlanCurrent, Current, Selects
      <4>2. v[c] \in Row
        BY <1>3, <2>1, <3>2, <4>1, RowsAre DEF Allowed
      <4>3. w[c] = Refueled(v[c])
        BY <1>1, <1>3, <3>1, <3>2, <4>1, <4>2, UpdatedIs DEF Written
      <4> QED
        BY <4>2, <4>3, RefueledIs
    <3>4. CASE s.car # c
      <4>1. w[c] = v[c]
        BY <1>3, <3>2, <3>4 DEF Selects
      <4> QED
        BY <1>1, <2>1, <2>2, <3>4, <4>1 DEF Awaits
    <3> QED
      BY <3>3, <3>4
  <2>3. ASSUME k = "colors", ph = "stmts", w[c] # Absent
        PROVE  w[c].color \in Names \/ \E i \in DOMAIN Tail(pl) : Tail(pl)[i].from = w[c].color
    <3>1. s.op = "color" /\ s.to = Attr[s.from] /\ s.from \in DOMAIN Attr
      BY <1>1, <1>2, <2>3, FitsIs, StatementIs
    <3>2. CASE Selects(s, c, v[c])
      <4>1. v[c] \in Row
        BY <2>1, <3>1, <3>2, RowsAre DEF Selects
      <4>2. w[c] = [v[c] EXCEPT !.color = s.to]
        BY <1>3, <3>1, <3>2 DEF Written
      <4>3. w[c].color = Attr[s.from]
        BY <3>1, <4>1, <4>2 DEF Row
      <4> QED
        BY <3>1, <4>3 DEF Names
    <3>3. CASE ~Selects(s, c, v[c])
      <4>1. w[c] = v[c] /\ s.from # v[c].color
        BY <1>3, <2>3, <3>1, <3>3 DEF Selects
      <4> QED
        BY <1>1, <2>1, <2>3, <4>1 DEF Awaits
    <3> QED
      BY <3>2, <3>3
  <2> QED
    BY <2>2, <2>3 DEF Awaits
<1> QED
  BY <1>4, <1>5, <1>6, <1>7 DEF Consistent

(* A row that is as it was follows itself. *)
LEMMA FollowsItself ==
    ASSUME NEW k, NEW chunk, NEW c, NEW row \in Stored
    PROVE  Follows(k, chunk, c, row, row)
<1>1. row.stamp \in Int
  BY RowsAre
<1>2. IsWhole(c, row) \in BOOLEAN /\ IsEntire(c, row) \in BOOLEAN /\ IsAliased(row) \in BOOLEAN
  BY DEF IsWhole, IsEntire, IsAliased
<1> QED
  BY <1>1, <1>2 DEF Follows

(* v and w are what a process sees before and after another has committed, *)
(* when the table goes from t to u: the rows that it has written are not   *)
(* changed, the others it sees as they are committed.                      *)
Seen(t, u, v, w) ==
    \A c \in Cars : \/ w[c] = v[c] /\ u[c] = t[c]
                    \/ v[c] = t[c] /\ w[c] = u[c]

(* Its plan is as consistent with the new table, disturbed counting in.    *)
LEMMA CommitKeeps ==
    ASSUME NEW k, NEW ph, NEW chunk, NEW t, NEW u \in [Cars -> Stored], NEW v, NEW w, NEW pl,
           NEW di, NEW dj,
           Seen(t, u, v, w), dj = di \cup {c \in Cars : u[c] # t[c]},
           Consistent(k, ph, chunk, t, v, pl, di)
    PROVE  Consistent(k, ph, chunk, u, w, pl, dj)
<1>1. \A c \in Cars \ dj : c \in Cars \ di /\ u[c] = t[c] /\ w[c] = v[c]
  BY DEF Seen
<1>2. PlanCurrent(k, chunk, u, w, pl, dj)
  BY <1>1 DEF Consistent, PlanCurrent
<1>3. Settling(k, ph, w, pl, dj)
  BY <1>1 DEF Consistent, Settling
<1>4. ViewFollows(k, chunk, u, w, dj)
  <2> SUFFICES ASSUME NEW c \in Cars, Guarded(k, dj, c)
               PROVE  Follows(k, chunk, c, u[c], w[c])
    BY DEF ViewFollows
  <2>1. Guarded(k, di, c)
    BY DEF Guarded
  <2>2. CASE w[c] = v[c] /\ u[c] = t[c]
    BY <2>1, <2>2 DEF Consistent, ViewFollows
  <2>3. CASE w[c] = u[c]
    BY <2>3, FollowsItself
  <2> QED
    BY <2>2, <2>3 DEF Seen
<1> QED
  BY <1>2, <1>3, <1>4 DEF Consistent

----------------------------------------------------------------------------
(* The plans that a transaction begins with. *)

(* A transaction begins with the rows that are committed. *)
LEMMA BeginsConsistent ==
    ASSUME table \in [Cars -> Stored], NEW k, NEW ph, NEW chunk, NEW pl,
           PlanFits(k, ph, chunk, pl),
           \A c \in Cars : \A i \in DOMAIN pl : Current(k, chunk, c, table[c], table[c], pl[i]),
           \A c \in Cars : Awaits(k, ph, c, table[c], pl)
    PROVE  Consistent(k, ph, chunk, table, table, pl, {})
<1>1. \A c \in Cars : Follows(k, chunk, c, table[c], table[c])
  BY FollowsItself
<1> QED
  BY <1>1 DEF Consistent, PlanCurrent, ViewFollows, Settling

(* Two plans one after the other. *)
LEMMA JoinIs ==
    ASSUME NEW S, NEW x \in Seq(S), NEW y \in Seq(S)
    PROVE  /\ x \o y \in Seq(S)
           /\ \A i \in DOMAIN (x \o y) :
                \/ i \in DOMAIN x /\ (x \o y)[i] = x[i]
                \/ i - Len(x) \in DOMAIN y /\ i \notin DOMAIN x /\ (x \o y)[i] = y[i - Len(x)]
BY ConcatProperties

(* _flush_chunk *)
LEMMA FlushFits ==
    ASSUME table \in [Cars -> Stored], NEW chunk \in Seq(InputRow), ToSet(chunk) \subseteq Lines,
           NEW old \in ById({c \in Cars : table[c] # Absent /\ Merged(chunk)[c] # table[c]}),
           NEW new \in AsGiven({c \in Cars : table[c] = Absent /\ Merged(chunk)[c] # Absent}, chunk),
           NEW pl, pl = Updates(old, table, Merged(chunk)) \o Inserts(new, Merged(chunk)), NEW ph
    PROVE  pl \in Seq(Statements) /\ Consistent("import", ph, chunk, table, table, pl, {})
<1> DEFINE merged == Merged(chunk)
           changed == {c \in Cars : table[c] # Absent /\ merged[c] # table[c]}
           added == {c \in Cars : table[c] = Absent /\ merged[c] # Absent}
<1>1. old \in SetToSeqs(changed) /\ new \in SetToSeqs(added)
  BY DEF ById, AsGiven, InOrder
<1>2. /\ merged \in [Cars -> Stored]
      /\ \A c \in Cars : Follows("import", chunk, c, table[c], merged[c])
      /\ \A c \in Cars : merged[c] # table[c] =>
            \E r \in Lines : r.car = c /\ merged[c] = Made(r) /\ Made(r) \in Row
  BY MergedRows, MergedFollows
<1> HIDE DEF merged
<1>3. IsFiniteSet(changed) /\ IsFiniteSet(added)
  BY CarsAssumption, FS_Subset
<1>4. /\ old \in Seq(changed) /\ new \in Seq(added)
      /\ \A i, j \in DOMAIN old : i # j => old[i] # old[j]
      /\ \A i, j \in DOMAIN new : i # j => new[i] # new[j]
  <2> HIDE DEF changed, added
  <2>1. old \in Seq(changed) /\ \A i, j \in DOMAIN old : i # j => old[i] # old[j]
    BY <1>1, <1>3, ListOf
  <2>2. new \in Seq(added) /\ \A i, j \in DOMAIN new : i # j => new[i] # new[j]
    BY <1>1, <1>3, ListOf
  <2> QED
    BY <2>1, <2>2
<1>5. \A i \in DOMAIN old : old[i] \in changed
  BY <1>4
<1>6. \A i \in DOMAIN new : new[i] \in added
  BY <1>4
<1>7. \A c \in changed \cup added : c \in Cars /\ merged[c] \in Row
  BY <1>2
<1>8. \A c \in changed : table[c] \in Row
  BY RowsAre
<1> DEFINE x == Updates(old, table, merged)
           y == Inserts(new, merged)
<1>9. x \in Seq(Statements)
  <2>1. \A i \in DOMAIN old : x[i] \in Statements
    BY <1>5, <1>7, <1>8 DEF Statements, Updates
  <2>2. Len(old) \in Nat /\ DOMAIN old = 1..Len(old) /\ DOMAIN x = DOMAIN old
    BY <1>4 DEF Updates
  <2>3. x = [i \in DOMAIN old |-> x[i]]
    BY DEF Updates
  <2> HIDE DEF x
  <2> QED
    BY <2>1, <2>2, <2>3
<1>10. y \in Seq(Statements)
  <2>1. \A i \in DOMAIN new : y[i] \in Statements
    BY <1>6, <1>7 DEF Statements, Inserts
  <2>2. Len(new) \in Nat /\ DOMAIN new = 1..Len(new) /\ DOMAIN y = DOMAIN new
    BY <1>4 DEF Inserts
  <2>3. y = [i \in DOMAIN new |-> y[i]]
    BY DEF Inserts
  <2> HIDE DEF y
  <2> QED
    BY <2>1, <2>2, <2>3
<1>11. /\ DOMAIN x = DOMAIN old /\ DOMAIN y = DOMAIN new
       /\ \A i \in DOMAIN old : /\ x[i].op = "update" /\ x[i].car = old[i]
                                /\ x[i].from = table[old[i]] /\ x[i].to = merged[old[i]]
       /\ \A i \in DOMAIN new : /\ y[i].op = "insert" /\ y[i].car = new[i]
                                /\ y[i].to = merged[new[i]]
  BY DEF Updates, Inserts
<1> HIDE DEF x, y
<1>12. /\ pl \in Seq(Statements)
       /\ \A i \in DOMAIN pl :
            \/ i \in DOMAIN old /\ pl[i] = x[i]
            \/ i - Len(x) \in DOMAIN new /\ i \notin DOMAIN old /\ pl[i] = y[i - Len(x)]
  <2>1. x \in Seq(Statements) /\ y \in Seq(Statements) /\ pl = x \o y
    BY <1>9, <1>10 DEF x, y, merged
  <2> QED
    BY <1>11, <2>1, JoinIs
<1>13. ASSUME NEW i \in DOMAIN pl
       PROVE  /\ Fits("import", ph, chunk, pl[i])
              /\ \A c \in Cars : Current("import", chunk, c, table[c], table[c], pl[i])
  <2>1. CASE i \in DOMAIN old /\ pl[i] = x[i]
    <3>1. /\ pl[i].op = "update" /\ pl[i].car \in Cars
          /\ pl[i].from = table[pl[i].car] /\ pl[i].to = merged[pl[i].car]
      BY <1>5, <1>11, <2>1
    <3> QED
      BY <1>2, <3>1 DEF Fits, Current
  <2>2. CASE i - Len(x) \in DOMAIN new /\ pl[i] = y[i - Len(x)]
    <3> DEFINE j == i - Len(x)
    <3>1. new[j] \in Cars /\ merged[new[j]] # table[new[j]]
      BY <1>6, <2>2
    <3> HIDE DEF j
    <3>2. j \in DOMAIN new /\ pl[i] = y[j]
      BY <2>2 DEF j
    <3>3. \E r \in Lines : r.car = pl[i].car /\ pl[i].to = Made(r)
      BY <1>2, <1>11, <3>1, <3>2
    <3>4. pl[i].op = "insert"
      BY <1>11, <3>2
    <3> QED
      BY <3>3, <3>4 DEF Fits, Current
  <2> QED
    BY <1>12, <2>1, <2>2
<1>14. ASSUME NEW i \in DOMAIN pl, NEW j \in DOMAIN pl, i # j
       PROVE  pl[i].car # pl[j].car
  <2>1. ASSUME NEW a \in DOMAIN old, NEW b \in DOMAIN new PROVE old[a] # new[b]
    <3>1. table[old[a]] # Absent /\ table[new[b]] = Absent
      BY <1>5, <1>6
    <3> QED
      BY <3>1
  <2>2. Len(x) \in Nat /\ i \in Nat /\ j \in Nat
    <3>1. x \in Seq(Statements)
      BY <1>9 DEF x
    <3> QED
      BY <1>12, <3>1
  <2>3. i - Len(x) # j - Len(x)
    BY <1>14, <2>2
  <2>4. CASE i \in DOMAIN old /\ j \in DOMAIN old
    BY <1>4, <1>11, <1>12, <1>14, <2>4
  <2>5. CASE i \notin DOMAIN old /\ j \notin DOMAIN old
    <3> DEFINE a == i - Len(x)
               b == j - Len(x)
    <3>1. a \in DOMAIN new /\ pl[i] = y[a] /\ b \in DOMAIN new /\ pl[j] = y[b] /\ a # b
      BY <1>12, <2>3, <2>5
    <3> HIDE DEF a, b
    <3>2. new[a] # new[b] /\ pl[i].car = new[a] /\ pl[j].car = new[b]
      BY <1>4, <1>11, <3>1
    <3> QED
      BY <3>2
  <2>6. CASE i \in DOMAIN old /\ j \notin DOMAIN old
    BY <1>11, <1>12, <2>1, <2>6
  <2>7. CASE i \notin DOMAIN old /\ j \in DOMAIN old
    BY <1>11, <1>12, <2>1, <2>7
  <2> QED
    BY <2>4, <2>5, <2>6, <2>7
<1>15. \A c \in Cars : Awaits("import", ph, c, table[c], pl)
  BY DEF Awaits
<1>16. PlanFits("import", ph, chunk, pl)
  BY <1>13, <1>14 DEF PlanFits
<1> HIDE DEF changed, added
<1> QED
  BY <1>12, <1>13, <1>15, <1>16, BeginsConsistent

(* collect_rows and upsert_batches: a batch takes rows of its file. *)
LEMMA UpsertFits ==
    ASSUME table \in [Cars -> Stored], NEW file \in Seq(InputRow), ToSet(file) \subseteq Lines,
           NEW n, NEW rows \in SetToSeqs(BatchRows(file, n)),
           NEW pl, pl = [i \in DOMAIN rows |-> [op |-> "upsert", car |-> file[rows[i]].car,
                                                to |-> Made(file[rows[i]])]]
    PROVE  pl \in Seq(Statements) /\ Consistent("bulk", "stmts", file, table, table, pl, {})
<1> DEFINE B == BatchRows(file, n)
<1>1. rows \in SetToSeqs(B) /\ Len(file) \in Nat /\ DOMAIN file = 1..Len(file)
  OBVIOUS
<1>2. /\ B \subseteq DOMAIN file /\ B \subseteq KeptRows(file)
      /\ IsFiniteSet(B)
  <2>1. B \subseteq KeptRows(file) /\ KeptRows(file) \subseteq DOMAIN file
    BY DEF BatchRows, KeptRows
  <2>2. IsFiniteSet(DOMAIN file)
    BY <1>1, FS_Interval
  <2> HIDE DEF B
  <2> QED
    BY <2>1, <2>2, FS_Subset
<1> HIDE DEF B
<1>3. rows \in Seq(B)
  BY <1>1, <1>2, ListOf
<1>4. \A i \in DOMAIN rows : /\ rows[i] \in KeptRows(file) /\ file[rows[i]] \in InputRow
                             /\ file[rows[i]] \in Lines
  <2> SUFFICES ASSUME NEW i \in DOMAIN rows
               PROVE  /\ rows[i] \in KeptRows(file) /\ file[rows[i]] \in InputRow
                      /\ file[rows[i]] \in Lines
    OBVIOUS
  <2>1. rows[i] \in B
    BY <1>3
  <2>2. rows[i] \in KeptRows(file) /\ rows[i] \in DOMAIN file
    BY <1>2, <2>1
  <2>3. file[rows[i]] \in InputRow
    BY <2>2
  <2> QED
    BY <2>2, <2>3 DEF ToSet
<1>5. \A i \in DOMAIN rows : /\ pl[i].op = "upsert" /\ pl[i].car = file[rows[i]].car
                             /\ pl[i].to = Made(file[rows[i]])
  OBVIOUS
<1>6. \A i \in DOMAIN rows : pl[i] \in Statements
  <2> SUFFICES ASSUME NEW i \in DOMAIN rows PROVE pl[i] \in Statements
    OBVIOUS
  <2>1. file[rows[i]].car \in Cars /\ Made(file[rows[i]]) \in Row
    BY <1>4, MadeIs DEF InputRow
  <2> QED
    BY <2>1 DEF Statements
<1>7. pl \in Seq(Statements) /\ DOMAIN pl = DOMAIN rows
  <2>1. Len(rows) \in Nat /\ DOMAIN rows = 1..Len(rows)
    BY <1>3
  <2> QED
    BY <1>6, <2>1
<1>8. PlanFits("bulk", "stmts", file, pl)
  BY <1>4, <1>5, <1>7 DEF PlanFits, Fits, Placed
<1>9. \A c \in Cars : \A i \in DOMAIN pl : Current("bulk", file, c, table[c], table[c], pl[i])
  BY <1>5, <1>7 DEF Current
<1>10. \A c \in Cars : Awaits("bulk", "stmts", c, table[c], pl)
  BY DEF Awaits
<1> QED
  BY <1>7, <1>8, <1>9, <1>10, BeginsConsistent

(* The DELETE of reset_data. *)
LEMMA DeleteFits ==
    ASSUME table \in [Cars -> Stored], NEW chunk
    PROVE  /\ << [op |-> "delete"] >> \in Seq(Statements)
           /\ Consistent("reset", "stmts", chunk, table, table, << [op |-> "delete"] >>, {})
<1> DEFINE pl == << [op |-> "delete"] >>
<1>1. pl[1].op = "delete" /\ DOMAIN pl = {1}
  OBVIOUS
<1>2. pl \in Seq(Statements)
  <2>1. [op |-> "delete"] \in Statements
    BY DEF Statements
  <2> QED
    BY <2>1
<1> HIDE DEF pl
<1>3. PlanFits("reset", "stmts", chunk, pl)
  BY <1>1 DEF PlanFits, Fits, Placed
<1>4. \A c \in Cars : \A i \in DOMAIN pl : Current("reset", chunk, c, table[c], table[c], pl[i])
  BY <1>1 DEF Current
<1>5. \A c \in Cars : Awaits("reset", "stmts", c, table[c], pl)
  BY DEF Awaits
<1>6. Consistent("reset", "stmts", chunk, table, table, pl, {})
  BY <1>3, <1>4, <1>5, BeginsConsistent
<1> QED
  BY <1>2, <1>6 DEF pl

(* The values of a column of the stored rows are finitely many. *)
LEMMA ValuesFinite ==
    ASSUME NEW f, NEW V \in SUBSET {f[c] : c \in StoredCars}
    PROVE  IsFiniteSet(V)
<1> DEFINE T == {f[c] : c \in StoredCars}
           g == [c \in StoredCars |-> f[c]]
<1>1. IsFiniteSet(StoredCars)
  BY CarsAssumption, FS_Subset DEF StoredCars
<1>2. g \in Surjection(StoredCars, T)
  BY DEF Surjection
<1>3. IsFiniteSet(T)
  BY <1>1, <1>2, FS_Surjection
<1> HIDE DEF T, g
<1> QED
  BY <1>3, FS_Subset DEF T

(* _distinct of remap_vehicle_fuels.py and remap_vehicle_attrs.py. *)
LEMMA RemapFuelsFits ==
    ASSUME table \in [Cars -> Stored], NEW chunk,
           NEW pl \in Renames("fuel", FuelNamed)
    PROVE  pl \in Seq(Statements) /\ Consistent("fuels", "stmts", chunk, table, table, pl, {})
<1> DEFINE f == [c \in Cars |-> table[c].fuel]
           V == {v \in {table[c].fuel : c \in StoredCars} : InferFuel(v, {}) # v}
<1>1. IsFiniteSet(V)
  <2>1. V \subseteq {f[c] : c \in StoredCars}
    BY DEF StoredCars
  <2> HIDE DEF V, f
  <2> QED
    BY <2>1, ValuesFinite
<1>2. PICK order \in SetToSeqs(V) :
        pl = [i \in DOMAIN order |-> [op |-> "fuel", from |-> order[i], to |-> InferFuel(order[i], {})]]
  <2>1. {v \in DOMAIN FuelNamed : FuelNamed[v] # v} = V
    BY DEF FuelNamed
  <2>2. PICK order \in SetToSeqs(V) :
          pl = [i \in DOMAIN order |-> [op |-> "fuel", from |-> order[i], to |-> FuelNamed[order[i]]]]
    BY <2>1 DEF Renames
  <2>3. \A i \in DOMAIN order : order[i] \in V
    BY <1>1, <2>2, ListOf
  <2>4. \A v \in V : FuelNamed[v] = InferFuel(v, {})
    BY DEF FuelNamed
  <2> QED
    BY <2>2, <2>3, <2>4
<1>3. \A v \in V : v \in SUBSET Fragments /\ InferFuel(v, {}) \in SUBSET Fragments
  <2>1. \A c \in StoredCars : table[c].fuel \in SUBSET Fragments
    <3>1. \A c \in StoredCars : table[c] \in Row
      BY RowsAre DEF StoredCars
    <3> QED
      BY <3>1 DEF Row
  <2>2. {} \in SUBSET Fragments
    OBVIOUS
  <2> QED
    BY <2>1, <2>2, InferAgain
<1> HIDE DEF V
<1>4. order \in Seq(V)
  BY <1>2, <1>1, ListOf
<1>5. DOMAIN pl = DOMAIN order /\ pl \in Seq(Statements)
  <2>1. \A i \in DOMAIN order : pl[i] \in Statements
    <3>1. \A i \in DOMAIN order : order[i] \in V
      BY <1>4
    <3> QED
      BY <1>2, <1>3, <3>1 DEF Statements
  <2>2. Len(order) \in Nat /\ DOMAIN order = 1..Len(order)
    BY <1>4
  <2> QED
    BY <1>2, <2>1, <2>2
<1>6. \A i \in DOMAIN pl : pl[i].op = "fuel" /\ pl[i].to = InferFuel(pl[i].from, {})
  BY <1>2, <1>5
<1>7. PlanFits("fuels", "stmts", chunk, pl)
  BY <1>6 DEF PlanFits, Fits, Placed
<1>8. \A c \in Cars : \A i \in DOMAIN pl : Current("fuels", chunk, c, table[c], table[c], pl[i])
  BY <1>6 DEF Current
<1>9. \A c \in Cars : Awaits("fuels", "stmts", c, table[c], pl)
  BY DEF Awaits
<1> QED
  BY <1>5, <1>7, <1>8, <1>9, BeginsConsistent

(* _distinct and the UPDATE statements of remap_vehicle_attrs.py. *)
LEMMA RemapColorsFits ==
    ASSUME table \in [Cars -> Stored], NEW chunk,
           NEW pl \in Renames("color", ColorNamed)
    PROVE  pl \in Seq(Statements) /\ Consistent("colors", "stmts", chunk, table, table, pl, {})
<1> DEFINE f == [c \in Cars |-> table[c].color]
           V == {v \in {table[c].color : c \in StoredCars} : Attr[v] # v}
<1>1. IsFiniteSet(V)
  <2>1. V \subseteq {f[c] : c \in StoredCars}
    BY DEF StoredCars
  <2> HIDE DEF V, f
  <2> QED
    BY <2>1, ValuesFinite
<1>2. PICK order \in SetToSeqs(V) :
        pl = [i \in DOMAIN order |-> [op |-> "color", from |-> order[i], to |-> Attr[order[i]]]]
  <2>1. {v \in DOMAIN ColorNamed : ColorNamed[v] # v} = V
    BY DEF ColorNamed
  <2>2. PICK order \in SetToSeqs(V) :
          pl = [i \in DOMAIN order |-> [op |-> "color", from |-> order[i], to |-> ColorNamed[order[i]]]]
    BY <2>1 DEF Renames
  <2>3. \A i \in DOMAIN order : order[i] \in V
    BY <1>1, <2>2, ListOf
  <2>4. \A v \in V : ColorNamed[v] = Attr[v]
    BY DEF ColorNamed
  <2> QED
    BY <2>2, <2>3, <2>4
<1>3. \A c \in Cars : table[c] # Absent =>
        table[c].color \in DOMAIN Attr /\ (table[c].color \in V \/ table[c].color \in Names)
  <2>1. \A c \in Cars : table[c] # Absent => table[c] \in Row
    BY RowsAre
  <2>2. \A row \in Row : row.color \in DOMAIN Attr
    BY DEF Row
  <2> QED
    BY <2>1, <2>2 DEF StoredCars, Names
<1>4. \A v \in V : v \in DOMAIN Attr /\ Attr[v] \in DOMAIN Attr
  BY <1>3, AttrAssumption DEF StoredCars
<1> HIDE DEF V
<1>5. order \in Seq(V) /\ \A v \in V : \E i \in DOMAIN order : order[i] = v
  BY <1>2, <1>1, ListOf
<1>6. DOMAIN pl = DOMAIN order /\ pl \in Seq(Statements)
  <2>1. \A i \in DOMAIN order : pl[i] \in Statements
    <3>1. \A i \in DOMAIN order : order[i] \in V
      BY <1>5
    <3> QED
      BY <1>2, <1>4, <3>1 DEF Statements
  <2>2. Len(order) \in Nat /\ DOMAIN order = 1..Len(order)
    BY <1>5
  <2> QED
    BY <1>2, <2>1, <2>2
<1>7. \A i \in DOMAIN pl : pl[i].op = "color" /\ pl[i].from = order[i] /\ pl[i].to = Attr[pl[i].from]
  BY <1>2, <1>6
<1>8. PlanFits("colors", "stmts", chunk, pl)
  BY <1>7 DEF PlanFits, Fits, Placed
<1>9. \A c \in Cars : \A i \in DOMAIN pl : Current("colors", chunk, c, table[c], table[c], pl[i])
  BY <1>7 DEF Current
<1>10. \A c \in Cars : Awaits("colors", "stmts", c, table[c], pl)
  BY <1>3, <1>5, <1>6, <1>7 DEF Awaits
<1> QED
  BY <1>6, <1>8, <1>9, <1>10, BeginsConsistent

(* _infer_from_grade: the UPDATE statements for the rows that are left, of *)
(* which the transaction sees v.                                           *)
LEMMA LeftoversFit ==
    ASSUME NEW t \in [Cars -> Stored], NEW v \in [Cars -> Stored], NEW chunk, NEW di, NEW pm,
           Consistent("fuels", "stmts", chunk, t, v, pm, di),
           NEW cars \in ById({c \in {d \in Cars : v[d] # Absent} :
                                [d \in Cars |-> Refueled(v[d])][c] # v[c]}),
           NEW pl, pl = Updates(cars, v, [d \in Cars |-> Refueled(v[d])])
    PROVE  pl \in Seq(Statements) /\ Consistent("fuels", "left", chunk, t, v, pl, di)
<1> DEFINE W == {c \in Cars : v[c] # Absent /\ Refueled(v[c]) # v[c]}
<1>1. cars \in SetToSeqs(W)
  <2>1. {c \in {d \in Cars : v[d] # Absent} : [d \in Cars |-> Refueled(v[d])][c] # v[c]} = W
    OBVIOUS
  <2> QED
    BY <2>1 DEF ById, InOrder
<1>2. W \subseteq Cars /\ IsFiniteSet(W)
  BY CarsAssumption, FS_Subset
<1>3. \A c \in W : /\ v[c] \in Row /\ Refueled(v[c]) \in Row /\ Refueled(v[c]) \in Renamed(v[c])
                   /\ Refueled(v[c]).color = v[c].color
  BY RowsAre, RefueledIs, RenamedIs
<1>4. \A c \in Cars : v[c] # Absent /\ Refueled(v[c]) # v[c] => c \in W
  OBVIOUS
<1> HIDE DEF W
<1>5. /\ cars \in Seq(W) /\ \A x \in W : \E i \in DOMAIN cars : cars[i] = x
      /\ \A i, j \in DOMAIN cars : i # j => cars[i] # cars[j]
  BY <1>1, <1>2, ListOf
<1>6. \A i \in DOMAIN cars : cars[i] \in W /\ cars[i] \in Cars
  BY <1>2, <1>5
<1>7. /\ DOMAIN pl = DOMAIN cars /\ pl = [i \in DOMAIN cars |-> pl[i]]
      /\ \A i \in DOMAIN cars : pl[i] = [op |-> "update", car |-> cars[i], from |-> v[cars[i]],
                                         to |-> Refueled(v[cars[i]])]
  BY <1>6 DEF Updates
<1>8. pl \in Seq(Statements)
  <2>1. \A i \in DOMAIN cars : pl[i] \in Statements
    <3> SUFFICES ASSUME NEW i \in DOMAIN cars PROVE pl[i] \in Statements
      OBVIOUS
    <3> DEFINE from == v[cars[i]]
               to == Refueled(from)
    <3>1. cars[i] \in Cars /\ from \in Row /\ to \in Row
      BY <1>3, <1>6
    <3>2. pl[i] = [op |-> "update", car |-> cars[i], from |-> from, to |-> to]
      BY <1>7
    <3> HIDE DEF from, to
    <3> QED
      BY <3>1, <3>2 DEF Statements
  <2>2. Len(cars) \in Nat /\ DOMAIN cars = 1..Len(cars)
    BY <1>5
  <2> QED
    BY <1>7, <2>1, <2>2
<1>9. ASSUME NEW i \in DOMAIN pl
      PROVE  /\ pl[i].op = "update" /\ pl[i].car = cars[i] /\ pl[i].from = v[cars[i]]
             /\ pl[i].to = Refueled(pl[i].from)
  <2> DEFINE from == v[cars[i]]
             to == Refueled(from)
  <2>1. pl[i] = [op |-> "update", car |-> cars[i], from |-> from, to |-> to]
    BY <1>7
  <2> HIDE DEF to
  <2>2. pl[i].op = "update" /\ pl[i].car = cars[i] /\ pl[i].from = from /\ pl[i].to = to
    BY <2>1
  <2> QED
    BY <2>2 DEF to
<1>10. PlanFits("fuels", "left", chunk, pl)
  <2>1. \A i \in DOMAIN pl : Fits("fuels", "left", chunk, pl[i])
    BY <1>9 DEF Fits
  <2>2. \A i, j \in DOMAIN pl : i # j => pl[i].car # pl[j].car
    BY <1>5, <1>7, <1>9
  <2> QED
    BY <2>1, <2>2 DEF PlanFits
<1>11. PlanCurrent("fuels", chunk, t, v, pl, di)
  <2> SUFFICES ASSUME NEW c \in Cars \ di, NEW i \in DOMAIN pl, pl[i].op = "update", pl[i].car = c
               PROVE  pl[i].from = v[c] /\ Follows("fuels", chunk, c, t[c], pl[i].to)
    BY DEF PlanCurrent, Current
  <2>1. c \in W /\ pl[i].from = v[c] /\ pl[i].to = Refueled(v[c])
    BY <1>6, <1>7, <1>9
  <2>2. Follows("fuels", chunk, c, t[c], v[c])
    BY DEF Consistent, ViewFollows, Guarded
  <2> QED
    BY <1>3, <2>1, <2>2, FollowsRenamed
<1>12. ViewFollows("fuels", chunk, t, v, di)
  BY DEF Consistent
<1>13. Settling("fuels", "left", v, pl, di)
  <2> SUFFICES ASSUME NEW c \in Cars PROVE Awaits("fuels", "left", c, v[c], pl)
    BY DEF Settling
  <2>1. v[c] # Absent /\ Refueled(v[c]) # v[c] =>
            \E i \in DOMAIN pl : pl[i].op = "update" /\ pl[i].car = c
    <3> SUFFICES ASSUME c \in W
                 PROVE  \E i \in DOMAIN pl : pl[i].op = "update" /\ pl[i].car = c
      BY <1>4
    <3>1. PICK i \in DOMAIN cars : cars[i] = c
      BY <1>5
    <3>2. i \in DOMAIN pl
      BY <1>7
    <3> QED
      BY <1>9, <3>1, <3>2
  <2> QED
    BY <2>1 DEF Awaits
<1> QED
  BY <1>8, <1>10, <1>11, <1>12, <1>13 DEF Consistent

----------------------------------------------------------------------------
(* The steps. *)

(* What a process sees is a table, the committed one if it has written     *)
(* nothing.                                                                *)
LEMMA ViewIs ==
    ASSUME StoreTypeOK, NEW p \in Procs
    PROVE  View(p) \in [Cars -> Stored] /\ (own[p] = <<>> => View(p) = table)
<1>1. /\ table \in [Cars -> Stored] /\ DOMAIN own[p] \subseteq Cars
      /\ own[p] \in [DOMAIN own[p] -> Stored]
  BY DEF StoreTypeOK
<1>2. \A c \in DOMAIN own[p] : own[p][c] \in Stored
  BY <1>1
<1>3. View(p) \in [Cars -> Stored]
  BY <1>1, <1>2 DEF View
<1>4. own[p] = <<>> => DOMAIN own[p] = {}
  OBVIOUS
<1> QED
  BY <1>1, <1>3, <1>4 DEF View

(* Nothing of a process changes. *)
Same(q) ==
    /\ kind'[q] = kind[q] /\ pc'[q] = pc[q] /\ todo'[q] = todo[q]
    /\ plan'[q] = plan[q] /\ own'[q] = own[q] /\ disturbed'[q] = disturbed[q]

(* The next batch begins where it did. *)
LEMMA InFileKept ==
    ASSUME NEW q \in Procs, InFile(q), pc'[q] = pc[q], todo'[q] = todo[q],
           written'[q] = written[q]
    PROVE  InFile(q)'
BY DEF InFile

(* It keeps its part of the invariant then. *)
LEMMA SoundKept ==
    ASSUME NEW q \in Procs, Sound(q), Same(q), table' = table
    PROVE  Sound(q)'
BY DEF Sound, Same, View, Running

(* The ids keep their order if no row becomes known. *)
LEMMA IdsKept ==
    ASSUME IdsOrdered, older' = older, \A c \in Cars : Known(c)' => Known(c)
    PROVE  IdsOrdered'
BY DEF IdsOrdered

(* The committed rows are among those known. *)
LEMMA IdsOfStored ==
    ASSUME IdsOrdered
    PROVE  \A c, d \in StoredCars : c # d => (<<c, d>> \in older <=> <<d, c>> \notin older)
BY DEF IdsOrdered, StoredCars, Known

(* A step of p that leaves the rows alone. *)
LEMMA RowsKept ==
    ASSUME StoreInv, NEW p \in Procs,
           UNCHANGED <<kind, table, older, own>>,
           \A q \in Procs \ {p} : Same(q) /\ written'[q] = written[q], Sound(p)', InFile(p)',
           pc' \in [Procs -> {"idle", "stmts", "left", "done", "failed"}],
           todo' \in [Procs -> Seq(Seq(InputRow))], written' \in [Procs -> Nat],
           plan' \in [Procs -> Seq(Statements)], disturbed' \in [Procs -> SUBSET Cars],
           reruns' \in 0..MaxReruns
    PROVE  StoreInv'
<1>1. StoreTypeOK'
  <2>1. \A q \in Procs \ {p} : InFile(q)'
    BY InFileKept DEF StoreInv, StoreTypeOK, Same
  <2> QED
    BY <2>1 DEF StoreInv, StoreTypeOK, StoredCars
<1>2. IdsOrdered'
  BY DEF StoreInv, IdsOrdered, Known
<1>3. own' = [q \in Procs |-> own'[q]]
  BY DEF StoreInv
<1>4. \A q \in Procs : Sound(q)'
  <2> SUFFICES ASSUME NEW q \in Procs, q # p PROVE Sound(q)'
    OBVIOUS
  <2> QED
    BY SoundKept DEF StoreInv
<1> QED
  BY <1>1, <1>2, <1>3, <1>4 DEF StoreInv

(* A transaction begins with a plan that is consistent with the table. *)
LEMMA BeginKeeps ==
    ASSUME StoreInv, NEW p \in Procs, NEW pl, Ready(p, kind[p]), Begin(p, pl),
           pl \in Seq(Statements),
           Consistent(kind[p], "stmts", Head(todo[p]), table, table, pl, {})
    PROVE  StoreInv'
<1>1. /\ StoreTypeOK /\ Sound(p) /\ pc[p] = "idle" /\ todo[p] # <<>>
      /\ UNCHANGED <<kind, table, older, todo, written, own, disturbed, reruns>>
  BY DEF StoreInv, Ready, Begin
<1>2. /\ pc \in [Procs -> {"idle", "stmts", "left", "done", "failed"}]
      /\ plan \in [Procs -> Seq(Statements)]
  BY <1>1 DEF StoreTypeOK
<1>3. /\ pc' \in [Procs -> {"idle", "stmts", "left", "done", "failed"}]
      /\ pc'[p] = "stmts" /\ \A q \in Procs \ {p} : pc'[q] = pc[q]
  BY <1>2 DEF Begin
<1>4. /\ plan' \in [Procs -> Seq(Statements)]
      /\ plan'[p] = pl /\ \A q \in Procs \ {p} : plan'[q] = plan[q]
  BY <1>2 DEF Begin
<1>5. own[p] = <<>> /\ disturbed[p] = {} /\ FromInput(todo[p])
  BY <1>1 DEF Sound, Phase
<1>6. View(p) = table
  BY <1>1, <1>5, ViewIs
<1>7. View(p)' = View(p)
  BY <1>1 DEF View
<1>8. Sound(p)'
  BY <1>1, <1>3, <1>4, <1>5, <1>6, <1>7 DEF Sound, Phase
<1>9. \A q \in Procs \ {p} : Same(q)
  BY <1>1, <1>3, <1>4 DEF Same
<1>10. InFile(p)'
  BY <1>1, <1>3 DEF InFile, StoreTypeOK
<1> QED
  BY <1>1, <1>3, <1>4, <1>8, <1>9, <1>10, RowsKept DEF StoreTypeOK

(* What the head of the work of a process is. *)
LEMMA ChunkIs ==
    ASSUME StoreInv, NEW p \in Procs, todo[p] # <<>>
    PROVE  Head(todo[p]) \in Seq(InputRow) /\ ToSet(Head(todo[p])) \subseteq Lines
<1>1. todo[p] \in Seq(Seq(InputRow)) /\ FromInput(todo[p])
  BY DEF StoreInv, StoreTypeOK, Sound
<1>2. Head(todo[p]) = todo[p][1] /\ Head(todo[p]) \in Seq(InputRow) /\ 1 \in DOMAIN todo[p]
  BY <1>1, TailIs
<1> QED
  BY <1>1, <1>2 DEF FromInput

(* _flush_chunk *)
LEMMA FlushChunkKeeps ==
    ASSUME StoreInv, NEW p \in Procs, FlushChunk(p)
    PROVE  StoreInv'
<1> DEFINE chunk == Head(todo[p])
           changed == {c \in Cars : table[c] # Absent /\ Merged(chunk)[c] # table[c]}
           added == {c \in Cars : table[c] = Absent /\ Merged(chunk)[c] # Absent}
<1>1. Ready(p, kind[p]) /\ kind[p] = "import" /\ table \in [Cars -> Stored]
  BY DEF FlushChunk, Ready, StoreInv, StoreTypeOK
<1>2. chunk \in Seq(InputRow) /\ ToSet(chunk) \subseteq Lines
  BY <1>1, ChunkIs DEF Ready
<1>3. PICK old \in ById(changed), new \in AsGiven(added, chunk) :
        Begin(p, Updates(old, table, Merged(chunk)) \o Inserts(new, Merged(chunk)))
  BY DEF FlushChunk
<1> DEFINE pl == Updates(old, table, Merged(chunk)) \o Inserts(new, Merged(chunk))
<1>4. pl \in Seq(Statements) /\ Consistent("import", "stmts", chunk, table, table, pl, {})
  <2> HIDE DEF chunk
  <2> QED
    BY <1>1, <1>2, FlushFits
<1> HIDE DEF pl
<1> QED
  BY <1>1, <1>3, <1>4, BeginKeeps DEF pl

(* upsert_batches of bulk_copy_import.py *)
LEMMA UpsertBatchKeeps ==
    ASSUME StoreInv, NEW p \in Procs, UpsertBatch(p)
    PROVE  StoreInv'
<1> DEFINE file == Head(todo[p])
           Plan(rows) == [i \in DOMAIN rows |-> [op |-> "upsert", car |-> file[rows[i]].car,
                                                 to |-> Made(file[rows[i]])]]
<1>1. Ready(p, kind[p]) /\ kind[p] = "bulk" /\ table \in [Cars -> Stored]
  BY DEF UpsertBatch, Ready, StoreInv, StoreTypeOK
<1>2. file \in Seq(InputRow) /\ ToSet(file) \subseteq Lines
  BY <1>1, ChunkIs DEF Ready
<1>3. PICK rows \in SetToSeqs(BatchRows(file, written[p])) : Begin(p, Plan(rows))
  BY DEF UpsertBatch, Batches, InOrder
<1>4. /\ Plan(rows) \in Seq(Statements)
      /\ Consistent("bulk", "stmts", file, table, table, Plan(rows), {})
  <2> HIDE DEF file
  <2> QED
    BY <1>1, <1>2, UpsertFits
<1> HIDE DEF Plan
<1> QED
  BY <1>1, <1>3, <1>4, BeginKeeps

(* reset_data *)
LEMMA DeleteAllKeeps ==
    ASSUME StoreInv, NEW p \in Procs, DeleteAll(p)
    PROVE  StoreInv'
<1>1. Ready(p, kind[p]) /\ kind[p] = "reset" /\ table \in [Cars -> Stored]
  BY DEF DeleteAll, Ready, StoreInv, StoreTypeOK
<1>2. /\ << [op |-> "delete"] >> \in Seq(Statements)
      /\ Consistent("reset", "stmts", Head(todo[p]), table, table, << [op |-> "delete"] >>, {})
  BY <1>1, DeleteFits
<1> QED
  BY <1>1, <1>2, BeginKeeps DEF DeleteAll

(* remap_vehicle_fuels, the names of fuels *)
LEMMA RemapFuelsKeeps ==
    ASSUME StoreInv, NEW p \in Procs, RemapFuels(p)
    PROVE  StoreInv'
<1>1. Ready(p, kind[p]) /\ kind[p] = "fuels" /\ table \in [Cars -> Stored]
  BY DEF RemapFuels, Ready, StoreInv, StoreTypeOK
<1>2. PICK pl \in Renames("fuel", FuelNamed) : Begin(p, pl)
  BY DEF RemapFuels
<1>3. /\ pl \in Seq(Statements)
      /\ Consistent("fuels", "stmts", Head(todo[p]), table, table, pl, {})
  BY <1>1, RemapFuelsFits
<1> QED
  BY <1>1, <1>2, <1>3, BeginKeeps

(* remap_vehicle_attrs *)
LEMMA RemapColorsKeeps ==
    ASSUME StoreInv, NEW p \in Procs, RemapColors(p)
    PROVE  StoreInv'
<1>1. Ready(p, kind[p]) /\ kind[p] = "colors" /\ table \in [Cars -> Stored]
  BY DEF RemapColors, Ready, StoreInv, StoreTypeOK
<1>2. PICK pl \in Renames("color", ColorNamed) : Begin(p, pl)
  BY DEF RemapColors
<1>3. /\ pl \in Seq(Statements)
      /\ Consistent("colors", "stmts", Head(todo[p]), table, table, pl, {})
  BY <1>1, RemapColorsFits
<1> QED
  BY <1>1, <1>2, <1>3, BeginKeeps

(* remap_vehicle_fuels, the rows that are left *)
LEMMA LeftoversKeeps ==
    ASSUME StoreInv, NEW p \in Procs, Leftovers(p)
    PROVE  StoreInv'
<1> DEFINE v == View(p)
           named == [d \in Cars |-> Refueled(v[d])]
<1>1. /\ StoreTypeOK /\ Sound(p) /\ kind[p] = "fuels" /\ pc[p] = "stmts"
      /\ pc' = [pc EXCEPT ![p] = "left"]
      /\ UNCHANGED <<kind, table, older, todo, written, own, disturbed, reruns>>
  BY DEF StoreInv, Leftovers
<1>2. /\ table \in [Cars -> Stored] /\ v \in [Cars -> Stored]
      /\ pc \in [Procs -> {"idle", "stmts", "left", "done", "failed"}]
      /\ plan \in [Procs -> Seq(Statements)]
  BY <1>1, ViewIs DEF StoreTypeOK
<1>3. PICK cars \in ById({c \in {d \in Cars : v[d] # Absent} : named[c] # v[c]}) :
        plan' = [plan EXCEPT ![p] = Updates(cars, v, named)]
  BY DEF Leftovers, Present
<1> DEFINE pl == Updates(cars, v, named)
<1>4. /\ pl \in Seq(Statements)
      /\ Consistent("fuels", "left", Head(todo[p]), table, v, pl, disturbed[p])
  <2>1. Consistent("fuels", "stmts", Head(todo[p]), table, v, plan[p], disturbed[p])
    BY <1>1 DEF Sound, Running
  <2> HIDE DEF v
  <2> QED
    BY <1>2, <2>1, LeftoversFit
<1> HIDE DEF pl
<1>5. plan'[p] = pl /\ plan' \in [Procs -> Seq(Statements)]
      /\ \A q \in Procs \ {p} : plan'[q] = plan[q]
  BY <1>2, <1>3, <1>4 DEF pl
<1>6. /\ pc' \in [Procs -> {"idle", "stmts", "left", "done", "failed"}]
      /\ pc'[p] = "left" /\ \A q \in Procs \ {p} : pc'[q] = pc[q]
  BY <1>1, <1>2
<1>7. View(p)' = v
  BY <1>1 DEF View
<1>8. todo[p] # <<>> /\ FromInput(todo[p])
  BY <1>1 DEF Sound, Phase
<1> HIDE DEF v
<1>9. Sound(p)'
  BY <1>1, <1>4, <1>5, <1>6, <1>7, <1>8 DEF Sound, Phase
<1>10. \A q \in Procs \ {p} : Same(q)
  BY <1>1, <1>5, <1>6 DEF Same
<1>11. InFile(p)'
  BY <1>1, <1>6 DEF InFile, StoreTypeOK
<1> QED
  BY <1>1, <1>5, <1>6, <1>9, <1>10, <1>11, RowsKept DEF StoreTypeOK

(* A run ends. *)
LEMMA FinishKeeps ==
    ASSUME StoreInv, NEW p \in Procs, Finish(p)
    PROVE  StoreInv'
<1>1. /\ StoreTypeOK /\ Sound(p) /\ pc[p] = "idle" /\ pc' = [pc EXCEPT ![p] = "done"]
      /\ todo[p] = <<>>
      /\ UNCHANGED <<kind, table, older, todo, written, plan, own, disturbed, reruns>>
  BY DEF StoreInv, Finish
<1>2. pc \in [Procs -> {"idle", "stmts", "left", "done", "failed"}]
  BY <1>1 DEF StoreTypeOK
<1>3. /\ pc' \in [Procs -> {"idle", "stmts", "left", "done", "failed"}]
      /\ pc'[p] = "done" /\ \A q \in Procs \ {p} : pc'[q] = pc[q]
  BY <1>1, <1>2
<1>4. Sound(p)'
  BY <1>1, <1>3 DEF Sound, Phase, Running
<1>5. \A q \in Procs \ {p} : Same(q)
  BY <1>1, <1>3 DEF Same
<1>6. InFile(p)'
  BY <1>1, <1>3 DEF InFile, StoreTypeOK
<1> QED
  BY <1>1, <1>3, <1>4, <1>5, <1>6, RowsKept DEF StoreTypeOK

(* The work of a run is made of lines of the input. *)
LEMMA TodoIs ==
    ASSUME NEW p \in Procs, NEW k
    PROVE  Todo(p, k) \in Seq(Seq(InputRow)) /\ FromInput(Todo(p, k))
<1>1. Input[p] \in Seq(Seq(InputRow) \ {<<>>})
  BY InputAssumption
<1>2. Input[p] \in Seq(Seq(InputRow))
  <2>1. /\ Len(Input[p]) \in Nat /\ DOMAIN Input[p] = 1..Len(Input[p])
        /\ Input[p] = [u \in DOMAIN Input[p] |-> Input[p][u]]
    BY <1>1
  <2>2. \A u \in DOMAIN Input[p] : Input[p][u] \in Seq(InputRow) \ {<<>>}
    BY <1>1
  <2> QED
    BY <2>1, <2>2
<1>3. FromInput(Input[p])
  BY DEF FromInput, Lines
<1>4. << <<>> >> \in Seq(Seq(InputRow)) /\ FromInput(<< <<>> >>)
  <2>1. DOMAIN << <<>> >> = {1} /\ << <<>> >>[1] = <<>> /\ <<>> \in Seq(InputRow)
    OBVIOUS
  <2>2. ToSet(<<>>) = {}
    BY DEF ToSet
  <2> QED
    BY <2>1, <2>2 DEF FromInput
<1>5. <<>> \in Seq(Seq(InputRow)) /\ FromInput(<<>>)
  BY DEF FromInput
<1> QED
  BY <1>2, <1>3, <1>4, <1>5 DEF Todo

(* A run is started again. *)
LEMMA RerunKeeps ==
    ASSUME StoreInv, NEW p \in Procs, Rerun(p)
    PROVE  StoreInv'
<1>1. /\ StoreTypeOK /\ Sound(p) /\ pc[p] \in {"done", "failed"}
      /\ pc' = [pc EXCEPT ![p] = "idle"] /\ todo' = [todo EXCEPT ![p] = Todo(p, kind[p])]
      /\ UNCHANGED <<kind, table, older, written, plan, own, disturbed>>
  BY DEF StoreInv, Rerun
<1>2. /\ pc \in [Procs -> {"idle", "stmts", "left", "done", "failed"}]
      /\ todo \in [Procs -> Seq(Seq(InputRow))]
  BY <1>1 DEF StoreTypeOK
<1>3. /\ pc' \in [Procs -> {"idle", "stmts", "left", "done", "failed"}]
      /\ pc'[p] = "idle" /\ \A q \in Procs \ {p} : pc'[q] = pc[q]
  BY <1>1, <1>2
<1>4. Todo(p, kind[p]) \in Seq(Seq(InputRow)) /\ FromInput(Todo(p, kind[p]))
  BY TodoIs
<1>5. /\ todo' \in [Procs -> Seq(Seq(InputRow))]
      /\ todo'[p] = Todo(p, kind[p]) /\ \A q \in Procs \ {p} : todo'[q] = todo[q]
  BY <1>1, <1>2, <1>4
<1>6. reruns' \in 0..MaxReruns
  BY <1>1, BatchAssumption DEF Rerun, StoreTypeOK
<1>7. Sound(p)'
  BY <1>1, <1>3, <1>4, <1>5 DEF Sound, Phase, Running
<1>8. \A q \in Procs \ {p} : Same(q)
  BY <1>1, <1>3, <1>5 DEF Same
<1>9. InFile(p)'
  BY <1>1, <1>3 DEF InFile, StoreTypeOK
<1> QED
  BY <1>1, <1>3, <1>5, <1>6, <1>7, <1>8, <1>9, RowsKept DEF StoreTypeOK

(* A transaction is rolled back: refused, aborted or crashed. *)
LEMMA RollbackKeeps ==
    ASSUME StoreInv, NEW p \in Procs, Rollback(p)
    PROVE  StoreInv'
<1>1. /\ StoreTypeOK /\ Sound(p) /\ UNCHANGED <<kind, table, older, reruns>>
      /\ own = [q \in Procs |-> own[q]] /\ IdsOrdered
  BY DEF StoreInv, Rollback
<1>2. /\ pc' \in [Procs -> {"idle", "stmts", "left", "done", "failed"}]
      /\ pc'[p] = "failed" /\ \A q \in Procs \ {p} : pc'[q] = pc[q]
  BY <1>1 DEF StoreTypeOK, Rollback
<1>3. /\ plan' \in [Procs -> Seq(Statements)]
      /\ plan'[p] = <<>> /\ \A q \in Procs \ {p} : plan'[q] = plan[q]
  <2>1. <<>> \in Seq(Statements)
    OBVIOUS
  <2> QED
    BY <1>1, <2>1 DEF StoreTypeOK, Rollback
<1>4. /\ todo' \in [Procs -> Seq(Seq(InputRow))]
      /\ todo'[p] = <<>> /\ \A q \in Procs \ {p} : todo'[q] = todo[q]
  <2>1. <<>> \in Seq(Seq(InputRow))
    OBVIOUS
  <2> QED
    BY <1>1, <2>1 DEF StoreTypeOK, Rollback
<1>5. /\ written' \in [Procs -> Nat]
      /\ written'[p] = 0 /\ \A q \in Procs \ {p} : written'[q] = written[q]
  BY <1>1 DEF StoreTypeOK, Rollback
<1>6. /\ disturbed' \in [Procs -> SUBSET Cars]
      /\ disturbed'[p] = {} /\ \A q \in Procs \ {p} : disturbed'[q] = disturbed[q]
  BY <1>1 DEF StoreTypeOK, Rollback
<1>7. /\ own' = [q \in Procs |-> own'[q]]
      /\ own'[p] = <<>> /\ \A q \in Procs \ {p} : own'[q] = own[q]
  BY <1>1 DEF Rollback
<1>8. DOMAIN own'[p] = {} /\ own'[p] \in [DOMAIN own'[p] -> Stored]
  BY <1>7
<1>9. \A c \in Cars : Known(c)' => Known(c)
  BY <1>1, <1>7, <1>8 DEF Known
<1>10. IdsOrdered'
  BY <1>1, <1>9, IdsKept
<1>11. \A q \in Procs : DOMAIN own'[q] \subseteq Cars /\ own'[q] \in [DOMAIN own'[q] -> Stored]
  BY <1>1, <1>7, <1>8 DEF StoreTypeOK
<1>12. \A q, r \in Procs : q # r => DOMAIN own'[q] \cap DOMAIN own'[r] = {}
  BY <1>1, <1>7, <1>8 DEF StoreTypeOK
<1>13. StoreTypeOK'
  <2>1. \A q \in Procs : InFile(q)'
    BY <1>1, <1>2, <1>4, <1>5, InFileKept DEF StoreTypeOK, InFile
  <2> QED
    BY <1>1, <1>2, <1>3, <1>4, <1>5, <1>6, <1>11, <1>12, <2>1 DEF StoreTypeOK, StoredCars
<1>14. ASSUME NEW q \in Procs \ {p} PROVE Sound(q)'
  <2>1. Same(q)
    BY <1>1, <1>2, <1>3, <1>4, <1>6, <1>7 DEF Same
  <2> QED
    BY <1>1, <2>1, SoundKept DEF StoreInv
<1>15. Sound(p)'
  BY <1>2, <1>3, <1>4, <1>6, <1>7 DEF Sound, Phase, Running, FromInput
<1> QED
  BY <1>7, <1>10, <1>13, <1>14, <1>15 DEF StoreInv

----------------------------------------------------------------------------
(* A statement is executed. *)

(* What rows become by a statement. *)
After(s, v, T, D) == [c \in D \cup T |-> IF c \in T THEN Written(s, v[c]) ELSE v[c]]
LEMMA OwnAfter ==
    ASSUME StoreInv, NEW p \in Procs, NEW s \in Statements, NEW T \in SUBSET Cars,
           \A c \in T : Selects(s, c, View(p)[c]) /\ Allowed(s, View(p)[c]),
           own' = [own EXCEPT ![p] = After(s, View(p), T, DOMAIN own[p])]
    PROVE  /\ own' = [q \in Procs |-> own'[q]] /\ \A q \in Procs \ {p} : own'[q] = own[q]
           /\ own'[p] = After(s, View(p), T, DOMAIN own[p])
           /\ DOMAIN own'[p] = DOMAIN own[p] \cup T
           /\ DOMAIN own'[p] \subseteq Cars /\ own'[p] \in [DOMAIN own'[p] -> Stored]
<1> DEFINE v == View(p)
           w == After(s, v, T, DOMAIN own[p])
<1>1. own = [q \in Procs |-> own[q]]
  BY DEF StoreInv
<1>2. v \in [Cars -> Stored] /\ DOMAIN own[p] \subseteq Cars
  BY ViewIs DEF StoreInv, StoreTypeOK
<1>3. /\ own' = [q \in Procs |-> own'[q]] /\ own'[p] = w /\ \A q \in Procs \ {p} : own'[q] = own[q]
  BY <1>1
<1>4. \A c \in T : Written(s, v[c]) \in Stored
  BY <1>2, WrittenType
<1>5. DOMAIN w = DOMAIN own[p] \cup T /\ DOMAIN w \subseteq Cars /\ w \in [DOMAIN w -> Stored]
  <2> HIDE DEF v
  <2> QED
    BY <1>2, <1>4 DEF After
<1> QED
  BY <1>3, <1>5

(* Rows of T, which no other process has written, are written by p. *)
LEMMA RowsWritten ==
    ASSUME StoreInv, NEW p \in Procs, NEW s \in Statements, NEW T \in SUBSET Cars,
           \A c \in T : Selects(s, c, View(p)[c]) /\ Allowed(s, View(p)[c]),
           \A q \in Procs \ {p} : T \cap DOMAIN own[q] = {},
           own' = [own EXCEPT ![p] = After(s, View(p), T, DOMAIN own[p])],
           UNCHANGED <<kind, table, pc, todo, written, disturbed, reruns>>,
           plan' \in [Procs -> Seq(Statements)], \A q \in Procs \ {p} : plan'[q] = plan[q],
           older' = IF s.op \in {"insert", "upsert"} /\ View(p)[s.car] = Absent
                    THEN {e \in older : s.car \notin {e[1], e[2]}}
                         \cup ((Cars \ {s.car}) \X {s.car})
                    ELSE older,
           Sound(p)'
    PROVE  StoreInv'
<1> DEFINE v == View(p)
           w == After(s, v, T, DOMAIN own[p])
           grows == s.op \in {"insert", "upsert"} /\ v[s.car] = Absent
<1>1. StoreTypeOK /\ IdsOrdered /\ own = [q \in Procs |-> own[q]]
  BY DEF StoreInv
<1>2. /\ own' = [q \in Procs |-> own'[q]] /\ \A q \in Procs \ {p} : own'[q] = own[q]
      /\ own'[p] = w
      /\ DOMAIN own'[p] = DOMAIN own[p] \cup T
      /\ DOMAIN own'[p] \subseteq Cars /\ own'[p] \in [DOMAIN own'[p] -> Stored]
  BY OwnAfter, Zenon
<1>3. ASSUME NEW q \in Procs \ {p} PROVE Sound(q)'
  <2>1. Same(q)
    BY <1>2 DEF Same
  <2> QED
    BY <2>1, SoundKept DEF StoreInv
<1>4. \A q, r \in Procs : q # r => DOMAIN own'[q] \cap DOMAIN own'[r] = {}
  <2> HIDE DEF w
  <2> QED
    BY <1>1, <1>2 DEF StoreTypeOK
<1>5. \A c \in Cars : Known(c)' => Known(c) \/ (grows /\ c = s.car)
  <2> SUFFICES ASSUME NEW c \in Cars, Known(c)', ~Known(c) PROVE grows /\ c = s.car
    OBVIOUS
  <2>1. c \in DOMAIN own'[p] /\ own'[p][c] # Absent
    BY <1>2 DEF Known
  <2>2. v[c] = Absent
    BY DEF Known, View
  <2>3. c \in T /\ Written(s, v[c]) # Absent
    BY <1>2, <2>1, <2>2 DEF After
  <2>4. s.op \in {"insert", "upsert"}
    <3>1. Selects(s, c, v[c]) /\ Allowed(s, v[c])
      BY <2>3
    <3> QED
      BY <2>2, <2>3, <3>1, StatementIs DEF Ops, Selects, Allowed, Written
  <2>5. c = s.car
    BY <2>3, <2>4 DEF Selects
  <2> QED
    BY <2>2, <2>4, <2>5
<1> HIDE DEF v, w
<1>6. older' = IF grows THEN {e \in older : s.car \notin {e[1], e[2]}}
                             \cup ((Cars \ {s.car}) \X {s.car})
               ELSE older
  BY DEF v
<1> HIDE DEF grows
<1>7. grows => s.car \in Cars
  BY StatementIs DEF grows
<1>8. IdsOrdered'
  <2>1. CASE ~grows
    BY <1>1, <1>5, <1>6, <2>1, IdsKept
  <2>2. CASE grows
    <3> SUFFICES ASSUME NEW c \in Cars, NEW d \in Cars, c # d, Known(c)', Known(d)'
                 PROVE  <<c, d>> \in older' <=> <<d, c>> \notin older'
      BY DEF IdsOrdered
    <3>1. older' = {e \in older : s.car \notin {e[1], e[2]}} \cup ((Cars \ {s.car}) \X {s.car})
      BY <1>6, <2>2
    <3>2. CASE c # s.car /\ d # s.car
      <4>1. <<c, d>> \in older <=> <<d, c>> \notin older
        BY <1>1, <1>5, <3>2 DEF IdsOrdered
      <4>2. \A x, y \in Cars \ {s.car} : <<x, y>> \in older' <=> <<x, y>> \in older
        BY <3>1
      <4> QED
        BY <3>2, <4>1, <4>2
    <3>3. CASE c = s.car
      BY <1>7, <2>2, <3>1, <3>3
    <3>4. CASE d = s.car
      BY <1>7, <2>2, <3>1, <3>4
    <3> QED
      BY <3>2, <3>3, <3>4
  <2> QED
    BY <2>1, <2>2
<1>9. older' \subseteq Cars \X Cars
  BY <1>1, <1>6, <1>7 DEF StoreTypeOK
<1>10. \A c, d \in StoredCars' : c # d => (<<c, d>> \in older' <=> <<d, c>> \notin older')
  BY <1>8 DEF IdsOrdered, StoredCars, Known
<1>11. StoreTypeOK'
  <2>1. \A q \in Procs : InFile(q)'
    BY <1>1, InFileKept DEF StoreTypeOK
  <2> QED
    BY <1>1, <1>2, <1>4, <1>9, <1>10, <2>1 DEF StoreTypeOK, StoredCars
<1> QED
  BY <1>2, <1>3, <1>8, <1>11 DEF StoreInv

(* One row of an UPDATE or DELETE over many is written: the rest of the    *)
(* statement and of the plan is as consistent with the rows as it was.     *)
LEMMA RowKeeps ==
    ASSUME NEW k, NEW ph, NEW chunk, NEW t \in [Cars -> Stored], NEW v \in [Cars -> Stored],
           NEW w, NEW pl \in Seq(Statements), NEW di, pl # <<>>, NEW d \in Cars,
           Head(pl).op \in {"fuel", "color", "delete"}, Selects(Head(pl), d, v[d]),
           \A c \in Cars : w[c] = IF c = d THEN Written(Head(pl), v[c]) ELSE v[c],
           Consistent(k, ph, chunk, t, v, pl, di)
    PROVE  Consistent(k, ph, chunk, t, w, pl, di)
<1> DEFINE s == Head(pl)
<1>1. s = pl[1] /\ s \in Statements /\ 1 \in DOMAIN pl
  BY TailIs
<1>2. \A i \in DOMAIN pl : pl[i] \in Statements /\ Fits(k, ph, chunk, pl[i])
  BY DEF Consistent, PlanFits
<1> HIDE DEF s
<1>3. /\ s.op \in {"fuel", "color", "delete"} /\ Selects(s, d, v[d]) /\ Allowed(s, v[d])
      /\ \A c \in Cars : w[c] = IF c = d THEN Written(s, v[c]) ELSE v[c]
  BY DEF s, Allowed
<1>4. k # "import" /\ ~(k = "fuels" /\ ph = "left")
  BY <1>1, <1>2, <1>3, FitsIs DEF Placed
<1>5. \A i \in DOMAIN pl : pl[i].op # "update"
  BY <1>2, <1>4, FitsIs
<1>6. PlanCurrent(k, chunk, t, w, pl, di)
  BY <1>5 DEF PlanCurrent, Current
<1>7. ViewFollows(k, chunk, t, w, di)
  <2> SUFFICES ASSUME NEW c \in Cars, Guarded(k, di, c)
               PROVE  Follows(k, chunk, c, t[c], w[c])
    BY DEF ViewFollows
  <2>1. Follows(k, chunk, c, t[c], v[c]) /\ t[c] \in Stored /\ v[c] \in Stored
    BY DEF Consistent, ViewFollows
  <2>2. Current(k, chunk, c, t[c], v[c], s)
    BY <1>3 DEF Current
  <2>3. c = d => Follows(k, chunk, c, t[c], Written(s, v[c]))
    BY <1>1, <1>2, <1>3, <2>1, <2>2, WrittenFollows
  <2> QED
    BY <1>3, <2>1, <2>3
<1>8. Settling(k, ph, w, pl, di)
  <2> SUFFICES ASSUME NEW c \in Cars \ di PROVE Awaits(k, ph, c, w[c], pl)
    BY DEF Settling
  <2>1. Awaits(k, ph, c, v[c], pl) /\ v[c] \in Stored
    BY DEF Consistent, Settling
  <2>2. ASSUME k = "colors", c = d PROVE w[c].color \in Names
    <3>1. s.op = "color" /\ s.to = Attr[s.from] /\ s.from \in DOMAIN Attr
      BY <1>1, <1>2, <2>2, FitsIs, StatementIs
    <3>2. v[c] \in Row /\ w[c] = [v[c] EXCEPT !.color = s.to]
      BY <1>3, <2>1, <2>2, <3>1, RowsAre DEF Selects, Written
    <3> QED
      BY <3>1, <3>2 DEF Row, Names
  <2> QED
    BY <1>3, <1>4, <2>1, <2>2 DEF Awaits
<1> QED
  BY <1>6, <1>7, <1>8 DEF Consistent

LEMMA WriteOneKeeps ==
    ASSUME StoreInv, NEW p \in Procs, WriteOne(p)
    PROVE  StoreInv'
<1> DEFINE s == Head(plan[p])
           v == View(p)
<1>1. /\ StoreTypeOK /\ Sound(p) /\ plan[p] # <<>> /\ s.op \in {"fuel", "color", "delete"}
      /\ UNCHANGED <<kind, table, older, pc, todo, written, plan, disturbed, reruns>>
  BY DEF StoreInv, WriteOne
<1>2. PICK d \in Targets(p) :
        /\ \A q \in Procs \ {p} : d \notin DOMAIN own[q]
        /\ own' = [own EXCEPT ![p] = [c \in DOMAIN own[p] \cup {d} |->
                        IF c = d THEN Written(s, v[c]) ELSE v[c]]]
  BY DEF WriteOne
<1>3. own' = [own EXCEPT ![p] = After(s, v, {d}, DOMAIN own[p])]
  BY <1>2 DEF After
<1>4. /\ table \in [Cars -> Stored] /\ v \in [Cars -> Stored] /\ plan \in [Procs -> Seq(Statements)]
      /\ plan[p] \in Seq(Statements) /\ s \in Statements
  BY <1>1, ViewIs, TailIs DEF StoreTypeOK
<1>5. /\ d \in Cars /\ Selects(s, d, v[d]) /\ Allowed(s, v[d])
      /\ {d} \in SUBSET Cars /\ \A c \in {d} : Selects(s, c, v[c]) /\ Allowed(s, v[c])
  BY <1>1, <1>2 DEF Targets, Allowed
<1>6. \A c \in Cars : View(p)'[c] = IF c = d THEN Written(s, v[c]) ELSE v[c]
  <2> HIDE DEF s
  <2>1. /\ own'[p] = After(s, View(p), {d}, DOMAIN own[p])
        /\ DOMAIN own'[p] = DOMAIN own[p] \cup {d}
    BY <1>3, <1>4, <1>5, OwnAfter
  <2> QED
    BY <1>1, <2>1 DEF View, After
<1>7. Sound(p)'
  <2>1. /\ Running(p) /\ FromInput(todo[p])
        /\ todo[p] # <<>> /\ (pc[p] = "left" => kind[p] = "fuels")
        /\ Consistent(kind[p], pc[p], Head(todo[p]), table, v, plan[p], disturbed[p])
    BY <1>1 DEF Sound, Phase, Running
  <2> HIDE DEF v
  <2>2. Consistent(kind[p], pc[p], Head(todo[p]), table, View(p)', plan[p], disturbed[p])
    BY <1>1, <1>4, <1>5, <1>6, <2>1, RowKeeps
  <2> QED
    BY <1>1, <2>1, <2>2 DEF Sound, Phase, Running
<1> HIDE DEF s
<1>8. \A q \in Procs \ {p} : {d} \cap DOMAIN own[q] = {}
  BY <1>2
<1>9. s.op \notin {"insert", "upsert"}
  BY <1>1
<1> QED
  BY <1>1, <1>3, <1>4, <1>5, <1>7, <1>8, <1>9, RowsWritten

LEMMA StatementKeepsInv ==
    ASSUME StoreInv, NEW p \in Procs, Statement(p)
    PROVE  StoreInv'
<1> DEFINE s == Head(plan[p])
           v == View(p)
           T == Targets(p)
<1>1. /\ StoreTypeOK /\ Sound(p) /\ plan[p] # <<>> /\ WaitsFor(p) = {} /\ ~Refused(s, p)
      /\ UNCHANGED <<kind, table, pc, todo, written, disturbed, reruns>>
      /\ own' = [own EXCEPT ![p] = After(s, v, T, DOMAIN own[p])]
  BY DEF StoreInv, Statement, After
<1>2. /\ table \in [Cars -> Stored] /\ v \in [Cars -> Stored] /\ plan \in [Procs -> Seq(Statements)]
      /\ plan[p] \in Seq(Statements)
  BY <1>1, ViewIs DEF StoreTypeOK
<1>3. plan' = [plan EXCEPT ![p] = Tail(plan[p])]
  BY DEF Statement
<1>4. /\ plan' \in [Procs -> Seq(Statements)]
      /\ plan'[p] = Tail(plan[p]) /\ \A q \in Procs \ {p} : plan'[q] = plan[q]
      /\ s \in Statements
  <2>1. Tail(plan[p]) \in Seq(Statements) /\ s \in Statements
    BY <1>1, <1>2, TailIs
  <2> QED
    BY <1>2, <1>3, <2>1
<1>5. T = {c \in Cars : Selects(s, c, v[c])}
  BY DEF Targets
<1>6. \A c \in Cars : Selects(s, c, v[c]) => Allowed(s, v[c])
  BY <1>1 DEF Refused, Selects, Allowed
<1>7. \A q \in Procs \ {p} : T \cap DOMAIN own[q] = {}
  BY <1>1 DEF WaitsFor
<1>8. older' = IF s.op \in {"insert", "upsert"} /\ v[s.car] = Absent
               THEN {e \in older : s.car \notin {e[1], e[2]}} \cup ((Cars \ {s.car}) \X {s.car})
               ELSE older
  BY DEF Statement
<1> HIDE DEF s, T
<1>9. T \in SUBSET Cars /\ \A c \in T : Selects(s, c, v[c]) /\ Allowed(s, v[c])
  BY <1>5, <1>6
<1>10. \A c \in Cars : View(p)'[c] = IF c \in T THEN Written(s, v[c]) ELSE v[c]
  <2>1. own'[p] = After(s, View(p), T, DOMAIN own[p]) /\ DOMAIN own'[p] = DOMAIN own[p] \cup T
    BY <1>1, <1>4, <1>9, OwnAfter
  <2> QED
    BY <1>1, <2>1 DEF View, After
<1>11. Sound(p)'
  <2>1. Executes(s, v, View(p)')
    BY <1>5, <1>10 DEF Executes
  <2>2. /\ Running(p) /\ FromInput(todo[p])
        /\ todo[p] # <<>> /\ (pc[p] = "left" => kind[p] = "fuels")
        /\ Consistent(kind[p], pc[p], Head(todo[p]), table, v, plan[p], disturbed[p])
    BY <1>1 DEF Sound, Phase, Running
  <2> HIDE DEF v
  <2>3. Consistent(kind[p], pc[p], Head(todo[p]), table, View(p)', Tail(plan[p]), disturbed[p])
    BY <1>1, <1>2, <1>6, <2>1, <2>2, StatementKeeps DEF s
  <2> QED
    BY <1>1, <1>4, <2>2, <2>3 DEF Sound, Phase, Running
<1> QED
  BY <1>1, <1>4, <1>7, <1>8, <1>9, <1>11, RowsWritten

(* A transaction is committed. *)
LEMMA CommitKeepsInv ==
    ASSUME StoreInv, NEW p \in Procs, Commit(p)
    PROVE  StoreInv'
<1> DEFINE u == View(p)
           changed == {c \in Cars : u[c] # table[c]}
           more == kind[p] = "bulk" /\ written[p] + Batch < Cardinality(KeptRows(Head(todo[p])))
<1>1. /\ StoreTypeOK /\ Sound(p) /\ own = [q \in Procs |-> own[q]] /\ IdsOrdered
      /\ UNCHANGED <<kind, older, plan, reruns>>
      /\ pc[p] \in {"stmts", "left"} /\ plan[p] = <<>> /\ table' = u
  BY DEF StoreInv, Commit
<1>2. /\ table \in [Cars -> Stored] /\ u \in [Cars -> Stored]
      /\ pc \in [Procs -> {"idle", "stmts", "left", "done", "failed"}]
      /\ todo \in [Procs -> Seq(Seq(InputRow))] /\ written \in [Procs -> Nat]
      /\ disturbed \in [Procs -> SUBSET Cars]
      /\ todo[p] # <<>> /\ FromInput(todo[p])
  BY <1>1, ViewIs DEF StoreTypeOK, Sound, Phase
<1>3. /\ own' = [q \in Procs |-> own'[q]]
      /\ own'[p] = <<>> /\ \A q \in Procs \ {p} : own'[q] = own[q]
  BY <1>1 DEF Commit
<1>4. /\ todo' = [todo EXCEPT ![p] = IF more THEN todo[p] ELSE Tail(todo[p])]
      /\ written' = [written EXCEPT ![p] = IF more THEN written[p] + Batch ELSE 0]
      /\ pc' = [pc EXCEPT ![p] = "idle"]
      /\ disturbed' = [q \in Procs |-> IF q = p THEN {}
                                       ELSE IF Running(q) THEN disturbed[q] \cup changed
                                       ELSE disturbed[q]]
  BY DEF Commit
<1>5. /\ Tail(todo[p]) \in Seq(Seq(InputRow)) /\ FromInput(Tail(todo[p]))
  <2>1. todo[p] \in Seq(Seq(InputRow))
    BY <1>2
  <2>2. /\ Tail(todo[p]) \in Seq(Seq(InputRow))
        /\ \A i \in DOMAIN Tail(todo[p]) : i + 1 \in DOMAIN todo[p] /\ Tail(todo[p])[i] = todo[p][i + 1]
    BY <1>2, <2>1, TailIs
  <2> QED
    BY <1>2, <2>2 DEF FromInput
<1> HIDE DEF more
<1>6. /\ todo' \in [Procs -> Seq(Seq(InputRow))] /\ FromInput(todo'[p])
      /\ \A q \in Procs \ {p} : todo'[q] = todo[q]
  BY <1>2, <1>4, <1>5
<1>7. /\ written' \in [Procs -> Nat]
      /\ written'[p] = IF more THEN written[p] + Batch ELSE 0
      /\ \A q \in Procs \ {p} : written'[q] = written[q]
  <2>1. written[p] + Batch \in Nat
    BY <1>2, BatchAssumption
  <2> QED
    BY <1>2, <1>4, <2>1
<1>8. /\ pc' \in [Procs -> {"idle", "stmts", "left", "done", "failed"}]
      /\ pc'[p] = "idle" /\ \A q \in Procs \ {p} : pc'[q] = pc[q]
  BY <1>2, <1>4
<1>9. /\ disturbed' \in [Procs -> SUBSET Cars] /\ disturbed'[p] = {}
      /\ \A q \in Procs \ {p} : disturbed'[q] = IF Running(q) THEN disturbed[q] \cup changed
                                                ELSE disturbed[q]
  BY <1>2, <1>4
<1>10. DOMAIN own'[p] = {} /\ own'[p] \in [DOMAIN own'[p] -> Stored]
  BY <1>3
<1>11. \A q \in Procs : DOMAIN own'[q] \subseteq Cars /\ own'[q] \in [DOMAIN own'[q] -> Stored]
  BY <1>1, <1>3, <1>10 DEF StoreTypeOK
<1>12. \A q, r \in Procs : q # r => DOMAIN own'[q] \cap DOMAIN own'[r] = {}
  BY <1>1, <1>3, <1>10 DEF StoreTypeOK
<1>13. \A c \in Cars : Known(c)' => Known(c)
  BY <1>1, <1>3, <1>10 DEF Known, View
<1>14. IdsOrdered'
  BY <1>1, <1>13, IdsKept
<1>15. \A c, d \in StoredCars' : c # d => (<<c, d>> \in older' <=> <<d, c>> \notin older')
  BY <1>14 DEF IdsOrdered, StoredCars, Known
<1>16. StoreTypeOK'
  <2>1. InFile(p)'
    <3>1. more => todo'[p] = todo[p] /\ written[p] + Batch < Cardinality(KeptRows(Head(todo[p])))
      BY <1>2, <1>4 DEF more
    <3> QED
      BY <1>2, <1>7, <1>8, <3>1 DEF InFile
  <2>2. \A q \in Procs \ {p} : InFile(q)'
    BY <1>1, <1>6, <1>7, <1>8, InFileKept DEF StoreTypeOK
  <2> HIDE DEF u
  <2> QED
    BY <1>1, <1>2, <1>6, <1>7, <1>8, <1>9, <1>11, <1>12, <1>15, <2>1, <2>2
    DEF StoreTypeOK, StoredCars
<1>17. Sound(p)'
  BY <1>1, <1>3, <1>6, <1>8, <1>9 DEF Sound, Phase, Running
<1>18. ASSUME NEW q \in Procs \ {p} PROVE Sound(q)'
  <2>1. /\ kind'[q] = kind[q] /\ pc'[q] = pc[q] /\ todo'[q] = todo[q] /\ plan'[q] = plan[q]
        /\ own'[q] = own[q] /\ Sound(q)
    BY <1>1, <1>3, <1>6, <1>8 DEF StoreInv
  <2>2. CASE ~Running(q)
    BY <1>9, <2>1, <2>2 DEF Sound, Phase, Running
  <2>3. CASE Running(q)
    <3>1. PICK v, w : v = View(q) /\ w = View(q)'
      OBVIOUS
    <3>2. DOMAIN own[q] \cap DOMAIN own[p] = {}
      BY <1>1 DEF StoreTypeOK
    <3>3. Seen(table, u, v, w)
      <4> HIDE DEF u
      <4> SUFFICES ASSUME NEW c \in Cars
                   PROVE  \/ w[c] = v[c] /\ u[c] = table[c]
                          \/ v[c] = table[c] /\ w[c] = u[c]
        BY DEF Seen
      <4>1. CASE c \in DOMAIN own[q]
        BY <2>1, <3>1, <3>2, <4>1 DEF View, u
      <4>2. CASE c \notin DOMAIN own[q]
        BY <1>1, <2>1, <3>1, <4>2 DEF View
      <4> QED
        BY <4>1, <4>2
    <3>4. Consistent(kind[q], pc[q], Head(todo[q]), table, v, plan[q], disturbed[q])
      BY <2>1, <2>3, <3>1 DEF Sound
    <3> DEFINE dj == disturbed[q] \cup changed
    <3>5. dj = disturbed[q] \cup {c \in Cars : u[c] # table[c]}
      OBVIOUS
    <3> HIDE DEF u, dj
    <3>6. Consistent(kind[q], pc[q], Head(todo[q]), u, w, plan[q], dj)
      BY <1>2, <3>3, <3>4, <3>5, CommitKeeps
    <3>7. disturbed'[q] = dj
      BY <1>9, <2>3 DEF u, dj
    <3>8. Phase(kind[q], pc[q], todo[q], plan[q], own[q], dj) /\ FromInput(todo[q])
      BY <2>1, <2>3 DEF Sound, Phase, Running
    <3> QED
      BY <1>1, <2>1, <3>1, <3>6, <3>7, <3>8 DEF Sound, u
  <2> QED
    BY <2>2, <2>3
<1> QED
  BY <1>3, <1>14, <1>16, <1>17, <1>18 DEF StoreInv

----------------------------------------------------------------------------
(* The first state, and the theorems. *)

(* The invariant holds at first. *)
LEMMA StoreInvInit == StoreInit => StoreInv
<1> SUFFICES ASSUME StoreInit PROVE StoreInv
  OBVIOUS
<1>1. PICK order \in SetToSeqs({c \in Cars : Old[c] # Absent}) :
        older = {e \in Cars \X Cars : \E i, j \in DOMAIN order :
                    i < j /\ e = <<order[i], order[j]>>}
  BY DEF StoreInit
<1> DEFINE S == {c \in Cars : Old[c] # Absent}
<1>2. IsFiniteSet(S)
  BY CarsAssumption, FS_Subset
<1>3. order \in SetToSeqs(S)
  OBVIOUS
<1> HIDE DEF S
<1>4. /\ order \in Seq(S) /\ \A i, j \in DOMAIN order : i # j => order[i] # order[j]
      /\ \A x \in S : \E i \in DOMAIN order : order[i] = x
  BY <1>2, <1>3, ListOf
<1>5. DOMAIN order \subseteq Int
  BY <1>4
<1>6. own = [q \in Procs |-> <<>>] /\ table = Old /\ table \in [Cars -> Stored]
  BY OldAssumption DEF StoreInit
<1>7. \A q \in Procs : own[q] = <<>> /\ DOMAIN own[q] = {}
  BY <1>6
<1>8. IdsOrdered
  <2> SUFFICES ASSUME NEW c \in Cars, NEW d \in Cars, c # d, Known(c), Known(d)
               PROVE  <<c, d>> \in older <=> <<d, c>> \notin older
    BY DEF IdsOrdered
  <2>1. c \in S /\ d \in S
    BY <1>6, <1>7 DEF Known, S
  <2>2. PICK i \in DOMAIN order : order[i] = c
    BY <1>4, <2>1
  <2>3. PICK j \in DOMAIN order : order[j] = d
    BY <1>4, <2>1
  <2>4. i # j /\ (i < j \/ j < i) /\ ~(i < j /\ j < i)
    BY <1>5, <2>2, <2>3
  <2>5. <<c, d>> \in older <=> i < j
    BY <1>1, <1>4, <2>2, <2>3
  <2>6. <<d, c>> \in older <=> j < i
    BY <1>1, <1>4, <2>2, <2>3
  <2> QED
    BY <2>4, <2>5, <2>6
<1>9. \A q \in Procs : Todo(q, kind[q]) \in Seq(Seq(InputRow)) /\ FromInput(Todo(q, kind[q]))
  BY TodoIs
<1>10. <<>> \in Seq(Statements)
  OBVIOUS
<1>11. \A q \in Procs : own[q] \in [DOMAIN own[q] -> Stored]
  <2>1. <<>> \in [DOMAIN <<>> -> Stored]
    OBVIOUS
  <2> QED
    BY <1>7, <2>1
<1>12. StoreTypeOK
  <2>1. older \subseteq Cars \X Cars
    BY <1>1
  <2>2. reruns \in 0..MaxReruns
    BY BatchAssumption DEF StoreInit
  <2>3. todo \in [Procs -> Seq(Seq(InputRow))]
    BY <1>9 DEF StoreInit
  <2> QED
    BY <1>6, <1>7, <1>8, <1>10, <1>11, <2>1, <2>2, <2>3, IdsOfStored
    DEF StoreTypeOK, StoreInit, InFile
<1>13. \A q \in Procs : Sound(q)
  BY <1>7, <1>9 DEF StoreInit, Sound, Phase, Running
<1> QED
  BY <1>6, <1>8, <1>12, <1>13 DEF StoreInv

(* Every step keeps the invariant. *)
LEMMA StoreInvNext == StoreInv /\ [StoreNext]_storeVars => StoreInv'
<1> SUFFICES ASSUME StoreInv, [StoreNext]_storeVars PROVE StoreInv'
  OBVIOUS
<1>1. ASSUME NEW p \in Procs, Work(p) PROVE StoreInv'
  BY <1>1, FlushChunkKeeps, UpsertBatchKeeps, DeleteAllKeeps, RemapFuelsKeeps, RemapColorsKeeps,
     LeftoversKeeps, WriteOneKeeps, StatementKeepsInv, CommitKeepsInv, FinishKeeps, RollbackKeeps
  DEF Work, Refuse, DeadlockAbort
<1>2. ASSUME NEW p \in Procs, Crash(p) PROVE StoreInv'
  BY <1>2, RollbackKeeps DEF Crash
<1>3. ASSUME NEW p \in Procs, Rerun(p) PROVE StoreInv'
  BY <1>3, RerunKeeps
<1>4. CASE UNCHANGED storeVars
  BY <1>4 DEF storeVars, StoreInv, StoreTypeOK, InFile, StoredCars, IdsOrdered, Known, Sound,
              Running, View
<1> QED
  BY <1>1, <1>2, <1>3, <1>4 DEF StoreNext

(* Whatever the writers do and in whatever order their statements run, the *)
(* statements to come of each fit the rows that it sees.                   *)
THEOREM StoreInvariant == StoreSpec => []StoreInv
BY StoreInvInit, StoreInvNext, PTL DEF StoreSpec

(* The variables keep their types; no row is written by two transactions   *)
(* at once (the row locks that Statement waits for) and the ids put the    *)
(* stored rows in one order.                                               *)
THEOREM StoreTypeCorrect == StoreSpec => []StoreTypeOK
<1>1. StoreInv => StoreTypeOK
  BY DEF StoreInv
<1> QED
  BY <1>1, StoreInvariant, PTL

(* Only a commit changes the table. *)
LEMMA OnlyCommits ==
    ASSUME [StoreNext]_storeVars
    PROVE  table' = table \/ \E p \in Procs : Commit(p)
BY DEF StoreNext, Work, FlushChunk, UpsertBatch, DeleteAll, RemapFuels, RemapColors, Begin, Leftovers,
       WriteOne, Statement, Refuse, DeadlockAbort, Rollback, Finish, Crash, Rerun, storeVars

(* What a commit does to a row. *)
LEMMA CommittedRow ==
    ASSUME StoreInv, NEW p \in Procs, Commit(p), NEW c \in Cars
    PROVE  /\ table[c] \in Stored /\ table'[c] \in Stored
           /\ table'[c] # table[c] => Commits(p)
           /\ Guarded(kind[p], disturbed[p], c) =>
                Follows(kind[p], Head(todo[p]), c, table[c], table'[c])
<1>1. /\ StoreTypeOK /\ Sound(p) /\ own = [q \in Procs |-> own[q]]
      /\ pc \in [Procs -> {"idle", "stmts", "left", "done", "failed"}]
      /\ Running(p) /\ table' = View(p)
      /\ own' = [own EXCEPT ![p] = <<>>] /\ pc' = [pc EXCEPT ![p] = "idle"]
  BY DEF StoreInv, StoreTypeOK, Commit, Running
<1>2. table[c] \in Stored /\ View(p)[c] \in Stored
  BY <1>1, ViewIs DEF StoreTypeOK
<1>3. own'[p] = <<>> /\ pc'[p] = "idle"
  BY <1>1
<1>4. View(p)[c] # table[c] => own[p] # <<>>
  <2>1. DOMAIN <<>> = {}
    OBVIOUS
  <2> QED
    BY <2>1 DEF View
<1>5. Consistent(kind[p], pc[p], Head(todo[p]), table, View(p), plan[p], disturbed[p])
  BY <1>1 DEF Sound
<1>6. Guarded(kind[p], disturbed[p], c) => Follows(kind[p], Head(todo[p]), c, table[c], View(p)[c])
  BY <1>5 DEF Consistent, ViewFollows
<1> QED
  BY <1>1, <1>2, <1>3, <1>4, <1>6 DEF Commits

(* If it is not late, the row follows the one that it replaces. *)
LEMMA LateOrFollows ==
    ASSUME StoreInv, [StoreNext]_storeVars, NEW c \in Cars, table'[c] # table[c], ~Late(c)
    PROVE  \E p \in Procs : /\ Commits(p) /\ table[c] \in Stored /\ table'[c] \in Stored
                            /\ Follows(kind[p], Head(todo[p]), c, table[c], table'[c])
<1>1. PICK p \in Procs : Commit(p)
  BY OnlyCommits
<1>2. Commits(p) /\ Guarded(kind[p], disturbed[p], c)
  BY <1>1, CommittedRow DEF Late, Guarded
<1> QED
  BY <1>1, <1>2, CommittedRow

(* The upsert keeps the newest data: the stamp of a stored row falls only  *)
(* as StampFallsOnlyLate excepts (Takes and _INSERT_SQL).                  *)
THEOREM StampKept == StoreSpec => StampFallsOnlyLate
<1> DEFINE Falls(c) ==
        \/ Late(c) \/ ~table[c].id
        \/ \E p \in Procs :
            /\ Commits(p)
            /\ \/ kind[p] = "import" /\ Refills(c, Head(todo[p]))
               \/ kind[p] = "bulk" /\ StoresUnstamped(c, Head(todo[p]))
           Step == \A c \in Cars : table'[c] # Absent /\ table'[c].stamp < table[c].stamp => Falls(c)
<1>1. StoreInv /\ [StoreNext]_storeVars => [Step]_table
  <2> SUFFICES ASSUME StoreInv, [StoreNext]_storeVars, NEW c \in Cars,
                      table'[c] # Absent, table'[c].stamp < table[c].stamp, ~Late(c)
               PROVE  Falls(c)
    OBVIOUS
  <2>1. CASE table'[c] # table[c]
    <3>1. PICK p \in Procs : Commits(p) /\ Follows(kind[p], Head(todo[p]), c, table[c], table'[c])
      BY <2>1, LateOrFollows
    <3> QED
      BY <3>1 DEF Follows, Excused
  <2>2. CASE table'[c] = table[c]
    <3>1. table[c].stamp \in Int
      BY RowsAre DEF StoreInv, StoreTypeOK
    <3> QED
      BY <2>2, <3>1
  <2> QED
    BY <2>1, <2>2
<1> QED
  BY <1>1, StoreInvariant, PTL DEF StoreSpec, StampFallsOnlyLate

(* A row comes from one row of an input unless a late commit mixed two     *)
(* (_apply_row, and the columns that an UPDATE of the session leaves out), *)
(* and but for the two columns that _INSERT_SQL of the bulk script leaves. *)
THEOREM RowsWhole == StoreSpec => MixedOnlyLate
<1> DEFINE Step == \A c \in Cars :
        /\ Whole(c) => Whole(c)' \/ Late(c)
        /\ Entire(c) => Entire(c)' \/ Late(c) \/ LeavesInspected(c)
<1>1. StoreInv /\ [StoreNext]_storeVars => [Step]_table
  <2> SUFFICES ASSUME StoreInv, [StoreNext]_storeVars, NEW c \in Cars, ~Late(c)
               PROVE  /\ Whole(c) => Whole(c)'
                      /\ Entire(c) => Entire(c)' \/ LeavesInspected(c)
    OBVIOUS
  <2>1. CASE table'[c] # table[c]
    <3>1. PICK p \in Procs : Commits(p) /\ Follows(kind[p], Head(todo[p]), c, table[c], table'[c])
      BY <2>1, LateOrFollows
    <3>2. IsWhole(c, table[c]) => IsWhole(c, table'[c])
      BY <3>1 DEF Follows
    <3>3. IsEntire(c, table[c]) => IsEntire(c, table'[c]) \/ LeavesInspected(c)
      BY <3>1 DEF Follows, LeavesInspected
    <3> QED
      BY <3>2, <3>3 DEF Whole, IsWhole, Entire, IsEntire
  <2>2. CASE table'[c] = table[c]
    BY <2>2 DEF Whole, Entire
  <2> QED
    BY <2>1, <2>2
<1> QED
  BY <1>1, StoreInvariant, PTL DEF StoreSpec, MixedOnlyLate

(* The Korean column stays an alias of color, but for the bulk script,     *)
(* remap-attrs and a late commit.                                          *)
THEOREM AliasKept == StoreSpec => AliasLostOnlyBy
<1> DEFINE Loses(c) ==
        \/ Aliased(c)' \/ table'[c] = Absent \/ Late(c)
        \/ \E p \in Procs : Commits(p) /\ kind[p] \in {"bulk", "colors"}
           Step == \A c \in Cars : Aliased(c) => Loses(c)
<1>1. StoreInv /\ [StoreNext]_storeVars => [Step]_table
  <2> SUFFICES ASSUME StoreInv, [StoreNext]_storeVars, NEW c \in Cars, Aliased(c), ~Late(c)
               PROVE  Loses(c)
    OBVIOUS
  <2>1. CASE table'[c] # table[c]
    <3>1. PICK p \in Procs : Commits(p) /\ Follows(kind[p], Head(todo[p]), c, table[c], table'[c])
      BY <2>1, LateOrFollows
    <3>2. IsAliased(table[c])
      BY DEF Aliased, IsAliased
    <3>3. table'[c] = Absent \/ IsAliased(table'[c]) \/ kind[p] \in {"bulk", "colors"}
      BY <3>1, <3>2 DEF Follows
    <3>4. IsAliased(table'[c]) => Aliased(c)'
      BY DEF IsAliased, Aliased
    <3> QED
      BY <3>1, <3>3, <3>4
  <2>2. CASE table'[c] = table[c]
    BY <2>2 DEF Aliased
  <2> QED
    BY <2>1, <2>2
<1> QED
  BY <1>1, StoreInvariant, PTL DEF StoreSpec, AliasLostOnlyBy

(* A running process becomes idle only by its commit.                      *)
LEMMA IdleByCommit ==
    ASSUME StoreInv, [StoreNext]_storeVars, NEW p \in Procs,
           pc[p] \in {"stmts", "left"}, pc'[p] = "idle"
    PROVE  Commit(p)
<1>1. pc \in [Procs -> {"idle", "stmts", "left", "done", "failed"}]
  BY DEF StoreInv, StoreTypeOK
<1>2. pc'[p] # pc[p]
  OBVIOUS
<1>3. PICK q \in Procs : Work(q) \/ Crash(q) \/ Rerun(q)
  BY <1>2 DEF StoreNext, storeVars
<1>4. \A x : pc' = [pc EXCEPT ![q] = x] => q = p /\ x = "idle"
  BY <1>1, <1>2
<1>5. ~Rerun(q) /\ ~Crash(q)
  BY <1>4 DEF Rerun, Crash, Rollback
<1>6. ~FlushChunk(q) /\ ~UpsertBatch(q) /\ ~DeleteAll(q) /\ ~RemapFuels(q) /\ ~RemapColors(q)
  BY <1>4 DEF FlushChunk, UpsertBatch, DeleteAll, RemapFuels, RemapColors, Begin
<1>7. ~Leftovers(q) /\ ~Refuse(q) /\ ~DeadlockAbort(q) /\ ~Finish(q)
  BY <1>4 DEF Leftovers, Refuse, DeadlockAbort, Rollback, Finish
<1>8. ~WriteOne(q) /\ ~Statement(q)
  BY <1>2 DEF WriteOne, Statement
<1>9. Commit(q)
  BY <1>3, <1>5, <1>6, <1>7, <1>8 DEF Work
<1>10. q = p
  BY <1>4, <1>9 DEF Commit
<1> QED
  BY <1>9, <1>10

(* A run of remap_vehicle_fuels or remap_vehicle_attrs leaves the standard *)
(* name in every row that nobody else committed meanwhile.                 *)
THEOREM RemapDone == StoreSpec => RemapSettles
<1> DEFINE Settled(p) ==
        pc[p] \in {"stmts", "left"} /\ pc'[p] = "idle" =>
            \A c \in Cars \ disturbed[p] : table'[c] # Absent =>
                /\ kind[p] = "fuels" => InferFuel(table'[c].fuel, table'[c].grade) = table'[c].fuel
                /\ kind[p] = "colors" => table'[c].color \in {Attr[a] : a \in DOMAIN Attr}
           Step == \A p \in Procs : Settled(p)
<1>1. StoreInv /\ [StoreNext]_storeVars => [Step]_pc
  <2> SUFFICES ASSUME StoreInv, [StoreNext]_storeVars, NEW p \in Procs,
                      pc[p] \in {"stmts", "left"}, pc'[p] = "idle",
                      NEW c \in Cars \ disturbed[p], table'[c] # Absent
               PROVE  /\ kind[p] = "fuels" =>
                            InferFuel(table'[c].fuel, table'[c].grade) = table'[c].fuel
                      /\ kind[p] = "colors" => table'[c].color \in Names
    BY DEF Names
  <2>1. Commit(p)
    BY IdleByCommit
  <2> DEFINE row == table'[c]
  <2>2. /\ row = View(p)[c] /\ row # Absent /\ plan[p] = <<>>
        /\ pc[p] = IF kind[p] = "fuels" THEN "left" ELSE "stmts"
    BY <2>1 DEF Commit
  <2>3. Awaits(kind[p], pc[p], c, row, <<>>)
    BY <2>1, <2>2 DEF StoreInv, Sound, Running, Consistent, Settling, Commit
  <2>4. row \in Row
    BY <2>1, CommittedRow, RowsAre
  <2>5. /\ kind[p] = "fuels" => Refueled(row) = row
        /\ kind[p] = "colors" => row.color \in Names
    BY <2>2, <2>3 DEF Awaits
  <2> HIDE DEF row
  <2> QED
    BY <2>4, <2>5, RefueledIs DEF row
<1> QED
  BY <1>1, StoreInvariant, PTL DEF StoreSpec, RemapSettles

(***************************************************************************)
(* VehicleList: the inductive invariant.                                   *)
(***************************************************************************)

(* What lies ahead of a row of the list that the client walks through, or  *)
(* ahead of the page it asks for next.                                     *)
Ahead(k) == {j \in Window : Before(j, k, Ordered)}
Place(k) == Cardinality(Ahead(k))
Offset == (walk - 1) * PerPage
Passed == {k \in Window : Place(k) < Offset}

(* The rows it should have and will not be given in this walk. *)
Missed == {k \in Lacks : k \notin Window \/ k \in Passed}

(* A row that was stored since the last walk began, and not read since, is *)
(* in the next one, or is one of those with a day before.                  *)
Waiting == \A i \in Rows \ (steady \cup hidden \cup fresh) : stamp[i] >= start

NewIds == \A i \in Ids : i > lastId => stamp[i] = Gone

ListInv ==
    /\ TypeOK /\ NewIds /\ Waiting
    /\ Reading => Cardinality(Missed) <= falls
    /\ ~Reading => Cardinality(Lacks) <= falls

----------------------------------------------------------------------------
(* Counting. *)

(* Every set of ids is finite. *)
LEMMA IdsFinite ==
    ASSUME NEW S \in SUBSET Ids
    PROVE  IsFiniteSet(S) /\ Cardinality(S) \in Nat /\ Cardinality(S) <= MaxId
<1>1. IsFiniteSet(Ids) /\ Cardinality(Ids) = MaxId
  BY BoundsAssumption, FS_Interval DEF Ids
<1> QED
  BY <1>1, FS_Subset, FS_CardinalityType

(* Part of a set of ids, and a proper part of it. *)
LEMMA Fewer ==
    ASSUME NEW T \in SUBSET Ids, NEW S \in SUBSET T
    PROVE  Cardinality(S) <= Cardinality(T) /\ (S # T => Cardinality(S) < Cardinality(T))
<1>1. S \in SUBSET Ids
  OBVIOUS
<1>2. Cardinality(S) \in Nat /\ Cardinality(T) \in Nat
  BY <1>1, IdsFinite
<1>3. Cardinality(S) <= Cardinality(T) /\ (Cardinality(T) = Cardinality(S) => T = S)
  BY IdsFinite, FS_Subset
<1> QED
  BY <1>2, <1>3

(* A set that is covered by two others. *)
LEMMA Covered ==
    ASSUME NEW S \in SUBSET Ids, NEW T \in SUBSET Ids, NEW U \in SUBSET (S \cup T)
    PROVE  Cardinality(U) <= Cardinality(S) + Cardinality(T)
<1>1. S \cup T \in SUBSET Ids /\ S \cap T \in SUBSET Ids
  OBVIOUS
<1>2. Cardinality(S \cup T) = Cardinality(S) + Cardinality(T) - Cardinality(S \cap T)
  BY IdsFinite, FS_Union
<1>3. Cardinality(U) <= Cardinality(S \cup T)
  BY <1>1, Fewer
<1>4. /\ Cardinality(S) \in Nat /\ Cardinality(T) \in Nat /\ Cardinality(U) \in Nat
      /\ Cardinality(S \cap T) \in Nat /\ Cardinality(S \cup T) \in Nat
  BY <1>1, IdsFinite
<1> QED
  BY <1>2, <1>3, <1>4

(* No more rows than there are places for them. *)
LEMMA Crossing ==
    ASSUME NEW K, NEW place \in [K -> Int], NEW from \in Int, NEW m \in Nat,
           \A k \in K : from <= place[k] /\ place[k] < from + m,
           \A j, k \in K : place[j] = place[k] => j = k
    PROVE  IsFiniteSet(K) /\ Cardinality(K) <= m
<1>1. place \in Injection(K, from..(from + m - 1))
  BY DEF Injection, IsInjective
<1>2. /\ IsFiniteSet(from..(from + m - 1))
      /\ Cardinality(from..(from + m - 1)) = m
  BY FS_Interval
<1> QED
  BY <1>1, <1>2, FS_Injection

----------------------------------------------------------------------------
(* The places of a list. *)

(* vehicle_list_order puts any two rows in an order. *)
LEMMA BeforeIs ==
    ASSUME stamp \in [Ids -> Int], NEW byDay, NEW i \in Ids, NEW j \in Ids, NEW k \in Ids
    PROVE  /\ ~Before(i, i, byDay)
           /\ Before(i, j, byDay) /\ Before(j, k, byDay) => Before(i, k, byDay)
           /\ i # j => Before(i, j, byDay) \/ Before(j, i, byDay)
<1>1. CASE byDay
  BY <1>1 DEF Before, Ids
<1>2. CASE ~byDay
  BY <1>2 DEF Before, Ids
<1> QED
  BY <1>1, <1>2

(* The days are numbers and the list is one of ids. *)
LEMMA WindowIs ==
    ASSUME TypeOK
    PROVE  /\ stamp \in [Ids -> Int] /\ Rows \subseteq Ids /\ Window \subseteq Rows
           /\ Lacks \subseteq Rows /\ falls \in Nat /\ start \in Nat
           /\ \A k : Ahead(k) \in SUBSET Ids
BY BoundsAssumption
   DEF TypeOK, Gone, Unstamped, Days, Rows, Window, Listed, Lacks, Wanted, Ahead

(* What is ahead of a row has a lower place. *)
LEMMA PlaceRises ==
    ASSUME TypeOK, NEW j \in Window, NEW k \in Window, Before(j, k, Ordered)
    PROVE  Place(j) < Place(k)
<1>1. j \in Ids /\ k \in Ids /\ Window \subseteq Ids
  BY WindowIs
<1>2. Ahead(j) \subseteq Ahead(k)
  BY <1>1, BeforeIs, WindowIs DEF Ahead
<1>3. j \in Ahead(k) /\ j \notin Ahead(j)
  BY <1>1, BeforeIs, WindowIs DEF Ahead
<1> QED
  BY <1>2, <1>3, Fewer, WindowIs DEF Place

(* No two rows of the list have one place. *)
LEMMA PlacesDiffer ==
    ASSUME TypeOK, NEW j \in Window, NEW k \in Window, j # k
    PROVE  Place(j) # Place(k)
<1>1. Before(j, k, Ordered) \/ Before(k, j, Ordered)
  BY BeforeIs, WindowIs
<1>2. Place(j) \in Nat /\ Place(k) \in Nat
  BY IdsFinite, WindowIs DEF Place
<1> QED
  BY <1>1, <1>2, PlaceRises

(* The heart of it: when the rows X are taken away from ahead of others,   *)
(* and no others are, no more rows than X get ahead of the next page.      *)
LEMMA MissedGrows ==
    ASSUME TypeOK, TypeOK', Reading, UNCHANGED <<walk, since, coded>>, NEW X \in SUBSET Ids,
           Lacks' \subseteq Lacks,
           \A k \in Lacks' : stamp'[k] = stamp[k] /\ (k \in matches' <=> k \in matches),
           \A k \in Lacks' : Ahead(k) \subseteq Ahead(k)' \cup X
    PROVE  Cardinality(Missed') <= Cardinality(Missed) + Cardinality(X)
<1> DEFINE K == Missed' \ Missed
<1>1. Offset' = Offset /\ Offset \in Int
  BY BoundsAssumption DEF Offset, TypeOK
<1>2. ASSUME NEW k \in Lacks' PROVE k \in Window' <=> k \in Window
  BY <1>2, WindowIs DEF Window, Listed, Rows
<1>3. ASSUME NEW k \in K
      PROVE  k \in Window /\ Offset <= Place(k) /\ Place(k) < Offset + Cardinality(X)
  <2>1. k \in Lacks' /\ k \in Lacks /\ k \in Window /\ k \notin Passed /\ k \in Passed'
    BY <1>2 DEF Missed
  <2>2. Place(k)' < Offset /\ ~(Place(k) < Offset)
    BY <1>1, <2>1 DEF Passed
  <2>3. Ahead(k) \in SUBSET Ids /\ Ahead(k)' \in SUBSET Ids
    <3>1. Window' \subseteq Ids
      BY DEF Window, Listed, Rows
    <3> QED
      BY <3>1, WindowIs DEF Ahead
  <2>4. Place(k) <= Place(k)' + Cardinality(X)
    BY <2>1, <2>3, Covered DEF Place
  <2>5. Place(k) \in Nat /\ Place(k)' \in Nat /\ Cardinality(X) \in Nat
    BY <2>3, IdsFinite DEF Place
  <2> QED
    BY <1>1, <2>1, <2>2, <2>4, <2>5
<1>4. Cardinality(K) <= Cardinality(X)
  <2> DEFINE place == [k \in K |-> Place(k)]
  <2>1. Cardinality(X) \in Nat
    BY IdsFinite
  <2>2. \A k \in K : Place(k) \in Nat
    BY IdsFinite, WindowIs DEF Place
  <2>3. \A j, k \in K : Place(j) = Place(k) => j = k
    BY <1>3, PlacesDiffer
  <2>4. place \in [K -> Int] /\ \A k \in K : place[k] = Place(k)
    BY <2>2
  <2> HIDE DEF place, K
  <2> QED
    BY <1>1, <1>3, <2>1, <2>3, <2>4, Crossing
<1>5. Missed \in SUBSET Ids /\ Missed' \in SUBSET Ids
  <2>1. Lacks \subseteq Ids /\ Lacks' \subseteq Ids
    BY WindowIs
  <2> QED
    BY <2>1 DEF Missed
<1>6. K \in SUBSET Ids /\ Missed' \in SUBSET (Missed \cup K)
  BY <1>5
<1> HIDE DEF K
<1>7. Cardinality(Missed') <= Cardinality(Missed) + Cardinality(K)
  BY <1>5, <1>6, Covered
<1>8. /\ Cardinality(Missed') \in Nat /\ Cardinality(Missed) \in Nat
      /\ Cardinality(K) \in Nat /\ Cardinality(X) \in Nat
  BY <1>5, <1>6, IdsFinite
<1> QED
  BY <1>4, <1>7, <1>8

(* If a page of the walk is empty, all of the list lies before it. *)
LEMMA EmptyIsLast ==
    ASSUME TypeOK, Reading, ListVehicles(walk, since, coded) = {}
    PROVE  Window \subseteq Passed
<1>1. Offset \in Nat /\ walk * PerPage = Offset + PerPage
  BY BoundsAssumption DEF TypeOK, Reading, Offset
<1>2. \A k \in Window : Place(k) \in Nat
  BY IdsFinite, WindowIs DEF Place
<1>3. \A k \in Window : ~(Offset <= Place(k) /\ Place(k) < Offset + PerPage)
  BY <1>1 DEF ListVehicles, Slice, Rank, Place, Ahead, Window, Ordered, Offset
<1> SUFFICES ASSUME NEW x \in Window, Offset <= Place(x) PROVE FALSE
  BY <1>1, <1>2 DEF Passed
<1> DEFINE S == {Place(k) : k \in {y \in Window : Offset <= Place(y)}}
<1>4. S \in SUBSET Nat /\ S # {}
  BY <1>2
<1>5. PICK k \in Window : Offset <= Place(k)
                          /\ \A y \in Window : Offset <= Place(y) => Place(k) <= Place(y)
  <2>1. PICK n \in S : \A m \in S : n <= m
    BY <1>4, LeastOf
  <2> QED
    BY <2>1
<1>6. \A j \in Ahead(k) : j \in Window /\ Place(j) < Offset
  <2> SUFFICES ASSUME NEW j \in Ahead(k) PROVE j \in Window /\ Place(j) < Offset
    OBVIOUS
  <2>1. j \in Window /\ Before(j, k, Ordered)
    BY DEF Ahead
  <2>2. Place(j) < Place(k)
    BY <2>1, PlaceRises
  <2> QED
    BY <1>1, <1>2, <1>5, <2>1, <2>2
<1>7. Cardinality(Ahead(k)) <= Offset
  <2> DEFINE place == [j \in Ahead(k) |-> Place(j)]
  <2>1. place \in [Ahead(k) -> Int] /\ \A j \in Ahead(k) : place[j] = Place(j)
    BY <1>2, <1>6
  <2>2. \A i, j \in Ahead(k) : Place(i) = Place(j) => i = j
    BY <1>6, PlacesDiffer
  <2>3. \A j \in Ahead(k) : 0 <= Place(j) /\ Place(j) < 0 + Offset
    BY <1>1, <1>2, <1>6
  <2> HIDE DEF place
  <2>4. Offset \in Nat /\ 0 \in Int
    BY <1>1
  <2> QED
    BY <2>1, <2>2, <2>3, <2>4, Crossing
<1>8. Place(k) = Offset
  BY <1>1, <1>2, <1>5, <1>7 DEF Place
<1> QED
  BY <1>1, <1>3, <1>8, BoundsAssumption

----------------------------------------------------------------------------
(* The inductive invariant. *)

(* The table is empty at first. *)
LEMMA InvInit == Init => ListInv
<1> SUFFICES ASSUME Init PROVE ListInv
  OBVIOUS
<1>1. Rows = {} /\ Lacks = {} /\ ~Reading
  BY DEF Init, Rows, Lacks, Wanted, Reading
<1>2. TypeOK
  <2>1. 0 \in 0..MaxDay /\ 0 \in 0..MaxId /\ 0 \in 0..MaxFalls /\ -1 \in -1..MaxId /\ 1 \in Days
    BY BoundsAssumption DEF Days
  <2>2. reltuples = -1 /\ Estimate = 0
    BY DEF Init, Estimate
  <2> QED
    BY <1>1, <2>1, <2>2 DEF Init, TypeOK, Unstamped
<1> QED
  BY <1>1, <1>2, FS_EmptySet DEF Init, ListInv, NewIds, Waiting

(* The ids, days and rows keep their types. *)
LEMMA TypeNext == TypeOK /\ NewIds /\ [Next]_vars => TypeOK' /\ NewIds'
<1> SUFFICES ASSUME TypeOK, NewIds, [Next]_vars PROVE TypeOK' /\ NewIds'
  OBVIOUS
<1>a. /\ stamp \in [Ids -> {Gone, Unstamped} \cup Days] /\ matches \subseteq Rows
      /\ lastId \in 0..MaxId /\ today \in Days /\ reltuples \in -1..MaxId
      /\ coded \in BOOLEAN
      /\ walk \in Nat /\ since \in 0..MaxDay /\ start \in 0..MaxDay
      /\ fresh \subseteq Rows /\ steady \subseteq Rows /\ hidden \subseteq Rows
      /\ falls \in 0..MaxFalls
  BY DEF TypeOK
<1>b. reltuples' \in -1..MaxId => Estimate' \in Nat
  BY BoundsAssumption DEF Estimate
<1>c. ASSUME NEW i \in Ids, NEW day \in 0..today, NEW match, Store(i, day, match)
      PROVE  /\ stamp' \in [Ids -> {Gone, Unstamped} \cup Days] /\ matches' \subseteq Rows'
             /\ fresh' \subseteq Rows' /\ steady' \subseteq Rows' /\ hidden' \subseteq Rows'
             /\ \A j \in Ids \ {i} : stamp'[j] = stamp[j]
  <2>1. day \in {Gone, Unstamped} \cup Days /\ day # Gone
    BY <1>a, BoundsAssumption DEF Unstamped, Days, Gone
  <2>2. stamp' = [stamp EXCEPT ![i] = day]
    BY <1>c DEF Store
  <2>3. /\ stamp' \in [Ids -> {Gone, Unstamped} \cup Days]
        /\ stamp'[i] = day /\ \A j \in Ids \ {i} : stamp'[j] = stamp[j]
    BY <1>a, <2>1, <2>2
  <2>4. Rows' = Rows \cup {i}
    BY <2>1, <2>3 DEF Rows
  <2> QED
    BY <1>a, <1>c, <2>3, <2>4 DEF Store
<1>1. ASSUME NEW day \in 0..today, NEW match \in Content, Insert(day, match)
      PROVE  TypeOK' /\ NewIds'
  <2>1. lastId + 1 \in Ids /\ lastId' = lastId + 1 /\ Store(lastId + 1, day, match)
    BY <1>a, <1>1, BoundsAssumption DEF Insert, Ids
  <2>2. lastId' \in 0..MaxId
    BY <2>1 DEF Ids
  <2>3. NewIds'
    BY <1>a, <1>c, <2>1, BoundsAssumption DEF NewIds, Ids
  <2> QED
    BY <1>1, <1>a, <1>b, <1>c, <2>1, <2>2, <2>3 DEF Insert, TypeOK
<1>2. ASSUME NEW day \in 0..today, NEW match \in Content, NEW i \in Rows, Update(i, day, match)
      PROVE  TypeOK' /\ NewIds'
  <2>1. i \in Ids /\ stamp[i] # Gone /\ Store(i, day, match)
    BY <1>2 DEF Update, Rows
  <2>2. falls' \in 0..MaxFalls
    BY <1>2, <1>a, BoundsAssumption DEF Update
  <2>3. NewIds'
    BY <1>2, <1>c, <2>1 DEF NewIds, Update
  <2> QED
    BY <1>2, <1>a, <1>b, <1>c, <2>1, <2>2, <2>3 DEF Update, TypeOK
<1>3. ASSUME NEW gone \in SUBSET Rows \ {{}}, Delete(gone) PROVE TypeOK' /\ NewIds'
  <2>1. gone \subseteq Ids /\ Cardinality(gone \cap Window) \in Nat
    <3>1. gone \in SUBSET Ids /\ gone \cap Window \in SUBSET Ids
      BY DEF Rows
    <3> QED
      BY <3>1, IdsFinite
  <2>2. stamp' \in [Ids -> {Gone, Unstamped} \cup Days]
        /\ \A j \in Ids : stamp'[j] = IF j \in gone THEN Gone ELSE stamp[j]
    BY <1>3, <1>a DEF Delete
  <2>3. Rows' = Rows \ gone
    BY <2>1, <2>2 DEF Rows
  <2>4. falls' \in 0..MaxFalls
    BY <1>3, <1>a, <2>1, BoundsAssumption DEF Delete
  <2>5. NewIds'
    BY <1>3, <2>2 DEF NewIds, Delete
  <2> QED
    BY <1>3, <1>a, <1>b, <2>2, <2>3, <2>4, <2>5 DEF Delete, TypeOK
<1>4. CASE Analyze
  <2>1. Cardinality(Rows) \in Nat /\ Cardinality(Rows) <= MaxId
    BY IdsFinite DEF Rows
  <2>2. reltuples' \in -1..MaxId
    BY <1>4, <2>1, BoundsAssumption DEF Analyze
  <2>3. UNCHANGED <<stamp, matches, lastId, today, client>> /\ Rows' = Rows
    BY <1>4 DEF Analyze, Rows
  <2> QED
    BY <1>a, <1>b, <2>2, <2>3 DEF client, TypeOK, NewIds
<1>5. CASE NewDay
  <2>1. today' \in Days
    BY <1>5, <1>a, BoundsAssumption DEF NewDay, Days
  <2>2. UNCHANGED <<stamp, matches, lastId, reltuples, client>> /\ Rows' = Rows
    BY <1>5 DEF NewDay, Rows
  <2> QED
    BY <1>a, <1>b, <2>1, <2>2 DEF client, TypeOK, NewIds
<1>6. CASE StartWalk
  <2>1. /\ UNCHANGED <<stamp, matches, lastId, today, reltuples, coded, fresh, hidden, falls>>
        /\ walk' = 1 /\ since' = start /\ start' = today /\ steady' = Rows /\ Rows' = Rows
    BY <1>6 DEF StartWalk, Rows
  <2>2. start' \in 0..MaxDay
    BY <1>a, <2>1, BoundsAssumption DEF Days
  <2> QED
    BY <1>a, <1>b, <2>1, <2>2 DEF TypeOK, NewIds
<1>7. CASE FetchPage
  <2>1. /\ UNCHANGED <<stamp, matches, lastId, today, reltuples, coded, since, start, steady,
                       falls>>
        /\ walk' \in Nat /\ Rows' = Rows
        /\ fresh' = fresh \cup ListVehicles(walk, since, coded)
        /\ hidden' = hidden \ ListVehicles(walk, since, coded)
    BY <1>7, <1>a DEF FetchPage, Rows
  <2>2. ListVehicles(walk, since, coded) \subseteq Rows
    BY DEF ListVehicles, Slice, Listed
  <2> QED
    BY <1>a, <1>b, <2>1, <2>2 DEF TypeOK, NewIds
<1>8. CASE UNCHANGED vars
  BY <1>8, <1>a, <1>b DEF vars, client, TypeOK, NewIds, Rows
<1> QED
  BY <1>1, <1>2, <1>3, <1>4, <1>5, <1>6, <1>7, <1>8 DEF Next, Change

(* A row that is stored moves others towards the front only if it leaves   *)
(* the list, or its day falls and the list is in the order of the days.    *)
LEMMA StoreKeeps ==
    ASSUME TypeOK, TypeOK', Reading, NEW i \in Ids, NEW day \in Nat, NEW match,
           Store(i, day, match), UNCHANGED <<walk, since, coded>>
    PROVE  /\ Cardinality(Missed') \in Nat /\ Cardinality(Missed) \in Nat
           /\ Cardinality(Missed') <= Cardinality(Missed) + 1
           /\ i \notin Window \/ (i \in Window' /\ (Ordered => stamp[i] <= day)) =>
                Cardinality(Missed') <= Cardinality(Missed)
<1>1. /\ stamp \in [Ids -> Int] /\ stamp'[i] = day
      /\ \A j \in Ids \ {i} : stamp'[j] = stamp[j] /\ (j \in matches' <=> j \in matches)
      /\ Lacks' \subseteq Lacks \ {i}
  <2>1. stamp \in [Ids -> Int] /\ stamp' = [stamp EXCEPT ![i] = day]
    BY WindowIs DEF Store
  <2>2. /\ fresh' = fresh \ {i} /\ steady' = steady \ {i} /\ hidden \ {i} \subseteq hidden'
        /\ matches' \ {i} = matches \ {i}
    BY DEF Store
  <2> QED
    BY <2>1, <2>2 DEF Lacks, Wanted
<1>2. Window \subseteq Ids /\ Lacks \subseteq Ids
  BY WindowIs
<1>3. \A k \in Lacks' : /\ k \in Ids \ {i} /\ stamp'[k] = stamp[k]
                        /\ (k \in matches' <=> k \in matches)
  BY <1>1, <1>2
<1>4. ASSUME NEW k \in Lacks', NEW j \in Ahead(k), j # i PROVE j \in Ahead(k)'
  <2>1. /\ stamp'[j] = stamp[j] /\ stamp'[k] = stamp[k] /\ j \in Ids
        /\ (j \in matches' <=> j \in matches)
    BY <1>1, <1>2, <1>3, <1>4 DEF Ahead
  <2> QED
    BY <2>1 DEF Ahead, Window, Listed, Rows, Before, Ordered
<1>5. ASSUME i \in Window', Ordered => stamp[i] <= day, NEW k \in Lacks', i \in Ahead(k)
      PROVE  i \in Ahead(k)'
  <2>1. stamp'[k] = stamp[k] /\ stamp'[i] = day /\ k \in Ids /\ k # i /\ Ordered' = Ordered
    BY <1>1, <1>2, <1>3 DEF Ordered
  <2>2. stamp[i] \in Int /\ stamp[k] \in Int
    BY <1>1, <2>1
  <2>3. Before(i, k, Ordered) => Before(i, k, Ordered)'
    BY <1>5, <2>1, <2>2 DEF Before
  <2> QED
    BY <1>5, <2>3 DEF Ahead
<1>6. Cardinality(Missed') <= Cardinality(Missed) + Cardinality({i})
  <2>1. \A k \in Lacks' : Ahead(k) \subseteq Ahead(k)' \cup {i}
    BY <1>4
  <2> QED
    BY <1>1, <1>3, <2>1, MissedGrows
<1>7. ASSUME i \notin Window \/ (i \in Window' /\ (Ordered => stamp[i] <= day))
      PROVE  Cardinality(Missed') <= Cardinality(Missed) + Cardinality({})
  <2>1. \A k \in Lacks' : Ahead(k) \subseteq Ahead(k)' \cup {}
    BY <1>4, <1>5, <1>7 DEF Ahead
  <2> QED
    BY <1>1, <1>3, <2>1, MissedGrows
<1>8. Cardinality({i}) = 1 /\ Cardinality({}) = 0
  BY FS_Singleton, FS_EmptySet
<1>9. Cardinality(Missed') \in Nat /\ Cardinality(Missed) \in Nat
  <2>1. Missed \in SUBSET Ids /\ Missed' \in SUBSET Ids
    BY <1>1, <1>2 DEF Missed
  <2> QED
    BY <2>1, IdsFinite
<1> QED
  BY <1>6, <1>7, <1>8, <1>9

(* What waits, waits through a store. *)
LEMMA WaitingStored ==
    ASSUME TypeOK, TypeOK', Waiting, NEW i \in Ids, NEW day \in Nat, NEW match,
           Store(i, day, match), start' = start
    PROVE  Waiting'
<1> SUFFICES ASSUME NEW j \in Rows', j \notin steady' \cup hidden' \cup fresh'
             PROVE  stamp'[j] >= start'
  BY DEF Waiting
<1>1. j \in Ids /\ stamp \in [Ids -> Int] /\ start \in Nat
  BY WindowIs DEF Rows
<1>2. CASE j = i
  <2>1. stamp'[i] = day /\ ~(day < start)
    BY <1>1, <1>2 DEF Store
  <2> QED
    BY <1>1, <1>2, <2>1
<1>3. CASE j # i
  <2>1. stamp'[j] = stamp[j] /\ j \notin steady \cup hidden \cup fresh
    BY <1>1, <1>3 DEF Store
  <2>2. j \in Rows
    BY <1>1, <2>1 DEF Rows
  <2> QED
    BY <2>1, <2>2 DEF Waiting
<1> QED
  BY <1>2, <1>3

(* Every step keeps what is missed explained. *)
LEMMA InvNext == ListInv /\ [Next]_vars => ListInv'
<1> SUFFICES ASSUME ListInv, [Next]_vars PROVE ListInv'
  OBVIOUS
<1>a. TypeOK /\ NewIds /\ Waiting /\ TypeOK' /\ NewIds'
  BY TypeNext DEF ListInv
<1>b. /\ Reading => Cardinality(Missed) <= falls
      /\ ~Reading => Cardinality(Lacks) <= falls
  BY DEF ListInv
<1>c. falls \in Nat /\ falls' \in Nat
  BY <1>a, BoundsAssumption DEF TypeOK
<1>d. ASSUME Lacks' \subseteq Lacks, falls' >= falls, ~Reading, walk' = walk
      PROVE  /\ Reading' => Cardinality(Missed') <= falls'
             /\ ~Reading' => Cardinality(Lacks') <= falls'
  <2>1. Lacks \in SUBSET Ids /\ Lacks' \in SUBSET Ids
    BY <1>a, <1>d, WindowIs
  <2>2. Cardinality(Lacks') <= Cardinality(Lacks)
    BY <1>d, <2>1, Fewer
  <2>3. Cardinality(Lacks') \in Nat /\ Cardinality(Lacks) \in Nat
    BY <2>1, IdsFinite
  <2> QED
    BY <1>b, <1>c, <1>d, <2>2, <2>3 DEF Reading
<1>e. ASSUME NEW i \in Ids, NEW day \in Nat, NEW match, Store(i, day, match), coded' = coded
      PROVE  Lacks' \subseteq Lacks
  BY <1>e DEF Store, Lacks, Wanted
<1>1. ASSUME NEW day \in 0..today, NEW match \in Content, Insert(day, match) PROVE ListInv'
  <2>1. /\ lastId + 1 \in Ids /\ day \in Nat /\ Store(lastId + 1, day, match)
        /\ UNCHANGED <<walk, since, coded, start, falls>>
    BY <1>1, <1>a, BoundsAssumption DEF Insert, Ids, TypeOK, Days
  <2>2. lastId + 1 \notin Window
    BY <1>a, <2>1, BoundsAssumption DEF NewIds, TypeOK, Window, Listed, Rows
  <2>3. Waiting'
    BY <1>a, <2>1, WaitingStored
  <2>4. CASE Reading
    BY <1>a, <1>b, <1>c, <2>1, <2>2, <2>3, <2>4, StoreKeeps DEF ListInv, Reading
  <2>5. CASE ~Reading
    BY <1>a, <1>c, <1>d, <1>e, <2>1, <2>3, <2>5 DEF ListInv
  <2> QED
    BY <2>4, <2>5
<1>2. ASSUME NEW day \in 0..today, NEW match \in Content, NEW i \in Rows, Update(i, day, match)
      PROVE  ListInv'
  <2>1. /\ i \in Ids /\ day \in Nat /\ Store(i, day, match)
        /\ UNCHANGED <<walk, since, coded, start>>
        /\ falls' = IF Reading /\ i \in Window /\ (i \notin Window' \/ (Ordered /\ day < stamp[i]))
                    THEN falls + 1 ELSE falls
    BY <1>2, <1>a, BoundsAssumption DEF Update, Rows, TypeOK, Days
  <2>2. Waiting'
    BY <1>a, <2>1, WaitingStored
  <2>3. stamp[i] \in Int
    BY <1>a, <2>1, WindowIs
  <2>4. CASE Reading
    <3>1. Cardinality(Missed') <= falls'
      BY <1>a, <1>b, <1>c, <2>1, <2>3, <2>4, StoreKeeps
    <3> QED
      BY <1>a, <2>1, <2>2, <2>4, <3>1 DEF ListInv, Reading
  <2>5. CASE ~Reading
    BY <1>a, <1>c, <1>d, <1>e, <2>1, <2>2, <2>5 DEF ListInv
  <2> QED
    BY <2>4, <2>5
<1>3. ASSUME NEW gone \in SUBSET Rows \ {{}}, Delete(gone) PROVE ListInv'
  <2>1. /\ gone \in SUBSET Ids /\ UNCHANGED <<walk, since, coded, start>>
        /\ stamp' = [i \in Ids |-> IF i \in gone THEN Gone ELSE stamp[i]]
        /\ fresh' = fresh \ gone /\ steady' = steady \ gone /\ hidden' = hidden \ gone
        /\ matches' = matches \ gone
        /\ falls' = IF Reading THEN falls + Cardinality(gone \cap Window) ELSE falls
    BY <1>3 DEF Delete, Rows
  <2>2. gone \cap Window \in SUBSET Ids /\ Cardinality(gone \cap Window) \in Nat
    <3>1. gone \cap Window \in SUBSET Ids
      BY <2>1
    <3> QED
      BY <3>1, IdsFinite
  <2>3. Lacks' \subseteq Lacks \ gone /\ Lacks \subseteq Ids /\ Window \subseteq Ids
    BY <1>a, <2>1, WindowIs DEF Lacks, Wanted
  <2>4. \A j \in Ids \ gone : stamp'[j] = stamp[j] /\ (j \in matches' <=> j \in matches)
    BY <2>1
  <2>5. Waiting'
    <3> SUFFICES ASSUME NEW j \in Rows', j \notin steady' \cup hidden' \cup fresh'
                 PROVE  stamp'[j] >= start'
      BY DEF Waiting
    <3>1. j \in Ids \ gone
      BY <2>1 DEF Rows
    <3>2. stamp'[j] = stamp[j] /\ j \in Rows /\ j \notin steady \cup hidden \cup fresh
      BY <2>1, <2>4, <3>1 DEF Rows
    <3> QED
      BY <1>a, <2>1, <3>2 DEF Waiting
  <2>6. CASE Reading
    <3>1. ASSUME NEW k \in Lacks', NEW j \in Ahead(k), j \notin gone PROVE j \in Ahead(k)'
      <4>1. /\ stamp'[j] = stamp[j] /\ stamp'[k] = stamp[k] /\ j \in Ids
            /\ (j \in matches' <=> j \in matches)
        BY <2>3, <2>4, <3>1 DEF Ahead
      <4> QED
        BY <2>1, <4>1 DEF Ahead, Window, Listed, Rows, Before, Ordered
    <3>2. /\ \A k \in Lacks' : stamp'[k] = stamp[k] /\ (k \in matches' <=> k \in matches)
          /\ \A k \in Lacks' : Ahead(k) \subseteq Ahead(k)' \cup (gone \cap Window)
      BY <2>3, <2>4, <3>1 DEF Ahead
    <3>3. Lacks' \subseteq Lacks
      BY <2>3
    <3>4. Cardinality(Missed') <= Cardinality(Missed) + Cardinality(gone \cap Window)
      BY <1>a, <2>1, <2>2, <2>6, <3>2, <3>3, MissedGrows
    <3>5. Cardinality(Missed) \in Nat /\ Cardinality(Missed') \in Nat
      <4>1. Missed \in SUBSET Ids /\ Missed' \in SUBSET Ids
        BY <2>3 DEF Missed
      <4> QED
        BY <4>1, IdsFinite
    <3>6. Cardinality(Missed') <= falls'
      BY <1>b, <1>c, <2>1, <2>2, <2>6, <3>4, <3>5
    <3> QED
      BY <1>a, <2>1, <2>5, <2>6, <3>6 DEF ListInv, Reading
  <2>7. CASE ~Reading
    BY <1>a, <1>c, <1>d, <2>1, <2>3, <2>5, <2>7 DEF ListInv
  <2> QED
    BY <2>6, <2>7
<1>4. ASSUME UNCHANGED <<stamp, matches, client>> PROVE ListInv'
  <2>1. Waiting' /\ Lacks' = Lacks /\ Missed' = Missed /\ falls' = falls /\ Reading' = Reading
    BY <1>4, <1>a
       DEF client, Waiting, Rows, Lacks, Wanted, Missed, Window, Passed, Listed, Place, Ahead, Before,
           Ordered, ByDay, Offset, Reading
  <2> QED
    BY <1>a, <1>b, <2>1 DEF ListInv
<1>5. CASE StartWalk
  <2>1. /\ ~Reading /\ UNCHANGED <<stamp, matches, coded, fresh, hidden, falls>>
        /\ walk' = 1 /\ since' = start /\ steady' = Rows /\ Rows' = Rows
    BY <1>5 DEF StartWalk, Rows
  <2>2. Offset' = 0
    BY <2>1, BoundsAssumption DEF Offset
  <2>3. \A k : Place(k)' \in Nat
    <3>1. \A k : Ahead(k)' \in SUBSET Ids
      BY DEF Ahead, Window, Listed, Rows
    <3> QED
      BY <3>1, IdsFinite DEF Place
  <2>4. Passed' = {}
    BY <2>2, <2>3 DEF Passed
  <2>5. Missed' \subseteq Lacks
    <3> SUFFICES ASSUME NEW k \in Missed' PROVE k \in Lacks
      OBVIOUS
    <3>1. /\ k \in Rows /\ k \notin fresh \cup hidden /\ k \notin Window'
          /\ coded => k \in matches
      BY <2>1, <2>4 DEF Missed, Lacks, Wanted
    <3>2. k \in Ids /\ stamp[k] \in Int /\ start \in Nat
      BY <1>a, <3>1, WindowIs
    <3>3. ~(stamp[k] >= start)
      BY <2>1, <3>1 DEF Window, Listed
    <3> QED
      BY <1>a, <3>1, <3>3 DEF Waiting, Lacks, Wanted
  <2>6. Lacks \in SUBSET Ids
    BY <1>a, WindowIs
  <2>7. Cardinality(Missed') <= Cardinality(Lacks)
    BY <2>5, <2>6, Fewer
  <2>8. Cardinality(Missed') \in Nat /\ Cardinality(Lacks) \in Nat
    <3>1. Missed' \in SUBSET Ids
      BY <2>5, <2>6
    <3> QED
      BY <2>6, <3>1, IdsFinite
  <2>9. Waiting'
    BY <2>1 DEF Waiting
  <2>10. Reading' /\ Cardinality(Missed') <= falls'
    BY <1>b, <1>c, <2>1, <2>7, <2>8 DEF Reading
  <2> QED
    BY <1>a, <2>9, <2>10 DEF ListInv
<1>6. CASE FetchPage
  <2> DEFINE items == ListVehicles(walk, since, coded)
  <2>1. /\ Reading /\ UNCHANGED <<stamp, matches, coded, since, start, steady, falls>>
        /\ walk' = IF items = {} THEN 0 ELSE walk + 1
        /\ fresh' = fresh \cup items /\ hidden' = hidden \ items
        /\ Rows' = Rows /\ Window' = Window
    BY <1>6 DEF FetchPage, Rows, Window, Listed
  <2>2. walk \in Nat /\ Offset + PerPage = walk * PerPage /\ Offset \in Int /\ PerPage \in Nat
    BY <1>a, BoundsAssumption DEF TypeOK, Offset
  <2>3. items = {k \in Window : Offset <= Place(k) /\ Place(k) < Offset + PerPage}
    BY <2>2 DEF ListVehicles, Slice, Rank, Place, Ahead, Window, Ordered, Offset
  <2>4. Lacks' = Lacks \ items
    BY <2>1 DEF Lacks, Wanted
  <2>5. Waiting'
    BY <1>a, <2>1 DEF Waiting
  <2>6. Missed \in SUBSET Ids /\ Lacks \in SUBSET Ids
    BY <1>a, WindowIs DEF Missed
  <2>7. \A k \in Window : Place(k) \in Nat
    BY <1>a, IdsFinite, WindowIs DEF Place
  <2>8. CASE items = {}
    <3>1. Window \subseteq Passed
      BY <1>a, <2>1, <2>8, EmptyIsLast
    <3>2. Lacks' \subseteq Missed
      BY <2>4, <3>1 DEF Missed
    <3>3. Cardinality(Lacks') <= Cardinality(Missed)
      BY <2>6, <3>2, Fewer
    <3>4. Cardinality(Lacks') \in Nat /\ Cardinality(Missed) \in Nat
      <4>1. Lacks' \in SUBSET Ids
        BY <2>4, <2>6
      <4> QED
        BY <2>6, <4>1, IdsFinite
    <3>5. ~Reading' /\ Cardinality(Lacks') <= falls'
      BY <1>b, <1>c, <2>1, <2>8, <3>3, <3>4 DEF Reading
    <3> QED
      BY <1>a, <2>5, <3>5 DEF ListInv
  <2>9. CASE items # {}
    <3>1. walk' = walk + 1 /\ Offset' = Offset + PerPage
      <4>1. walk' = walk + 1
        BY <2>1, <2>9
      <4> QED
        BY <2>2, <4>1 DEF Offset
    <3>2. \A k : Place(k)' = Place(k)
      BY <2>1 DEF Place, Ahead, Before, Ordered, ByDay
    <3>3. Missed' \subseteq Missed
      <4> SUFFICES ASSUME NEW k \in Missed' PROVE k \in Missed
        OBVIOUS
      <4>1. k \in Lacks /\ k \notin items
        BY <2>4 DEF Missed
      <4>2. k \notin Window \/ Place(k) < Offset + PerPage
        BY <2>1, <3>1, <3>2 DEF Missed, Passed
      <4>3. k \notin Window \/ Place(k) < Offset
        BY <2>2, <2>3, <2>7, <4>1, <4>2
      <4> QED
        BY <4>1, <4>3 DEF Missed, Passed
    <3>4. Cardinality(Missed') <= Cardinality(Missed)
      BY <2>6, <3>3, Fewer
    <3>5. Cardinality(Missed') \in Nat /\ Cardinality(Missed) \in Nat
      <4>1. Missed' \in SUBSET Ids
        BY <2>6, <3>3
      <4> QED
        BY <2>6, <4>1, IdsFinite
    <3>6. Reading' /\ Cardinality(Missed') <= falls'
      BY <1>b, <1>c, <2>1, <2>2, <3>1, <3>4, <3>5 DEF Reading
    <3> QED
      BY <1>a, <2>5, <3>6 DEF ListInv
  <2> QED
    BY <2>8, <2>9
<1>7. CASE Analyze \/ NewDay \/ UNCHANGED vars
  BY <1>4, <1>7 DEF Analyze, NewDay, vars
<1> QED
  BY <1>1, <1>2, <1>3, <1>5, <1>6, <1>7 DEF Next, Change

----------------------------------------------------------------------------
(* The inductive invariant: what a client misses while it reads, or lacks  *)
(* when it does not, is no more than left its list or moved back under it, *)
(* and what was stored since its walk began waits for the next one.        *)
THEOREM ListInvariant == Spec => []ListInv
BY InvInit, InvNext, PTL DEF Spec

(* Rows, days and what the client has keep their types. *)
THEOREM TypeCorrect == Spec => []TypeOK
<1>1. ListInv => TypeOK
  BY DEF ListInv
<1> QED
  BY <1>1, ListInvariant, PTL

(* A client that has read to the empty page (list_vehicles) lacks no more  *)
(* of the steady rows of its filters than left its list or moved back in   *)
(* it meanwhile, in any number of walks, in either order of                *)
(* vehicle_list_order and whatever the content of the rows becomes.        *)
THEOREM FewMissed == Spec => []MissesExplained
<1>1. ListInv => MissesExplained
  BY DEF ListInv, MissesExplained
<1> QED
  BY <1>1, ListInvariant, PTL

----------------------------------------------------------------------------
(* The pages of the administrators. *)

(* Each row is on a page of its own list. *)
LEMMA OnAPage ==
    ASSUME NEW r \in Nat, NEW n \in Nat, r < n
    PROVE  \E page \in 1..Pages(n) : (page - 1) * PerPage <= r /\ r < page * PerPage
<1>1. PerPage \in Nat /\ PerPage > 0
  BY BoundsAssumption
<1> DEFINE q == r \div PerPage
<1>2. q \in Nat /\ q * PerPage <= r /\ r < (q + 1) * PerPage
  BY <1>1
<1>3. q + 1 \in 1..Pages(n)
  BY <1>1, <1>2 DEF Pages
<1> QED
  BY <1>2, <1>3

(* More rows do not have fewer pages, and no rows have none. *)
LEMMA PagesGrow ==
    ASSUME NEW m \in Nat, NEW n \in Nat, m <= n
    PROVE  Pages(m) \in Nat /\ Pages(n) \in Nat /\ Pages(m) <= Pages(n) /\ Pages(0) = 0
<1>1. PerPage \in Nat /\ PerPage > 0
  BY BoundsAssumption
<1>2. Pages(m) \in Nat /\ Pages(n) \in Nat
  BY <1>1 DEF Pages
<1>3. /\ Pages(m) * PerPage <= m + PerPage - 1
      /\ n + PerPage - 1 < (Pages(n) + 1) * PerPage
  BY <1>1 DEF Pages
<1>4. Pages(m) <= Pages(n)
  <2> SUFFICES ASSUME Pages(n) + 1 <= Pages(m) PROVE FALSE
    BY <1>2
  <2>1. (Pages(n) + 1) * PerPage <= Pages(m) * PerPage
    BY <1>1, <1>2
  <2> QED
    BY <1>1, <1>2, <1>3, <2>1
<1>5. Pages(0) = 0
  BY <1>1 DEF Pages
<1> QED
  BY <1>2, <1>4, <1>5

(* Page numbers are cut to no less than the page of a row, because the     *)
(* rows that match are counted, or the estimate is no less, or it is 0 and *)
(* nothing is cut.                                                         *)
LEMMA NothingCutOff ==
    ASSUME TypeOK, NEW from \in {Unstamped} \cup Days, NEW code \in BOOLEAN,
           NEW counted \in BOOLEAN, NEW page \in 1..Pages(Cardinality(Listed(from, code))),
           (counted /\ (code \/ from # Unstamped))
               \/ ~(0 < Estimate /\ Estimate < Cardinality(Listed(from, code)))
    PROVE  AdminVehicles(page, from, code, counted) = ListVehicles(page, from, code)
<1> DEFINE n == Cardinality(Listed(from, code))
           total == IF (code \/ from # Unstamped) /\ counted THEN n ELSE Estimate
           last == Pages(total)
<1>1. n \in Nat /\ Estimate \in Nat
  <2>1. Listed(from, code) \in SUBSET Ids
    BY DEF Listed, Rows
  <2> QED
    BY <2>1, IdsFinite DEF TypeOK
<1>2. AdminVehicles(page, from, code, counted)
        = ListVehicles(IF last # 0 /\ page > last THEN last ELSE page, from, code)
  BY DEF AdminVehicles
<1>3. total = n \/ (total = Estimate /\ ~(0 < Estimate /\ Estimate < n))
  BY Zenon
<1>4. page \in 1..Pages(n)
  OBVIOUS
<1> HIDE DEF total, n
<1>5. last = 0 \/ page <= last
  <2>1. CASE total >= n
    <3>1. total \in Nat
      BY <1>1, <1>3
    <3> QED
      BY <1>1, <1>4, <2>1, <3>1, PagesGrow
  <2>2. CASE total = 0
    BY <2>2, PagesGrow
  <2> QED
    BY <1>1, <1>3, <2>1, <2>2
<1>6. last \in Nat /\ page \in Nat
  <2>1. total \in Nat
    BY <1>1, <1>3
  <2> QED
    BY <1>1, <1>4, <2>1, PagesGrow
<1> HIDE DEF last
<1>7. (IF last # 0 /\ page > last THEN last ELSE page) = page
  BY <1>5, <1>6
<1> QED
  BY <1>2, <1>7

(* Whatever filter an administrator sets and whether or not the count of   *)
(* the list succeeds (vehicles of routes/admin.py), there is a page number *)
(* under which a row is shown, unless the estimate stands for the count    *)
(* and is behind the table.                                                *)
THEOREM AdminReaches == Spec => []AdminReachesAll
<1>1. TypeOK => AdminReachesAll
  <2> SUFFICES ASSUME TypeOK, NEW from \in {Unstamped} \cup Days, NEW code \in BOOLEAN,
                      NEW counted \in BOOLEAN,
                      (counted /\ (code \/ from # Unstamped))
                          \/ ~(0 < Estimate /\ Estimate < Cardinality(Listed(from, code))),
                      NEW i \in Listed(from, code)
               PROVE  \E page \in 1..Pages(MaxId) : i \in AdminVehicles(page, from, code, counted)
    BY DEF AdminReachesAll
  <2> DEFINE rows == Listed(from, code)
             ahead == {j \in rows : Before(j, i, ByDay(from, code))}
  <2>1. rows \in SUBSET Ids /\ i \in Ids
    BY DEF Listed, Rows
  <2>2. ahead \in SUBSET rows /\ i \in rows /\ i \notin ahead
    BY <2>1, BeforeIs, WindowIs
  <2>3. Rank(i, rows, ByDay(from, code)) = Cardinality(ahead)
    BY DEF Rank
  <2> HIDE DEF ahead, rows
  <2>4. /\ Cardinality(ahead) < Cardinality(rows) /\ Cardinality(rows) <= MaxId
        /\ Cardinality(ahead) \in Nat /\ Cardinality(rows) \in Nat
    <3>1. ahead \in SUBSET Ids /\ ahead # rows
      BY <2>1, <2>2
    <3> QED
      BY <2>1, <2>2, <3>1, Fewer, IdsFinite
  <2>5. PICK page \in 1..Pages(Cardinality(rows)) :
            (page - 1) * PerPage <= Cardinality(ahead) /\ Cardinality(ahead) < page * PerPage
    BY <2>4, OnAPage
  <2>6. i \in ListVehicles(page, from, code)
    BY <2>2, <2>3, <2>5 DEF ListVehicles, Slice, rows
  <2>7. AdminVehicles(page, from, code, counted) = ListVehicles(page, from, code)
    BY <2>5, NothingCutOff DEF rows
  <2>8. page \in 1..Pages(MaxId)
    <3>1. MaxId \in Nat
      BY BoundsAssumption
    <3>2. /\ Pages(Cardinality(rows)) \in Nat /\ Pages(MaxId) \in Nat
          /\ Pages(Cardinality(rows)) <= Pages(MaxId)
      BY <2>4, <3>1, PagesGrow
    <3> QED
      BY <2>5, <3>2
  <2> QED
    BY <2>6, <2>7, <2>8
<1> QED
  BY <1>1, TypeCorrect, PTL
=============================================================================
