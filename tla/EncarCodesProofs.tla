-------------------------- MODULE EncarCodesProofs --------------------------
(***************************************************************************)
(* For every two editions of the code tables, every normalisation and      *)
(* score of names, every order of the rows and any interleaving of seeds,  *)
(* imports and remaps: a seed that ended is complete, the codes of a car   *)
(* are a path with the names of the tables, and matching again changes     *)
(* nothing.                                                                *)
(*                                                                         *)
(* The argument.  An index, loaded between any batches of a seed, has      *)
(* codes of the two editions, each number once (IsIndex).  resolve looks   *)
(* for a code among those under the codes it has found above (IsPath), and *)
(* a number has one parent in both editions (FilesAssumption), so that the *)
(* codes are a path whatever edition an index or the tables have           *)
(* (PathForms).  The name of a code in the list that led to it leads to it *)
(* again: what is ahead of it under the same normalised name would have    *)
(* been matched before (MatchedAgain, AppliedAgain).  An UPDATE writes the *)
(* columns that differ from what was read; what was read is the row,       *)
(* unless another has written since, and then the row is torn (Fresh).     *)
(***************************************************************************)
EXTENDS EncarCodes, FiniteSetTheorems, FunctionTheorems, SequenceTheorems,
        WellFoundedInduction, TLAPS

(* Each number once. *)
Distinct(S) == \A c, d \in S : c.no = d.no => c = d

(* What a process may have loaded: codes of either edition, each once. *)
IsIndex(idx) ==
    /\ idx \in Seq(Seq(Code)) /\ Len(idx) <= 5
    /\ \A l \in DOMAIN idx : \A i \in DOMAIN idx[l] :
        /\ idx[l][i] \in Known[l]
        /\ \A j \in DOMAIN idx[l] : idx[l][i].no = idx[l][j].no => i = j

(* What apply_codes_to_vehicle finds: all levels are loaded. *)
IsWhole(idx) == IsIndex(idx) /\ Len(idx) = 5

----------------------------------------------------------------------------
(* The first of a list. *)

(* A nonempty set of numbers has a least one. *)
LEMMA LeastOf ==
    ASSUME NEW S \in SUBSET Nat, S # {}
    PROVE  \E i \in S : \A j \in S : i <= j
<1>1. PICK i \in S : \A j \in S : <<j, i>> \notin OpToRel(<, Nat)
  BY NatLessThanWellFounded, WFMin
<1>2. \A j \in S : ~(j < i)
  BY <1>1 DEF OpToRel
<1> QED
  BY <1>2

(* The places of a level. *)
LEMMA Whole ==
    ASSUME NEW idx, IsWhole(idx), NEW l \in Levels
    PROVE  /\ l \in DOMAIN idx /\ idx[l] \in Seq(Code)
           /\ DOMAIN idx[l] \subseteq Nat \ {0}
           /\ \A i \in DOMAIN idx[l] :
                /\ idx[l][i] \in Code /\ idx[l][i] \in Known[l]
                /\ \A j \in DOMAIN idx[l] : idx[l][i].no = idx[l][j].no => i = j
<1>1. DOMAIN idx = 1..5 /\ l \in DOMAIN idx
  BY DEF IsWhole, IsIndex, Levels
<1>2. idx[l] \in Seq(Code)
  <2>1. idx \in Seq(Seq(Code)) /\ l \in 1..Len(idx)
    BY DEF IsWhole, IsIndex, Levels
  <2> QED
    BY ONLY <2>1, ElementOfSeq
<1>3. \A s \in Seq(Code) : DOMAIN s = 1..Len(s) /\ Len(s) \in Nat
  OBVIOUS
<1>4. \A i \in DOMAIN idx[l] : idx[l][i] \in Code
  BY <1>2, <1>3
<1> QED
  BY <1>1, <1>2, <1>3, <1>4 DEF IsWhole, IsIndex

(* A code that is in the index has one place. *)
LEMMA PlaceOf ==
    ASSUME NEW idx, IsWhole(idx), NEW l \in Levels, NEW i \in DOMAIN idx[l]
    PROVE  Place(idx, l, idx[l][i].no) = i
BY Whole DEF Place

(* A list that resolve looks through: its parents are in the index too. *)
IsList(idx, l, S) ==
    /\ S \subseteq DOMAIN idx[l]
    /\ l # 1 => \A i \in S : \E j \in DOMAIN idx[l - 1] : idx[l][i].parent = idx[l - 1][j].no

(* The parent of a place is at a place of the level above. *)
LEMMA RankIs ==
    ASSUME NEW idx, IsWhole(idx), NEW l \in Levels, NEW S, IsList(idx, l, S), NEW i \in S
    PROVE  Rank(idx, l, i) \in Nat
<1>1. CASE l = 1
  BY <1>1 DEF Rank
<1>2. CASE l # 1
  <2>1. l - 1 \in Levels
    BY <1>2 DEF Levels
  <2>2. PICK j \in DOMAIN idx[l - 1] : idx[l][i].parent = idx[l - 1][j].no
    BY <1>2 DEF IsList
  <2>3. Rank(idx, l, i) = j
    BY <1>2, <2>1, <2>2, PlaceOf DEF Rank
  <2> QED
    BY <2>1, <2>3, Whole
<1> QED
  BY <1>1, <1>2

(* A list that is not empty has a first place, and only one. *)
LEMMA FirstIs ==
    ASSUME NEW idx, IsWhole(idx), NEW l \in Levels, NEW S, IsList(idx, l, S), S # {}
    PROVE  /\ First(idx, l, S) \in S
           /\ \A j \in S : Ahead(idx, l, First(idx, l, S), j)
           /\ \A i \in S : (\A j \in S : Ahead(idx, l, i, j)) => First(idx, l, S) = i
<1>0. \A i \in S : i \in Nat /\ Rank(idx, l, i) \in Nat
  <2>1. S \subseteq Nat
    BY Whole DEF IsList
  <2> QED
    BY <2>1, RankIs
<1> DEFINE r(i) == Rank(idx, l, i)
<1>1. PICK m \in {r(i) : i \in S} : \A k \in {r(i) : i \in S} : m <= k
  <2>1. {r(i) : i \in S} \in SUBSET Nat /\ {r(i) : i \in S} # {}
    BY <1>0
  <2> HIDE DEF r
  <2> QED
    BY <2>1, LeastOf
<1>2. PICK f \in {i \in S : r(i) = m} : \A j \in {i \in S : r(i) = m} : f <= j
  <2>1. {i \in S : r(i) = m} \in SUBSET Nat /\ {i \in S : r(i) = m} # {}
    BY <1>0, <1>1
  <2> HIDE DEF r
  <2> QED
    BY <2>1, LeastOf
<1>3. \A j \in S : Ahead(idx, l, f, j)
  <2> TAKE j \in S
  <2>1. r(f) = m /\ m <= r(j) /\ r(j) \in Nat /\ m \in Nat
    BY <1>0, <1>1, <1>2
  <2>2. r(j) = m => f <= j
    BY <1>2
  <2> QED
    BY <2>1, <2>2 DEF Ahead
<1>4. First(idx, l, S) \in S /\ \A j \in S : Ahead(idx, l, First(idx, l, S), j)
  BY <1>2, <1>3 DEF First
<1>5. ASSUME NEW i \in S, NEW j \in S, Ahead(idx, l, i, j), Ahead(idx, l, j, i) PROVE i = j
  BY <1>0, <1>5 DEF Ahead
<1> QED
  BY <1>4, <1>5

(* Part of a list is a list. *)
LEMMA PartOfList ==
    ASSUME NEW idx, NEW l, NEW S, IsList(idx, l, S), NEW T \in SUBSET S
    PROVE  IsList(idx, l, T)
BY DEF IsList

----------------------------------------------------------------------------
(* Matching. *)

(* A number that is matched is one of the list. *)
LEMMA Matched ==
    ASSUME NEW idx, IsWhole(idx), NEW l \in Levels, NEW S, IsList(idx, l, S), NEW q,
           Match(idx, l, S, q) # None
    PROVE  \E i \in S : Match(idx, l, S, q) = idx[l][i].no
<1> DEFINE e == Exact(idx, l, S, q)
           b == Best(idx, l, S, q)
           T == IF e # {} THEN e ELSE b
<1>1. e \in SUBSET S /\ b \in SUBSET S
  BY DEF Exact, Best
<1>2. q # NoLabel /\ e \cup b # {}
  BY DEF Match
<1>3. T \in SUBSET S /\ T # {}
  BY <1>1, <1>2
<1>4. Match(idx, l, S, q) = idx[l][First(idx, l, T)].no
  BY <1>2 DEF Match
<1> HIDE DEF T
<1>5. First(idx, l, T) \in T
  BY <1>3, FirstIs, PartOfList
<1> QED
  BY <1>3, <1>4, <1>5

(* The name of the code that is matched leads to it again. *)
LEMMA MatchedAgain ==
    ASSUME NEW idx, IsWhole(idx), NEW l \in Levels, NEW S, IsList(idx, l, S), NEW q,
           NEW i \in S, Match(idx, l, S, q) = idx[l][i].no
    PROVE  Match(idx, l, S, idx[l][i].name) = idx[l][i].no
<1> DEFINE e == Exact(idx, l, S, q)
           b == Best(idx, l, S, q)
           T == IF e # {} THEN e ELSE b
           d == Exact(idx, l, S, idx[l][i].name)
<1>0. idx[l][i].no # None /\ idx[l][i].name # NoLabel
  BY Whole DEF IsList, Code, None
<1>1. e \in SUBSET S /\ b \in SUBSET S /\ d \in SUBSET S /\ i \in d
  BY DEF Exact, Best
<1>2. q # NoLabel /\ e \cup b # {}
  BY <1>0 DEF Match
<1>3. T \in SUBSET S /\ T # {}
  BY <1>1, <1>2
<1>4. Match(idx, l, S, q) = idx[l][First(idx, l, T)].no
  BY <1>2 DEF Match
<1>5. First(idx, l, T) \in T /\ First(idx, l, T) = i
  <2> HIDE DEF T
  <2>1. First(idx, l, T) \in T
    BY <1>3, FirstIs, PartOfList
  <2>2. First(idx, l, T) \in DOMAIN idx[l] /\ i \in DOMAIN idx[l]
    BY <1>3, <2>1 DEF IsList
  <2> QED
    BY <1>4, <2>1, <2>2, Whole
<1>6. d \subseteq T
  <2>1. CASE e # {}
    BY <1>5, <2>1 DEF Exact
  <2>2. CASE e = {}
    BY <1>5, <2>2 DEF Exact, Best
  <2> QED
    BY <2>1, <2>2
<1> HIDE DEF T, d, e, b
<1>7. \A j \in T : Ahead(idx, l, i, j)
  BY <1>3, <1>5, FirstIs, PartOfList
<1>8. First(idx, l, d) = i
  BY <1>1, <1>6, <1>7, FirstIs, PartOfList
<1> QED
  BY <1>0, <1>1, <1>8 DEF Match, d

----------------------------------------------------------------------------
(* Resolving the names of a car. *)

(* What lies under codes of the index is a list. *)
LEMMA UnderIs ==
    ASSUME NEW idx, IsWhole(idx), NEW l \in Levels \ {1}, NEW N,
           \A x \in N : x # None => \E j \in DOMAIN idx[l - 1] : x = idx[l - 1][j].no
    PROVE  IsList(idx, l, Under(idx, l, N))
BY DEF Under, IsList

(* The codes that resolve finds, each in a list that the ones above give. *)
IsPath(idx, c) ==
    /\ c \in [Levels -> Nat]
    /\ c[1] # None => \E i \in DOMAIN idx[1] : c[1] = idx[1][i].no
    /\ c[2] # None => \E i \in Under(idx, 2, {c[1]}) : c[2] = idx[2][i].no
    /\ c[3] # None => \E i \in Under(idx, 3, {c[2]}) : c[3] = idx[3][i].no
    /\ c[4] # None => \E i \in GradesOf(idx, c[2], c[3]) : c[4] = idx[4][i].no
    /\ c[5] # None => \E i \in Under(idx, 5, {c[4]}) : c[5] = idx[5][i].no

(* The lists of a path. *)
LEMMA Lists ==
    ASSUME NEW idx, IsWhole(idx), NEW c, IsPath(idx, c)
    PROVE  /\ IsList(idx, 1, DOMAIN idx[1])
           /\ IsList(idx, 2, Under(idx, 2, {c[1]}))
           /\ IsList(idx, 3, Under(idx, 3, {c[2]}))
           /\ IsList(idx, 4, GradesOf(idx, c[2], c[3]))
           /\ IsList(idx, 5, Under(idx, 5, {c[4]}))
<1>1. IsList(idx, 1, DOMAIN idx[1])
  BY DEF IsList
<1>2. IsList(idx, 2, Under(idx, 2, {c[1]}))
  BY UnderIs DEF IsPath, Levels
<1>3. IsList(idx, 3, Under(idx, 3, {c[2]}))
  <2>1. \A x \in {c[2]} : x # None => \E j \in DOMAIN idx[2] : x = idx[2][j].no
    BY DEF IsPath, Under
  <2>2. 3 \in Levels \ {1} /\ 3 - 1 = 2
    BY DEF Levels
  <2> QED
    BY <2>1, <2>2, UnderIs
<1>4. IsList(idx, 4, GradesOf(idx, c[2], c[3]))
  <2> DEFINE N == IF c[3] # None THEN {c[3]} ELSE {idx[3][i].no : i \in Under(idx, 3, {c[2]})}
  <2>1. \A x \in N : x # None => \E j \in DOMAIN idx[3] : x = idx[3][j].no
    BY DEF IsPath, Under
  <2>2. GradesOf(idx, c[2], c[3]) = Under(idx, 4, N)
    BY DEF GradesOf
  <2>3. 4 \in Levels \ {1} /\ 4 - 1 = 3
    BY DEF Levels
  <2> HIDE DEF N
  <2> QED
    BY <2>1, <2>2, <2>3, UnderIs
<1>5. IsList(idx, 5, Under(idx, 5, {c[4]}))
  <2>1. \A x \in {c[4]} : x # None => \E j \in DOMAIN idx[4] : x = idx[4][j].no
    BY DEF IsPath, GradesOf, Under
  <2>2. 5 \in Levels \ {1} /\ 5 - 1 = 4
    BY DEF Levels
  <2> QED
    BY <2>1, <2>2, UnderIs
<1> QED
  BY <1>1, <1>2, <1>3, <1>4, <1>5

(* The detailed model that resolve takes. *)
Detailed(idx, S, x) ==
    LET named == Match(idx, 3, S, x)
    IN  IF named = None /\ \E i \in S : S = {i} THEN idx[3][First(idx, 3, S)].no ELSE named

(* resolve, one level after the other. *)
LEMMA Resolved ==
    ASSUME NEW idx, NEW n
    PROVE  LET c == Resolve(idx, n)
           IN  /\ c[1] = Match(idx, 1, DOMAIN idx[1], Alias[n[1]])
               /\ c[2] = Match(idx, 2, Under(idx, 2, {c[1]}), n[2])
               /\ c[3] = Detailed(idx, Under(idx, 3, {c[2]}), n[3])
               /\ c[4] = Match(idx, 4, GradesOf(idx, c[2], c[3]), n[4])
               /\ c[5] = Match(idx, 5, Under(idx, 5, {c[4]}), n[5])
               /\ c = <<c[1], c[2], c[3], c[4], c[5]>>
BY DEF Resolve, Detailed

(* A detailed model that is taken is one of those of the model. *)
LEMMA DetailedIs ==
    ASSUME NEW idx, IsWhole(idx), NEW S, IsList(idx, 3, S), NEW x, Detailed(idx, S, x) # None
    PROVE  \E i \in S : Detailed(idx, S, x) = idx[3][i].no
<1>1. 3 \in Levels
  BY DEF Levels
<1>2. CASE Match(idx, 3, S, x) # None
  <2>1. Detailed(idx, S, x) = Match(idx, 3, S, x)
    BY <1>2 DEF Detailed
  <2> QED
    BY <1>1, <1>2, <2>1, Matched
<1>3. CASE Match(idx, 3, S, x) = None
  <2>1. S # {} /\ Detailed(idx, S, x) = idx[3][First(idx, 3, S)].no
    BY <1>3 DEF Detailed
  <2>2. First(idx, 3, S) \in S
    BY <1>1, <2>1, FirstIs
  <2> QED
    BY <2>1, <2>2
<1> QED
  BY <1>2, <1>3

(* What resolve finds is a path. *)
LEMMA ResolveIsPath ==
    ASSUME NEW idx, IsWhole(idx), NEW n
    PROVE  IsPath(idx, Resolve(idx, n))
<1> DEFINE c == Resolve(idx, n)
<1>0. /\ c[1] = Match(idx, 1, DOMAIN idx[1], Alias[n[1]])
      /\ c[2] = Match(idx, 2, Under(idx, 2, {c[1]}), n[2])
      /\ c[3] = Detailed(idx, Under(idx, 3, {c[2]}), n[3])
      /\ c[4] = Match(idx, 4, GradesOf(idx, c[2], c[3]), n[4])
      /\ c[5] = Match(idx, 5, Under(idx, 5, {c[4]}), n[5])
      /\ c = <<c[1], c[2], c[3], c[4], c[5]>>
  BY Resolved
<1> HIDE DEF c
<1>l. 1 \in Levels /\ 2 \in Levels /\ 3 \in Levels /\ 4 \in Levels /\ 5 \in Levels
  BY DEF Levels
<1>n. \A l \in Levels : \A i \in DOMAIN idx[l] : idx[l][i].no \in Nat
  BY Whole DEF Code
<1>u. \A l \in Levels : \A N : Under(idx, l, N) \subseteq DOMAIN idx[l]
  BY DEF Under
<1>1. IsList(idx, 1, DOMAIN idx[1]) /\ (c[1] # None => \E i \in DOMAIN idx[1] : c[1] = idx[1][i].no)
  <2>1. IsList(idx, 1, DOMAIN idx[1])
    BY DEF IsList
  <2> QED
    BY <1>0, <1>l, <2>1, Matched
<1>2. c[2] # None => \E i \in Under(idx, 2, {c[1]}) : c[2] = idx[2][i].no
  <2>1. IsList(idx, 2, Under(idx, 2, {c[1]}))
    BY <1>1, UnderIs DEF Levels
  <2> QED
    BY <1>0, <1>l, <2>1, Matched
<1>3. c[3] # None => \E i \in Under(idx, 3, {c[2]}) : c[3] = idx[3][i].no
  <2>1. \A x \in {c[2]} : x # None => \E j \in DOMAIN idx[2] : x = idx[2][j].no
    BY <1>2 DEF Under
  <2>2. 3 \in Levels \ {1} /\ 3 - 1 = 2
    BY DEF Levels
  <2>3. IsList(idx, 3, Under(idx, 3, {c[2]}))
    BY <2>1, <2>2, UnderIs
  <2> QED
    BY <1>0, <2>3, DetailedIs
<1>4. c[4] # None => \E i \in GradesOf(idx, c[2], c[3]) : c[4] = idx[4][i].no
  <2> DEFINE N == IF c[3] # None THEN {c[3]} ELSE {idx[3][i].no : i \in Under(idx, 3, {c[2]})}
  <2>1. \A x \in N : x # None => \E j \in DOMAIN idx[3] : x = idx[3][j].no
    BY <1>3 DEF Under
  <2>2. GradesOf(idx, c[2], c[3]) = Under(idx, 4, N)
    BY DEF GradesOf
  <2>3. 4 \in Levels \ {1} /\ 4 - 1 = 3
    BY DEF Levels
  <2> HIDE DEF N
  <2>4. IsList(idx, 4, GradesOf(idx, c[2], c[3]))
    BY <2>1, <2>2, <2>3, UnderIs
  <2> QED
    BY <1>0, <1>l, <2>4, Matched
<1>5. c[5] # None => \E i \in Under(idx, 5, {c[4]}) : c[5] = idx[5][i].no
  <2>1. \A x \in {c[4]} : x # None => \E j \in DOMAIN idx[4] : x = idx[4][j].no
    BY <1>4 DEF GradesOf, Under
  <2>2. 5 \in Levels \ {1} /\ 5 - 1 = 4
    BY DEF Levels
  <2>3. IsList(idx, 5, Under(idx, 5, {c[4]}))
    BY <2>1, <2>2, UnderIs
  <2> QED
    BY <1>0, <1>l, <2>3, Matched
<1>6. c[1] \in Nat /\ c[2] \in Nat /\ c[3] \in Nat /\ c[4] \in Nat /\ c[5] \in Nat
  <2>1. None \in Nat
    BY DEF None
  <2>2. GradesOf(idx, c[2], c[3]) \subseteq DOMAIN idx[4]
    BY <1>u, <1>l DEF GradesOf
  <2>3. c[1] \in Nat
    BY <1>1, <1>n, <1>l, <2>1
  <2>4. c[2] \in Nat
    BY <1>2, <1>n, <1>u, <1>l, <2>1
  <2>5. c[3] \in Nat
    BY <1>3, <1>n, <1>u, <1>l, <2>1
  <2>6. c[4] \in Nat
    BY <1>4, <1>n, <1>l, <2>1, <2>2
  <2>7. c[5] \in Nat
    BY <1>5, <1>n, <1>u, <1>l, <2>1
  <2> QED
    BY <2>3, <2>4, <2>5, <2>6, <2>7
<1>7. c \in [Levels -> Nat]
  BY <1>0, <1>6 DEF Levels
<1> QED
  BY <1>1, <1>2, <1>3, <1>4, <1>5, <1>7 DEF IsPath, c

----------------------------------------------------------------------------
(* What the codes of a car are. *)

(* The editions agree on the parent of a number. *)
LEMMA ParentIs ==
    ASSUME NEW l \in Levels, NEW c \in Known[l]
    PROVE  /\ c \in Code /\ c.no # None /\ c.no \in Numbers[l]
           /\ ParentOf[l][c.no] = c.parent
<1>1. Known[l] = ToSet(Files[l]) \cup ToSet(Former[l])
  BY DEF Known
<1>2. \A d \in Known[l] : \E f \in {Files, Former} : \E i \in DOMAIN f[l] : d = f[l][i]
  BY <1>1 DEF ToSet
<1>3. \A f \in {Files, Former} : \A i \in DOMAIN f[l] : f[l][i] \in Code
  <2> SUFFICES ASSUME NEW f \in {Files, Former}, NEW i \in DOMAIN f[l] PROVE f[l][i] \in Code
    OBVIOUS
  <2>1. f[l] \in Seq(Code)
    BY FilesAssumption
  <2> QED
    BY <2>1
<1>4. \A d \in Known[l] : d \in Code
  BY <1>2, <1>3
<1>5. \A d \in Known[l] : d.no = c.no => d.parent = c.parent
  <2> SUFFICES ASSUME NEW d \in Known[l], d.no = c.no PROVE d.parent = c.parent
    OBVIOUS
  <2>1. PICK f \in {Files, Former} : \E i \in DOMAIN f[l] : d = f[l][i]
    BY <1>2
  <2>2. PICK g \in {Files, Former} : \E j \in DOMAIN g[l] : c = g[l][j]
    BY <1>2
  <2>3. PICK i \in DOMAIN f[l] : d = f[l][i]
    BY <2>1
  <2>4. PICK j \in DOMAIN g[l] : c = g[l][j]
    BY <2>2
  <2>5. f[l][i].no = g[l][j].no
    BY <2>3, <2>4
  <2>6. \A a \in DOMAIN f[l], b \in DOMAIN g[l] :
            f[l][a].no = g[l][b].no => f[l][a].parent = g[l][b].parent
    <3>1. \A k \in Levels, x, y \in {Files, Former} :
            \A a \in DOMAIN x[k], b \in DOMAIN y[k] :
                x[k][a].no = y[k][b].no =>
                    /\ x = y => a = b
                    /\ x[k][a].parent = y[k][b].parent
      BY ONLY FilesAssumption
    <3> QED
      BY ONLY <3>1, l \in Levels, f \in {Files, Former}, g \in {Files, Former}
  <2> QED
    BY <2>3, <2>4, <2>5, <2>6
<1>6. c \in Code /\ c.no # None
  BY <1>4 DEF Code, None
<1>7. c.no \in Numbers[l]
  BY DEF Numbers
<1>8. ParentOf[l][c.no] = (CHOOSE d \in Known[l] : d.no = c.no).parent
  BY <1>6, <1>7 DEF ParentOf
<1>9. (CHOOSE d \in Known[l] : d.no = c.no) \in Known[l]
      /\ (CHOOSE d \in Known[l] : d.no = c.no).no = c.no
  OBVIOUS
<1> QED
  BY <1>5, <1>6, <1>7, <1>8, <1>9

(* CodesFormPath and NamedAsCoded, of any codes and of any car. *)
FormPath(no) ==
    /\ \A l \in {2, 3, 5} : no[l] # None => ParentOf[l][no[l]] = no[l - 1]
    /\ no[4] # None =>
        /\ no[3] # None => ParentOf[4][no[4]] = no[3]
        /\ ParentOf[3][ParentOf[4][no[4]]] = no[2]
Named(c) ==
    \A l \in Levels : c.codes[l] # None =>
        \E k \in Known[l] : k.no = c.codes[l] /\ k.name = c.names[l]

(* The lists of a path are under the codes above them. *)
LEMMA PathForms ==
    ASSUME NEW idx, IsWhole(idx), NEW c, IsPath(idx, c)
    PROVE  FormPath(c) /\ \A l \in Levels : c[l] \in Numbers[l]
<1>l. 1 \in Levels /\ 2 \in Levels /\ 3 \in Levels /\ 4 \in Levels /\ 5 \in Levels
  BY DEF Levels
<1>k. \A l \in Levels : \A i \in DOMAIN idx[l] :
        /\ idx[l][i].no # None /\ idx[l][i].no \in Numbers[l]
        /\ ParentOf[l][idx[l][i].no] = idx[l][i].parent
  BY Whole, ParentIs
<1>u. \A l \in Levels : \A N : \A i \in Under(idx, l, N) :
        i \in DOMAIN idx[l] /\ idx[l][i].parent \in N /\ idx[l][i].parent # None
  BY DEF Under
<1>n. \A l \in Levels : None \in Numbers[l]
  BY DEF Numbers
<1>1. c[1] \in Numbers[1]
  BY <1>k, <1>n, <1>l DEF IsPath
<1>2. c[2] \in Numbers[2] /\ (c[2] # None => ParentOf[2][c[2]] = c[1])
  BY <1>k, <1>n, <1>l, <1>u DEF IsPath
<1>3. c[3] \in Numbers[3] /\ (c[3] # None => ParentOf[3][c[3]] = c[2])
  BY <1>k, <1>n, <1>l, <1>u DEF IsPath
<1>4. c[4] \in Numbers[4] /\ (c[4] # None =>
        /\ c[3] # None => ParentOf[4][c[4]] = c[3]
        /\ ParentOf[3][ParentOf[4][c[4]]] = c[2])
  <2>1. CASE c[4] = None
    BY <2>1, <1>n, <1>l
  <2>2. CASE c[4] # None
    <3>1. PICK i \in GradesOf(idx, c[2], c[3]) : c[4] = idx[4][i].no
      BY <2>2 DEF IsPath
    <3>2. CASE c[3] # None
      <4>1. i \in DOMAIN idx[4] /\ idx[4][i].parent = c[3]
        BY <3>2, <1>u, <1>l DEF GradesOf
      <4> QED
        BY <3>1, <3>2, <4>1, <1>3, <1>k, <1>l
    <3>3. CASE c[3] = None
      <4>1. i \in DOMAIN idx[4] /\ idx[4][i].parent \in {idx[3][j].no : j \in Under(idx, 3, {c[2]})}
        BY <3>3, <1>u, <1>l DEF GradesOf
      <4>2. PICK j \in Under(idx, 3, {c[2]}) : idx[4][i].parent = idx[3][j].no
        BY <4>1
      <4>3. j \in DOMAIN idx[3] /\ idx[3][j].parent = c[2]
        BY <1>u, <1>l
      <4> QED
        BY <3>1, <3>3, <4>1, <4>2, <4>3, <1>k, <1>l
    <3> QED
      BY <3>2, <3>3
  <2> QED
    BY <2>1, <2>2
<1>5. c[5] \in Numbers[5] /\ (c[5] # None => ParentOf[5][c[5]] = c[4])
  BY <1>k, <1>n, <1>l, <1>u DEF IsPath
<1>6. \A l \in Levels : l = 1 \/ l = 2 \/ l = 3 \/ l = 4 \/ l = 5
  BY DEF Levels
<1>7. \A l \in Levels : c[l] \in Numbers[l]
  BY <1>1, <1>2, <1>3, <1>4, <1>5, <1>6
<1>8. \A l \in {2, 3, 5} : c[l] # None => ParentOf[l][c[l]] = c[l - 1]
  BY <1>2, <1>3, <1>5
<1> QED
  BY <1>4, <1>7, <1>8 DEF FormPath

(* A code of a path is at one place of its level. *)
LEMMA PathPlaces ==
    ASSUME NEW idx, IsWhole(idx), NEW c, IsPath(idx, c), NEW l \in Levels, c[l] # None
    PROVE  \E i \in DOMAIN idx[l] : c[l] = idx[l][i].no /\ NameOf(idx, l, c[l]) = idx[l][i].name
<1>1. l = 1 \/ l = 2 \/ l = 3 \/ l = 4 \/ l = 5
  BY DEF Levels
<1>2. \E i \in DOMAIN idx[l] : c[l] = idx[l][i].no
  BY <1>1 DEF IsPath, Under, GradesOf
<1> QED
  BY <1>2, PlaceOf DEF NameOf

(* What apply_codes_to_vehicle makes of the names of a car. *)
LEMMA AppliedIs ==
    ASSUME NEW idx, IsWhole(idx), NEW n \in [Levels -> Labels]
    PROVE  Applied(idx, n) \in Car /\ FormPath(Applied(idx, n).codes) /\ Named(Applied(idx, n))
<1> DEFINE c == Resolve(idx, n)
           m == [l \in Levels |-> IF c[l] = None THEN n[l] ELSE NameOf(idx, l, c[l])]
<1>1. Applied(idx, n) = [names |-> m, codes |-> c]
  BY DEF Applied
<1>2. IsPath(idx, c)
  BY ResolveIsPath
<1> HIDE DEF c
<1>3. FormPath(c) /\ c \in [Levels -> Nat] /\ \A l \in Levels : c[l] \in Numbers[l]
  BY <1>2, PathForms DEF IsPath
<1>4. ASSUME NEW l \in Levels, c[l] # None
      PROVE  \E k \in Known[l] : k.no = c[l] /\ k.name = m[l] /\ k.name \in Labels
  <2>1. PICK i \in DOMAIN idx[l] : c[l] = idx[l][i].no /\ NameOf(idx, l, c[l]) = idx[l][i].name
    BY <1>2, <1>4, PathPlaces
  <2>2. idx[l][i] \in Known[l] /\ idx[l][i].name \in Labels
    BY Whole DEF Code
  <2> QED
    BY <1>4, <2>1, <2>2
<1>5. \A l \in Levels : m[l] \in Labels
  BY <1>4
<1>6. Named([names |-> m, codes |-> c])
  BY <1>4 DEF Named
<1>7. m \in [Levels -> Labels]
  BY <1>5
<1> HIDE DEF m
<1> QED
  BY <1>1, <1>3, <1>6, <1>7 DEF Car

(* The names that apply_codes_to_vehicle has written lead to the same      *)
(* codes again, level by level: the lists are the same, and in each the    *)
(* name leads to its own code, or the name that led to none is still       *)
(* there.                                                                  *)
LEMMA AppliedAgain ==
    ASSUME NEW idx, IsWhole(idx), NEW n,
           LET once == Applied(idx, n) IN Alias[once.names[1]] = once.names[1]
    PROVE  LET once == Applied(idx, n) IN Applied(idx, once.names) = once
<1> DEFINE c == Resolve(idx, n)
           m == [l \in Levels |-> IF c[l] = None THEN n[l] ELSE NameOf(idx, l, c[l])]
           d == Resolve(idx, m)
<1>a. Applied(idx, n) = [names |-> m, codes |-> c]
  BY DEF Applied
<1>b. IsPath(idx, c)
  BY ResolveIsPath
<1>c. /\ c[1] = Match(idx, 1, DOMAIN idx[1], Alias[n[1]])
      /\ c[2] = Match(idx, 2, Under(idx, 2, {c[1]}), n[2])
      /\ c[3] = Detailed(idx, Under(idx, 3, {c[2]}), n[3])
      /\ c[4] = Match(idx, 4, GradesOf(idx, c[2], c[3]), n[4])
      /\ c[5] = Match(idx, 5, Under(idx, 5, {c[4]}), n[5])
      /\ c = <<c[1], c[2], c[3], c[4], c[5]>>
  BY Resolved
<1>d. /\ d[1] = Match(idx, 1, DOMAIN idx[1], Alias[m[1]])
      /\ d[2] = Match(idx, 2, Under(idx, 2, {d[1]}), m[2])
      /\ d[3] = Detailed(idx, Under(idx, 3, {d[2]}), m[3])
      /\ d[4] = Match(idx, 4, GradesOf(idx, d[2], d[3]), m[4])
      /\ d[5] = Match(idx, 5, Under(idx, 5, {d[4]}), m[5])
      /\ d = <<d[1], d[2], d[3], d[4], d[5]>>
  BY Resolved
<1>e. \A l \in Levels : m[l] = IF c[l] = None THEN n[l] ELSE NameOf(idx, l, c[l])
  OBVIOUS
<1>f. Alias[m[1]] = m[1]
  BY <1>a
<1>l. 1 \in Levels /\ 2 \in Levels /\ 3 \in Levels /\ 4 \in Levels /\ 5 \in Levels
  BY DEF Levels
<1>g. Applied(idx, m) = [names |-> [l \in Levels |-> IF d[l] = None THEN m[l] ELSE NameOf(idx, l, d[l])],
                         codes |-> d]
  BY DEF Applied
<1> HIDE DEF d, m, c
<1>i. /\ IsList(idx, 1, DOMAIN idx[1])
      /\ IsList(idx, 2, Under(idx, 2, {c[1]}))
      /\ IsList(idx, 3, Under(idx, 3, {c[2]}))
      /\ IsList(idx, 4, GradesOf(idx, c[2], c[3]))
      /\ IsList(idx, 5, Under(idx, 5, {c[4]}))
  BY <1>b, Lists
<1>j. \A l \in Levels : c[l] # None =>
        \E i \in DOMAIN idx[l] : c[l] = idx[l][i].no /\ m[l] = idx[l][i].name
  BY <1>b, <1>e, PathPlaces
<1>s. ASSUME NEW l \in Levels, NEW S, IsList(idx, l, S), NEW q, c[l] = Match(idx, l, S, q),
             c[l] = None => m[l] = q
      PROVE  Match(idx, l, S, m[l]) = c[l]
  <2>1. CASE c[l] = None
    BY <1>s, <2>1
  <2>2. CASE c[l] # None
    <3>1. PICK i \in S : c[l] = idx[l][i].no
      BY <1>s, <2>2, Matched
    <3>2. m[l] = idx[l][i].name
      <4>1. PICK j \in DOMAIN idx[l] : c[l] = idx[l][j].no /\ m[l] = idx[l][j].name
        BY <1>j, <2>2
      <4>2. i = j
        BY <1>s, <3>1, <4>1, Whole DEF IsList
      <4> QED
        BY <4>1, <4>2
    <3>3. Match(idx, l, S, q) = idx[l][i].no
      BY <1>s, <3>1
    <3>4. Match(idx, l, S, idx[l][i].name) = idx[l][i].no
      BY <1>s, <3>3, MatchedAgain
    <3> QED
      BY <3>1, <3>2, <3>4
  <2> QED
    BY <2>1, <2>2
<1>1. d[1] = c[1]
  <2>1. c[1] = None => m[1] = Alias[n[1]]
    BY <1>e, <1>f, <1>l
  <2> QED
    BY <1>c, <1>d, <1>f, <1>i, <1>l, <1>s, <2>1
<1>2. d[2] = c[2]
  <2>1. c[2] = None => m[2] = n[2]
    BY <1>e, <1>l
  <2> QED
    BY <1>1, <1>c, <1>d, <1>i, <1>l, <1>s, <2>1
<1>3. d[3] = c[3]
  <2> DEFINE S == Under(idx, 3, {c[2]})
  <2>0. d[3] = Detailed(idx, S, m[3]) /\ c[3] = Detailed(idx, S, n[3]) /\ IsList(idx, 3, S)
    BY <1>2, <1>c, <1>d, <1>i
  <2> HIDE DEF S
  <2>1. CASE c[3] = None
    BY <1>e, <1>l, <2>0, <2>1
  <2>2. CASE c[3] # None /\ c[3] = Match(idx, 3, S, n[3])
    <3>1. Match(idx, 3, S, m[3]) = c[3]
      BY <1>l, <1>s, <2>0, <2>2
    <3> QED
      BY <2>0, <2>2, <3>1 DEF Detailed
  <2>3. CASE c[3] # None /\ c[3] # Match(idx, 3, S, n[3])
    <3>1. PICK i \in S : S = {i} /\ c[3] = idx[3][First(idx, 3, S)].no
      BY <2>0, <2>3 DEF Detailed
    <3>2. First(idx, 3, S) = i
      BY <1>l, <2>0, <3>1, FirstIs
    <3>3. PICK j \in DOMAIN idx[3] : c[3] = idx[3][j].no /\ m[3] = idx[3][j].name
      BY <1>j, <1>l, <2>3
    <3>4. i = j
      <4>1. i \in DOMAIN idx[3] /\ idx[3][i].no = idx[3][j].no
        BY <2>0, <3>1, <3>2, <3>3 DEF IsList
      <4> QED
        BY <1>l, <4>1, Whole
    <3>5. Match(idx, 3, S, m[3]) = None \/ \E k \in S : Match(idx, 3, S, m[3]) = idx[3][k].no
      BY <1>l, <2>0, Matched
    <3>6. CASE Match(idx, 3, S, m[3]) = None
      BY <2>0, <3>1, <3>6 DEF Detailed
    <3>7. CASE Match(idx, 3, S, m[3]) # None
      <4>1. Match(idx, 3, S, m[3]) = c[3]
        BY <3>1, <3>2, <3>5, <3>7
      <4> QED
        BY <2>0, <2>3, <4>1 DEF Detailed
    <3> QED
      BY <3>6, <3>7
  <2> QED
    BY <2>1, <2>2, <2>3
<1>4. d[4] = c[4]
  <2>1. c[4] = None => m[4] = n[4]
    BY <1>e, <1>l
  <2> QED
    BY <1>2, <1>3, <1>c, <1>d, <1>i, <1>l, <1>s, <2>1
<1>5. d[5] = c[5]
  <2>1. c[5] = None => m[5] = n[5]
    BY <1>e, <1>l
  <2> QED
    BY <1>4, <1>c, <1>d, <1>i, <1>l, <1>s, <2>1
<1>6. d = c
  BY <1>1, <1>2, <1>3, <1>4, <1>5, <1>c, <1>d
<1>7. [l \in Levels |-> IF d[l] = None THEN m[l] ELSE NameOf(idx, l, d[l])] = m
  <2>1. m = [l \in Levels |-> m[l]]
    BY DEF m
  <2> QED
    BY <1>6, <1>e, <2>1
<1>8. Applied(idx, m) = Applied(idx, n)
  BY <1>6, <1>7, <1>a, <1>g
<1> QED
  BY <1>8, <1>a

----------------------------------------------------------------------------
(* The inductive invariant. *)

(* A table has each number once. *)
Tables == \A l \in Levels : Distinct(table[l])

(* A seed under way has in the tables what it has written. *)
Seeds ==
    /\ SeedCompletes
    /\ seeding # NoSeed => \A l \in Levels : \A i \in 1..seeding[l] : Files[l][i] \in table[l]

(* What a process has loaded. *)
Indexes == \A p \in Procs : IsIndex(index[p])

(* What a process has read is the row as it is, unless another has written *)
(* it since.                                                               *)
Fresh == \A p \in Procs \ late : read[p] # NotRead => read[p] = car

(* A row that is not torn is as apply_codes_to_vehicle has left it. *)
Coded == ~torn => FormPath(car.codes) /\ Named(car)

EncarInv == TypeOK /\ Tables /\ Seeds /\ Indexes /\ Fresh /\ Coded

(* The codes of the files. *)
LEMMA FileCodes ==
    ASSUME NEW l \in Levels
    PROVE  /\ DOMAIN Files[l] = 1..Len(Files[l]) /\ Len(Files[l]) \in Nat
           /\ \A i \in DOMAIN Files[l] : Files[l][i] \in Known[l]
           /\ \A i, j \in DOMAIN Files[l] : Files[l][i].no = Files[l][j].no => i = j
           /\ ToSet(Former[l]) \subseteq Known[l] /\ Distinct(ToSet(Former[l]))
           /\ Known[l] \subseteq Code /\ IsFiniteSet(Known[l])
<1>1. Files[l] \in Seq(Code) /\ Former[l] \in Seq(Code)
  BY FilesAssumption
<1>2. \A x, y \in {Files, Former} :
        \A i \in DOMAIN x[l], j \in DOMAIN y[l] :
            x[l][i].no = y[l][j].no => (x = y => i = j)
  <2>1. \A k \in Levels, x, y \in {Files, Former} :
            \A i \in DOMAIN x[k], j \in DOMAIN y[k] :
                x[k][i].no = y[k][j].no =>
                    /\ x = y => i = j
                    /\ x[k][i].parent = y[k][j].parent
    BY ONLY FilesAssumption
  <2> QED
    BY ONLY <2>1, l \in Levels
<1>3. \A i, j \in DOMAIN Files[l] : Files[l][i].no = Files[l][j].no => i = j
  BY <1>2
<1>4. \A i, j \in DOMAIN Former[l] : Former[l][i].no = Former[l][j].no => i = j
  BY <1>2
<1>5. Distinct(ToSet(Former[l]))
  BY <1>4 DEF Distinct, ToSet
<1>6. Known[l] = ToSet(Files[l]) \cup ToSet(Former[l])
  BY DEF Known
<1>7. \A s \in Seq(Code) : IsFiniteSet(ToSet(s))
  <2> TAKE s \in Seq(Code)
  <2>1. s \in Surjection(1..Len(s), ToSet(s))
    BY DEF Surjection, ToSet
  <2>2. IsFiniteSet(1..Len(s))
    BY FS_Interval
  <2> QED
    BY <2>1, <2>2, FS_Surjection
<1>8. IsFiniteSet(Known[l])
  BY <1>1, <1>6, <1>7, FS_Union
<1>9. Known[l] \subseteq Code
  BY ParentIs
<1>10. \A i \in DOMAIN Files[l] : Files[l][i] \in Known[l]
  BY <1>6 DEF ToSet
<1> QED
  BY <1>1, <1>3, <1>5, <1>6, <1>8, <1>9, <1>10

(* INSERT ... ON CONFLICT DO UPDATE keeps the table one of codes, each     *)
(* once, has all that is inserted and loses nothing of the same files.     *)
LEMMA UpsertedIs ==
    ASSUME NEW l \in Levels, NEW old, old \subseteq Known[l], Distinct(old),
           NEW T, T \subseteq DOMAIN Files[l]
    PROVE  LET u == Upserted(old, {Files[l][i] : i \in T})
           IN  /\ u \subseteq Known[l] /\ Distinct(u)
               /\ \A i \in T : Files[l][i] \in u
               /\ \A i \in DOMAIN Files[l] : Files[l][i] \in old => Files[l][i] \in u
<1> DEFINE new == {Files[l][i] : i \in T}
           u == Upserted(old, new)
<1>1. new \subseteq Known[l]
  BY FileCodes
<1>2. Distinct(new)
  BY FileCodes DEF Distinct
<1>3. \A i \in DOMAIN Files[l] : \A c \in new : c.no = Files[l][i].no => c = Files[l][i]
  BY FileCodes
<1>4. \A i \in T : Files[l][i] \in new
  OBVIOUS
<1> HIDE DEF new
<1>5. u \subseteq Known[l] /\ Distinct(u)
  BY <1>1, <1>2 DEF Upserted, Distinct
<1>6. \A i \in DOMAIN Files[l] : Files[l][i] \in old => Files[l][i] \in u
  BY <1>3 DEF Upserted
<1>7. \A i \in T : Files[l][i] \in u
  BY <1>4 DEF Upserted
<1> QED
  BY <1>5, <1>6, <1>7 DEF new

(* What a batch does. *)
LEMMA BatchIs ==
    ASSUME TypeOK, SeedBatch
    PROVE  \E l \in Levels, n \in Nat :
              /\ seeding \in [Levels -> Nat] /\ seeding # NoSeed
              /\ seeding[l] <= n /\ n <= Len(Files[l])
              /\ table' = [table EXCEPT ![l] =
                    Upserted(@, {Files[l][i] : i \in (seeding[l] + 1)..n})]
              /\ seeding' = [seeding EXCEPT ![l] = n]
<1>1. seeding \in [Levels -> Nat] /\ seeding # NoSeed
  BY DEF SeedBatch, TypeOK
<1>2. PICK l \in Levels :
        LET last == Min({seeding[l] + Batch, Len(Files[l])})
            new == {Files[l][i] : i \in (seeding[l] + 1)..last}
        IN  /\ table' = [table EXCEPT ![l] = Upserted(@, new)]
            /\ seeding' = [seeding EXCEPT ![l] = last]
  BY DEF SeedBatch
<1> DEFINE a == seeding[l] + Batch
           b == Len(Files[l])
           last == Min({a, b})
<1>3. a \in Nat /\ b \in Nat /\ seeding[l] \in Nat /\ seeding[l] <= a /\ seeding[l] <= b
  BY <1>1, BatchAssumption, FileCodes DEF TypeOK
<1>4. /\ table' = [table EXCEPT ![l] =
                    Upserted(@, {Files[l][i] : i \in (seeding[l] + 1)..last})]
      /\ seeding' = [seeding EXCEPT ![l] = last]
  BY <1>2
<1> HIDE DEF a, b
<1>5. last \in {a, b} /\ last <= b
  <2>1. \E x \in {a, b} : \A y \in {a, b} : x <= y
    BY <1>3
  <2>2. last \in {a, b} /\ \A y \in {a, b} : last <= y
    BY <2>1 DEF Min
  <2> QED
    BY <2>2
<1>6. last \in Nat /\ seeding[l] <= last /\ last <= Len(Files[l])
  <2> HIDE DEF last
  <2> QED
    BY <1>3, <1>5 DEF b
<1> HIDE DEF last
<1> QED
  BY <1>1, <1>4, <1>6

(* What a SELECT returns is a level of an index. *)
LEMMA ScansAre ==
    ASSUME TypeOK, Tables, NEW l \in Levels, NEW p \in Procs, NEW s \in Scans(p, table[l])
    PROVE  /\ s \in Seq(Code)
           /\ \A i \in DOMAIN s :
                /\ s[i] \in Known[l]
                /\ \A j \in DOMAIN s : s[i].no = s[j].no => i = j
<1>1. table[l] \subseteq Known[l] /\ table[l] \subseteq Code /\ Distinct(table[l])
  BY FileCodes DEF TypeOK, Tables
<1>2. Cardinality(table[l]) \in Nat
  BY <1>1, FileCodes, FS_Subset, FS_CardinalityType
<1>3. s \in [1..Cardinality(table[l]) -> table[l]] /\ IsInjective(s)
  BY DEF Scans
<1>4. s \in Seq(Code)
  BY <1>1, <1>2, <1>3
<1>5. \A i \in DOMAIN s : s[i] \in table[l]
  BY <1>3
<1> QED
  BY <1>1, <1>3, <1>4, <1>5 DEF Distinct, IsInjective

(* What WriteCar leaves: the codes of the car as a path, or a torn row.    *)
LEMMA WriteIs ==
    ASSUME TypeOK, Indexes, Fresh, NEW p \in Procs, NEW n \in [Levels -> Labels], WriteCar(p, n)
    PROVE  /\ car' \in Car
           /\ ~torn' => FormPath(car'.codes) /\ Named(car')
           /\ read' \in [Procs -> Car \cup {NotRead}]
           /\ torn' \in BOOLEAN /\ late' \subseteq Procs
           /\ \A q \in Procs \ late' : read'[q] = NotRead
<1> DEFINE new == Applied(index[p], n)
<1>1. IsWhole(index[p])
  BY DEF Indexes, IsWhole, WriteCar, Loaded
<1>2. new \in Car /\ FormPath(new.codes) /\ Named(new)
  BY <1>1, AppliedIs
<1>3. car \in Car /\ read[p] \in Car /\ (p \notin late => read[p] = car)
  BY DEF TypeOK, Fresh, WriteCar
<1>4. car' = Updated(new, read[p], car)
  BY DEF WriteCar
<1> HIDE DEF new
<1>5. ASSUME NEW a \in Car, NEW b \in Car, NEW c \in Car PROVE Updated(a, b, c) \in Car
  <2>1. Columns(a.names, b.names, c.names) \in [Levels -> Labels]
    BY DEF Columns, Car
  <2>2. Columns(a.codes, b.codes, c.codes) \in [Levels -> Nat]
    BY DEF Columns, Car
  <2>3. \A l \in Levels : Columns(a.codes, b.codes, c.codes)[l] \in Numbers[l]
    BY DEF Columns, Car
  <2> QED
    BY <2>1, <2>2, <2>3 DEF Updated, Car
<1>6. ASSUME NEW a \in Car, NEW b \in Car PROVE Updated(a, b, b) = a
  <2>1. \A x, y \in [Levels -> Labels] : Columns(x, y, y) = x
    BY DEF Columns
  <2>2. \A x, y \in [Levels -> Nat] : Columns(x, y, y) = x
    BY DEF Columns
  <2>3. /\ a.names \in [Levels -> Labels] /\ b.names \in [Levels -> Labels]
        /\ a.codes \in [Levels -> Nat] /\ b.codes \in [Levels -> Nat]
        /\ a = [names |-> a.names, codes |-> a.codes]
    BY DEF Car
  <2> QED
    BY <2>1, <2>2, <2>3 DEF Updated
<1>7. car' \in Car
  BY <1>2, <1>3, <1>4, <1>5
<1>8. ~torn' => car' = new
  <2>1. ~torn' => p \notin late
    BY DEF WriteCar
  <2> QED
    BY <1>2, <1>3, <1>4, <1>6, <2>1
<1>9. ~torn' => FormPath(car'.codes) /\ Named(car')
  BY <1>2, <1>8
<1>10. /\ read' \in [Procs -> Car \cup {NotRead}]
       /\ torn' \in BOOLEAN /\ late' \subseteq Procs
       /\ \A q \in Procs \ late' : read'[q] = NotRead
  BY DEF WriteCar, TypeOK
<1> QED
  BY <1>7, <1>9, <1>10

(* The names that StoreCar and RemapCar apply codes to. *)
LEMMA Stores ==
    ASSUME TypeOK, StoreCar \/ RemapCar
    PROVE  \E p \in Procs, n \in [Levels -> Labels] : WriteCar(p, n)
<1>1. Importer \in Procs /\ Remapper \in Procs
  BY DEF Procs
<1>2. CASE StoreCar
  BY <1>1, <1>2, ListingsAssumption DEF StoreCar
<1>3. CASE RemapCar
  <2>1. WriteCar(Remapper, read[Remapper].names)
    BY <1>3 DEF RemapCar
  <2>2. read[Remapper] \in Car
    BY <1>1, <2>1 DEF WriteCar, TypeOK
  <2>3. read[Remapper].names \in [Levels -> Labels]
    BY <2>2 DEF Car
  <2> QED
    BY <1>1, <2>1, <2>3
<1> QED
  BY <1>2, <1>3

(* Every step keeps the tables, and what a seed has written in them. *)
LEMMA TablesNext ==
    TypeOK /\ Tables /\ Seeds /\ [Next]_vars =>
        /\ table' \in [Levels -> SUBSET Code] /\ \A l \in Levels : table'[l] \subseteq Known[l]
        /\ seeding' = NoSeed \/ seeding' \in [Levels -> Nat]
        /\ seeding' # NoSeed => \A l \in Levels : seeding'[l] <= Len(Files[l])
        /\ seeded' \in BOOLEAN
        /\ Tables' /\ Seeds'
<1> SUFFICES ASSUME TypeOK, Tables, Seeds, [Next]_vars
             PROVE  /\ table' \in [Levels -> SUBSET Code]
                    /\ \A l \in Levels : table'[l] \subseteq Known[l]
                    /\ seeding' = NoSeed \/ seeding' \in [Levels -> Nat]
                    /\ seeding' # NoSeed => \A l \in Levels : seeding'[l] <= Len(Files[l])
                    /\ seeded' \in BOOLEAN
                    /\ Tables' /\ Seeds'
  OBVIOUS
<1>a. \A l \in Levels : Known[l] \subseteq Code /\ Len(Files[l]) \in Nat
                        /\ DOMAIN Files[l] = 1..Len(Files[l])
  BY FileCodes
<1>b. ASSUME UNCHANGED csv
      PROVE  /\ table' \in [Levels -> SUBSET Code]
             /\ \A l \in Levels : table'[l] \subseteq Known[l]
             /\ seeding' = NoSeed \/ seeding' \in [Levels -> Nat]
             /\ seeding' # NoSeed => \A l \in Levels : seeding'[l] <= Len(Files[l])
             /\ seeded' \in BOOLEAN
             /\ Tables' /\ Seeds'
  BY <1>b DEF csv, TypeOK, Tables, Seeds, SeedCompletes
<1>1. CASE SeedStart
  <2>1. seeding' = [l \in Levels |-> 0] /\ UNCHANGED <<table, seeded>>
    BY <1>1 DEF SeedStart
  <2> QED
    BY <1>a, <2>1 DEF TypeOK, Tables, Seeds, SeedCompletes
<1>2. CASE SeedBatch
  <2>1. PICK l \in Levels, n \in Nat :
            /\ seeding \in [Levels -> Nat] /\ seeding # NoSeed
            /\ seeding[l] <= n /\ n <= Len(Files[l])
            /\ table' = [table EXCEPT ![l] =
                  Upserted(table[l], {Files[l][i] : i \in (seeding[l] + 1)..n})]
            /\ seeding' = [seeding EXCEPT ![l] = n]
    BY <1>2, BatchIs
  <2>2. seeded' = seeded
    BY <1>2 DEF SeedBatch
  <2> DEFINE T == (seeding[l] + 1)..n
             u == Upserted(table[l], {Files[l][i] : i \in T})
  <2>3. T \subseteq DOMAIN Files[l] /\ seeding[l] \in Nat /\ \A i \in 1..n : i \in 1..seeding[l] \/ i \in T
    BY <1>a, <2>1
  <2>4. table' = [table EXCEPT ![l] = u]
    BY <2>1 DEF TypeOK
  <2>5. table[l] \subseteq Known[l] /\ Distinct(table[l]) /\ table \in [Levels -> SUBSET Code]
    BY DEF TypeOK, Tables
  <2> HIDE DEF T
  <2>6. /\ u \subseteq Known[l] /\ Distinct(u)
        /\ \A i \in T : Files[l][i] \in u
        /\ \A i \in DOMAIN Files[l] : Files[l][i] \in table[l] => Files[l][i] \in u
    BY <2>3, <2>5, UpsertedIs
  <2> HIDE DEF u
  <2>7. table'[l] = u /\ \A k \in Levels \ {l} : table'[k] = table[k]
    BY <2>4, <2>5
  <2>8. seeding'[l] = n /\ \A k \in Levels \ {l} : seeding'[k] = seeding[k]
    BY <2>1
  <2>9. /\ table' \in [Levels -> SUBSET Code]
        /\ \A k \in Levels : table'[k] \subseteq Known[k]
    <3>1. \A k \in Levels : table'[k] \subseteq Known[k]
      BY <2>6, <2>7 DEF TypeOK
    <3>2. u \in SUBSET Code
      BY <1>a, <2>6
    <3> QED
      BY <2>4, <2>5, <3>1, <3>2
  <2>10. Tables'
    BY <2>6, <2>7 DEF Tables
  <2>11. /\ seeding' \in [Levels -> Nat]
         /\ \A k \in Levels : seeding'[k] <= Len(Files[k])
    BY <2>1, <2>8 DEF TypeOK
  <2>12. SeedCompletes'
    <3> SUFFICES ASSUME seeded, NEW k \in Levels, NEW i \in DOMAIN Files[k]
                 PROVE  Files[k][i] \in table'[k]
      BY <2>2 DEF SeedCompletes, ToSet
    <3>1. Files[k][i] \in table[k]
      BY DEF Seeds, SeedCompletes, ToSet
    <3> QED
      BY <2>6, <2>7, <3>1
  <2>13. ASSUME NEW k \in Levels, NEW i \in 1..seeding'[k] PROVE Files[k][i] \in table'[k]
    <3>1. CASE k # l
      BY <2>1, <2>7, <2>8, <2>13, <3>1 DEF Seeds
    <3>2. CASE k = l
      <4>1. CASE i \in T
        BY <2>6, <2>7, <3>2, <4>1
      <4>2. CASE i \in 1..seeding[l]
        <5>1. Files[l][i] \in table[l] /\ i \in DOMAIN Files[l]
          BY <1>a, <2>1, <4>2 DEF Seeds
        <5> QED
          BY <2>6, <2>7, <3>2, <5>1
      <4> QED
        BY <2>3, <2>8, <2>13, <3>2, <4>1, <4>2
    <3> QED
      BY <3>1, <3>2
  <2> QED
    BY <2>2, <2>9, <2>10, <2>11, <2>12, <2>13 DEF Seeds, TypeOK
<1>3. CASE SeedEnds
  <2>1. /\ seeding # NoSeed /\ seeding' = NoSeed /\ seeded' = TRUE /\ table' = table
        /\ \A l \in Levels : seeding[l] = Len(Files[l])
    BY <1>3 DEF SeedEnds, Written
  <2>2. \A l \in Levels : \A i \in 1..Len(Files[l]) : Files[l][i] \in table[l]
    BY <2>1 DEF Seeds
  <2>3. SeedCompletes'
    BY <1>a, <2>1, <2>2 DEF SeedCompletes, ToSet
  <2> QED
    BY <2>1, <2>3 DEF TypeOK, Tables, Seeds
<1>4. CASE SeedFails
  <2>1. seeding' = NoSeed /\ UNCHANGED <<table, seeded>>
    BY <1>4 DEF SeedFails
  <2> QED
    BY <2>1 DEF TypeOK, Tables, Seeds, SeedCompletes
<1>5. CASE LoadLevel
  BY <1>5, <1>b DEF LoadLevel
<1>6. CASE \E p \in Procs : ReadCar(p)
  BY <1>6, <1>b DEF ReadCar
<1>7. CASE StoreCar
  BY <1>7, <1>b DEF StoreCar, WriteCar
<1>8. CASE RestartImporter
  BY <1>8, <1>b DEF RestartImporter
<1>9. CASE RemapStart
  BY <1>9, <1>b DEF RemapStart
<1>10. CASE RemapCar
  BY <1>10, <1>b DEF RemapCar, WriteCar
<1>11. CASE CanonicalStart
  BY <1>11, <1>b DEF CanonicalStart
<1>12. CASE Canonicalise
  BY <1>12, <1>b DEF Canonicalise
<1>13. CASE RemapFails
  BY <1>13, <1>b DEF RemapFails
<1>14. CASE UNCHANGED vars
  BY <1>14, <1>b DEF vars
<1> QED
  BY <1>1, <1>2, <1>3, <1>4, <1>5, <1>6, <1>7,
     <1>8, <1>9, <1>10, <1>11, <1>12, <1>13, <1>14 DEF Next

(* Every step keeps what is loaded a part of an index.                     *)
LEMMA IndexesNext ==
    TypeOK /\ Tables /\ Indexes /\ [Next]_vars => Indexes' /\ index' \in [Procs -> Seq(Seq(Code))]
<1> SUFFICES ASSUME TypeOK, Tables, Indexes, [Next]_vars
             PROVE  Indexes' /\ index' \in [Procs -> Seq(Seq(Code))]
  OBVIOUS
<1>p. Procs = {Importer, Remapper} /\ Importer # Remapper
  BY DEF Procs, Importer, Remapper
<1>a. index \in [Procs -> Seq(Seq(Code))]
  BY DEF TypeOK
<1>b. ASSUME NEW p \in Procs, NEW x, IsIndex(x), index' = [index EXCEPT ![p] = x]
      PROVE  Indexes' /\ index' \in [Procs -> Seq(Seq(Code))]
  <2>1. x \in Seq(Seq(Code))
    BY <1>b DEF IsIndex
  <2>2. \A q \in Procs : index'[q] = IF q = p THEN x ELSE index[q]
    BY <1>a, <1>b
  <2> QED
    BY <1>a, <1>b, <2>1, <2>2 DEF Indexes
<1>c. ASSUME index' = index PROVE Indexes' /\ index' \in [Procs -> Seq(Seq(Code))]
  BY <1>a, <1>c DEF Indexes
<1>d. IsIndex(<<>>)
  BY DEF IsIndex
<1>1. CASE SeedStart
  BY <1>1, <1>c DEF SeedStart
<1>2. CASE SeedBatch
  BY <1>2, <1>c DEF SeedBatch
<1>3. CASE SeedEnds
  BY <1>3, <1>c DEF SeedEnds
<1>4. CASE SeedFails
  BY <1>4, <1>c DEF SeedFails
<1>5. CASE LoadLevel
  <2> DEFINE x == index[Importer]
             l == Len(x) + 1
  <2>0. x \in Seq(Seq(Code)) /\ Len(x) \in 0..4 /\ l \in Levels /\ IsIndex(x) /\ Importer \in Procs
    <3>1. x \in Seq(Seq(Code)) /\ IsIndex(x) /\ Importer \in Procs
      BY <1>a, <1>p DEF Indexes
    <3>2. Len(x) \in Nat /\ Len(x) <= 5 /\ Len(x) # 5
      BY <3>1, <1>5 DEF IsIndex, LoadLevel, Loaded
    <3>3. \A n \in Nat : n <= 5 /\ n # 5 => n \in 0..4 /\ n + 1 \in 1..5
      OBVIOUS
    <3>4. Len(x) \in 0..4 /\ l \in 1..5
      BY <3>2, <3>3, Zenon
    <3> QED
      BY <3>1, <3>4 DEF Levels
  <2>1. PICK s \in Scans(Importer, table[l]) : index' = [index EXCEPT ![Importer] = Append(x, s)]
    BY <1>5, <1>a, <2>0 DEF LoadLevel
  <2>2. /\ s \in Seq(Code)
        /\ \A i \in DOMAIN s :
            /\ s[i] \in Known[l]
            /\ \A j \in DOMAIN s : s[i].no = s[j].no => i = j
    BY <2>0, ScansAre
  <2>3. IsIndex(Append(x, s))
    <3> HIDE DEF x
    <3>1. /\ Append(x, s) \in Seq(Seq(Code)) /\ Len(Append(x, s)) = l
          /\ \A k \in 1..Len(x) : Append(x, s)[k] = x[k]
          /\ Append(x, s)[l] = s
      BY <2>0, <2>2, AppendProperties
    <3>2. DOMAIN Append(x, s) = 1..l /\ DOMAIN x = 1..Len(x)
      BY <2>0, <3>1
    <3>3. \A k \in 1..l : k = l \/ k \in 1..Len(x)
      <4>1. Len(x) \in 0..4
        BY <2>0
      <4> QED
        BY ONLY <4>1
    <3>4. Len(Append(x, s)) <= 5
      <4>1. Len(Append(x, s)) \in 1..5
        BY <2>0, <3>1, Zenon DEF Levels
      <4> QED
        BY ONLY <4>1
    <3> HIDE DEF l
    <3> DEFINE a == Append(x, s)
    <3>5. ASSUME NEW k \in DOMAIN a, NEW i \in DOMAIN a[k]
          PROVE  /\ a[k][i] \in Known[k]
                 /\ \A j \in DOMAIN a[k] : a[k][i].no = a[k][j].no => i = j
      <4>1. CASE k = l
        BY <2>2, <3>1, <4>1
      <4>2. CASE k \in 1..Len(x)
        <5>1. a[k] = x[k] /\ k \in DOMAIN x
          BY <3>1, <3>2, <4>2
        <5> QED
          BY <2>0, <5>1 DEF IsIndex
      <4> QED
        BY <3>2, <3>3, <4>1, <4>2
    <3> QED
      BY <3>1, <3>4, <3>5 DEF IsIndex
  <2> QED
    BY <1>b, <2>0, <2>1, <2>3
<1>6. CASE \E p \in Procs : ReadCar(p)
  BY <1>6, <1>c DEF ReadCar
<1>7. CASE StoreCar
  BY <1>7, <1>c DEF StoreCar
<1>8. CASE RestartImporter
  BY <1>8, <1>b, <1>d, <1>p DEF RestartImporter
<1>9. CASE RemapStart
  <2>1. PICK s1 \in Scans(Remapper, table[1]), s2 \in Scans(Remapper, table[2]),
             s3 \in Scans(Remapper, table[3]), s4 \in Scans(Remapper, table[4]),
             s5 \in Scans(Remapper, table[5]) :
            index' = [index EXCEPT ![Remapper] = <<s1, s2, s3, s4, s5>>]
    BY <1>9 DEF RemapStart
  <2> DEFINE x == <<s1, s2, s3, s4, s5>>
  <2>2. 1 \in Levels /\ 2 \in Levels /\ 3 \in Levels /\ 4 \in Levels /\ 5 \in Levels
    BY DEF Levels
  <2>3. x[1] = s1 /\ x[2] = s2 /\ x[3] = s3 /\ x[4] = s4 /\ x[5] = s5
    OBVIOUS
  <2>4. \A l \in Levels : x[l] \in Scans(Remapper, table[l])
    <3>1. \A l \in Levels : l = 1 \/ l = 2 \/ l = 3 \/ l = 4 \/ l = 5
      BY DEF Levels
    <3> QED
      BY <2>3, <3>1
  <2>5. \A l \in Levels :
            /\ x[l] \in Seq(Code)
            /\ \A i \in DOMAIN x[l] :
                /\ x[l][i] \in Known[l]
                /\ \A j \in DOMAIN x[l] : x[l][i].no = x[l][j].no => i = j
    <3> HIDE DEF x
    <3> QED
      BY <1>p, <2>4, ScansAre
  <2>6. DOMAIN x = 1..5 /\ Len(x) = 5 /\ x \in Seq(Seq(Code))
    <3>1. /\ s1 \in Seq(Code) /\ s2 \in Seq(Code) /\ s3 \in Seq(Code)
          /\ s4 \in Seq(Code) /\ s5 \in Seq(Code)
      BY <2>2, <2>3, <2>5
    <3> QED
      BY <3>1
  <2>7. IsIndex(x)
    <3> HIDE DEF x
    <3> QED
      BY <2>5, <2>6 DEF IsIndex, Levels
  <2> QED
    BY <1>b, <1>p, <2>1, <2>7
<1>10. CASE RemapCar
  BY <1>10, <1>b, <1>d, <1>p DEF RemapCar
<1>11. CASE CanonicalStart
  BY <1>11, <1>c DEF CanonicalStart
<1>12. CASE Canonicalise
  BY <1>12, <1>c DEF Canonicalise
<1>13. CASE RemapFails
  BY <1>13, <1>b, <1>d, <1>p DEF RemapFails
<1>14. CASE UNCHANGED vars
  BY <1>14, <1>c DEF vars
<1> QED
  BY <1>1, <1>2, <1>3, <1>4, <1>5, <1>6, <1>7,
     <1>8, <1>9, <1>10, <1>11, <1>12, <1>13, <1>14 DEF Next

(* Every step keeps the row coded, and what is read of it current or late. *)
LEMMA CarNext ==
    TypeOK /\ Indexes /\ Fresh /\ Coded /\ [Next]_vars =>
        /\ car' \in Car /\ read' \in [Procs -> Car \cup {NotRead}]
        /\ torn' \in BOOLEAN /\ late' \subseteq Procs
        /\ Fresh' /\ Coded'
<1> SUFFICES ASSUME TypeOK, Indexes, Fresh, Coded, [Next]_vars
             PROVE  /\ car' \in Car /\ read' \in [Procs -> Car \cup {NotRead}]
                    /\ torn' \in BOOLEAN /\ late' \subseteq Procs
                    /\ Fresh' /\ Coded'
  OBVIOUS
<1>p. Importer \in Procs /\ Remapper \in Procs
  BY DEF Procs
<1>a. /\ car \in Car /\ read \in [Procs -> Car \cup {NotRead}]
      /\ torn \in BOOLEAN /\ late \subseteq Procs
  BY DEF TypeOK
<1>b. ASSUME UNCHANGED row
      PROVE  /\ car' \in Car /\ read' \in [Procs -> Car \cup {NotRead}]
             /\ torn' \in BOOLEAN /\ late' \subseteq Procs
             /\ Fresh' /\ Coded'
  BY <1>a, <1>b DEF row, Fresh, Coded
<1>c. ASSUME NEW p \in Procs, UNCHANGED <<car, torn>>, late' = late \ {p},
             read' = [read EXCEPT ![p] = NotRead]
      PROVE  /\ car' \in Car /\ read' \in [Procs -> Car \cup {NotRead}]
             /\ torn' \in BOOLEAN /\ late' \subseteq Procs
             /\ Fresh' /\ Coded'
  BY <1>a, <1>c DEF Fresh, Coded
<1>w. ASSUME StoreCar \/ RemapCar
      PROVE  /\ car' \in Car /\ read' \in [Procs -> Car \cup {NotRead}]
             /\ torn' \in BOOLEAN /\ late' \subseteq Procs
             /\ Fresh' /\ Coded'
  <2>1. PICK p \in Procs, n \in [Levels -> Labels] : WriteCar(p, n)
    BY <1>w, Stores
  <2>2. /\ car' \in Car
        /\ ~torn' => FormPath(car'.codes) /\ Named(car')
        /\ read' \in [Procs -> Car \cup {NotRead}]
        /\ torn' \in BOOLEAN /\ late' \subseteq Procs
        /\ \A q \in Procs \ late' : read'[q] = NotRead
    BY <2>1, WriteIs
  <2> QED
    BY <2>2 DEF Fresh, Coded
<1>1. CASE SeedStart
  BY <1>1, <1>b DEF SeedStart
<1>2. CASE SeedBatch
  BY <1>2, <1>b DEF SeedBatch
<1>3. CASE SeedEnds
  BY <1>3, <1>b DEF SeedEnds
<1>4. CASE SeedFails
  BY <1>4, <1>b DEF SeedFails
<1>5. CASE LoadLevel
  BY <1>5, <1>b DEF LoadLevel
<1>6. CASE \E p \in Procs : ReadCar(p)
  <2>1. PICK p \in Procs : read' = [read EXCEPT ![p] = car] /\ late' = late \ {p} /\ UNCHANGED <<car, torn>>
    BY <1>6 DEF ReadCar
  <2> QED
    BY <1>a, <2>1 DEF Fresh, Coded
<1>7. CASE StoreCar
  BY <1>7, <1>w
<1>8. CASE RestartImporter
  BY <1>8, <1>c, <1>p DEF RestartImporter
<1>9. CASE RemapStart
  BY <1>9, <1>b DEF RemapStart
<1>10. CASE RemapCar
  BY <1>10, <1>w
<1>11. CASE CanonicalStart
  BY <1>11, <1>b DEF CanonicalStart
<1>12. CASE Canonicalise
  <2> DEFINE l == level + 1
             named == {c.name : c \in {d \in table[l] : d.no = car.codes[l]}}
             x == IF named = {} THEN car.names[l] ELSE CHOOSE y \in named : TRUE
  <2>1. /\ car' = [car EXCEPT !.names[l] = x]
        /\ late' = IF car' = car THEN late ELSE {q \in Procs : read[q] # NotRead}
        /\ UNCHANGED <<read, torn>>
    BY <1>12 DEF Canonicalise
  <2>2. l \in Levels /\ table[l] \subseteq Known[l] /\ car.names \in [Levels -> Labels]
    BY DEF TypeOK, Levels, Car
  <2>3. named # {} => \E k \in Known[l] : k.no = car.codes[l] /\ k.name = x
    <3>1. named # {} => x \in named
      OBVIOUS
    <3> QED
      BY <2>2, <3>1
  <2>4. named = {} => x = car.names[l]
    OBVIOUS
  <2> HIDE DEF x, named, l
  <2>5. x \in Labels
    BY <2>2, <2>3, <2>4, ParentIs DEF Code
  <2>6. car'.names = [car.names EXCEPT ![l] = x] /\ car'.codes = car.codes /\ car' \in Car
    BY <1>a, <2>1, <2>2, <2>5 DEF Car
  <2>7. Coded'
    <3> SUFFICES ASSUME ~torn PROVE FormPath(car'.codes) /\ Named(car')
      BY <2>1 DEF Coded
    <3>1. FormPath(car'.codes)
      BY <2>6 DEF Coded
    <3>2. ASSUME NEW k \in Levels, car'.codes[k] # None
          PROVE  \E c \in Known[k] : c.no = car'.codes[k] /\ c.name = car'.names[k]
      <4>1. \E c \in Known[k] : c.no = car.codes[k] /\ c.name = car.names[k]
        BY <2>6, <3>2 DEF Coded, Named
      <4>2. CASE k # l
        BY <2>2, <2>6, <4>1, <4>2
      <4>3. CASE k = l
        BY <2>2, <2>3, <2>4, <2>6, <4>1, <4>3
      <4> QED
        BY <4>2, <4>3
    <3> QED
      BY <3>1, <3>2 DEF Named
  <2>8. Fresh'
    BY <1>a, <2>1 DEF Fresh
  <2>9. late' \subseteq Procs
    BY <1>a, <2>1
  <2> QED
    BY <1>a, <2>1, <2>6, <2>7, <2>8, <2>9
<1>13. CASE RemapFails
  BY <1>13, <1>c, <1>p DEF RemapFails
<1>14. CASE UNCHANGED vars
  BY <1>14, <1>b DEF vars
<1> QED
  BY <1>1, <1>2, <1>3, <1>4, <1>5, <1>6, <1>7,
     <1>8, <1>9, <1>10, <1>11, <1>12, <1>13, <1>14 DEF Next

(* The commands that run. *)
LEMMA CommandsNext ==
    TypeOK /\ [Next]_vars => remap' \in {"idle", "remap", "canonical"} /\ level' \in 0..4
<1> SUFFICES ASSUME TypeOK, [Next]_vars
             PROVE  remap' \in {"idle", "remap", "canonical"} /\ level' \in 0..4
  OBVIOUS
<1>0. remap \in {"idle", "remap", "canonical"} /\ level \in 0..4
  BY DEF TypeOK
<1>1. CASE Canonicalise
  BY <1>0, <1>1 DEF Canonicalise
<1>2. CASE ~Canonicalise
  BY <1>0, <1>2
     DEF Next, SeedStart, SeedBatch, SeedEnds, SeedFails, LoadLevel, ReadCar, StoreCar, WriteCar,
         RestartImporter, RemapStart, RemapCar, CanonicalStart, RemapFails, vars
<1> QED
  BY <1>1, <1>2

(* Every step preserves the inductive invariant. *)
LEMMA InvNext == EncarInv /\ [Next]_vars => EncarInv'
<1> SUFFICES ASSUME EncarInv, [Next]_vars PROVE EncarInv'
  OBVIOUS
<1> USE DEF EncarInv
<1>1. \A p \in Procs : Len(index'[p]) <= 5
  BY IndexesNext DEF Indexes, IsIndex
<1>2. TypeOK'
  BY <1>1, TablesNext, IndexesNext, CarNext, CommandsNext DEF TypeOK
<1> QED
  BY <1>2, TablesNext, IndexesNext, CarNext

(* The tables are empty at first, or an earlier edition's. *)
LEMMA InvInit == Init => EncarInv
<1> SUFFICES ASSUME Init PROVE EncarInv
  OBVIOUS
<1>1. \A l \in Levels : table[l] \subseteq Known[l] /\ table[l] \subseteq Code /\ Distinct(table[l])
  <2>1. \A l \in Levels : table[l] = {} \/ table[l] = ToSet(Former[l])
    BY DEF Init
  <2> QED
    BY <2>1, FileCodes DEF Distinct
<1>2. table \in [Levels -> SUBSET Code]
  <2>1. table = [l \in Levels |-> table[l]]
    BY DEF Init
  <2> QED
    BY <1>1, <2>1
<1>3. Tables /\ Seeds
  BY <1>1 DEF Init, Tables, Seeds, SeedCompletes
<1>4. index = [p \in Procs |-> <<>>] /\ Len(<<>>) = 0 /\ <<>> \in Seq(Seq(Code))
  BY DEF Init
<1>5. Indexes
  BY <1>4 DEF Indexes, IsIndex
<1>6. NoCar \in Car
  <2>1. \A l \in Levels : None \in Numbers[l] /\ None \in Nat
    BY DEF Numbers, None
  <2> QED
    BY <2>1, LabelsAssumption DEF NoCar, Car
<1>7. Fresh
  BY DEF Init, Fresh
<1>8. Coded
  <2>1. \A l \in Levels : car.codes[l] = None
    BY DEF Init, NoCar
  <2>2. \A l \in {2, 3, 4, 5} : l \in Levels
    BY DEF Levels
  <2> QED
    BY <2>1, <2>2 DEF Coded, FormPath, Named
<1>9. TypeOK
  <2>1. index \in [Procs -> Seq(Seq(Code))] /\ \A p \in Procs : Len(index[p]) <= 5
    BY <1>4
  <2>2. read \in [Procs -> Car \cup {NotRead}] /\ car \in Car
    BY <1>6 DEF Init
  <2>3. /\ seeding = NoSeed /\ seeded = FALSE /\ torn = FALSE /\ late = {}
        /\ remap = "idle" /\ level = 0
    BY DEF Init
  <2>4. 0 \in 0..4
    OBVIOUS
  <2> QED
    BY <1>1, <1>2, <2>1, <2>2, <2>3, <2>4, Zenon DEF TypeOK
<1> QED
  BY <1>3, <1>5, <1>7, <1>8, <1>9 DEF EncarInv

----------------------------------------------------------------------------
(* The inductive invariant: a table has each number once, a seed under way *)
(* has in the tables what it has written, an index is made of codes of     *)
(* either edition, and a process has read the row as it is unless another  *)
(* has written it since.                                                   *)
THEOREM EncarInvariant == Spec => []EncarInv
BY InvInit, InvNext, PTL DEF Spec

(* The tables hold codes of one of the two editions, and a car, stored or  *)
(* read, has codes of them.                                                *)
THEOREM TypeCorrect == Spec => []TypeOK
<1>1. EncarInv => TypeOK
  BY DEF EncarInv
<1> QED
  BY <1>1, EncarInvariant, PTL

(* Once a seed has come to its end (seed_encar_codes), the tables hold     *)
(* every code of the files for good, whatever seeds were interrupted       *)
(* before or are after.                                                    *)
THEOREM SeedsComplete == Spec => []SeedCompletes
<1>1. EncarInv => SeedCompletes
  BY DEF EncarInv, Seeds
<1> QED
  BY <1>1, EncarInvariant, PTL

(* The codes of a car lie under each other, from whatever state of the     *)
(* tables the index was loaded, unless one write overtook another: resolve *)
(* looks for each code in the list of the one above it.                    *)
THEOREM CodesAreAPath == Spec => []CodesFormPath
<1>1. EncarInv => CodesFormPath
  BY DEF EncarInv, Coded, FormPath, CodesFormPath
<1> QED
  BY <1>1, EncarInvariant, PTL

(* A car has the name of its code in one of the editions, whichever of the *)
(* import, a remap and remap_canonical_names wrote it last.                *)
THEOREM NamesFitCodes == Spec => []NamedAsCoded
<1>1. EncarInv => NamedAsCoded
  BY DEF EncarInv, Coded, Named, NamedAsCoded
<1> QED
  BY <1>1, EncarInvariant, PTL

(* With any index that a process may have loaded, in any order of rows and *)
(* between any batches of a seed, a remap changes nothing in a car that it *)
(* has matched before (resolve, apply_codes_to_vehicle).                   *)
THEOREM RemapChangesNothing == Spec => RemapStable
<1>1. EncarInv' =>
        [\A p \in Procs : index'[p] # index[p] /\ Loaded(p)' => Stable(index'[p])]_vars
  <2> SUFFICES ASSUME EncarInv', NEW p \in Procs, Loaded(p)' PROVE Stable(index'[p])
    OBVIOUS
  <2>1. IsWhole(index'[p])
    BY DEF EncarInv, Indexes, IsWhole, Loaded
  <2> QED
    BY <2>1, AppliedAgain DEF Stable
<1> QED
  BY <1>1, EncarInvariant, PTL DEF RemapStable
==============================================================================
