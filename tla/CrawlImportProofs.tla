-------------------------- MODULE CrawlImportProofs --------------------------
(***************************************************************************)
(* That no row is left behind, for any server, any number of rows, any     *)
(* sizes of pages and chunks and any crashes and failures, as long as the  *)
(* server lists each car once (CrawlImportRepeated shows that it takes     *)
(* that).                                                                  *)
(***************************************************************************)
EXTENDS CrawlImport, FiniteSetTheorems, SequenceTheorems, WellFoundedInduction, TLAPS

OneRowPerCar ==
    \A c \in Catalogs : \A r, q \in Ids : c[r].key = c[q].key => r = q

(* Row r is stored; with one row per car, that is Collected(r). *)
Has(r) == vehicles[Key(r)] = r

(* The next collect starts before row r. *)
Ahead(r) ==
    /\ \A k \in Keys : vehicles[k] < r
    /\ (\E k \in Keys : vehicles[k] # 0) => resume < r

(* Up to x the server adds no row any more, but where the feed has skipped *)
(* the place of one: it adds them behind all that it holds.                *)
Beyond(n) == \A q \in rows : q < n
Spent(x) == \A n \in Ids : n <= x /\ Beyond(n) => n \in givenUp

(* What is stored comes from the server, and what is remembered of it lies *)
(* where it adds nothing.                                                  *)
Known ==
    /\ \A k \in Keys : vehicles[k] # 0 => vehicles[k] \in rows /\ Key(vehicles[k]) = k
    /\ Spent(resume) /\ Spent(lastId) /\ Spent(skipEnd)

(* While a collect runs, everything stored lies before the cursor, and     *)
(* what lies before the cursor is stored, given up or in the page at hand. *)
Flushing == pc \in {"flush", "handle"}
Collecting == Flushing \/ pc \in {"fetch", "queue", "clean", "clear", "complete"}
Low(x) == x = 0 \/ x < pos
Swept ==
    Collecting =>
        /\ pos = 0 \/ Spent(pos - 1)
        /\ Low(resume) /\ Low(lastId) /\ Low(skipEnd) /\ \A k \in Keys : Low(vehicles[k])
        /\ resume <= lastId
        /\ \A r \in Wanted : r < pos => Has(r) \/ (Flushing /\ r \in buf)
        /\ startedFrom = 0 => \A k \in Keys : vehicles[k] # 0 => k \in kept

(* The rows of the page that are not stored yet lie behind all that are,   *)
(* and are flushed in the order of their ids.                              *)
Paged ==
    /\ Flushing =>
        /\ \A r \in buf : resume < r /\ r < pos /\ r <= lastId
        /\ \A r \in Accepted(buf) : Key(r) \in kept
        /\ \A r \in Accepted(buf) : Has(r) \/ \A k \in Keys : vehicles[k] < r
    /\ pc = "flush" =>
        /\ \A i \in DOMAIN todo : todo[i] \in Accepted(buf)
        /\ \A i, j \in DOMAIN todo : i < j => todo[i] < todo[j]
        /\ \A r \in Accepted(buf) : Has(r) \/ \E i \in DOMAIN todo : todo[i] = r

Gapless == \A r \in Wanted : Has(r) \/ Ahead(r)

(* A collect that has completed had swept the table. *)
Finished ==
    job = "completed" =>
        /\ pc = "idle"
        /\ pos = 0 \/ Spent(pos - 1)
        /\ \A r \in Wanted : r < pos => Has(r)

ImportInv == TypeOK /\ Known /\ Swept /\ Paged /\ Gapless /\ Finished

----------------------------------------------------------------------------
(* A finite set of numbers has a greatest one. *)
LEMMA GreatestExists ==
    ASSUME NEW V \in SUBSET Nat, IsFiniteSet(V), V # {}
    PROVE  \E m \in V : \A x \in V : x <= m
<1> DEFINE Over(m) == {x \in V : x > m}
           Overs == {Over(m) : m \in V}
<1>1. Overs \subseteq FiniteSubsetsOf(V) /\ Overs # {}
  <2>1. \A m \in V : Over(m) \in SUBSET V
    OBVIOUS
  <2>2. \A m \in V : IsFiniteSet(Over(m))
    BY <2>1, FS_Subset
  <2> QED
    BY <2>1, <2>2 DEF FiniteSubsetsOf
<1>2. IsWellFoundedOn(StrictSubsetOrdering(V), FiniteSubsetsOf(V))
  BY FS_StrictSubsetOrderingWellFounded
<1>3. PICK least \in Overs : \A o \in Overs : <<o, least>> \notin StrictSubsetOrdering(V)
  <2> HIDE DEF Overs
  <2> QED
    BY <1>1, <1>2, WFMin
<1>4. PICK m \in V : least = Over(m)
  BY <1>3
<1>5. \A x \in V : x <= m
  <2> SUFFICES ASSUME NEW x \in V, x > m PROVE FALSE
    OBVIOUS
  <2>1. Over(x) \subseteq Over(m) /\ x \in Over(m) /\ x \notin Over(x)
    <3>1. x \in Nat /\ m \in Nat /\ \A y \in V : y \in Nat
      OBVIOUS
    <3>2. \A y \in V : y > x => y > m
      BY <3>1
    <3>3. ~(x > x)
      BY <3>1
    <3> QED
      BY <3>2, <3>3
  <2>2. <<Over(x), Over(m)>> \in StrictSubsetOrdering(V)
    <3>1. Over(x) \in SUBSET V /\ Over(m) \in SUBSET V /\ Over(x) # Over(m)
      BY <2>1
    <3> HIDE DEF Over
    <3> QED
      BY <2>1, <3>1 DEF StrictSubsetOrdering
  <2> QED
    BY <1>3, <1>4, <2>2
<1> QED
  BY <1>5

(* What the next collect starts after. *)
StartFacts ==
    /\ StartOffset \in Ids \cup {0}
    /\ StartOffset = 0 <=> \A k \in Keys : vehicles[k] = 0
    /\ StartOffset # 0 =>
        /\ resume <= StartOffset /\ \A k \in Keys : vehicles[k] <= StartOffset
        /\ StartOffset = resume \/ \E k \in Keys : vehicles[k] = StartOffset

(* crawl_start_offset does: the greater of the saved and the stored id.    *)
LEMMA StartIs == TypeOK => StartFacts
<1> SUFFICES ASSUME TypeOK PROVE StartFacts
  OBVIOUS
<1>1. CASE \A k \in Keys : vehicles[k] = 0
  BY <1>1 DEF StartFacts, StartOffset
<1>2. CASE \E k \in Keys : vehicles[k] # 0
  <2> DEFINE V == {vehicles[k] : k \in Keys}
  <2>1. V \subseteq Ids \cup {0} /\ V # {}
    BY <1>2 DEF TypeOK
  <2>2. IsFiniteSet(Ids \cup {0})
    BY IdsAssumption, FS_AddElement
  <2>3. IsFiniteSet(V) /\ V \subseteq Nat
    <3>1. IsFiniteSet(V)
      BY <2>1, <2>2, FS_Subset
    <3>2. Ids \subseteq Nat
      BY IdsAssumption
    <3> HIDE DEF V
    <3> QED
      BY <2>1, <3>1, <3>2
  <2>4. \E m \in V : \A x \in V : x <= m
    BY <2>1, <2>3, GreatestExists
  <2>5. MaxSourceId \in V /\ \A k \in Keys : vehicles[k] <= MaxSourceId
    <3>1. \E m \in V : \A k \in Keys : vehicles[k] <= m
      BY <2>4
    <3> QED
      BY <3>1 DEF MaxSourceId
  <2>6. MaxSourceId \in Nat \ {0}
    <3>1. PICK k \in Keys : vehicles[k] # 0
      BY <1>2
    <3>2. vehicles[k] \in Nat /\ MaxSourceId \in Nat /\ vehicles[k] <= MaxSourceId
      BY <2>3, <2>5
    <3> QED
      BY <3>1, <3>2
  <2>7. resume \in Ids \cup {0} /\ resume \in Nat
    BY IdsAssumption DEF TypeOK
  <2>8. StartOffset = Bigger(resume, MaxSourceId)
    BY <1>2 DEF StartOffset
  <2>9. PICK k \in Keys : MaxSourceId = vehicles[k]
    BY <2>5
  <2>10. /\ StartOffset \in {resume, MaxSourceId} /\ StartOffset # 0
         /\ resume <= StartOffset /\ MaxSourceId <= StartOffset
    BY <2>6, <2>7, <2>8 DEF Bigger
  <2>11. \A i \in Keys : vehicles[i] <= StartOffset
    <3>1. \A i \in Keys : vehicles[i] \in Nat
      BY <2>3
    <3>2. StartOffset \in Nat
      BY <2>6, <2>7, <2>10
    <3> QED
      BY <2>5, <2>6, <2>10, <3>1, <3>2
  <2> QED
    BY <1>2, <2>1, <2>5, <2>7, <2>9, <2>10, <2>11 DEF StartFacts
<1> QED
  BY <1>1, <1>2

(* _flush hands over the accepted rows of a page, each once, in the order  *)
(* of their ids.                                                           *)
LEMMA FlushOrderIs ==
    ASSUME OneRowPerCar, TypeOK, NEW p \in SUBSET Ids, NEW s \in FlushOrders(p)
    PROVE  /\ s \in Seq(p)
           /\ \A i, j \in DOMAIN s : i < j => s[i] < s[j]
           /\ \A r \in p : \E i \in DOMAIN s : s[i] = r
<1>1. \A r, q \in p : Key(r) = Key(q) => r = q
  BY DEF OneRowPerCar, TypeOK, Key
<1>2. LastOfCar(p) = p
  <2>1. \A r \in p : r <= r
    BY IdsAssumption
  <2> QED
    BY <1>1, <2>1 DEF LastOfCar
<1>3. \A r \in p : FirstOfCar(p, r) = r
  <2> TAKE r \in p
  <2>1. r \in p /\ Key(r) = Key(r) /\ \A q \in p : Key(q) = Key(r) => r <= q
    BY <1>1, IdsAssumption
  <2> QED
    BY <1>1, <2>1 DEF FirstOfCar
<1>4. IsFiniteSet(p) /\ Cardinality(p) \in Nat
  BY IdsAssumption, FS_Subset, FS_CardinalityType
<1>5. /\ s \in [1..Cardinality(p) -> p]
      /\ \A i, j \in 1..Cardinality(p) : i # j => s[i] # s[j]
      /\ \A i, j \in DOMAIN s : i < j => FirstOfCar(p, s[i]) < FirstOfCar(p, s[j])
  BY <1>2 DEF FlushOrders, SetToSeqs
<1>6. s \in Seq(p)
  BY <1>4, <1>5
<1>7. \A i, j \in DOMAIN s : i < j => s[i] < s[j]
  BY <1>3, <1>5
<1>8. \A r \in p : \E i \in DOMAIN s : s[i] = r
  <2>1. s \in Injection(1..Cardinality(p), p)
    BY <1>5 DEF Injection, IsInjective
  <2>2. IsFiniteSet(1..Cardinality(p)) /\ Cardinality(1..Cardinality(p)) = Cardinality(p)
    BY <1>4, FS_Interval
  <2>3. s \in Surjection(1..Cardinality(p), p)
    BY <1>4, <2>1, <2>2, FS_Injection
  <2> QED
    BY <1>5, <2>3 DEF Surjection
<1> QED
  BY <1>6, <1>7, <1>8

(* A chunk stores its own rows and leaves the other cars alone. *)
LEMMA UpsertedIs ==
    ASSUME OneRowPerCar, TypeOK, Known, NEW chunk \in SUBSET Ids
    PROVE  /\ \A r \in chunk : Upserted(chunk)[Key(r)] = r
           /\ \A k \in Keys : (\A r \in chunk : Key(r) # k) => Upserted(chunk)[k] = vehicles[k]
<1>1. \A r, q \in Ids : Key(r) = Key(q) => r = q
  BY DEF OneRowPerCar, TypeOK, Key
<1>2. \A r \in Ids : Key(r) \in Keys
  BY CatalogsAssumption DEF TypeOK, Key, Row
<1>3. ASSUME NEW r \in chunk PROVE Upserted(chunk)[Key(r)] = r
  <2>1. vehicles[Key(r)] = 0 \/ vehicles[Key(r)] = r
    BY <1>1, <1>2 DEF Known, TypeOK
  <2>2. (CHOOSE q \in chunk : Key(q) = Key(r)) = r
    BY <1>1
  <2>3. vehicles[Key(r)] = 0 => Replaces(r, vehicles[Key(r)])
    BY DEF Replaces
  <2> QED
    BY <1>2, <2>1, <2>2, <2>3 DEF Upserted
<1>4. ASSUME NEW k \in Keys, \A r \in chunk : Key(r) # k PROVE Upserted(chunk)[k] = vehicles[k]
  BY <1>4 DEF Upserted
<1> QED
  BY <1>3, <1>4

(* The rows of a chunk are rows of the page. *)
LEMMA ChunkIs ==
    ASSUME NEW S, todo \in Seq(S)
    PROVE  /\ ThisChunk \subseteq S
           /\ SubSeq(todo, Chunk + 1, Len(todo)) \in Seq(S)
           /\ \A i \in DOMAIN SubSeq(todo, Chunk + 1, Len(todo)) :
                 /\ i + Chunk \in DOMAIN todo
                 /\ SubSeq(todo, Chunk + 1, Len(todo))[i] = todo[i + Chunk]
           /\ \A i \in DOMAIN todo : todo[i] \in ThisChunk \/
                 \E j \in DOMAIN SubSeq(todo, Chunk + 1, Len(todo)) :
                     SubSeq(todo, Chunk + 1, Len(todo))[j] = todo[i]
<1> DEFINE rest == SubSeq(todo, Chunk + 1, Len(todo))
<1>1. /\ Len(todo) \in Nat /\ DOMAIN todo = 1..Len(todo) /\ Chunk \in Nat
      /\ \A i \in DOMAIN todo : todo[i] \in S
  BY SizesAssumption
<1>2. ThisChunk \subseteq S
  BY <1>1 DEF ThisChunk
<1>3. /\ rest \in Seq(S) /\ DOMAIN rest = 1..(Len(todo) - Chunk)
      /\ \A i \in 1..(Len(todo) - Chunk) : rest[i] = todo[i + Chunk]
  <2>1. \A i \in (Chunk + 1)..Len(todo) : todo[i] \in S
    BY <1>1
  <2>2. /\ rest \in Seq(S)
        /\ Len(rest) = IF Chunk + 1 <= Len(todo) THEN Len(todo) - (Chunk + 1) + 1 ELSE 0
        /\ \A i \in 1..(Len(todo) - (Chunk + 1) + 1) : rest[i] = todo[(Chunk + 1) + i - 1]
    BY <1>1, <2>1, SubSeqProperties
  <2>3. 1..Len(rest) = 1..(Len(todo) - Chunk)
    <3> HIDE DEF rest
    <3>1. CASE Chunk + 1 <= Len(todo)
      BY <1>1, <2>2, <3>1
    <3>2. CASE ~(Chunk + 1 <= Len(todo))
      <4>1. \A n \in Int : n <= 0 => 1..n = {}
        OBVIOUS
      <4>2. Len(rest) = 0 /\ Len(todo) - Chunk \in Int /\ Len(todo) - Chunk <= 0
        BY <1>1, <2>2, <3>2
      <4> QED
        BY <4>1, <4>2
    <3> QED
      BY <3>1, <3>2
  <2>4. \A i \in 1..(Len(todo) - Chunk) : rest[i] = todo[i + Chunk]
    BY <1>1, <2>2
  <2> HIDE DEF rest
  <2> QED
    BY <2>2, <2>3, <2>4
<1>4. \A i \in 1..(Len(todo) - Chunk) : i + Chunk \in DOMAIN todo
  BY <1>1
<1>6. \A i \in DOMAIN todo : todo[i] \in ThisChunk \/ \E j \in DOMAIN rest : rest[j] = todo[i]
  <2> TAKE i \in DOMAIN todo
  <2>1. CASE i <= Chunk
    BY <2>1 DEF ThisChunk
  <2>2. CASE i > Chunk
    <3>1. i - Chunk \in 1..(Len(todo) - Chunk) /\ (i - Chunk) + Chunk = i
      BY <1>1, <2>2
    <3> QED
      BY <1>3, <3>1
  <2> QED
    BY <1>1, <2>1, <2>2
<1>7. \A i \in DOMAIN rest : i + Chunk \in DOMAIN todo /\ rest[i] = todo[i + Chunk]
  BY <1>3, <1>4
<1> HIDE DEF rest
<1>8. /\ ThisChunk \subseteq S /\ rest \in Seq(S)
      /\ \A i \in DOMAIN rest : i + Chunk \in DOMAIN todo /\ rest[i] = todo[i + Chunk]
      /\ \A i \in DOMAIN todo : todo[i] \in ThisChunk \/ \E j \in DOMAIN rest : rest[j] = todo[i]
  BY <1>2, <1>3, <1>6, <1>7
<1> QED
  BY <1>8 DEF rest

(* A flush may have nothing left to commit. *)
LEMMA EmptyIs == ASSUME NEW S PROVE <<>> \in Seq(S)
OBVIOUS

(* The table is empty at first, and nothing runs. *)
LEMMA ImportInit == Init => ImportInv
<1> SUFFICES ASSUME Init PROVE ImportInv
  OBVIOUS
<1>1. TypeOK
  <2>1. faults \in 0..MaxFaults /\ pos \in Nat
    BY MaxFaultsAssumption DEF Init
  <2>2. todo \in Seq(buf)
    BY EmptyIs DEF Init
  <2>3. vehicles \in [Keys -> Ids \cup {0}]
    BY DEF Init
  <2> QED
    BY <2>1, <2>2, <2>3 DEF Init, TypeOK
<1>2. \A k \in Keys : vehicles[k] = 0
  BY DEF Init
<1>3. Known /\ Swept /\ Paged /\ Finished
  <2>1. Spent(0)
    BY IdsAssumption DEF Spent
  <2> QED
    BY <1>2, <2>1 DEF Init, Known, Swept, Paged, Finished, Collecting, Flushing
<1>4. Gapless
  BY <1>2, IdsAssumption DEF Init, Gapless, Ahead, Wanted
<1> QED
  BY <1>1, <1>3, <1>4 DEF ImportInv

(* A page arrives. *)
LEMMA PageArrives ==
    ASSUME TypeOK, FetchPage
    PROVE  /\ buf' \subseteq From(pos) /\ buf' # {} /\ pos' - 1 \in buf'
           /\ \A r \in buf' : r < pos'
           /\ \A r \in From(pos) : r < pos' => r \in buf'
           /\ kept' = kept \cup {Key(r) : r \in Accepted(buf')}
           /\ todo' \in FlushOrders(Accepted(buf')) /\ todo' \in Seq(buf')
           /\ pos' \in Nat /\ lastId' \in {lastId, pos' - 1, skipEnd}
           /\ lastId <= lastId' /\ pos' - 1 <= lastId' /\ skipEnd <= lastId'
<1>1. PICK m \in From(pos) :
        LET p == {r \in From(pos) : r <= m}
        IN  /\ pos' = m + 1 /\ buf' = p
            /\ lastId' = Bigger(Bigger(lastId, m), skipEnd)
            /\ kept' = kept \cup {Key(r) : r \in Accepted(p)}
            /\ todo' \in FlushOrders(Accepted(p))
  BY DEF FetchPage
<1>2. /\ m \in Nat /\ lastId \in Nat /\ skipEnd \in Nat
      /\ \A r \in rows : r \in Nat
  BY IdsAssumption DEF TypeOK, From
<1>3. /\ lastId' \in {lastId, m, skipEnd}
      /\ lastId <= lastId' /\ m <= lastId' /\ skipEnd <= lastId'
  BY <1>1, <1>2 DEF Bigger
<1>4. /\ buf' \subseteq From(pos) /\ m \in buf'
      /\ \A r \in buf' : r <= m /\ r \in Nat
      /\ \A r \in From(pos) : r <= m => r \in buf'
  BY <1>1, <1>2 DEF From
<1>5. todo' \in Seq(buf')
  <2>1. Accepted(buf') \subseteq buf'
    BY DEF Accepted
  <2>2. IsFiniteSet(LastOfCar(Accepted(buf'))) /\ LastOfCar(Accepted(buf')) \subseteq buf'
    <3>1. LastOfCar(Accepted(buf')) \subseteq buf' /\ buf' \subseteq Ids
      BY <1>4, <2>1 DEF LastOfCar, From, TypeOK
    <3> QED
      BY <3>1, IdsAssumption, FS_Subset
  <2>3. Cardinality(LastOfCar(Accepted(buf'))) \in Nat
    BY <2>2, FS_CardinalityType
  <2> QED
    BY <1>1, <2>2, <2>3 DEF FlushOrders, SetToSeqs
<1>6. \A r \in From(pos) : r < pos' => r \in buf'
  BY <1>1, <1>2, <1>4 DEF From
<1> QED
  BY <1>1, <1>2, <1>3, <1>4, <1>5, <1>6

(* No step breaks a type, however often the server lists a car. *)
LEMMA TypeNext == TypeOK /\ [Next]_vars => TypeOK'
<1> SUFFICES ASSUME TypeOK, [Next]_vars PROVE TypeOK'
  OBVIOUS
<1>a. StartOffset \in Ids \cup {0}
  BY StartIs DEF StartFacts
<1>b. ASSUME NEW repl \in BOOLEAN, Begin(repl), waiting' \in Nat PROVE TypeOK'
  <2>1. pos' \in Nat /\ resume' \in Ids \cup {0}
    BY <1>a, <1>b, IdsAssumption DEF Begin, ResumeAtStart, TypeOK
  <2>2. todo' \in Seq(buf')
    BY <1>b, EmptyIs DEF Begin
  <2>3. UNCHANGED <<catalog, rows, poison, vehicles, cooling, givenUp, faults>>
    BY <1>b DEF Begin, server
  <2>4. /\ startedFrom' = StartOffset /\ lastId' = StartOffset /\ job' = "running"
        /\ skipEnd' = 0 /\ eof' = FALSE /\ buf' = {} /\ kept' = {} /\ again' = FALSE
        /\ replace' = repl /\ pc' = "fetch"
    BY <1>b DEF Begin
  <2> QED
    BY <1>a, <1>b, <2>1, <2>2, <2>3, <2>4 DEF TypeOK
<1>r. Returns => /\ todo' \in Seq(buf') /\ buf' = {} /\ kept' = {}
                 /\ startedFrom' = 0 /\ lastId' = 0 /\ skipEnd' = 0
                 /\ replace' = FALSE /\ again' = FALSE /\ eof' = FALSE
                 /\ UNCHANGED <<pos, givenUp>>
  BY EmptyIs DEF Returns
<1> USE IdsAssumption, MaxFaultsAssumption
      DEF TypeOK, server, database, feed, local
<1>1. CASE TakeJob
  <2>1. waiting' \in Nat
    BY <1>1 DEF TakeJob
  <2> QED
    BY <1>b, <1>1, <2>1 DEF TakeJob
<1>2. CASE RunCommand
  <2>1. waiting' \in Nat
    BY <1>2 DEF RunCommand
  <2> QED
    BY <1>b, <1>2, <2>1 DEF RunCommand
<1>3. CASE FetchPage
  <2>1. buf' \subseteq rows /\ pos' \in Nat /\ todo' \in Seq(buf') /\ lastId' \in Ids \cup {0}
    BY <1>3, PageArrives DEF From
  <2>2. kept' \subseteq Keys
    <3>1. \A r \in Ids : Key(r) \in Keys
      BY CatalogsAssumption DEF Key, Row
    <3> QED
      BY <1>3, <2>1, <3>1, PageArrives DEF Accepted
  <2>3. /\ UNCHANGED <<server, database, startedFrom, replace, again, skipEnd, givenUp, faults>>
        /\ pc' = "flush" /\ eof' \in BOOLEAN
    BY <1>3 DEF FetchPage
  <2> QED
    BY <2>1, <2>2, <2>3
<1>4. CASE FetchSkip
  <2>1. PICK e \in Ids :
          /\ e >= pos /\ skipEnd' = e /\ pos' = e + 1
          /\ givenUp' = givenUp \cup {i \in Ids : pos <= i /\ i <= e}
    BY <1>4 DEF FetchSkip
  <2>2. e \in Nat /\ givenUp' \subseteq Ids
    BY <2>1
  <2>3. UNCHANGED <<server, database, local, eof, pc>> /\ faults' \in 0..MaxFaults
    BY <1>4 DEF FetchSkip
  <2> QED
    BY <2>1, <2>2, <2>3
<1>5. CASE FetchEnds
  BY <1>5 DEF FetchEnds
<1>6. CASE FetchFails
  <2>1. lastId' \in Ids \cup {0}
    BY <1>6 DEF FetchFails, Bigger
  <2> QED
    BY <1>6, <2>1 DEF FetchFails
<1>7. CASE CommitChunk
  <2>1. ThisChunk \subseteq Ids
    <3>1. ThisChunk \subseteq buf
      BY ChunkIs
    <3> QED
      BY <3>1
  <2>2. Upserted(ThisChunk) \in [Keys -> Ids \cup {0}]
    BY <2>1 DEF Upserted
  <2>3. todo' \in Seq(buf)
    BY <1>7, ChunkIs DEF CommitChunk
  <2> QED
    BY <1>7, <2>2, <2>3 DEF CommitChunk
<1>8. CASE ChunkFails
  <2>1. /\ job' = "failed" /\ UNCHANGED <<server, vehicles, resume, waiting, cooling>>
        /\ pc' \in {"idle", "handle"} /\ faults' \in 0..MaxFaults
    BY <1>8 DEF ChunkFails
  <2>2. Returns \/ UNCHANGED <<feed, local>>
    BY <1>8, Zenon DEF ChunkFails
  <2> QED
    BY <1>r, <2>1, <2>2
<1>9. CASE FlushAgain
  <2>1. todo' \in Seq(buf)
    <3>1. LastOfCar(Accepted(buf)) \subseteq buf
      BY DEF LastOfCar, Accepted
    <3>2. IsFiniteSet(LastOfCar(Accepted(buf)))
      BY <3>1, FS_Subset
    <3>3. Cardinality(LastOfCar(Accepted(buf))) \in Nat
      BY <3>2, FS_CardinalityType
    <3> QED
      BY <1>9, <3>1, <3>3 DEF FlushAgain, FlushOrders, SetToSeqs
  <2> HIDE DEF FlushOrders
  <2> QED
    BY <1>9, <2>1 DEF FlushAgain
<1>10. CASE SaveLastId
  <2>1. todo' \in Seq(buf')
    BY <1>10, EmptyIs DEF SaveLastId
  <2>2. buf' \in {buf, {}} /\ pc' \in {"queue", "fetch"}
    BY <1>10 DEF SaveLastId
  <2> QED
    BY <1>10, <2>1, <2>2 DEF SaveLastId
<1>11. CASE DeleteMissing
  BY <1>11 DEF DeleteMissing
<1>12. CASE ClearResume
  BY <1>12 DEF ClearResume
<1>13. CASE CompleteJob
  BY <1>13, <1>r DEF CompleteJob
<1>14. CASE Recover
  BY <1>14 DEF Recover
<1>15. CASE ExpireStale
  BY <1>15 DEF ExpireStale
<1>16. CASE ServerAddsRow
  BY <1>16 DEF ServerAddsRow
<1>17. CASE RequestCollect
  BY <1>a, <1>17 DEF RequestCollect
<1>18. CASE Crash
  <2>1. pc' = "down" /\ Returns /\ UNCHANGED <<server, database>> /\ faults' \in 0..MaxFaults
    BY <1>18 DEF Crash
  <2> QED
    BY <1>r, <2>1
<1>19. CASE LoseDatabase
  <2>1. pc' = "idle" /\ Returns /\ UNCHANGED <<server, database>> /\ faults' \in 0..MaxFaults
    BY <1>19 DEF LoseDatabase
  <2> QED
    BY <1>r, <2>1
<1>20. CASE CooldownEnds
  <2>1. cooling' \in BOOLEAN
    BY <1>20, Zenon DEF CooldownEnds
  <2>2. UNCHANGED <<server, vehicles, resume, job, waiting, feed, local, pc, faults>>
    BY <1>20 DEF CooldownEnds
  <2> QED
    BY <2>1, <2>2
<1>22. CASE QueueAgain
  BY <1>22 DEF QueueAgain
<1>23. CASE SetCooldown
  <2>1. cooling' \in BOOLEAN /\ job' = "pending" /\ pc' = "idle"
    BY <1>23 DEF SetCooldown
  <2>2. UNCHANGED <<server, vehicles, resume, waiting, faults>> /\ Returns
    BY <1>23 DEF SetCooldown
  <2> QED
    BY <1>r, <2>1, <2>2
<1>21. CASE UNCHANGED vars
  BY <1>21 DEF vars
<1> QED
  BY <1>1, <1>2, <1>3, <1>4, <1>5, <1>6, <1>7, <1>8, <1>9,
     <1>10, <1>11, <1>12, <1>13, <1>14, <1>15, <1>16, <1>17, <1>18,
     <1>19, <1>20, <1>21, <1>22, <1>23
     DEF Next, Importer

(* All of it is numbers. *)
Numbers ==
    /\ resume \in Nat /\ lastId \in Nat /\ skipEnd \in Nat /\ startedFrom \in Nat /\ pos \in Nat
    /\ \A k \in Keys : vehicles[k] \in Nat
    /\ \A r \in Ids : r \in Nat /\ r > 0 /\ Key(r) \in Keys

(* They are: ids and cursors are numbers, whatever the server holds. *)
LEMMA NumbersAre == TypeOK => Numbers
<1> SUFFICES ASSUME TypeOK PROVE Numbers
  OBVIOUS
<1>1. \A r \in Ids : r \in Nat /\ r > 0
  BY IdsAssumption
<1>2. \A r \in Ids : Key(r) \in Keys
  BY CatalogsAssumption DEF TypeOK, Key, Row
<1>3. \A x \in Ids \cup {0} : x \in Nat
  BY <1>1
<1> QED
  BY <1>1, <1>2, <1>3 DEF Numbers, TypeOK

(* What a chunk does to the table, one row for each car: its rows are      *)
(* stored and the other cars are left alone.                               *)
LEMMA ChunkStored ==
    ASSUME OneRowPerCar, TypeOK, Known, CommitChunk
    PROVE  /\ \A k \in Keys : vehicles'[k] = vehicles[k] \/
                 \E r \in ThisChunk : vehicles'[k] = r /\ Key(r) = k /\ vehicles[k] \in {0, r}
           /\ \A r \in ThisChunk : Has(r)'
           /\ \A r \in Ids : Has(r) => Has(r)'
           /\ ThisChunk \subseteq buf
<1>1. vehicles' = Upserted(ThisChunk) /\ catalog' = catalog
  BY DEF CommitChunk, server
<1>2. ThisChunk \subseteq buf /\ ThisChunk \in SUBSET Ids
  BY ChunkIs DEF TypeOK
<1>3. /\ \A r \in ThisChunk : vehicles'[Key(r)] = r
      /\ \A k \in Keys : (\A r \in ThisChunk : Key(r) # k) => vehicles'[k] = vehicles[k]
  BY <1>1, <1>2, UpsertedIs
<1>4. \A r, q \in Ids : Key(r) = Key(q) => r = q
  BY DEF OneRowPerCar, TypeOK, Key
<1>5. \A r \in Ids : Key(r) \in Keys
  BY NumbersAre DEF Numbers
<1>6. \A r \in ThisChunk : vehicles[Key(r)] \in {0, r}
  BY <1>2, <1>4, <1>5 DEF Known, TypeOK
<1>7. \A r \in Ids : Has(r) => Has(r)'
  BY <1>1, <1>2, <1>3, <1>4, <1>5 DEF Has, Key
<1>8. \A r \in ThisChunk : Has(r)'
  BY <1>1, <1>3 DEF Has, Key
<1>9. ASSUME NEW k \in Keys, vehicles'[k] # vehicles[k]
      PROVE  \E r \in ThisChunk : vehicles'[k] = r /\ Key(r) = k /\ vehicles[k] \in {0, r}
  <2>1. PICK r \in ThisChunk : Key(r) = k
    BY <1>3, <1>9
  <2> QED
    BY <2>1, <1>3, <1>6
<1> QED
  BY <1>2, <1>7, <1>8, <1>9

(* A replacing collect from the start finds nothing to delete: it has met  *)
(* every car that is stored.                                               *)
LEMMA NothingDeleted ==
    ASSUME TypeOK, Swept, DeleteMissing
    PROVE  vehicles' = vehicles
<1>1. CASE replace /\ startedFrom = 0
  <2>1. \A k \in Keys : k \notin kept => vehicles[k] = 0
    BY <1>1 DEF DeleteMissing, Swept, Collecting
  <2>2. vehicles' = [k \in Keys |-> vehicles[k]]
    BY <1>1, <2>1 DEF DeleteMissing
  <2> QED
    BY <2>2 DEF TypeOK
<1> QED
  BY <1>1 DEF DeleteMissing

(* The server only adds rows and the feed only gives up more, so what is    *)
(* spent stays spent.                                                       *)
LEMMA SpentStays ==
    ASSUME TypeOK, [Next]_vars
    PROVE  \A x \in Nat : Spent(x) => Spent(x)'
<1>1. rows \subseteq rows' /\ givenUp \subseteq givenUp'
  BY DEF Next, Importer, vars, server, database, feed, local, Begin, Returns, TakeJob,
         RunCommand, FetchPage, FetchSkip, FetchEnds, FetchFails, QueueAgain, SetCooldown,
         CommitChunk, ChunkFails, FlushAgain, SaveLastId, DeleteMissing, ClearResume,
         CompleteJob, Recover, ExpireStale, ServerAddsRow, RequestCollect, Crash,
         LoseDatabase, CooldownEnds
<1> QED
  BY <1>1 DEF Spent, Beyond

(* The server adds a row behind those it holds: above what is spent, unless *)
(* it was given up.                                                         *)
LEMMA AddedBehind ==
    ASSUME TypeOK, NEW n \in Ids, Beyond(n), n \notin givenUp, NEW x \in Nat, Spent(x)
    PROVE  x < n
BY IdsAssumption DEF Spent

(* What has been reached is spent: a row of the server, or the end of a     *)
(* range that begins where the cursor stands.                               *)
LEMMA ReachedIs ==
    ASSUME TypeOK
    PROVE  /\ Spent(0) /\ \A r \in rows : Spent(r)
           /\ Swept /\ FetchSkip => Spent(skipEnd)' /\ skipEnd' = pos' - 1
<1>n. /\ \A i \in Ids : i \in Nat /\ i > 0
      /\ rows \subseteq Ids /\ pos \in Nat
  BY IdsAssumption DEF TypeOK
<1>1. Spent(0)
  BY <1>n DEF Spent
<1>2. \A r \in rows : Spent(r)
  BY <1>n DEF Spent, Beyond
<1>3. ASSUME Swept, FetchSkip PROVE Spent(skipEnd)' /\ skipEnd' = pos' - 1
  <2>1. PICK e \in Ids :
          /\ e >= pos /\ skipEnd' = e /\ pos' = e + 1
          /\ givenUp' = givenUp \cup {i \in Ids : pos <= i /\ i <= e}
    BY <1>3 DEF FetchSkip
  <2>2. rows' = rows /\ (pos = 0 \/ Spent(pos - 1))
    BY <1>3 DEF FetchSkip, server, Swept, Collecting
  <2>3. ASSUME NEW n \in Ids, n <= e, Beyond(n) PROVE n \in givenUp'
    <3>1. CASE n >= pos
      BY <1>n, <2>1, <2>3, <3>1
    <3>2. CASE n < pos
      <4>1. pos # 0 /\ n <= pos - 1
        BY <1>n, <3>2
      <4> QED
        BY <2>1, <2>2, <2>3, <4>1 DEF Spent
    <3> QED
      BY <1>n, <3>1, <3>2
  <2>4. \A n \in Ids : Beyond(n)' => Beyond(n)
    BY <2>2 DEF Beyond
  <2> QED
    BY <1>n, <2>1, <2>3, <2>4 DEF Spent
<1> QED
  BY <1>1, <1>2, <1>3

(* What is stored still comes from the server, and what is remembered of   *)
(* it still lies where it adds nothing.                                    *)
LEMMA KnownNext ==
    ASSUME OneRowPerCar, TypeOK, TypeOK', Known, Swept, [Next]_vars
    PROVE  Known'
<1> USE DEF Known, Key, server, database, feed, local
<1>n. Numbers /\ Numbers'
  BY NumbersAre, PTL
<1>p. \A x \in {resume, lastId, skipEnd, StartOffset} \cup rows \cup {0} : x \in Nat /\ Spent(x)'
  <2>1. StartOffset \in {0, resume} \cup rows
    BY StartIs DEF StartFacts
  <2>2. \A x \in rows \cup {0} : x \in Nat /\ Spent(x)
    <3>1. \A x \in rows : x \in Nat
      BY <1>n DEF Numbers, TypeOK
    <3>2. Spent(0) /\ \A x \in rows : Spent(x)
      BY ReachedIs
    <3> QED
      BY <3>1, <3>2
  <2>3. \A x \in {resume, lastId, skipEnd} : x \in Nat /\ Spent(x)
    BY <1>n DEF Numbers
  <2>4. \A x \in {resume, lastId, skipEnd, StartOffset} \cup rows \cup {0} : x \in Nat /\ Spent(x)
    BY <2>1, <2>2, <2>3
  <2> QED
    BY <2>4, SpentStays
<1>k. ASSUME UNCHANGED <<catalog, vehicles>>
      PROVE  (\A k \in Keys : vehicles[k] # 0 => vehicles[k] \in rows /\ Key(vehicles[k]) = k)'
  <2>1. rows \subseteq rows'
    BY DEF Next, Importer, vars, Begin, Returns, TakeJob,
         RunCommand, FetchPage, FetchSkip, FetchEnds, FetchFails, QueueAgain, SetCooldown,
         CommitChunk, ChunkFails, FlushAgain, SaveLastId, DeleteMissing, ClearResume,
         CompleteJob, Recover, ExpireStale, ServerAddsRow, RequestCollect, Crash,
         LoseDatabase, CooldownEnds
  <2> QED
    BY <1>k, <2>1
<1>1. CASE TakeJob
  BY <1>k, <1>p, <1>1 DEF TakeJob, Begin, ResumeAtStart
<1>2. CASE RunCommand
  BY <1>k, <1>p, <1>2 DEF RunCommand, Begin, ResumeAtStart
<1>3. CASE FetchPage
  <2>1. lastId' \in {lastId, skipEnd} \cup rows
    BY <1>3, PageArrives DEF From
  <2>2. UNCHANGED <<server, database, skipEnd>>
    BY <1>3 DEF FetchPage
  <2> QED
    BY <1>k, <1>p, <2>1, <2>2
<1>4. CASE FetchSkip
  <2>1. Spent(skipEnd)'
    BY <1>4, ReachedIs
  <2>2. UNCHANGED <<server, database, local>>
    BY <1>4 DEF FetchSkip
  <2> QED
    BY <1>k, <1>p, <2>1, <2>2
<1>5. CASE FetchEnds
  BY <1>k, <1>p, <1>5 DEF FetchEnds
<1>6. CASE FetchFails
  BY <1>k, <1>p, <1>6 DEF FetchFails, Bigger
<1>7. CASE CommitChunk
  <2>1. ASSUME NEW k \in Keys, vehicles'[k] # 0 PROVE vehicles'[k] \in rows /\ Key(vehicles'[k]) = k
    BY <1>7, <2>1, ChunkStored DEF TypeOK
  <2>2. UNCHANGED <<server, resume, lastId, skipEnd>>
    BY <1>7 DEF CommitChunk
  <2> QED
    BY <1>p, <2>1, <2>2
<1>8. CASE ChunkFails
  BY <1>k, <1>p, <1>8 DEF ChunkFails, Returns
<1>9. CASE FlushAgain
  BY <1>k, <1>p, <1>9 DEF FlushAgain
<1>10. CASE SaveLastId
  BY <1>k, <1>p, <1>10 DEF SaveLastId
<1>11. CASE DeleteMissing
  BY <1>k, <1>p, <1>11, NothingDeleted DEF DeleteMissing
<1>12. CASE ClearResume
  BY <1>k, <1>p, <1>12 DEF ClearResume
<1>13. CASE CompleteJob
  BY <1>k, <1>p, <1>13 DEF CompleteJob, Returns
<1>14. CASE Recover
  BY <1>k, <1>p, <1>14 DEF Recover
<1>15. CASE ExpireStale
  BY <1>k, <1>p, <1>15 DEF ExpireStale
<1>16. CASE ServerAddsRow
  BY <1>k, <1>p, <1>16 DEF ServerAddsRow
<1>17. CASE RequestCollect
  BY <1>k, <1>p, <1>17 DEF RequestCollect
<1>18. CASE Crash
  BY <1>k, <1>p, <1>18 DEF Crash, Returns
<1>19. CASE LoseDatabase
  BY <1>k, <1>p, <1>19 DEF LoseDatabase, Returns
<1>20. CASE CooldownEnds
  BY <1>k, <1>p, <1>20 DEF CooldownEnds
<1>21. CASE UNCHANGED vars
  BY <1>k, <1>p, <1>21 DEF vars
<1>22. CASE QueueAgain
  BY <1>k, <1>p, <1>22 DEF QueueAgain
<1>23. CASE SetCooldown
  BY <1>k, <1>p, <1>23 DEF SetCooldown, Returns
<1> QED
  BY <1>1, <1>2, <1>3, <1>4, <1>5, <1>6, <1>7, <1>8, <1>9,
     <1>10, <1>11, <1>12, <1>13, <1>14, <1>15, <1>16, <1>17, <1>18,
     <1>19, <1>20, <1>21, <1>22, <1>23
     DEF Next, Importer

(* The cursor passes a row only once it is stored or given up. *)
LEMMA SweptNext ==
    ASSUME OneRowPerCar, TypeOK, TypeOK', Known, Swept, Paged, Gapless, [Next]_vars
    PROVE  Swept'
<1>n. Numbers /\ Numbers'
  BY NumbersAre, PTL
<1>a. StartFacts
  BY StartIs
<1>s. StartOffset \in Nat
  BY <1>a, IdsAssumption DEF StartFacts
<1>f. ASSUME NEW r \in From(pos) PROVE r \in rows /\ pos <= r /\ r \in Nat
  BY <1>n DEF Numbers, From, TypeOK
<1>l. ASSUME NEW m \in From(pos), pos' - 1 = m
      PROVE  /\ m < pos' /\ pos' = m + 1
             /\ \A x \in Nat : Low(x) => x = 0 \/ x < pos'
             /\ \A x \in Nat : x < pos' => x <= m
  <2>1. m \in Nat /\ pos <= m /\ pos \in Nat /\ pos' \in Nat
    BY <1>f, <1>n DEF Numbers
  <2>2. pos' = m + 1
    <3>1. \A x, y \in Nat : x - 1 = y => x = y + 1
      OBVIOUS
    <3> QED
      BY <1>l, <2>1, <3>1, Zenon
  <2>3. m < pos' /\ \A x \in Nat : x < pos' => x <= m
    BY <2>1, <2>2
  <2>4. \A x \in Nat : Low(x) => x = 0 \/ x < pos'
    BY <2>1, <2>2 DEF Low
  <2> QED
    BY <2>2, <2>3, <2>4
<1>r. ASSUME NEW x \in Nat, Spent(x) PROVE Spent(x)'
  BY <1>r, SpentStays
<1>d. /\ \A r \in rows : r \in Nat /\ Spent(r)
      /\ Spent(0) /\ Spent(resume)
  BY <1>n, ReachedIs DEF Known, Numbers, TypeOK
<1>e. ASSUME pos = 0 \/ Spent(pos - 1), pos' = pos PROVE pos' = 0 \/ Spent(pos - 1)'
  <2>1. pos = 0 \/ pos - 1 \in Nat
    BY <1>n DEF Numbers
  <2>2. CASE pos = 0
    BY <1>e, <2>2
  <2>3. CASE pos # 0
    BY <1>e, <1>r, <2>1, <2>3 DEF Spent, Beyond
  <2> QED
    BY <2>2, <2>3
<1> USE DEF Swept, Collecting, Flushing, Low, Wanted, Has, Key, server, database, feed, local
<1>b. ASSUME NEW repl \in BOOLEAN, Begin(repl) PROVE Swept'
  <2>0. StartOffset \in {0, resume} \cup rows
    BY <1>a DEF StartFacts, Known
  <2>1. PICK start \in Nat : start = StartOffset /\ Spent(start)'
    BY <1>d, <1>r, <1>s, <2>0
  <2>2. /\ pos' = (IF StartOffset = 0 THEN 0 ELSE StartOffset + 1) /\ lastId' = StartOffset
        /\ startedFrom' = StartOffset /\ skipEnd' = 0
        /\ resume' = (IF StartOffset = 0 THEN 0 ELSE resume) /\ pc' = "fetch"
        /\ UNCHANGED <<catalog, rows, vehicles, givenUp>>
    BY <1>b DEF Begin, ResumeAtStart
  <2>3. \A k \in Keys : vehicles[k] <= StartOffset
    BY <1>a, <1>n DEF StartFacts, Numbers
  <2>4. resume' <= StartOffset
    BY <1>a, <2>2 DEF StartFacts
  <2>5. ASSUME NEW r \in Wanted, r < pos' PROVE Has(r)
    <3>1. r \in Nat /\ StartOffset # 0 /\ r <= StartOffset
      BY <1>n, <2>1, <2>2, <2>5 DEF Numbers, TypeOK
    <3>2. ~Ahead(r)
      BY <1>a, <1>n, <3>1 DEF StartFacts, Ahead, Numbers
    <3> QED
      BY <2>5, <3>2 DEF Gapless
  <2>6. pos' = 0 \/ Spent(pos - 1)'
    <3>1. pos' = 0 \/ pos' - 1 = start
      BY <2>1, <2>2
    <3>2. ASSUME pos' - 1 = start PROVE Spent(pos - 1)'
      BY <2>1, <3>2 DEF Spent
    <3> QED
      BY <3>1, <3>2
  <2>7. startedFrom' = 0 => \A k \in Keys : vehicles[k] = 0
    BY <1>a, <2>2 DEF StartFacts
  <2> QED
    BY <1>n, <2>1, <2>2, <2>3, <2>4, <2>5, <2>6, <2>7 DEF Low, Numbers, TypeOK
<1>1. CASE TakeJob
  BY <1>b, <1>1 DEF TakeJob
<1>2. CASE RunCommand
  BY <1>b, <1>2 DEF RunCommand
<1>3. CASE FetchPage
  <2>1. UNCHANGED <<catalog, rows, vehicles, resume, skipEnd, startedFrom, givenUp>> /\ pc = "fetch" /\ pc' = "flush"
    BY <1>3 DEF FetchPage
  <2>2. /\ buf' \subseteq From(pos) /\ pos' - 1 \in buf' /\ pos' \in Nat
        /\ lastId' \in {lastId, pos' - 1, skipEnd} /\ lastId <= lastId'
    BY <1>3, PageArrives
  <2>3. pos' - 1 \in rows /\ pos <= pos' - 1 /\ Spent(pos - 1)'
    <3>1. pos' - 1 \in rows /\ pos <= pos' - 1 /\ pos' - 1 \in Nat
      BY <2>2, <1>f
    <3> QED
      BY <3>1, <1>d, <1>r DEF Spent, Beyond
  <2>4. \A x \in Nat : Low(x) => x = 0 \/ x < pos'
    BY <2>2, <1>l
  <2>5. ASSUME NEW r \in Wanted', r < pos' PROVE Has(r)' \/ r \in buf'
    <3>1. r \in Nat /\ r \in Wanted
      BY <1>n, <2>1 DEF Numbers, TypeOK
    <3>2. CASE r < pos
      BY <2>1, <3>1, <3>2
    <3>3. CASE r >= pos
      BY <1>3, <2>5, <3>1, <3>3, PageArrives DEF From
    <3> QED
      BY <1>n, <3>1, <3>2, <3>3 DEF Numbers
  <2>6. lastId' = 0 \/ lastId' < pos'
    <3>1. Low(lastId) /\ Low(skipEnd)
      BY <2>1
    <3>2. lastId \in Nat /\ skipEnd \in Nat
      BY <1>n DEF Numbers
    <3>3. pos' - 1 < pos'
      BY <2>2, <1>l
    <3>4. CASE lastId' = pos' - 1
      BY <3>3, <3>4
    <3>5. CASE lastId' \in {lastId, skipEnd}
      BY <2>4, <3>1, <3>2, <3>5
    <3> QED
      BY <2>2, <3>4, <3>5
  <2>7. resume' <= lastId'
    BY <1>n, <2>1, <2>2 DEF Numbers
  <2>8. kept \subseteq kept'
    BY <1>3, PageArrives
  <2> QED
    BY <1>n, <2>1, <2>2, <2>3, <2>4, <2>5, <2>6, <2>7, <2>8 DEF Low, Numbers
<1>4. CASE FetchSkip
  <2>1. PICK e \in Ids :
          /\ e >= pos /\ skipEnd' = e /\ pos' = e + 1
          /\ givenUp' = givenUp \cup {i \in Ids : pos <= i /\ i <= e}
    BY <1>4 DEF FetchSkip
  <2>2. UNCHANGED <<catalog, rows, vehicles, resume, lastId, startedFrom, kept, pc>> /\ pc = "fetch"
    BY <1>4 DEF FetchSkip
  <2>3. e \in Nat /\ pos \in Nat /\ pos <= e
    BY <1>n, <2>1 DEF Numbers
  <2>4. /\ \A x \in Nat : Low(x) => x = 0 \/ x < pos'
        /\ \A x \in Nat : x < pos' => x <= e
    BY <2>1, <2>3
  <2>5. ASSUME NEW r \in Wanted', r < pos' PROVE Has(r)
    <3>1. r \in Ids /\ r \in Nat /\ r \in Wanted /\ r <= e
      BY <1>n, <2>1, <2>2, <2>4, <2>5 DEF Numbers, TypeOK
    <3>2. r < pos
      BY <1>n, <2>1, <2>2, <2>5, <3>1 DEF Numbers
    <3> QED
      BY <2>2, <3>1, <3>2
  <2>6. skipEnd' < pos' /\ Spent(pos - 1)'
    <3>1. Spent(skipEnd)' /\ skipEnd' = pos' - 1
      BY <1>4, ReachedIs
    <3>2. Spent(pos - 1)'
      BY <3>1 DEF Spent
    <3> QED
      BY <2>1, <2>3, <3>2
  <2> QED
    BY <1>n, <2>2, <2>4, <2>5, <2>6 DEF Low, Numbers
<1>5. CASE FetchEnds
  BY <1>e, <1>5 DEF FetchEnds, Low
<1>6. CASE FetchFails
  <2>1. /\ UNCHANGED <<catalog, rows, vehicles, resume, skipEnd, startedFrom, kept, givenUp, pos>>
        /\ pc = "fetch" /\ pc' = "queue" /\ lastId' \in {lastId, skipEnd} /\ lastId <= lastId'
    BY <1>n, <1>6 DEF FetchFails, Bigger, Numbers
  <2>2. resume' <= lastId'
    BY <1>n, <2>1 DEF Numbers
  <2> QED
    BY <1>e, <2>1, <2>2 DEF Low
<1>7. CASE CommitChunk
  <2>1. UNCHANGED <<catalog, rows, resume, lastId, skipEnd, startedFrom, kept, givenUp, pos, buf, pc>> /\ pc = "flush"
    BY <1>7 DEF CommitChunk
  <2>2. ASSUME NEW k \in Keys
        PROVE  /\ vehicles'[k] = 0 \/ vehicles'[k] < pos
               /\ (startedFrom = 0 /\ vehicles'[k] # 0 => k \in kept)
    <3>1. CASE vehicles'[k] = vehicles[k]
      BY <2>1, <3>1 DEF Low
    <3>2. CASE \E r \in ThisChunk : vehicles'[k] = r /\ Key(r) = k
      <4>1. PICK i \in DOMAIN todo : vehicles'[k] = todo[i] /\ Key(todo[i]) = k
        BY <3>2 DEF ThisChunk
      <4> QED
        BY <2>1, <4>1 DEF Paged, Accepted
    <3> QED
      BY <1>7, <3>1, <3>2, ChunkStored
  <2>3. ASSUME NEW r \in Wanted, Has(r) PROVE Has(r)'
    BY <1>7, <2>3, ChunkStored DEF TypeOK
  <2> QED
    BY <1>e, <2>1, <2>2, <2>3 DEF Low
<1>8. CASE ChunkFails
  BY <1>e, <1>8 DEF ChunkFails, Low
<1>9. CASE FlushAgain
  BY <1>e, <1>9 DEF FlushAgain, Low
<1>10. CASE SaveLastId
  <2>1. /\ UNCHANGED <<catalog, rows, vehicles, lastId, skipEnd, startedFrom, kept, givenUp, pos>> /\ pc = "flush"
        /\ pc' \in {"fetch", "queue"} /\ resume' = lastId /\ todo = <<>>
    BY <1>10 DEF SaveLastId
  <2>2. ASSUME NEW r \in Wanted, r < pos PROVE Has(r)
    <3>1. r \in buf => r \in Accepted(buf)
      BY <2>2 DEF Accepted
    <3>2. DOMAIN todo = {}
      BY <2>1
    <3> QED
      BY <2>1, <2>2, <3>1, <3>2 DEF Paged
  <2> QED
    BY <1>e, <1>n, <2>1, <2>2 DEF Low, Numbers
<1>11. CASE DeleteMissing
  BY <1>e, <1>11, NothingDeleted DEF DeleteMissing
<1>12. CASE ClearResume
  BY <1>e, <1>12, <1>n DEF ClearResume, Low, Numbers
<1>13. CASE CompleteJob
  BY <1>13 DEF CompleteJob
<1>14. CASE Recover
  BY <1>14 DEF Recover
<1>15. CASE ExpireStale
  BY <1>15 DEF ExpireStale
<1>16. CASE ServerAddsRow
  <2>1. PICK n \in Ids : Beyond(n) /\ rows' = rows \cup {n}
    BY <1>16 DEF ServerAddsRow, Beyond
  <2>2. UNCHANGED <<catalog, vehicles, resume, lastId, skipEnd, startedFrom, kept, givenUp, pos, buf, pc>>
    BY <1>16 DEF ServerAddsRow
  <2>3. Collecting /\ n \notin givenUp => ~(n < pos)
    <3> SUFFICES ASSUME Collecting, n \notin givenUp, pos # 0 PROVE ~(n < pos)
      BY <1>n, <2>1 DEF Numbers
    <3>1. pos - 1 \in Nat /\ Spent(pos - 1) /\ n \in Nat
      BY <1>n DEF Numbers
    <3>2. pos - 1 < n
      BY <2>1, <3>1, AddedBehind
    <3> QED
      BY <1>n, <3>1, <3>2 DEF Numbers
  <2> QED
    BY <1>e, <1>n, <2>1, <2>2, <2>3 DEF Low, Numbers
<1>17. CASE RequestCollect
  BY <1>17 DEF RequestCollect
<1>18. CASE Crash
  BY <1>18 DEF Crash
<1>19. CASE LoseDatabase
  BY <1>19 DEF LoseDatabase
<1>20. CASE CooldownEnds
  BY <1>e, <1>20 DEF CooldownEnds, Low
<1>21. CASE UNCHANGED vars
  BY <1>e, <1>21 DEF vars, Low
<1>22. CASE QueueAgain
  BY <1>22 DEF QueueAgain
<1>23. CASE SetCooldown
  BY <1>23 DEF SetCooldown
<1> QED
  BY <1>1, <1>2, <1>3, <1>4, <1>5, <1>6, <1>7, <1>8, <1>9,
     <1>10, <1>11, <1>12, <1>13, <1>14, <1>15, <1>16, <1>17, <1>18,
     <1>19, <1>20, <1>21, <1>22, <1>23
     DEF Next, Importer

(* The page is flushed in order, behind all that is stored. *)
LEMMA PagedNext ==
    ASSUME OneRowPerCar, TypeOK, TypeOK', Known, Swept, Paged, [Next]_vars
    PROVE  Paged'
<1> USE DEF Paged, Flushing, Has, Key, Accepted, server, database, feed, local
<1>n. Numbers /\ Numbers'
  BY NumbersAre, PTL
<1>1. CASE TakeJob
  BY <1>1 DEF TakeJob, Begin
<1>2. CASE RunCommand
  BY <1>2 DEF RunCommand, Begin
<1>3. CASE FetchPage
  <2>1. UNCHANGED <<catalog, rows, vehicles, resume>> /\ pc = "fetch" /\ pc' = "flush"
    BY <1>3 DEF FetchPage
  <2>2. /\ buf' \subseteq From(pos) /\ pos' \in Nat /\ pos' - 1 <= lastId'
        /\ \A r \in buf' : r < pos'
        /\ kept' = kept \cup {Key(r) : r \in Accepted(buf')}
        /\ todo' \in FlushOrders(Accepted(buf'))
    BY <1>3, PageArrives
  <2>3. \A r \in buf' : r \in Ids /\ r \in Nat /\ r > 0 /\ pos <= r
    BY <1>n, <2>2 DEF From, TypeOK, Numbers
  <2>4. ASSUME NEW r \in buf' PROVE resume < r /\ r <= lastId' /\ \A k \in Keys : vehicles[k] < r
    <3>1. Collecting
      BY <2>1 DEF Collecting
    <3>2. r \in Nat /\ r > 0 /\ pos <= r /\ r < pos'
      BY <2>2, <2>3
    <3>3. resume < r /\ \A k \in Keys : vehicles[k] < r
      BY <1>n, <3>1, <3>2 DEF Numbers, Swept, Low
    <3>4. r <= lastId'
      <4>1. pos' \in Nat /\ lastId' \in Nat /\ pos' - 1 <= lastId'
        BY <1>n, <2>2 DEF Numbers
      <4>2. \A x, y, z \in Nat : x < y /\ y - 1 <= z => x <= z
        OBVIOUS
      <4> QED
        BY <3>2, <4>1, <4>2
    <3> QED
      BY <3>3, <3>4
  <2>5. Accepted(buf') \in SUBSET Ids /\ Accepted(buf)' = Accepted(buf')
    BY <2>1, <2>3
  <2>6. /\ todo' \in Seq(Accepted(buf'))
        /\ \A i, j \in DOMAIN todo' : i < j => todo'[i] < todo'[j]
        /\ \A r \in Accepted(buf') : \E i \in DOMAIN todo' : todo'[i] = r
    <3> HIDE DEF Accepted
    <3> QED
      BY <2>2, <2>5, FlushOrderIs
  <2>7. \A i \in DOMAIN todo' : todo'[i] \in Accepted(buf')
    <3> HIDE DEF Accepted
    <3> QED
      BY <2>6
  <2> QED
    BY <2>1, <2>2, <2>4, <2>5, <2>6, <2>7
<1>4. CASE FetchSkip
  BY <1>4 DEF FetchSkip
<1>5. CASE FetchEnds
  BY <1>5 DEF FetchEnds
<1>6. CASE FetchFails
  BY <1>6 DEF FetchFails
<1>7. CASE CommitChunk
  <2>1. /\ UNCHANGED <<catalog, rows, resume, buf, pos, lastId, kept, pc>> /\ pc = "flush"
        /\ todo' = SubSeq(todo, Chunk + 1, Len(todo))
    BY <1>7 DEF CommitChunk
  <2>2. /\ \A i \in DOMAIN todo' : i + Chunk \in DOMAIN todo /\ todo'[i] = todo[i + Chunk]
        /\ \A i \in DOMAIN todo : todo[i] \in ThisChunk \/ \E j \in DOMAIN todo' : todo'[j] = todo[i]
    BY <2>1, ChunkIs DEF TypeOK
  <2>3. DOMAIN todo \subseteq Nat /\ DOMAIN todo' \subseteq Nat
    BY DEF TypeOK
  <2>4. ASSUME NEW i \in DOMAIN todo', NEW j \in DOMAIN todo', i < j PROVE todo'[i] < todo'[j]
    <3>1. i + Chunk < j + Chunk
      BY <2>3, <2>4, SizesAssumption
    <3> QED
      BY <2>1, <2>2, <3>1
  <2>5. ASSUME NEW r \in Accepted(buf), ~Has(r)', NEW k \in Keys PROVE vehicles'[k] < r
    <3>1. r \in Ids /\ ~Has(r) /\ \A x \in Keys : vehicles[x] < r
      BY <1>7, <2>1, <2>5, ChunkStored DEF TypeOK
    <3>2. PICK i \in DOMAIN todo : todo[i] = r
      BY <2>1, <3>1
    <3>3. i > Chunk
      <4>1. todo[i] \notin ThisChunk
        BY <1>7, <2>5, <3>2, ChunkStored
      <4> QED
        BY <2>3, <4>1, SizesAssumption DEF ThisChunk
    <3>4. \A q \in ThisChunk : q < r
      BY <2>1, <2>3, <3>2, <3>3, SizesAssumption DEF ThisChunk
    <3> QED
      BY <1>7, <3>1, <3>4, ChunkStored
  <2>6. ASSUME NEW r \in Accepted(buf), ~Has(r)' PROVE \E i \in DOMAIN todo' : todo'[i] = r
    <3>1. r \in Ids /\ ~Has(r) /\ r \notin ThisChunk
      BY <1>7, <2>6, ChunkStored DEF TypeOK
    <3>2. PICK i \in DOMAIN todo : todo[i] = r
      BY <2>1, <2>6, <3>1
    <3> QED
      BY <2>2, <3>1, <3>2
  <2>7. \A i \in DOMAIN todo' : todo'[i] \in Accepted(buf)
    BY <2>1, <2>2
  <2>8. Accepted(buf)' = Accepted(buf)
    BY <2>1
  <2> QED
    BY <2>1, <2>4, <2>5, <2>6, <2>7, <2>8
<1>8. CASE ChunkFails
  BY <1>8 DEF ChunkFails
<1>9. CASE FlushAgain
  <2>1. /\ UNCHANGED <<catalog, rows, vehicles, resume, buf, pos, lastId, kept>> /\ pc = "handle"
        /\ todo' \in FlushOrders(Accepted(buf))
    BY <1>9 DEF FlushAgain
  <2>2. Accepted(buf) \in SUBSET Ids
    BY DEF TypeOK
  <2>3. /\ todo' \in Seq(Accepted(buf))
        /\ \A i, j \in DOMAIN todo' : i < j => todo'[i] < todo'[j]
        /\ \A r \in Accepted(buf) : \E i \in DOMAIN todo' : todo'[i] = r
    <3> HIDE DEF Accepted
    <3> QED
      BY <2>1, <2>2, FlushOrderIs
  <2>4. \A i \in DOMAIN todo' : todo'[i] \in Accepted(buf)
    <3> HIDE DEF Accepted
    <3> QED
      BY <2>3
  <2> QED
    BY <2>1, <2>3, <2>4
<1>10. CASE SaveLastId
  BY <1>10 DEF SaveLastId
<1>11. CASE DeleteMissing
  BY <1>11 DEF DeleteMissing
<1>12. CASE ClearResume
  BY <1>12 DEF ClearResume
<1>13. CASE CompleteJob
  BY <1>13 DEF CompleteJob
<1>14. CASE Recover
  BY <1>14 DEF Recover
<1>15. CASE ExpireStale
  BY <1>15 DEF ExpireStale
<1>16. CASE ServerAddsRow
  BY <1>16 DEF ServerAddsRow
<1>17. CASE RequestCollect
  BY <1>17 DEF RequestCollect
<1>18. CASE Crash
  BY <1>18 DEF Crash
<1>19. CASE LoseDatabase
  BY <1>19 DEF LoseDatabase
<1>20. CASE CooldownEnds
  BY <1>20 DEF CooldownEnds
<1>21. CASE UNCHANGED vars
  BY <1>21 DEF vars
<1>22. CASE QueueAgain
  BY <1>22 DEF QueueAgain
<1>23. CASE SetCooldown
  BY <1>23 DEF SetCooldown
<1> QED
  BY <1>1, <1>2, <1>3, <1>4, <1>5, <1>6, <1>7, <1>8, <1>9,
     <1>10, <1>11, <1>12, <1>13, <1>14, <1>15, <1>16, <1>17, <1>18,
     <1>19, <1>20, <1>21, <1>22, <1>23
     DEF Next, Importer

(* A row that is not stored stays ahead of the next collect. *)
LEMMA GaplessNext ==
    ASSUME OneRowPerCar, TypeOK, TypeOK', Known, Swept, Swept', Paged, Paged', Gapless, [Next]_vars
    PROVE  Gapless'
<1> USE DEF Gapless, Has, Key, Wanted, server, database, feed, local
<1>n. Numbers /\ Numbers'
  BY NumbersAre, PTL
<1>a. StartFacts
  BY StartIs
<1>b. Collecting' => Gapless'
  <2> SUFFICES ASSUME Collecting', NEW r \in Wanted', ~Has(r)' PROVE Ahead(r)'
    OBVIOUS
  <2>1. r \in Nat /\ r > 0
    BY <1>n DEF TypeOK, Numbers
  <2>2. CASE r < pos'
    <3>1. Flushing' /\ r \in Accepted(buf)'
      BY <2>2 DEF Swept, Accepted
    <3> QED
      BY <3>1 DEF Paged, Ahead, Accepted
  <2>3. CASE ~(r < pos')
    BY <1>n, <2>1, <2>3 DEF Swept, Low, Ahead, Numbers
  <2> QED
    BY <2>2, <2>3
<1>c. ASSUME UNCHANGED <<catalog, rows, givenUp, vehicles, resume>> PROVE Gapless'
  BY <1>c DEF Ahead
<1> USE DEF Collecting, Flushing
<1>1. CASE TakeJob
  BY <1>b, <1>1 DEF TakeJob, Begin
<1>2. CASE RunCommand
  BY <1>b, <1>2 DEF RunCommand, Begin
<1>3. CASE FetchPage
  BY <1>b, <1>3 DEF FetchPage
<1>4. CASE FetchSkip
  BY <1>b, <1>4 DEF FetchSkip
<1>5. CASE FetchEnds
  BY <1>b, <1>5 DEF FetchEnds
<1>6. CASE FetchFails
  BY <1>b, <1>6 DEF FetchFails
<1>7. CASE CommitChunk
  BY <1>b, <1>7 DEF CommitChunk
<1>8. CASE ChunkFails
  BY <1>c, <1>8 DEF ChunkFails, Returns
<1>9. CASE FlushAgain
  BY <1>b, <1>9 DEF FlushAgain
<1>10. CASE SaveLastId
  BY <1>b, <1>10 DEF SaveLastId
<1>11. CASE DeleteMissing
  BY <1>b, <1>11 DEF DeleteMissing
<1>12. CASE ClearResume
  BY <1>b, <1>12 DEF ClearResume
<1>13. CASE CompleteJob
  BY <1>c, <1>13 DEF CompleteJob, Returns
<1>14. CASE Recover
  BY <1>c, <1>14 DEF Recover
<1>15. CASE ExpireStale
  BY <1>c, <1>15 DEF ExpireStale
<1>16. CASE ServerAddsRow
  <2>1. PICK n \in Ids : Beyond(n) /\ rows' = rows \cup {n}
    BY <1>16 DEF ServerAddsRow, Beyond
  <2>2. UNCHANGED <<catalog, vehicles, resume, givenUp>>
    BY <1>16 DEF ServerAddsRow
  <2>3. n \notin givenUp => Ahead(n)'
    <3> SUFFICES ASSUME n \notin givenUp PROVE Ahead(n)'
      OBVIOUS
    <3>1. resume < n
      BY <1>n, <2>1, AddedBehind DEF Numbers, Known
    <3>2. \A k \in Keys : vehicles[k] < n
      BY <1>n, <2>1 DEF Numbers, Known, Beyond
    <3> QED
      BY <2>2, <3>1, <3>2 DEF Ahead
  <2> QED
    BY <2>1, <2>2, <2>3 DEF Ahead
<1>17. CASE RequestCollect
  <2>1. UNCHANGED <<catalog, rows, givenUp, vehicles>> /\ resume' = IF StartOffset # 0 THEN StartOffset ELSE resume
    BY <1>17 DEF RequestCollect
  <2>2. ASSUME NEW r \in Wanted, Ahead(r), NEW k \in Keys, vehicles[k] # 0 PROVE resume' < r
    BY <1>a, <2>1, <2>2 DEF StartFacts, Ahead
  <2> QED
    BY <2>1, <2>2 DEF Ahead
<1>18. CASE Crash
  BY <1>c, <1>18 DEF Crash, Returns
<1>19. CASE LoseDatabase
  BY <1>c, <1>19 DEF LoseDatabase, Returns
<1>20. CASE CooldownEnds
  BY <1>c, <1>20 DEF CooldownEnds
<1>21. CASE UNCHANGED vars
  BY <1>c, <1>21 DEF vars
<1>22. CASE QueueAgain
  <2>1. /\ UNCHANGED <<catalog, rows, givenUp, vehicles, pos>> /\ pc = "queue"
        /\ resume' \in {resume, lastId}
    BY <1>22 DEF QueueAgain
  <2>2. ASSUME NEW r \in Wanted, ~Has(r) PROVE Ahead(r)'
    <3>1. r \in Nat /\ r > 0 /\ ~(r < pos)
      BY <1>n, <2>1, <2>2 DEF TypeOK, Numbers, Swept
    <3> QED
      BY <1>n, <2>1, <3>1 DEF Numbers, Swept, Low, Ahead
  <2> QED
    BY <2>1, <2>2
<1>23. CASE SetCooldown
  BY <1>c, <1>23 DEF SetCooldown, Returns
<1> QED
  BY <1>1, <1>2, <1>3, <1>4, <1>5, <1>6, <1>7, <1>8, <1>9,
     <1>10, <1>11, <1>12, <1>13, <1>14, <1>15, <1>16, <1>17, <1>18,
     <1>19, <1>20, <1>21, <1>22, <1>23
     DEF Next, Importer

(* A row that is added later lies behind a completed collect. *)
LEMMA FinishedNext ==
    ASSUME OneRowPerCar, TypeOK, TypeOK', Swept, Finished, [Next]_vars
    PROVE  Finished'
<1> USE DEF Finished, Has, Key, Wanted, server, database, feed, local
<1>n. Numbers /\ Numbers'
  BY NumbersAre, PTL
<1>e. ASSUME pos = 0 \/ Spent(pos - 1), pos' = pos PROVE pos' = 0 \/ Spent(pos - 1)'
  <2>1. pos = 0 \/ pos - 1 \in Nat
    BY <1>n DEF Numbers
  <2>2. CASE pos = 0
    BY <1>e, <2>2
  <2>3. CASE pos # 0
    BY <1>e, <2>1, <2>3, SpentStays DEF Spent, Beyond
  <2> QED
    BY <2>2, <2>3
<1>1. CASE TakeJob
  BY <1>1 DEF TakeJob, Begin
<1>2. CASE RunCommand
  BY <1>2 DEF RunCommand, Begin
<1>3. CASE FetchPage
  BY <1>3 DEF FetchPage
<1>4. CASE FetchSkip
  BY <1>4 DEF FetchSkip
<1>5. CASE FetchEnds
  BY <1>5 DEF FetchEnds
<1>6. CASE FetchFails
  BY <1>6 DEF FetchFails
<1>7. CASE CommitChunk
  BY <1>7 DEF CommitChunk
<1>8. CASE ChunkFails
  BY <1>8 DEF ChunkFails
<1>9. CASE FlushAgain
  BY <1>9 DEF FlushAgain
<1>10. CASE SaveLastId
  BY <1>10 DEF SaveLastId
<1>11. CASE DeleteMissing
  BY <1>11 DEF DeleteMissing
<1>12. CASE ClearResume
  BY <1>12 DEF ClearResume
<1>13. CASE CompleteJob
  BY <1>e, <1>13 DEF CompleteJob, Returns, Swept, Collecting, Flushing
<1>14. CASE Recover
  BY <1>14 DEF Recover
<1>15. CASE ExpireStale
  BY <1>15 DEF ExpireStale
<1>16. CASE ServerAddsRow
  <2>1. PICK n \in Ids : Beyond(n) /\ rows' = rows \cup {n}
    BY <1>16 DEF ServerAddsRow, Beyond
  <2>2. UNCHANGED <<catalog, vehicles, job, pos, pc, givenUp>>
    BY <1>16 DEF ServerAddsRow
  <2>3. job = "completed" /\ n \notin givenUp => ~(n < pos)
    <3> SUFFICES ASSUME job = "completed", n \notin givenUp, pos # 0 PROVE ~(n < pos)
      BY <1>n, <2>1 DEF Numbers
    <3>1. pos - 1 \in Nat /\ Spent(pos - 1) /\ n \in Nat
      BY <1>n DEF Numbers
    <3>2. pos - 1 < n
      BY <2>1, <3>1, AddedBehind
    <3> QED
      BY <1>n, <3>1, <3>2 DEF Numbers
  <2> QED
    BY <1>e, <1>n, <2>1, <2>2, <2>3 DEF Numbers
<1>17. CASE RequestCollect
  BY <1>17 DEF RequestCollect
<1>18. CASE Crash
  BY <1>18 DEF Crash
<1>19. CASE LoseDatabase
  BY <1>19 DEF LoseDatabase
<1>20. CASE CooldownEnds
  BY <1>e, <1>20 DEF CooldownEnds
<1>21. CASE UNCHANGED vars
  BY <1>e, <1>21 DEF vars
<1>22. CASE QueueAgain
  BY <1>22 DEF QueueAgain
<1>23. CASE SetCooldown
  BY <1>23 DEF SetCooldown
<1> QED
  BY <1>1, <1>2, <1>3, <1>4, <1>5, <1>6, <1>7, <1>8, <1>9,
     <1>10, <1>11, <1>12, <1>13, <1>14, <1>15, <1>16, <1>17, <1>18,
     <1>19, <1>20, <1>21, <1>22, <1>23
     DEF Next, Importer

(* Together they are inductive. *)
LEMMA ImportStep == OneRowPerCar => (ImportInv /\ [Next]_vars => ImportInv')
<1> SUFFICES ASSUME OneRowPerCar, ImportInv, [Next]_vars PROVE ImportInv'
  OBVIOUS
<1> USE DEF ImportInv
<1>1. TypeOK'
  BY TypeNext
<1>2. Known'
  BY <1>1, KnownNext
<1>3. Swept'
  BY <1>1, SweptNext
<1>4. Paged'
  BY <1>1, PagedNext
<1>5. Gapless'
  BY <1>1, <1>3, <1>4, GaplessNext
<1>6. Finished'
  BY <1>1, FinishedNext
<1> QED
  BY <1>1, <1>2, <1>3, <1>4, <1>5, <1>6

(* Where the collects of the code stand: with one row for each car,        *)
(* whatever is stored lies before the cursor and what lies before it is    *)
(* stored, given up or in the page at hand (import_from_crawl).            *)
THEOREM ImportInvariant == ASSUME OneRowPerCar PROVE Spec => []ImportInv
<1>1. Init => ImportInv
  BY ImportInit
<1>2. ImportInv /\ [Next]_vars => ImportInv'
  BY OneRowPerCar, ImportStep
<1> QED
  BY <1>1, <1>2, PTL DEF Spec

(* Settings, rows and the importer's variables keep their types, however   *)
(* often the server lists a car.                                           *)
THEOREM TypeCorrect == Spec => []TypeOK
<1>1. Init => TypeOK
  BY ImportInit DEF ImportInv
<1>2. TypeOK /\ [Next]_vars => TypeOK'
  BY TypeNext
<1> QED
  BY <1>1, <1>2, PTL DEF Spec

(* A row that is stored as it is counts as collected.                      *)
LEMMA HasCollected ==
    ASSUME TypeOK, NEW r \in rows, Has(r)
    PROVE  Collected(r)
<1>1. r \in Ids /\ r > 0
  BY NumbersAre DEF Numbers, TypeOK
<1>2. catalog[r].ts \in Nat
  BY <1>1, CatalogsAssumption DEF TypeOK, Row
<1>3. vehicles[Key(r)] # 0 /\ catalog[vehicles[Key(r)]].ts = catalog[r].ts
  BY <1>1, NumbersAre DEF Numbers, Has, TypeOK
<1> QED
  BY <1>2, <1>3 DEF Collected

(* No row is left behind, for any rows, pages, chunks, failures and        *)
(* crashes: import_from_crawl saves an id only once every row up to it is  *)
(* stored, and crawl_start_offset never starts beyond one that is not.     *)
THEOREM NothingBehind == ASSUME OneRowPerCar PROVE Spec => []NothingLeftBehind
<1>1. ImportInv => NothingLeftBehind
  <2> SUFFICES ASSUME ImportInv, NEW r \in Wanted, r <= StartOffset PROVE Collected(r)
    BY DEF NothingLeftBehind
  <2>1. TypeOK /\ Gapless /\ Numbers /\ StartFacts /\ r \in rows
    BY NumbersAre, StartIs DEF ImportInv, Wanted
  <2>2. r \in Nat /\ r > 0
    BY <2>1 DEF Numbers, TypeOK
  <2>3. StartOffset # 0
    BY <2>2
  <2>4. ~Ahead(r)
    BY <2>1, <2>2, <2>3 DEF Ahead, StartFacts, Numbers
  <2> QED
    BY <2>1, <2>4, HasCollected DEF Gapless
<1> QED
  BY <1>1, ImportInvariant, PTL

(* A completed job has stored every row below the end of the feed.         *)
THEOREM CompletedStored == ASSUME OneRowPerCar PROVE Spec => []CompletedJobStoredAll
<1>1. ImportInv => CompletedJobStoredAll
  BY HasCollected DEF ImportInv, Finished, CompletedJobStoredAll, Wanted
<1> QED
  BY <1>1, ImportInvariant, PTL

(* The start of the next collect goes back only when a collect completes:  *)
(* no failure, retry, crash or restart makes rows be collected again that  *)
(* an earlier collect had settled.                                         *)
THEOREM StartMonotone == ASSUME OneRowPerCar PROVE Spec => StartNeverGoesBack
<1> DEFINE Step == pc # "clear" => StartOffset' >= StartOffset
<1>1. ASSUME ImportInv, ImportInv', [Next]_vars PROVE Step
  <2> SUFFICES ASSUME pc # "clear" PROVE StartOffset' >= StartOffset
    OBVIOUS
  <2>n. Numbers /\ Numbers' /\ StartFacts /\ StartFacts'
    BY <1>1, NumbersAre, StartIs, PTL DEF ImportInv
  <2>s. StartOffset \in Nat /\ StartOffset' \in Nat
    BY <2>n, IdsAssumption DEF StartFacts
  <2>a. ASSUME \A k \in Keys : vehicles[k] <= vehicles'[k],
               (\E k \in Keys : vehicles[k] # 0) => resume <= resume'
        PROVE  StartOffset' >= StartOffset
    <3>1. CASE StartOffset = 0
      BY <2>s, <3>1
    <3>2. CASE StartOffset # 0
      <4>1. PICK k \in Keys : vehicles[k] # 0
        BY <2>n, <3>2 DEF StartFacts
      <4>2. vehicles'[k] # 0
        BY <2>a, <2>n, <4>1 DEF Numbers
      <4>3. StartOffset' # 0
        BY <2>n, <4>2 DEF StartFacts
      <4>4. resume <= resume' /\ resume' <= StartOffset' /\ \A i \in Keys : vehicles'[i] <= StartOffset'
        BY <2>a, <2>n, <4>1, <4>3 DEF StartFacts
      <4>5. CASE StartOffset = resume
        BY <2>n, <2>s, <4>4, <4>5 DEF Numbers
      <4>6. CASE \E i \in Keys : vehicles[i] = StartOffset
        BY <2>a, <2>n, <2>s, <4>4, <4>6 DEF Numbers
      <4> QED
        BY <2>n, <3>2, <4>5, <4>6 DEF StartFacts
    <3> QED
      BY <3>1, <3>2
  <2>b. \A k \in Keys : vehicles[k] <= vehicles[k]
    BY <2>n DEF Numbers
  <2>c. ASSUME UNCHANGED vehicles, resume <= resume' PROVE StartOffset' >= StartOffset
    BY <2>a, <2>b, <2>c
  <2>d. ASSUME UNCHANGED <<vehicles, resume>> PROVE StartOffset' >= StartOffset
    BY <2>c, <2>d, <2>n DEF Numbers
  <2>e. ASSUME NEW repl \in BOOLEAN, Begin(repl) PROVE StartOffset' >= StartOffset
    <3>1. CASE StartOffset = 0
      BY <2>s, <3>1
    <3>2. CASE StartOffset # 0
      BY <2>d, <2>e, <3>2 DEF Begin, ResumeAtStart
    <3> QED
      BY <3>1, <3>2
  <2>1. CASE TakeJob
    BY <2>e, <2>1 DEF TakeJob
  <2>2. CASE RunCommand
    BY <2>e, <2>2 DEF RunCommand
  <2>3. CASE FetchPage
    BY <2>d, <2>3 DEF FetchPage, database
  <2>4. CASE FetchSkip
    BY <2>d, <2>4 DEF FetchSkip, database
  <2>5. CASE FetchEnds
    BY <2>d, <2>5 DEF FetchEnds, database
  <2>6. CASE FetchFails
    BY <2>d, <2>6 DEF FetchFails, database
  <2>7. CASE CommitChunk
    <3>1. UNCHANGED resume
      BY <2>7 DEF CommitChunk
    <3>2. \A k \in Keys : vehicles[k] <= vehicles'[k]
      <4>1. TypeOK /\ Known
        BY <1>1 DEF ImportInv
      <4>2. \A k \in Keys : vehicles'[k] = vehicles[k] \/ vehicles[k] \in {0, vehicles'[k]}
        BY <2>7, <4>1, ChunkStored
      <4> QED
        BY <2>n, <4>2 DEF Numbers
    <3> QED
      BY <2>a, <2>n, <3>1, <3>2 DEF Numbers
  <2>8. CASE ChunkFails
    BY <2>d, <2>8 DEF ChunkFails, database
  <2>9. CASE FlushAgain
    BY <2>d, <2>9 DEF FlushAgain, database
  <2>10. CASE SaveLastId
    <3>1. vehicles' = vehicles /\ pc = "flush" /\ resume' \in {resume, lastId}
      BY <2>10 DEF SaveLastId
    <3>2. resume <= lastId /\ resume <= resume
      BY <1>1, <2>n, <3>1 DEF ImportInv, Swept, Collecting, Flushing, Numbers
    <3> QED
      BY <2>c, <3>1, <3>2
  <2>11. CASE DeleteMissing
    <3>1. TypeOK /\ Swept
      BY <1>1 DEF ImportInv
    <3> QED
      BY <2>d, <2>11, <3>1, NothingDeleted DEF DeleteMissing
  <2>12. CASE ClearResume
    BY <2>12 DEF ClearResume
  <2>13. CASE CompleteJob
    BY <2>d, <2>13 DEF CompleteJob, database
  <2>14. CASE Recover
    BY <2>d, <2>14 DEF Recover, database
  <2>15. CASE ExpireStale
    BY <2>d, <2>15 DEF ExpireStale, database
  <2>16. CASE ServerAddsRow
    BY <2>d, <2>16 DEF ServerAddsRow, database
  <2>17. CASE RequestCollect
    <3>1. vehicles' = vehicles /\ resume' = IF StartOffset # 0 THEN StartOffset ELSE resume
      BY <2>17 DEF RequestCollect
    <3>2. CASE StartOffset = 0
      BY <2>s, <3>2
    <3>3. CASE StartOffset # 0
      BY <2>c, <2>n, <3>1, <3>3 DEF StartFacts
    <3> QED
      BY <3>2, <3>3
  <2>18. CASE Crash
    BY <2>d, <2>18 DEF Crash, database
  <2>19. CASE LoseDatabase
    BY <2>d, <2>19 DEF LoseDatabase, database
  <2>20. CASE CooldownEnds
    BY <2>d, <2>20 DEF CooldownEnds, database
  <2>22. CASE QueueAgain
    <3>1. vehicles' = vehicles /\ pc = "queue" /\ resume' \in {resume, lastId}
      BY <2>22 DEF QueueAgain
    <3>2. resume <= lastId /\ resume <= resume
      BY <1>1, <2>n, <3>1 DEF ImportInv, Swept, Collecting, Flushing, Numbers
    <3> QED
      BY <2>c, <3>1, <3>2
  <2>23. CASE SetCooldown
    BY <2>d, <2>23 DEF SetCooldown
  <2>21. CASE UNCHANGED vars
    BY <2>d, <2>21 DEF vars, database
  <2> QED
    BY <1>1, <2>1, <2>2, <2>3, <2>4, <2>5, <2>6, <2>7, <2>8, <2>9,
       <2>10, <2>11, <2>12, <2>13, <2>14, <2>15, <2>16, <2>17, <2>18,
       <2>19, <2>20, <2>21, <2>22, <2>23
       DEF Next, Importer
<1>2. OneRowPerCar
  OBVIOUS
<1>3. [][Step]_vars => StartNeverGoesBack
  BY DEF StartNeverGoesBack
<1> QED
  <2>1. Spec => []ImportInv
    BY <1>2, ImportInvariant
  <2>2. ImportInv /\ ImportInv' /\ [Next]_vars => [Step]_vars
    BY <1>1
  <2>3. ([]ImportInv /\ [][Next]_vars) => [][Step]_vars
    BY <2>2, PTL
  <2> QED
    BY <1>3, <2>1, <2>3, PTL DEF Spec

==============================================================================
