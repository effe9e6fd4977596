----------------------------- MODULE EncarCodes -----------------------------
(***************************************************************************)
(* The vehicle codes: seed_encar_codes (apps/services/encar_seed.py) loads *)
(* the code tables from the CSV files, EncarCodeIndex and                  *)
(* apply_codes_to_vehicle (apps/services/encar_codes.py) match the names   *)
(* of a car to codes, remap_all_vehicles and remap_canonical_names do so   *)
(* again for cars that are stored.  Each process caches the index it       *)
(* loaded first; a seed may be interrupted and a table edited.             *)
(*                                                                         *)
(* One car stands for all of them: no row depends on another.              *)
(***************************************************************************)
EXTENDS Integers, FiniteSets, SequencesExt

CONSTANTS
    Labels,         \* names, cleaned; NoLabel stands for none
    NoLabel,
    Norm,           \* normalize_label: what is left of each label
    Score,          \* Jaccard score of two normalised labels, in percent
    Alias,          \* MAKER_ALIASES, the identity elsewhere
    Files,          \* data/encar_codes: the codes of each level in file order
    Former,         \* such files of an earlier edition
    Batch,          \* BATCH
    Order,          \* bound: the order in which each process gets the rows of
                    \* a SELECT, "up" or "down" by number, or "any"
    ReadTorn,       \* bound: a torn row is read again, too
    Listings        \* the names a crawled car may have, one for each level

(* A code: its number, the number of its parent and its name. *)
Levels == 1..5      \* maker, model, mdetail, grade, gdetail
None == 0
Code == [no : Nat \ {0}, parent : Nat, name : Labels \ {NoLabel}]

Importer == "importer"
Remapper == "remapper"
Procs == {Importer, Remapper}

ASSUME LabelsAssumption == NoLabel \in Labels /\ Alias \in [Labels -> Labels]
ASSUME ScoreAssumption == \A a, b \in Labels : Score[<<Norm[a], Norm[b]>>] \in 0..100
(* A number is in a file once, and has the same parent in every edition.   *)
ASSUME FilesAssumption ==
    /\ {Files, Former} \subseteq [Levels -> Seq(Code)]
    /\ \A l \in Levels, f, g \in {Files, Former} :
        \A i \in DOMAIN f[l], j \in DOMAIN g[l] :
            f[l][i].no = g[l][j].no =>
                /\ f = g => i = j
                /\ f[l][i].parent = g[l][j].parent
ASSUME ListingsAssumption == Listings \subseteq [Levels -> Labels]
ASSUME BatchAssumption == Batch \in Nat \ {0}
ASSUME ReadersAssumption == Order \in [Procs -> {"up", "down", "any"}] /\ ReadTorn \in BOOLEAN

VARIABLES
    table,          \* the codes of each level in the database
    seeding,        \* codes of each level the running seed has written, or <<>>
    seeded,         \* history: a seed of these files came to its end
    index,          \* _INDEX of each process: the levels it has loaded
    car,            \* names and codes of the car in the database
    read,           \* the car as each process has read it, or NotRead
    remap,          \* "idle", "remap" or "canonical": the command that runs
    level,          \* the levels remap_canonical_names has updated
    late, torn      \* history: another wrote since the process read; was the
                    \* last write such a late one

csv == <<table, seeding, seeded>>
row == <<car, read, late, torn>>
vars == <<csv, index, row, remap, level>>

----------------------------------------------------------------------------
(* Matching, EncarCodeIndex. *)

JaccardMin == 72

(* A list of an index is a set of places of one of its levels.  The lists  *)
(* of several parents follow each other as the parents do.                 *)
Place(idx, l, no) == CHOOSE i \in DOMAIN idx[l] : idx[l][i].no = no
Rank(idx, l, i) == IF l = 1 THEN 0 ELSE Place(idx, l - 1, idx[l][i].parent)
Ahead(idx, l, i, j) ==
    \/ Rank(idx, l, i) < Rank(idx, l, j)
    \/ Rank(idx, l, i) = Rank(idx, l, j) /\ i <= j
First(idx, l, S) == CHOOSE i \in S : \A j \in S : Ahead(idx, l, i, j)

Exact(idx, l, S, q) == {i \in S : Norm[idx[l][i].name] = Norm[q]}

(* the best score wins *)
Best(idx, l, S, q) ==
    {i \in S :
        /\ Score[<<Norm[idx[l][i].name], Norm[q]>>] >= JaccardMin
        /\ \A j \in S : Score[<<Norm[idx[l][j].name], Norm[q]>>]
                        <= Score[<<Norm[idx[l][i].name], Norm[q]>>]}

(* mutant: >= for > lets the last of equals win *)
Match_LastOfEquals(idx, l, S, q) ==
    LET exact == Exact(idx, l, S, q)
        best == Best(idx, l, S, q)
        last == CHOOSE i \in best : \A j \in best : Ahead(idx, l, j, i)
    IN  IF q = NoLabel \/ exact \cup best = {} THEN None
        ELSE idx[l][IF exact # {} THEN First(idx, l, exact) ELSE last].no

(* _match_from_list: the first label that is normalised to the same, or    *)
(* else the most similar one, the first of equals.  Labels that are equal  *)
(* are normalised to the same, and labels of which nothing is left are     *)
(* taken for the same too.                                                 *)
Match(idx, l, S, q) ==
    LET exact == Exact(idx, l, S, q)
        best == Best(idx, l, S, q)
    IN  IF q = NoLabel \/ exact \cup best = {} THEN None
        ELSE idx[l][First(idx, l, IF exact # {} THEN exact ELSE best)].no

Under(idx, l, parents) == {i \in DOMAIN idx[l] : idx[l][i].parent \in parents \ {None}}

(* mutant: without a detailed model, the grades of every model *)
GradesOf_AnyModel(idx, model, mdetail) ==
    IF mdetail # None THEN Under(idx, 4, {mdetail}) ELSE DOMAIN idx[4]

(* Without a detailed model, the grades of all detailed models. *)
GradesOf(idx, model, mdetail) ==
    Under(idx, 4, IF mdetail # None
                  THEN {mdetail} ELSE {idx[3][i].no : i \in Under(idx, 3, {model})})

(* resolve: top down; an only detailed model needs no name. *)
Resolve(idx, n) ==
    LET maker == Match(idx, 1, DOMAIN idx[1], Alias[n[1]])
        model == Match(idx, 2, Under(idx, 2, {maker}), n[2])
        mdetails == Under(idx, 3, {model})
        named == Match(idx, 3, mdetails, n[3])
        mdetail == IF named = None /\ \E i \in mdetails : mdetails = {i}
                   THEN idx[3][First(idx, 3, mdetails)].no ELSE named
        grade == Match(idx, 4, GradesOf(idx, model, mdetail), n[4])
        gdetail == Match(idx, 5, Under(idx, 5, {grade}), n[5])
    IN  <<maker, model, mdetail, grade, gdetail>>

NameOf(idx, l, no) == idx[l][Place(idx, l, no)].name

(* mutant: the names stay as they are *)
Applied_KeepsNames(idx, n) == [names |-> n, codes |-> Resolve(idx, n)]

(* apply_codes_to_vehicle: codes, and the names of the tables where there *)
(* is a code.                                                             *)
Applied(idx, n) ==
    LET c == Resolve(idx, n)
    IN  [names |-> [l \in Levels |-> IF c[l] = None THEN n[l] ELSE NameOf(idx, l, c[l])],
         codes |-> c]

----------------------------------------------------------------------------
NoCar == [names |-> [l \in Levels |-> NoLabel], codes |-> [l \in Levels |-> None]]
NotRead == [names |-> <<>>, codes |-> <<>>]
NoSeed == <<>>

(* The tables are empty, or hold what an earlier edition has seeded. *)
Init ==
    /\ table \in {[l \in Levels |-> {}], [l \in Levels |-> ToSet(Former[l])]}
    /\ seeding = NoSeed
    /\ seeded = FALSE
    /\ index = [p \in Procs |-> <<>>]
    /\ car = NoCar
    /\ read = [p \in Procs |-> NotRead]
    /\ remap = "idle" /\ level = 0
    /\ late = {} /\ torn = FALSE

----------------------------------------------------------------------------
(* Seeding: flask seed-encar-codes, at the start of a container that finds *)
(* no makers (entrypoint.sh), or by hand at any time.                      *)

SeedStart ==
    /\ seeding = NoSeed
    /\ seeding' = [l \in Levels |-> 0]
    /\ UNCHANGED <<table, seeded, index, row, remap, level>>

Written(l) == seeding[l] = Len(Files[l])

(* mutant: ON CONFLICT DO NOTHING *)
Upserted_Nothing(old, new) ==
    old \cup {c \in new : \A o \in old : o.no # c.no}

(* INSERT ... ON CONFLICT DO UPDATE, _flush_upsert *)
Upserted(old, new) ==
    {o \in old : \A c \in new : c.no # o.no} \cup new

(* The next batch of a file, level after level, is committed. *)
SeedBatch ==
    /\ seeding # NoSeed
    /\ \E l \in Levels :
        /\ ~Written(l) /\ \A m \in 1..(l - 1) : Written(m)
        /\ LET last == Min({seeding[l] + Batch, Len(Files[l])})
               new == {Files[l][i] : i \in (seeding[l] + 1)..last}
           IN  /\ table' = [table EXCEPT ![l] = Upserted(@, new)]
               /\ seeding' = [seeding EXCEPT ![l] = last]
    /\ UNCHANGED <<seeded, index, row, remap, level>>

(* clear_code_index at the end clears the index of the seed's own process. *)
SeedEnds ==
    /\ seeding # NoSeed
    /\ \A l \in Levels : Written(l)
    /\ seeded' = TRUE
    /\ seeding' = NoSeed
    /\ UNCHANGED <<table, index, row, remap, level>>

(* A failed seed is let pass (|| true): what it has committed stays. *)
SeedFails ==
    /\ seeding # NoSeed
    /\ seeding' = NoSeed
    /\ UNCHANGED <<table, seeded, index, row, remap, level>>

----------------------------------------------------------------------------
(* The index of a process. *)

(* The rows of a SELECT without ORDER BY. *)
Scans(p, S) ==
    {s \in [1..Cardinality(S) -> S] :
        /\ IsInjective(s)
        /\ \A i, j \in DOMAIN s : i < j =>
            /\ Order[p] = "up" => s[i].no < s[j].no
            /\ Order[p] = "down" => s[i].no > s[j].no}

Loaded(p) == Len(index[p]) = 5

(* get_code_index, when an import without index applies codes to the first *)
(* row it has read: one SELECT for each level, with its own snapshot.      *)
LoadLevel ==
    /\ ~Loaded(Importer) /\ read[Importer] # NotRead
    /\ \E s \in Scans(Importer, table[Len(index[Importer]) + 1]) :
        index' = [index EXCEPT ![Importer] = Append(@, s)]
    /\ UNCHANGED <<csv, row, remap, level>>

----------------------------------------------------------------------------
(* The car is read, matched and written by the import and by a remap.      *)

(* The UPDATE of the ORM has the columns that differ from what was read. *)
Columns(new, old, now) == [l \in Levels |-> IF new[l] # old[l] THEN new[l] ELSE now[l]]
Updated(new, old, now) ==
    [names |-> Columns(new.names, old.names, now.names),
     codes |-> Columns(new.codes, old.codes, now.codes)]

ReadCar(p) ==
    /\ read[p] = NotRead
    /\ torn => ReadTorn
    /\ p = Remapper => remap = "remap" /\ car # NoCar
    /\ read' = [read EXCEPT ![p] = car]
    /\ late' = late \ {p}
    /\ UNCHANGED <<csv, index, car, torn, remap, level>>

(* p commits the car it has given the codes of the names n. *)
WriteCar(p, n) ==
    /\ read[p] # NotRead /\ Loaded(p)
    /\ car' = Updated(Applied(index[p], n), read[p], car)
    /\ read' = [read EXCEPT ![p] = NotRead]
    /\ late' = {q \in Procs \ {p} : read[q] # NotRead}
    /\ torn' = (p \in late)
    /\ UNCHANGED <<csv, level>>

(* _flush_chunk: the names are those of the listing. *)
StoreCar ==
    /\ \E n \in Listings : WriteCar(Importer, n)
    /\ UNCHANGED <<index, remap>>

(* remap_all_vehicles: the names are those it has read.  The command ends. *)
RemapCar ==
    /\ WriteCar(Remapper, read[Remapper].names)
    /\ remap' = "idle"
    /\ index' = [index EXCEPT ![Remapper] = <<>>]

(* The process of the import is started again, what it has not committed   *)
(* is lost.                                                                *)
RestartImporter ==
    /\ index[Importer] # <<>>
    /\ index' = [index EXCEPT ![Importer] = <<>>]
    /\ read' = [read EXCEPT ![Importer] = NotRead]
    /\ late' = late \ {Importer}
    /\ UNCHANGED <<csv, car, torn, remap, level>>

----------------------------------------------------------------------------
(* The commands that go over the stored cars. *)

(* remap_all_vehicles loads an index of its own.  Here that is one step:   *)
(* what a load between the batches of a seed gives is seen in LoadLevel.   *)
RemapStart ==
    /\ remap = "idle"
    /\ remap' = "remap"
    /\ \E makers \in Scans(Remapper, table[1]), models \in Scans(Remapper, table[2]),
          mdetails \in Scans(Remapper, table[3]), grades \in Scans(Remapper, table[4]),
          gdetails \in Scans(Remapper, table[5]) :
        index' = [index EXCEPT ![Remapper] = <<makers, models, mdetails, grades, gdetails>>]
    /\ UNCHANGED <<csv, row, level>>

CanonicalStart ==
    /\ remap = "idle"
    /\ remap' = "canonical" /\ level' = 0
    /\ UNCHANGED <<csv, index, row>>

(* remap_canonical_names, in PostgreSQL: one UPDATE ... FROM for a level. *)
Canonicalise ==
    /\ remap = "canonical"
    /\ level' = (level + 1) % 5
    /\ remap' = IF level' = 0 THEN "idle" ELSE remap
    /\ LET l == level + 1
           named == {c.name : c \in {d \in table[l] : d.no = car.codes[l]}}
       IN  /\ car' = [car EXCEPT !.names[l] =
                        IF named = {} THEN @ ELSE CHOOSE x \in named : TRUE]
           /\ late' = IF car' = car THEN late ELSE {q \in Procs : read[q] # NotRead}
    /\ UNCHANGED <<csv, index, read, torn>>

(* The command fails, or is killed. *)
RemapFails ==
    /\ remap # "idle"
    /\ remap' = "idle" /\ level' = 0
    /\ read' = [read EXCEPT ![Remapper] = NotRead]
    /\ late' = late \ {Remapper}
    /\ index' = [index EXCEPT ![Remapper] = <<>>]
    /\ UNCHANGED <<csv, car, torn>>

Next ==
    \/ SeedStart \/ SeedBatch \/ SeedEnds \/ SeedFails
    \/ LoadLevel
    \/ \E p \in Procs : ReadCar(p)
    \/ StoreCar \/ RestartImporter
    \/ RemapStart \/ RemapCar \/ CanonicalStart \/ Canonicalise \/ RemapFails

Spec == Init /\ [][Next]_vars

----------------------------------------------------------------------------
(* Properties. *)

Known == [l \in Levels |-> ToSet(Files[l]) \cup ToSet(Former[l])]
Numbers == [l \in Levels |-> {None} \cup {c.no : c \in Known[l]}]
Car == [names : [Levels -> Labels],
        codes : {c \in [Levels -> Nat] : \A l \in Levels : c[l] \in Numbers[l]}]

(* Type invariant: the tables hold codes of one of the two editions, and a *)
(* car, stored or read, has codes of them (seed_encar_codes and            *)
(* apply_codes_to_vehicle).                                                *)
TypeOK ==
    /\ table \in [Levels -> SUBSET Code]
    /\ \A l \in Levels : table[l] \subseteq Known[l]
    /\ seeding = NoSeed \/ seeding \in [Levels -> Nat]
    /\ seeding # NoSeed => \A l \in Levels : seeding[l] <= Len(Files[l])
    /\ seeded \in BOOLEAN /\ torn \in BOOLEAN /\ late \subseteq Procs
    /\ index \in [Procs -> Seq(Seq(Code))]
    /\ \A p \in Procs : Len(index[p]) <= 5
    /\ read \in [Procs -> Car \cup {NotRead}]
    /\ car \in Car
    /\ remap \in {"idle", "remap", "canonical"} /\ level \in 0..4

ParentOf == [l \in Levels |-> [no \in Numbers[l] |->
    IF no = None THEN None ELSE (CHOOSE c \in Known[l] : c.no = no).parent]]

(* The codes of a car are one path down the hierarchy: each code a car has *)
(* lies under the one above it, and a grade without detailed model under a *)
(* detailed model of the car's model.  That is so whatever state of the    *)
(* tables an index was loaded from, in the middle of a seed too, unless    *)
(* the row was written late, over another's write (the UPDATE of the ORM   *)
(* then leaves codes of two listings in one row).                          *)
CodesFormPath ==
    LET no == car.codes
    IN  ~torn =>
        /\ \A l \in {2, 3, 5} : no[l] # None => ParentOf[l][no[l]] = no[l - 1]
        /\ no[4] # None =>
            /\ no[3] # None => ParentOf[4][no[4]] = no[3]
            /\ ParentOf[3][ParentOf[4][no[4]]] = no[2]

(* A car has the name that its code has, in this edition or the earlier    *)
(* one, whichever of the import, a remap and the UPDATEs of                *)
(* remap_canonical_names wrote it and in whatever order they did.          *)
NamedAsCoded ==
    ~torn => \A l \in Levels : car.codes[l] # None =>
        \E c \in Known[l] : c.no = car.codes[l] /\ c.name = car.names[l]

(* Whatever index a process loads, a remap with it finds nothing to change *)
(* in what it has matched before: the names that apply_codes_to_vehicle    *)
(* writes lead to the same codes again, though names of siblings may be    *)
(* normalised to the same label.  A maker whose own name is an alias of    *)
(* another's is the exception.                                             *)
Stable(idx) ==
    \A n \in Listings :
        LET once == Applied(idx, n)
        IN  Alias[once.names[1]] = once.names[1] => Applied(idx, once.names) = once
RemapStable ==
    [][\A p \in Procs : index'[p] # index[p] /\ Loaded(p)' => Stable(index'[p])]_vars

(* Once a seed has come to its end the tables hold every code of the files *)
(* with the name it has there, however many seeds were interrupted before  *)
(* and whatever an earlier edition had left; no later seed, ended or not,  *)
(* undoes that.                                                            *)
SeedCompletes == seeded => \A l \in Levels : ToSet(Files[l]) \subseteq table[l]
=============================================================================
