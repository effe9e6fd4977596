---------------------------- MODULE VehicleStore ----------------------------
(***************************************************************************)
(* The writers of the vehicles table, statement by statement: _flush_chunk *)
(* of import_csv.py, scripts/bulk_copy_import.py, remap_vehicle_fuels,     *)
(* remap_vehicle_attrs and the DELETE of reset_data.  Nothing keeps one of *)
(* them from running beside another: each is a process of its own.         *)
(*                                                                         *)
(* PostgreSQL, READ COMMITTED: a statement sees what is committed and what *)
(* its own transaction wrote, waits while another transaction has written  *)
(* one of its rows, and then works on the row as that one left it.  A      *)
(* statement over many rows locks and writes them one by one, in any       *)
(* order.  The counters of the job are in UpsertImport; the names that     *)
(* codes give a row are in EncarCodes and left out here.                   *)
(* VehicleTableProofs extends this module together with VehicleList: hence *)
(* the names with Store.                                                   *)
(***************************************************************************)
EXTENDS FuelNames, SequencesExt

CONSTANTS
    Cars,           \* (site_type, site_id) pairs
    Procs,
    May,            \* the kinds of run each process may be
    Input,          \* the rows of each process: chunks of an import, files of
                    \* a bulk script
    Batch,          \* BATCH of the bulk script
    Old,            \* what vehicles holds at first
    Makers,         \* vehicle_maker has rows
    MaxReruns       \* bound: runs started again

VARIABLES
    kind,           \* what each process runs
    table,          \* vehicles, as committed
    older,          \* pairs of cars: the row of the first has the lower id
    pc,
    todo,           \* chunks or files not committed
    written,        \* rows committed of the first of these files
    plan,           \* statements of the transaction not yet executed
    own,            \* rows written and not committed: the row locks it holds
    disturbed,      \* history: cars others committed since the transaction began
    reruns

storeVars == <<kind, table, older, pc, todo, written, plan, own, disturbed, reruns>>

Kinds == {"import", "bulk", "fuels", "colors", "reset"}

(* stamp: scraped_at, 0 for none; id: source_id is filled in; alias: the   *)
(* Korean column that repeats color, "" while it is NULL; inspected:       *)
(* inspected_at and unique_option_info, 0 while they are NULL.             *)
Row == [stamp : Nat, id : BOOLEAN, color : DOMAIN Attr, alias : DOMAIN Attr \cup {""},
        fuel : SUBSET Fragments, grade : SUBSET Fragments, inspected : Nat]
Absent == [stamp |-> -1, id |-> FALSE, color |-> "", alias |-> "", fuel |-> {}, grade |-> {},
           inspected |-> 0]
Stored == Row \cup {Absent}
InputRow == [car : Cars, stamp : Nat, id : BOOLEAN, color : DOMAIN Attr,
             fuel : SUBSET Fragments, grade : SUBSET Fragments, inspected : Nat]

Statements ==
    [op : {"update"}, car : Cars, from : Row, to : Row]
    \cup [op : {"insert", "upsert"}, car : Cars, to : Row]
    \cup [op : {"fuel"}, from : SUBSET Fragments, to : SUBSET Fragments]
    \cup [op : {"color"}, from : DOMAIN Attr, to : DOMAIN Attr]
    \cup [op : {"delete"}]

(* A chunk or a file without rows is not written. *)
ASSUME InputAssumption == Input \in [Procs -> Seq(Seq(InputRow) \ {<<>>})]
ASSUME CarsAssumption == IsFiniteSet(Cars)
ASSUME OldAssumption == Old \in [Cars -> Stored]
ASSUME BatchAssumption == Batch \in Nat \ {0} /\ Makers \in BOOLEAN /\ MaxReruns \in Nat

----------------------------------------------------------------------------
(* What the process sees. *)
View(p) == [c \in Cars |-> IF c \in DOMAIN own[p] THEN own[p][c] ELSE table[c]]
Present(p) == {c \in Cars : View(p)[c] # Absent}

(* The WHERE of a statement, and the rows that the next one would write.   *)
Selects(s, c, row) ==
    CASE s.op = "delete" -> row # Absent
      [] s.op = "fuel" -> row # Absent /\ row.fuel = s.from
      [] s.op = "color" -> row # Absent /\ row.color = s.from
      [] OTHER -> c = s.car
Targets(p) == {c \in Cars : Selects(Head(plan[p]), c, View(p)[c])}

(* Who has written one of them. *)
WaitsFor(p) ==
    {q \in Procs \ {p} : plan[p] # <<>> /\ Targets(p) \cap DOMAIN own[q] # {}}

----------------------------------------------------------------------------
(* The row that _apply_row and _row_tuple make of a row of the input; the  *)
(* second leaves out what Upserted does not store.                         *)
Made_NoAlias(r) ==                      \* mutant: the Korean column is forgotten
    [stamp |-> r.stamp, id |-> r.id, color |-> Attr[r.color], alias |-> "",
     fuel |-> InferFuel(r.fuel, r.grade), grade |-> r.grade, inspected |-> r.inspected]
Made(r) == [stamp |-> r.stamp, id |-> r.id, color |-> Attr[r.color], alias |-> Attr[r.color],
            fuel |-> InferFuel(r.fuel, r.grade), grade |-> r.grade, inspected |-> r.inspected]

Newer(new, old) == old.stamp = 0 \/ new.stamp > old.stamp
Takes(new, old) == old = Absent \/ Newer(new, old) \/ (~old.id /\ new.id)

(* _flush_chunk: the rows are merged into what the SELECT found. *)
Merged(chunk) ==
    FoldLeft(LAMBDA acc, r : IF Takes(r, acc[r.car]) THEN [acc EXCEPT ![r.car] = Made(r)]
                             ELSE acc,
             table, chunk)

(* A set put in order, by the ids of the rows or as cars come in an input. *)
InOrder(S, before) ==
    {s \in SetToSeqs(S) : \A i, j \in DOMAIN s : i < j => <<s[i], s[j]>> \in before}
First(rows, c) == Min({i \in DOMAIN rows : rows[i].car = c})
ById(cars) == InOrder(cars, older)
AsGiven(cars, rows) ==
    InOrder(cars, {pair \in cars \X cars : First(rows, pair[1]) < First(rows, pair[2])})

(* The UPDATE and INSERT statements of a flush of the session, for rows    *)
(* that were read and what has been made of them.                          *)
Updates(cars, read, made) ==
    [i \in DOMAIN cars |-> [op |-> "update", car |-> cars[i], from |-> read[cars[i]],
                            to |-> made[cars[i]]]]
Inserts(cars, made) ==
    [i \in DOMAIN cars |-> [op |-> "insert", car |-> cars[i], to |-> made[cars[i]]]]

(* collect_rows: of the rows of a car in one file the newest is kept; one  *)
(* without a stamp is replaced by any later one.                           *)
KeepsOut(old, new) == old.stamp # 0 /\ new.stamp <= old.stamp
KeptRows(file) ==
    {i \in DOMAIN file : \A j \in DOMAIN file : file[j].car = file[i].car =>
        (j < i => ~KeepsOut(file[j], file[i])) /\ (j > i => KeepsOut(file[i], file[j]))}

(* upsert_batches: the rows of a batch, each in the place of the first row *)
(* of its car.                                                             *)
Precedes(file, i, j) == First(file, file[i].car) < First(file, file[j].car)
BatchRows(file, n) ==
    {i \in KeptRows(file) :
        Cardinality({j \in KeptRows(file) : Precedes(file, j, i)}) \in n..(n + Batch - 1)}
Batches(file, n) ==
    LET batch == BatchRows(file, n)
    IN  InOrder(batch, {pair \in batch \X batch : Precedes(file, pair[1], pair[2])})

(* What a run has to commit: a chunk, a file or its only transaction. *)
Todo(p, k) ==
    CASE k = "import" -> Input[p]
      [] k = "bulk" -> IF Makers THEN Input[p] ELSE <<>>
      [] OTHER -> << <<>> >>

----------------------------------------------------------------------------
StoreInit ==
    /\ kind \in [Procs -> Kinds] /\ \A p \in Procs : kind[p] \in May[p]
    /\ table = Old
    /\ \E order \in SetToSeqs({c \in Cars : Old[c] # Absent}) :
            older = {e \in Cars \X Cars : \E i, j \in DOMAIN order :
                        i < j /\ e = <<order[i], order[j]>>}
    /\ pc = [p \in Procs |-> "idle"]
    /\ todo = [p \in Procs |-> Todo(p, kind[p])]
    /\ written = [p \in Procs |-> 0]
    /\ plan = [p \in Procs |-> <<>>]
    /\ own = [p \in Procs |-> <<>>]
    /\ disturbed = [p \in Procs |-> {}]
    /\ reruns = 0

Ready(p, k) == kind[p] = k /\ pc[p] = "idle" /\ todo[p] # <<>>

Begin(p, statements) ==
    /\ pc' = [pc EXCEPT ![p] = "stmts"]
    /\ plan' = [plan EXCEPT ![p] = statements]
    /\ UNCHANGED <<kind, table, older, todo, written, own, disturbed, reruns>>

(* The rows that were there are updated in the order of their ids, then    *)
(* the others inserted as they came.                                       *)
FlushChunk(p) ==
    LET chunk == Head(todo[p])
        merged == Merged(chunk)
        changed == {c \in Cars : table[c] # Absent /\ merged[c] # table[c]}
        added == {c \in Cars : table[c] = Absent /\ merged[c] # Absent}
    IN  /\ Ready(p, "import")
        /\ \E old \in ById(changed), new \in AsGiven(added, chunk) :
                Begin(p, Updates(old, table, merged) \o Inserts(new, merged))

UpsertBatch(p) ==
    LET file == Head(todo[p])
    IN  /\ Ready(p, "bulk")
        /\ \E rows \in Batches(file, written[p]) :
                Begin(p, [i \in DOMAIN rows |-> [op |-> "upsert", car |-> file[rows[i]].car,
                                                 to |-> Made(file[rows[i]])]])

DeleteAll(p) == Ready(p, "reset") /\ Begin(p, << [op |-> "delete"] >>)

(* The distinct values of a column with their standard names, and an       *)
(* UPDATE, in any order, for each that is not the standard name.           *)
StoredCars == {c \in Cars : table[c] # Absent}
FuelNamed == [v \in {table[c].fuel : c \in StoredCars} |-> InferFuel(v, {})]
ColorNamed == [v \in {table[c].color : c \in StoredCars} |-> Attr[v]]
Renames(column, named) ==
    {[i \in DOMAIN order |-> [op |-> column, from |-> order[i], to |-> named[order[i]]]] :
        order \in SetToSeqs({v \in DOMAIN named : named[v] # v})}

RemapFuels(p) ==
    Ready(p, "fuels") /\ \E statements \in Renames("fuel", FuelNamed) : Begin(p, statements)

RemapColors(p) ==
    Ready(p, "colors") /\ \E statements \in Renames("color", ColorNamed) : Begin(p, statements)

(* Then the rows whose fuel is still not a standard one are read, and the  *)
(* grade tells the fuel of some.                                           *)
Leftovers_NoGrade(p) ==                 \* mutant: the rows that are left are counted only
    /\ kind[p] = "fuels" /\ pc[p] = "stmts" /\ plan[p] = <<>>
    /\ pc' = [pc EXCEPT ![p] = "left"]
    /\ UNCHANGED <<kind, table, older, todo, written, plan, own, disturbed, reruns>>
Refueled(row) == [row EXCEPT !.fuel = InferFuel(row.fuel, row.grade)]
Leftovers(p) ==
    LET row == View(p)
        named == [c \in Cars |-> Refueled(row[c])]
    IN  /\ kind[p] = "fuels" /\ pc[p] = "stmts" /\ plan[p] = <<>>
        /\ pc' = [pc EXCEPT ![p] = "left"]
        /\ \E cars \in ById({c \in Present(p) : named[c] # row[c]}) :
                plan' = [plan EXCEPT ![p] = Updates(cars, row, named)]
        /\ UNCHANGED <<kind, table, older, todo, written, own, disturbed, reruns>>

----------------------------------------------------------------------------
(* An UPDATE of the session sets the columns that differ from what it read. *)
Updated(s, row) ==
    LET New(f) == IF s.to[f] # s.from[f] THEN s.to[f] ELSE row[f]
    IN  [stamp |-> New("stamp"), id |-> New("id"), color |-> New("color"),
         alias |-> New("alias"), fuel |-> New("fuel"), grade |-> New("grade"),
         inspected |-> New("inspected")]

(* _INSERT_SQL, which names neither the Korean column nor inspected_at and *)
(* unique_option_info.                                                     *)
Upserted_NoWhere(new, row) ==           \* mutant: the upsert has no WHERE
    [new EXCEPT !.alias = row.alias, !.inspected = row.inspected]
Upserted_NoGrade(new, row) ==           \* mutant: car_grade is not in the SET
    IF row = Absent THEN [new EXCEPT !.alias = row.alias, !.inspected = row.inspected]
    ELSE IF row.stamp = 0 \/ new.stamp = 0 \/ new.stamp > row.stamp
    THEN [new EXCEPT !.alias = row.alias, !.inspected = row.inspected, !.grade = row.grade]
    ELSE row
Upserted(new, row) ==
    IF row = Absent \/ row.stamp = 0 \/ new.stamp = 0 \/ new.stamp > row.stamp
    THEN [new EXCEPT !.alias = row.alias, !.inspected = row.inspected] ELSE row

(* What a statement makes of a row. *)
Written(s, row) ==
    CASE s.op = "update" -> Updated(s, row)
      [] s.op = "insert" -> s.to
      [] s.op = "upsert" -> Upserted(s.to, row)
      [] s.op = "fuel" -> [row EXCEPT !.fuel = s.to]
      [] s.op = "color" -> [row EXCEPT !.color = s.to]
      [] s.op = "delete" -> Absent

(* The unique key refuses an insert, and SQLAlchemy an UPDATE that found   *)
(* no row.                                                                 *)
Refused(s, p) ==
    \/ s.op = "insert" /\ View(p)[s.car] # Absent
    \/ s.op = "update" /\ View(p)[s.car] = Absent

(* One of the rows of an UPDATE or DELETE that has more: the row lock is   *)
(* kept while it waits for the next.                                       *)
WriteOne(p) ==
    LET s == Head(plan[p])
        before == View(p)
    IN  /\ plan[p] # <<>> /\ s.op \in {"fuel", "color", "delete"}
        /\ \E c \in Targets(p) :
            /\ Targets(p) # {c} /\ \A q \in Procs \ {p} : c \notin DOMAIN own[q]
            /\ own' = [own EXCEPT ![p] = [d \in DOMAIN @ \cup {c} |->
                            IF d = c THEN Written(s, before[d]) ELSE before[d]]]
        /\ UNCHANGED <<kind, table, older, pc, todo, written, plan, disturbed, reruns>>

(* The last or only row, or all of them at once. *)
Statement(p) ==
    LET s == Head(plan[p])
        before == View(p)
    IN  /\ plan[p] # <<>> /\ WaitsFor(p) = {} /\ ~Refused(s, p)
        /\ own' = [own EXCEPT ![p] = [c \in DOMAIN @ \cup Targets(p) |->
                        IF c \in Targets(p) THEN Written(s, before[c]) ELSE before[c]]]
        /\ older' = IF s.op \in {"insert", "upsert"} /\ before[s.car] = Absent
                    THEN {e \in older : s.car \notin {e[1], e[2]}}
                         \cup ((Cars \ {s.car}) \X {s.car})
                    ELSE older
        /\ plan' = [plan EXCEPT ![p] = Tail(@)]
        /\ UNCHANGED <<kind, table, pc, todo, written, disturbed, reruns>>

Running(p) == pc[p] \in {"stmts", "left"}

Commit_OneMore(p) ==                    \* mutant: another batch after the last row
    LET changed == {c \in Cars : View(p)[c] # table[c]}
        more == kind[p] = "bulk" /\ written[p] + Batch <= Cardinality(KeptRows(Head(todo[p])))
    IN  /\ pc[p] = IF kind[p] = "fuels" THEN "left" ELSE "stmts"
        /\ plan[p] = <<>>
        /\ table' = View(p)
        /\ own' = [own EXCEPT ![p] = <<>>]
        /\ todo' = [todo EXCEPT ![p] = IF more THEN @ ELSE Tail(@)]
        /\ written' = [written EXCEPT ![p] = IF more THEN @ + Batch ELSE 0]
        /\ pc' = [pc EXCEPT ![p] = "idle"]
        /\ disturbed' = [q \in Procs |-> IF q = p THEN {}
                                         ELSE IF Running(q) THEN disturbed[q] \cup changed
                                         ELSE disturbed[q]]
        /\ UNCHANGED <<kind, older, plan, reruns>>
Commit(p) ==
    LET changed == {c \in Cars : View(p)[c] # table[c]}
        more == kind[p] = "bulk" /\ written[p] + Batch < Cardinality(KeptRows(Head(todo[p])))
    IN  /\ pc[p] = IF kind[p] = "fuels" THEN "left" ELSE "stmts"
        /\ plan[p] = <<>>
        /\ table' = View(p)
        /\ own' = [own EXCEPT ![p] = <<>>]
        /\ todo' = [todo EXCEPT ![p] = IF more THEN @ ELSE Tail(@)]
        /\ written' = [written EXCEPT ![p] = IF more THEN @ + Batch ELSE 0]
        /\ pc' = [pc EXCEPT ![p] = "idle"]
        /\ disturbed' = [q \in Procs |-> IF q = p THEN {}
                                         ELSE IF Running(q) THEN disturbed[q] \cup changed
                                         ELSE disturbed[q]]
        /\ UNCHANGED <<kind, older, plan, reruns>>

Finish(p) ==
    /\ pc[p] = "idle" /\ todo[p] = <<>>
    /\ pc' = [pc EXCEPT ![p] = "done"]
    /\ UNCHANGED <<kind, table, older, todo, written, plan, own, disturbed, reruns>>

(* The transaction is rolled back and the run ends. *)
Rollback(p) ==
    /\ pc' = [pc EXCEPT ![p] = "failed"]
    /\ plan' = [plan EXCEPT ![p] = <<>>]
    /\ todo' = [todo EXCEPT ![p] = <<>>]
    /\ written' = [written EXCEPT ![p] = 0]
    /\ own' = [own EXCEPT ![p] = <<>>]
    /\ disturbed' = [disturbed EXCEPT ![p] = {}]
    /\ UNCHANGED <<kind, table, older, reruns>>

Refuse_TriesAgain(p) ==                 \* mutant: the statement is repeated as it is
    /\ plan[p] # <<>> /\ WaitsFor(p) = {} /\ Refused(Head(plan[p]), p)
    /\ UNCHANGED storeVars
Refuse(p) ==
    /\ plan[p] # <<>> /\ WaitsFor(p) = {} /\ Refused(Head(plan[p]), p)
    /\ Rollback(p)

(* Of transactions that wait for each other in a circle one is aborted. *)
DeadlockAbort(p) ==
    /\ WaitsFor(p) # {}
    /\ \E circle \in SUBSET Procs :
            /\ p \in circle
            /\ \A q \in circle : /\ WaitsFor(q) \cap circle # {}
                                 /\ \E r \in circle : q \in WaitsFor(r)
    /\ Rollback(p)

Crash(p) == pc[p] \in {"idle", "stmts", "left"} /\ Rollback(p)

Rerun(p) ==
    /\ pc[p] \in {"done", "failed"} /\ reruns < MaxReruns
    /\ pc' = [pc EXCEPT ![p] = "idle"]
    /\ todo' = [todo EXCEPT ![p] = Todo(p, kind[p])]
    /\ reruns' = reruns + 1
    /\ UNCHANGED <<kind, table, older, written, plan, own, disturbed>>

Work(p) ==
    \/ FlushChunk(p) \/ UpsertBatch(p) \/ DeleteAll(p)
    \/ RemapFuels(p) \/ RemapColors(p) \/ Leftovers(p)
    \/ WriteOne(p) \/ Statement(p) \/ Refuse(p) \/ DeadlockAbort(p)
    \/ Commit(p) \/ Finish(p)

StoreNext == \E p \in Procs : Work(p) \/ Crash(p) \/ Rerun(p)

(* A run that has begun goes on; nobody has to run it again. *)
StoreSpec ==
    StoreInit /\ [][StoreNext]_storeVars /\ \A p \in Procs : WF_storeVars(Work(p))

----------------------------------------------------------------------------
(* The types, with the facts that keep the table and the batches of a file *)
(* in one piece: no row is written by two transactions, the ids put the    *)
(* rows in one order, and the next batch begins at a row of its file.      *)
InFile(p) ==
    /\ pc[p] \in {"done", "failed"} => todo[p] = <<>>
    /\ \/ written[p] = 0
       \/ todo[p] # <<>> /\ written[p] < Cardinality(KeptRows(Head(todo[p])))
StoreTypeOK ==
    /\ kind \in [Procs -> Kinds]
    /\ table \in [Cars -> Stored]
    /\ older \subseteq Cars \X Cars
    /\ \A c, d \in StoredCars : c # d => (<<c, d>> \in older <=> <<d, c>> \notin older)
    /\ pc \in [Procs -> {"idle", "stmts", "left", "done", "failed"}]
    /\ todo \in [Procs -> Seq(Seq(InputRow))]
    /\ written \in [Procs -> Nat]
    /\ \A p \in Procs : InFile(p)
    /\ plan \in [Procs -> Seq(Statements)]
    /\ \A p \in Procs : DOMAIN own[p] \subseteq Cars /\ own[p] \in [DOMAIN own[p] -> Stored]
    /\ disturbed \in [Procs -> SUBSET Cars]
    /\ reruns \in 0..MaxReruns
    /\ \A p, q \in Procs : p # q => DOMAIN own[p] \cap DOMAIN own[q] = {}

(* Process p is committing, from a row of c that others have replaced. *)
Commits(p) == own[p] # <<>> /\ own'[p] = <<>> /\ pc'[p] = "idle"
Late(c) == \E p \in Procs : Commits(p) /\ c \in disturbed[p] /\ kind[p] \in {"import", "fuels"}

(* The upsert keeps the newest data (도메인 규칙 of the README): the stamp *)
(* of a stored row falls only when an import decided from a row that was   *)
(* replaced since, when it fills in the source_id that the stored row      *)
(* lacks or that a row of its own chunk took away, or when the bulk script *)
(* stores a row without a stamp.                                           *)
Refills(c, chunk) ==
    \E i, j \in DOMAIN chunk : /\ i < j /\ chunk[i].car = c /\ chunk[j].car = c
                               /\ ~chunk[i].id /\ chunk[j].id
StoresUnstamped(c, file) == \E i \in KeptRows(file) : file[i].car = c /\ file[i].stamp = 0
StampFallsOnlyLate ==
    [][\A c \in Cars :
        table'[c] # Absent /\ table'[c].stamp < table[c].stamp =>
            \/ Late(c) \/ ~table[c].id
            \/ \E p \in Procs :
                /\ Commits(p)
                /\ \/ kind[p] = "import" /\ Refills(c, Head(todo[p]))
                   \/ kind[p] = "bulk" /\ StoresUnstamped(c, Head(todo[p]))]_table

(* The columns of a row come from one row of an input, up to the standard  *)
(* names: only a commit that is late mixes two of them, because an UPDATE  *)
(* of the session leaves out the columns that did not change for it.  Of   *)
(* inspected_at and unique_option_info the same holds but for the bulk     *)
(* script, which leaves those of the row it replaces.                      *)
Canon(r) == <<r.stamp, r.id, Attr[r.color], InferFuel(r.fuel, r.grade), r.grade>>
Inspected(r) == <<Canon(r), r.inspected>>
Lines == UNION {UNION {ToSet(Input[p][u]) : u \in DOMAIN Input[p]} : p \in Procs}
RowsOf(c) == ({Old[c]} \ {Absent}) \cup {line \in Lines : line.car = c}
Sources == [c \in Cars |-> {Canon(r) : r \in RowsOf(c)}]
Entries == [c \in Cars |-> {Inspected(r) : r \in RowsOf(c)}]
Whole(c) == table[c] = Absent \/ Canon(table[c]) \in Sources[c]
Entire(c) == table[c] = Absent \/ Inspected(table[c]) \in Entries[c]
LeavesInspected(c) ==
    /\ table'[c].inspected = table[c].inspected
    /\ \E p \in Procs : Commits(p) /\ kind[p] = "bulk"
MixedOnlyLate ==
    [][\A c \in Cars :
        /\ Whole(c) => Whole(c)' \/ Late(c)
        /\ Entire(c) => Entire(c)' \/ Late(c) \/ LeavesInspected(c)]_table

(* openapi.py calls the Korean column an alias of car_color: once it is    *)
(* one, only the bulk script, remap-attrs and a late commit break that.    *)
Aliased(c) == table[c] # Absent /\ table[c].alias = table[c].color
AliasLostOnlyBy ==
    [][\A c \in Cars : Aliased(c) =>
        \/ Aliased(c)' \/ table'[c] = Absent \/ Late(c)
        \/ \E p \in Procs : Commits(p) /\ kind[p] \in {"bulk", "colors"}]_table

(* A run of remap_vehicle_fuels leaves the standard name of its fuel in    *)
(* every row that nobody else committed meanwhile, one of remap_vehicle_   *)
(* attrs the standard name of its color.                                   *)
RemapSettles ==
    [][\A p \in Procs : pc[p] \in {"stmts", "left"} /\ pc'[p] = "idle" =>
        \A c \in Cars \ disturbed[p] : table'[c] # Absent =>
            /\ kind[p] = "fuels" => InferFuel(table'[c].fuel, table'[c].grade) = table'[c].fuel
            /\ kind[p] = "colors" => table'[c].color \in {Attr[a] : a \in DOMAIN Attr}]_pc

(* Every run ends, whatever the others hold and in whatever order they     *)
(* lock: no run waits for ever.                                            *)
RunsEnd == \A p \in Procs : <>[](pc[p] \in {"done", "failed"})
=============================================================================
