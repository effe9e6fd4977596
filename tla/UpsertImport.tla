---------------------------- MODULE UpsertImport ----------------------------
(***************************************************************************)
(* flask import-csv: import_csv_file, import_row_dicts and _flush_chunk of *)
(* apps/services/import_csv.py.  The rows of a file are merged into the    *)
(* vehicles table chunk by chunk; a chunk and the counters of the job are  *)
(* committed together.  The command may fail, crash and be run again with  *)
(* the same file, and an admin may reset the data under it.                *)
(*                                                                         *)
(* No other process stores rows meanwhile.  Nothing calls import_row_dicts *)
(* with replace=True, so that mode is not modelled.                        *)
(***************************************************************************)
EXTENDS Integers, FiniteSets, SequencesExt

CONSTANTS
    Cars,           \* (site_type, site_id) pairs
    Stamps,         \* values of scraped_at; 0 stands for none
    Files,          \* the files to import: sequences of rows
    Tables,         \* what the vehicles table may hold before the import
    Chunk,          \* CHUNK_SIZE
    MaxFaults       \* bound: failures, crashes and resets

(* What the import reads of a row.  hasId: the id column is filled in; ok: *)
(* should_reject_row lets it through.                                      *)
Row == [car : Cars, ts : Stamps, hasId : BOOLEAN, ok : BOOLEAN]

(* What is stored for a car: its scraped_at, whether it has a source_id,   *)
(* and the row it comes from, a position of the file or 0 for an older     *)
(* import.  Before the import only the latter are there.                   *)
Absent == [ts |-> 0, hasId |-> FALSE, from |-> -1]
Lengths == {Len(f) : f \in Files}
Stored == [ts : Stamps, hasId : BOOLEAN, from : {0} \cup UNION {1..n : n \in Lengths}]

ASSUME StampsAssumption == Stamps \subseteq Nat
ASSUME FilesAssumption == Files \subseteq Seq(Row)
ASSUME TablesAssumption ==
    /\ Tables \subseteq [Cars -> Stored \cup {Absent}]
    /\ \A t \in Tables, k \in Cars : t[k].from <= 0
ASSUME SizesAssumption == Chunk \in Nat \ {0} /\ MaxFaults \in Nat

VARIABLES
    file,           \* the argument of the command
    base,           \* the table before its first run
    table,          \* vehicles
    resetting,      \* a reset is between its two DELETEs
    doomed,         \* cars that the reset in progress has deleted
    job,            \* status of the job of this run; "gone" after a reset
    counts,         \* the counters of the job, as committed
    tally,          \* the counters of the job, in the session
    read,           \* rows read from the file
    pending,        \* pending_rows: positions in the file
    importing,      \* the command is running
    faults

run == <<tally, read, pending, importing>>
reset == <<resetting, doomed>>
vars == <<file, base, table, reset, job, counts, run, faults>>

----------------------------------------------------------------------------
Counters == [total : Nat, saved : Nat, skipped : Nat, rejected : Nat]
Zero == [total |-> 0, saved |-> 0, skipped |-> 0, rejected |-> 0]

At(i) == [ts |-> file[i].ts, hasId |-> file[i].hasId, from |-> i]

(* A row without a stamp replaces only one without a stamp. *)
Newer_NoneWins(new, old) == old.ts = 0 \/ new.ts = 0 \/ new.ts > old.ts   \* mutant
Newer(new, old) == old.ts = 0 \/ new.ts > old.ts

NeedsBackfill(new, old) == ~old.hasId /\ new.hasId

Takes(t, i) ==
    LET old == t[file[i].car]
    IN  old = Absent \/ Newer(At(i), old) \/ NeedsBackfill(At(i), old)

(* _flush_chunk: a row is inserted, replaces the stored one or is skipped. *)
Merged(acc, i) ==
    IF Takes(acc.table, i)
    THEN [table |-> [acc.table EXCEPT ![file[i].car] = At(i)],
          counts |-> [acc.counts EXCEPT !.saved = @ + 1]]
    ELSE [acc EXCEPT !.counts.skipped = @ + 1]

(* The rows of a chunk one after the other, on top of those before them. *)
Flush(t, c, chunk) == FoldLeft(Merged, [table |-> t, counts |-> c], chunk)

----------------------------------------------------------------------------
Init ==
    /\ file \in Files
    /\ base \in Tables
    /\ table = base
    /\ resetting = FALSE /\ doomed = {}
    /\ job = "none" /\ counts = Zero
    /\ tally = Zero /\ read = 0 /\ pending = <<>> /\ importing = FALSE
    /\ faults = 0

(* The command, for the first time or again: with a job of its own, from   *)
(* the first row of the file.                                              *)
Start_WhereCounted ==                   \* mutant: goes on after the counted rows
    /\ ~importing /\ job # "completed"
    /\ job' = "running" /\ counts' = Zero /\ tally' = Zero
    /\ read' = counts.total /\ pending' = <<>> /\ importing' = TRUE
    /\ UNCHANGED <<file, base, table, reset, faults>>
Start ==
    /\ ~importing /\ job # "completed"
    /\ job' = "running" /\ counts' = Zero /\ tally' = Zero
    /\ read' = 0 /\ pending' = <<>> /\ importing' = TRUE
    /\ UNCHANGED <<file, base, table, reset, faults>>

(* A row is read while the chunk is not full. *)
NextRow ==
    /\ importing /\ read < Len(file) /\ Len(pending) < Chunk
    /\ read' = read + 1

AcceptRow ==
    /\ NextRow
    /\ file[read + 1].ok
    /\ tally' = [tally EXCEPT !.total = @ + 1]
    /\ pending' = Append(pending, read + 1)
    /\ UNCHANGED <<file, base, table, reset, job, counts, importing, faults>>

(* Every CHUNK_SIZE rows the counters are committed, if that row happens   *)
(* to be rejected: with rows in them that still wait in pending_rows.      *)
RejectRow ==
    /\ NextRow
    /\ ~file[read + 1].ok
    /\ tally' = [tally EXCEPT !.total = @ + 1, !.rejected = @ + 1]
    /\ IF read' % Chunk = 0
       THEN job = "running" /\ counts' = tally'
       ELSE UNCHANGED counts
    /\ UNCHANGED <<file, base, table, reset, job, pending, importing, faults>>

ChunkDue == importing /\ pending # <<>> /\ (Len(pending) = Chunk \/ read = Len(file))

(* The commit of a chunk updates the job too, so it needs its row.  A row  *)
(* that a reset has deleted but not committed keeps it waiting.            *)
StoreChunk_AnyJob ==                    \* mutant: the counters elsewhere
    /\ ChunkDue
    /\ \A i \in ToSet(pending) : file[i].car \notin doomed
    /\ LET f == Flush(table, tally, pending)
       IN  table' = f.table /\ tally' = f.counts /\ counts' = f.counts
    /\ pending' = <<>>
    /\ UNCHANGED <<file, base, reset, job, read, importing, faults>>
StoreChunk_Uncounted ==                 \* mutant: the counters stay in the session
    /\ ChunkDue
    /\ job = "running"
    /\ \A i \in ToSet(pending) : file[i].car \notin doomed
    /\ table' = Flush(table, tally, pending).table
    /\ pending' = <<>>
    /\ counts' = tally
    /\ UNCHANGED <<file, base, reset, job, tally, read, importing, faults>>
StoreChunk ==
    /\ ChunkDue
    /\ job = "running"
    /\ \A i \in ToSet(pending) : file[i].car \notin doomed
    /\ LET f == Flush(table, tally, pending)
       IN  table' = f.table /\ tally' = f.counts /\ counts' = f.counts
    /\ pending' = <<>>
    /\ UNCHANGED <<file, base, reset, job, read, importing, faults>>

Complete ==
    /\ importing /\ read = Len(file) /\ pending = <<>>
    /\ job = "running"
    /\ job' = "completed" /\ counts' = tally /\ importing' = FALSE
    /\ UNCHANGED <<file, base, table, reset, tally, read, pending, faults>>

(* A statement or a commit fails, by itself or because the row of the job  *)
(* is gone: rollback, and the job is failed if it is still there.          *)
Fail ==
    /\ importing
    /\ \/ job = "gone" /\ UNCHANGED faults
       \/ job = "running" /\ faults < MaxFaults /\ faults' = faults + 1
    /\ job' = IF job = "gone" THEN "gone" ELSE "failed"
    /\ importing' = FALSE /\ tally' = counts /\ pending' = <<>>
    /\ UNCHANGED <<file, base, table, reset, counts, read>>

(* The process is killed; its job stays running. *)
Crash ==
    /\ importing /\ faults < MaxFaults
    /\ faults' = faults + 1
    /\ importing' = FALSE /\ tally' = counts /\ pending' = <<>>
    /\ UNCHANGED <<file, base, table, reset, job, counts, read>>

(* reset_data of the admin: two DELETEs in one transaction.  The first one *)
(* deletes the vehicles that are there when it starts.                     *)
ResetVehicles ==
    /\ ~resetting /\ faults < MaxFaults
    /\ resetting' = TRUE
    /\ doomed' = {k \in Cars : table[k] # Absent}
    /\ faults' = faults + 1
    /\ UNCHANGED <<file, base, table, job, counts, run>>

(* The second one deletes the jobs, and both are committed. *)
ResetJobs ==
    /\ resetting
    /\ table' = [k \in Cars |-> IF k \in doomed THEN Absent ELSE table[k]]
    /\ base' = table'
    /\ resetting' = FALSE /\ doomed' = {}
    /\ job' = "gone" /\ counts' = Zero
    /\ UNCHANGED <<file, run, faults>>

Next ==
    \/ Start \/ AcceptRow \/ RejectRow \/ StoreChunk \/ Complete
    \/ Fail \/ Crash \/ ResetVehicles \/ ResetJobs

Spec == Init /\ [][Next]_vars

----------------------------------------------------------------------------
(* Type invariant: the statuses a job of import-csv has, counters that are *)
(* counts, and pending rows that were read and accepted and fit a chunk    *)
(* (import_row_dicts, _flush_chunk).                                       *)
TypeOK ==
    /\ file \in Files /\ base \in Tables \cup [Cars -> Stored \cup {Absent}]
    /\ table \in [Cars -> Stored \cup {Absent}]
    /\ resetting \in BOOLEAN /\ doomed \subseteq Cars
    /\ job \in {"none", "running", "completed", "failed", "gone"}
    /\ counts \in Counters /\ tally \in Counters
    /\ read \in 0..Len(file)
    /\ pending \in Seq(1..read) /\ Len(pending) <= Chunk
    /\ importing \in BOOLEAN
    /\ faults \in 0..MaxFaults

(* The accepted rows of the file, merged into the table in one go. *)
MergedAtOnce ==
    FoldLeftDomain(LAMBDA acc, i : IF file[i].ok THEN Merged(acc, i) ELSE acc,
                   [table |-> base, counts |-> Zero], file).table

(* However often the import was interrupted, by a failure or a crash with  *)
(* any number of chunks committed, the run that completes leaves the table *)
(* as one undisturbed run would: _flush_chunk may see rows of its own      *)
(* earlier attempts without taking another decision because of them.       *)
RerunReachesSame == job = "completed" /\ ~resetting => table = MergedAtOnce

(* For a car whose rows all have an id, the row with the latest stamp is   *)
(* the one stored, the first of them if there are several, no matter how   *)
(* the file orders them, where the chunks end and how often it is run (the *)
(* comparison of scraped_at in _flush_chunk).                              *)
RowsOf(k) == {i \in 1..Len(file) : file[i].ok /\ file[i].car = k}
NewestWins ==
    job = "completed" /\ ~resetting =>
        \A k \in Cars :
            (base[k] = Absent \/ base[k].hasId) /\ (\A i \in RowsOf(k) : file[i].hasId)
                => /\ \A i \in RowsOf(k) :
                        /\ file[i].ts <= table[k].ts
                        /\ file[i].ts = table[k].ts /\ table[k].ts # 0 => table[k].from <= i
                   /\ base[k].ts <= table[k].ts

(* A completed job has counted every row of the file once, as saved,       *)
(* skipped or rejected; before that the committed counters lag behind by   *)
(* less than a chunk, although two different commits write them            *)
(* (_flush_chunk and the one for rejected rows).                           *)
Uncounted(c) == c.total - (c.saved + c.skipped + c.rejected)
CountsAddUp ==
    /\ Uncounted(counts) \in 0..(Chunk - 1)
    /\ job = "completed" => counts.total = Len(file) /\ Uncounted(counts) = 0

(* Once reset_data has committed, an import that was under way stores      *)
(* nothing more: its next commit finds its job deleted (the chunk and the  *)
(* counters of the job are one transaction in _flush_chunk).  Until the    *)
(* command is run again, only another reset changes the table.             *)
ResetSticks ==
    [][job = "gone" /\ job' = "gone" => \A k \in Cars : table'[k] \in {table[k], Absent}]_vars
=============================================================================
