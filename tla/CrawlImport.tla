---------------------------- MODULE CrawlImport ----------------------------
(***************************************************************************)
(* import_from_crawl (apps/services/import_crawl.py) with the part of      *)
(* import_row_dicts and _flush_chunk (apps/services/import_csv.py) that it *)
(* uses: how the rows that iter_crawling_rows yields reach the vehicles    *)
(* table, page by page and chunk by chunk, and from which id the next      *)
(* collect starts after a completion, a failure or a crash.                *)
(*                                                                         *)
(* One importing process.  The rows arrive as CrawlFeed promises them      *)
(* (CrawlCursor implements it).  A step is what one commit makes durable:  *)
(* vehicles, resume, job and cooling live in the database and survive a    *)
(* crash, everything else is lost with the process.                        *)
(***************************************************************************)
EXTENDS Integers, FiniteSets, SequencesExt

CONSTANTS
    Ids,            \* ids a row of the crawl server may have; a skip ends at one
    Keys,           \* (site_type, site_id) pairs, the identity of a car
    Catalogs,       \* what the rows may say: functions from Ids to rows
    Broken,         \* ids the server answers 500 for
    Poison,         \* ids whose row the database may refuse to store
    PageSize,       \* DEFAULT_LIMIT
    Chunk,          \* CHUNK_SIZE
    MaxFaults       \* bound: crashes, transient failures and outages

(* What the importer reads of a row: its car, its scraped_at (0: none) and *)
(* whether should_reject_row lets it through.                              *)
Row == [key : Keys, ts : Nat, ok : BOOLEAN]

ASSUME IdsAssumption == Ids \subseteq Nat \ {0} /\ IsFiniteSet(Ids)
ASSUME CatalogsAssumption == Catalogs \subseteq [Ids -> Row]
ASSUME BrokenAssumption == Broken \subseteq Ids /\ Poison \subseteq Ids
ASSUME SizesAssumption == PageSize \in Nat \ {0} /\ Chunk \in Nat \ {0}
ASSUME MaxFaultsAssumption == MaxFaults \in Nat

VARIABLES
    catalog,        \* the contents of the rows
    rows,           \* ids the crawl server holds by now
    poison,         \* ids whose row the database refuses
    vehicles,       \* the id of the row stored for each car (source_id), or 0
    resume,         \* setting crawl_resume_id, 0 when empty
    job,            \* status of the import job that was worked on last
    waiting,        \* other jobs that are pending
    cooling,        \* the cooldown of crawl_cooldown_until is running
    pc,             \* what the importer does next
    startedFrom, lastId, buf, kept, replace,    \* its local variables
    todo,           \* rows of the current flush not committed yet
    again,          \* the flush is the second one, of the exception handler
    pos,            \* the feed: every row below pos was yielded or skipped
    skipEnd,        \* end of the last skipped range, or 0
    eof,            \* the feed has ended
    givenUp,        \* ids inside the ranges of on_skip, held by a row or not yet
    faults

server == <<catalog, rows, poison>>
database == <<vehicles, resume, job, waiting, cooling>>
feed == <<pos, skipEnd, eof, givenUp>>
local == <<startedFrom, lastId, buf, kept, replace, todo, again>>
vars == <<server, database, feed, local, pc, faults>>

----------------------------------------------------------------------------
From(o) == {r \in rows : r >= o}
Key(r) == catalog[r].key
Accepted(p) == {r \in p : catalog[r].ok}
Bigger(a, b) == IF a > b THEN a ELSE b

(* max_numeric_source_id *)
MaxSourceId ==
    CHOOSE m \in {vehicles[k] : k \in Keys} : \A k \in Keys : vehicles[k] <= m

(* crawl_start_offset: the collect goes on after this id. *)
StartOffset ==
    IF \A k \in Keys : vehicles[k] = 0 THEN 0 ELSE Bigger(resume, MaxSourceId)

(* _flush keeps one row for each car of the page, the last, in the place of *)
(* the first (`last' is a dict).  Rejected rows are only counted.           *)
LastOfCar(p) == {r \in p : \A q \in p : Key(q) = Key(r) => q <= r}
FirstOfCar(p, r) == CHOOSE f \in p : Key(f) = Key(r) /\ \A q \in p : Key(q) = Key(r) => f <= q
FlushOrders(p) ==
    {s \in SetToSeqs(LastOfCar(p)) :
        \A i, j \in DOMAIN s : i < j => FirstOfCar(p, s[i]) < FirstOfCar(p, s[j])}

(* _flush_chunk replaces a stored row only by one with a later scraped_at. *)
Replaces(r, old) ==
    old = 0 \/ catalog[old].ts = 0 \/ catalog[r].ts > catalog[old].ts

(* the rows of one car are never both in a chunk *)
Upserted(chunk) ==
    [k \in Keys |->
        IF \E r \in chunk : Key(r) = k /\ Replaces(r, vehicles[k])
        THEN CHOOSE r \in chunk : Key(r) = k
        ELSE vehicles[k]]

----------------------------------------------------------------------------
Init ==
    /\ catalog \in Catalogs
    /\ rows \in SUBSET Ids
    /\ poison \in SUBSET Poison
    /\ vehicles = [k \in Keys |-> 0]
    /\ resume = 0
    /\ job = "none" /\ waiting = 0
    /\ cooling = FALSE
    /\ pc = "idle"
    /\ startedFrom = 0 /\ lastId = 0 /\ buf = {} /\ kept = {} /\ replace = FALSE
    /\ todo = <<>> /\ again = FALSE
    /\ pos = 0 /\ skipEnd = 0 /\ eof = FALSE /\ givenUp = {}
    /\ faults = 0

(* The crawler behind the server adds a row, under a new greatest id. *)
ServerAddsRow ==
    /\ \E r \in Ids : (\A q \in rows : q < r) /\ rows' = rows \cup {r}
    /\ UNCHANGED <<catalog, poison, database, feed, local, pc, faults>>

(* request_manual_collect, from the web or at midnight: the start offset is *)
(* saved and a pending job is added, unless a job is pending or running.    *)
RequestCollect ==
    /\ pc = "idle"
    /\ job \notin {"pending", "running"} /\ waiting = 0
    /\ resume' = IF StartOffset # 0 THEN StartOffset ELSE resume
    /\ job' = "pending"
    /\ UNCHANGED <<server, vehicles, waiting, cooling, feed, local, pc, faults>>

(* Lines 185-188: a collect from the start forgets an old resume id. *)
ResumeAtStart_Cleared == 0              \* mutant: whatever the start
ResumeAtStart == IF StartOffset = 0 THEN 0 ELSE resume

(* import_from_crawl returns or dies: its variables are gone. *)
Returns ==
    /\ startedFrom' = 0 /\ lastId' = 0 /\ buf' = {} /\ kept' = {} /\ replace' = FALSE
    /\ todo' = <<>> /\ again' = FALSE
    /\ skipEnd' = 0 /\ eof' = FALSE
    /\ UNCHANGED <<pos, givenUp>>

(* import_from_crawl up to the first request, lines 176-224. *)
Begin(repl) ==
    /\ startedFrom' = StartOffset
    /\ resume' = ResumeAtStart
    /\ job' = "running"
    /\ pos' = IF StartOffset = 0 THEN 0 ELSE StartOffset + 1
    /\ lastId' = StartOffset
    /\ skipEnd' = 0 /\ eof' = FALSE
    /\ buf' = {} /\ kept' = {} /\ todo' = <<>> /\ again' = FALSE
    /\ replace' = repl
    /\ pc' = "fetch"
    /\ UNCHANGED <<server, vehicles, cooling, givenUp, faults>>

(* The scheduler takes up a pending job (consume_queued_collect), the last *)
(* one first.                                                              *)
TakeJob ==
    /\ pc = "idle"
    /\ \/ job = "pending" /\ UNCHANGED waiting
       \/ job \notin {"pending", "running"} /\ waiting > 0 /\ waiting' = waiting - 1
    /\ ~cooling
    /\ Begin(FALSE)

(* flask import-crawl: no job is queued, `replace' defaults to True.  Only *)
(* a running job stops it; one that is pending waits on.                   *)
RunCommand ==
    /\ pc = "idle"
    /\ job # "running"
    /\ waiting' = IF job = "pending" THEN waiting + 1 ELSE waiting
    /\ Begin(TRUE)

(* A page arrives: the rows from pos on, a full page or all that are left. *)
(* on_page calls _checkpoint, which starts _flush.                         *)
FetchPage ==
    /\ pc = "fetch" /\ ~eof
    /\ \E m \in From(pos) :
        LET p == {r \in From(pos) : r <= m} IN
        /\ Cardinality(p) <= PageSize
        /\ p \cap Broken = {}
        /\ eof' \in {e \in BOOLEAN : e => p = From(pos) /\ Cardinality(p) < PageSize}
        /\ pos' = m + 1
        /\ buf' = p
        /\ lastId' = Bigger(Bigger(lastId, m), skipEnd)
        /\ kept' = kept \cup {Key(r) : r \in Accepted(p)}
        /\ todo' \in FlushOrders(Accepted(p))
    /\ pc' = "flush"
    /\ UNCHANGED <<server, database, startedFrom, replace, again, skipEnd, givenUp, faults>>

(* on_skip: the offsets up to a broken row are given up, or, after the     *)
(* server has answered 500 for healthy rows, those up to any offset, which *)
(* may lie between two rows or past the last one.                          *)
FetchSkip ==
    /\ pc = "fetch" /\ ~eof
    /\ \E e \in {i \in Ids : i >= pos} :
        /\ \/ e \in Broken \cap rows /\ UNCHANGED faults
           \/ faults < MaxFaults /\ faults' = faults + 1
        /\ skipEnd' = e
        /\ pos' = e + 1
        /\ givenUp' = givenUp \cup {i \in Ids : pos <= i /\ i <= e}
    /\ UNCHANGED <<server, database, local, eof, pc>>

(* The feed ends, after its last page or because no row is left. *)
FetchEnds ==
    /\ pc = "fetch"
    /\ eof \/ From(pos) = {}
    /\ pc' = "clean"
    /\ UNCHANGED <<server, database, feed, local, faults>>

(* A request fails for good (429, an outage): there is nothing to flush. *)
FetchFails ==
    /\ pc = "fetch" /\ ~eof
    /\ faults < MaxFaults
    /\ faults' = faults + 1
    /\ lastId' = Bigger(lastId, skipEnd)
    /\ pc' = "queue"
    /\ UNCHANGED <<server, database, feed, startedFrom, buf, kept, replace, todo, again>>

(* The handler of lines 276-301, once nothing is left to flush.  The commit *)
(* that saves the last id makes the job pending too; without an id to save  *)
(* that is left to the commit that sets the cooldown.                       *)
QueueAgain ==
    /\ pc = "queue"
    /\ \/ lastId # 0 /\ resume' = lastId /\ job' = "pending"
       \/ lastId = 0 /\ UNCHANGED <<resume, job>>
    /\ pc' = "cool"
    /\ UNCHANGED <<server, vehicles, waiting, cooling, feed, local, faults>>

SetCooldown ==
    /\ pc = "cool"
    /\ job' = "pending"
    /\ cooling' = TRUE
    /\ pc' = "idle" /\ Returns
    /\ UNCHANGED <<server, vehicles, resume, waiting, faults>>

ThisChunk_Short == {todo[i] : i \in {j \in DOMAIN todo : j < Chunk}}    \* mutant
ThisChunk == {todo[i] : i \in {j \in DOMAIN todo : j <= Chunk}}

(* _flush_chunk commits the next CHUNK_SIZE rows of the page. *)
CommitChunk ==
    /\ pc = "flush"
    /\ todo # <<>>
    /\ ThisChunk \cap poison = {}
    /\ vehicles' = Upserted(ThisChunk)
    /\ todo' = SubSeq(todo, Chunk + 1, Len(todo))
    /\ UNCHANGED <<server, resume, job, waiting, cooling, feed, startedFrom, lastId,
                   buf, kept, replace, again, pc, faults>>

(* A chunk fails and is rolled back; import_row_dicts marks the job failed. *)
ChunkFails ==
    /\ pc = "flush"
    /\ todo # <<>>
    /\ \/ ThisChunk \cap poison # {} /\ UNCHANGED faults
       \/ faults < MaxFaults /\ faults' = faults + 1
    /\ job' = "failed"
    /\ \/ again /\ pc' = "idle" /\ Returns
       \/ ~again /\ pc' = "handle" /\ UNCHANGED <<feed, local>>
    /\ UNCHANGED <<server, vehicles, resume, waiting, cooling>>

(* mutant: the handler requeues without flushing the page again *)
FlushAgain_Forgets ==
    /\ pc = "handle"
    /\ job' = "running"
    /\ again' = TRUE
    /\ todo' = <<>>
    /\ pc' = "flush"
    /\ UNCHANGED <<server, vehicles, resume, waiting, cooling, feed, startedFrom,
                   lastId, buf, kept, replace, faults>>

(* The handler flushes the page once more; if that fails too, ChunkFails *)
(* leaves the job failed and nothing is queued.                          *)
FlushAgain ==
    /\ pc = "handle"
    /\ job' = "running"
    /\ again' = TRUE
    /\ todo' \in FlushOrders(Accepted(buf))
    /\ pc' = "flush"
    /\ UNCHANGED <<server, vehicles, resume, waiting, cooling, feed, startedFrom,
                   lastId, buf, kept, replace, faults>>

(* The page is stored: _checkpoint saves its last id, and so does the     *)
(* handler before it queues the job again.                                *)
SaveLastId ==
    /\ pc = "flush"
    /\ todo = <<>>
    /\ resume' = lastId
    /\ buf' = IF again THEN buf ELSE {}
    /\ pc' = IF again THEN "queue" ELSE "fetch"
    /\ UNCHANGED <<server, vehicles, job, waiting, cooling, feed, startedFrom, lastId, kept,
                   replace, todo, again, faults>>

(* Lines 303-304: a replacing collect from the start deletes the cars it *)
(* has not met.                                                          *)
DeleteMissing ==
    /\ pc = "clean"
    /\ vehicles' = IF replace /\ startedFrom = 0
                   THEN [k \in Keys |-> IF k \in kept THEN vehicles[k] ELSE 0]
                   ELSE vehicles
    /\ pc' = "clear"
    /\ UNCHANGED <<server, resume, job, waiting, cooling, feed, local, faults>>

ClearResume ==
    /\ pc = "clear"
    /\ resume' = 0
    /\ pc' = "complete"
    /\ UNCHANGED <<server, vehicles, job, waiting, cooling, feed, local, faults>>

CompleteJob ==
    /\ pc = "complete"
    /\ job' = "completed"
    /\ pc' = "idle" /\ Returns
    /\ UNCHANGED <<server, vehicles, resume, waiting, cooling, faults>>

(* The process dies between two commits and is started again: a job that *)
(* was running is pending again (recover_interrupted_jobs).              *)
Crash ==
    /\ pc \notin {"idle", "down"}
    /\ faults < MaxFaults
    /\ faults' = faults + 1
    /\ pc' = "down" /\ Returns
    /\ UNCHANGED <<server, database>>

Recover ==
    /\ pc = "down"
    /\ job' = IF job = "running" THEN "pending" ELSE job
    /\ pc' = "idle"
    /\ UNCHANGED <<server, vehicles, resume, waiting, cooling, feed, local, faults>>

(* The database goes away under the importer: its handlers fail as well,  *)
(* the error reaches the scheduler (tick), which carries on, and the job   *)
(* keeps the status it last committed.                                     *)
LoseDatabase ==
    /\ pc \notin {"idle", "down"}
    /\ faults < MaxFaults
    /\ faults' = faults + 1
    /\ pc' = "idle" /\ Returns
    /\ UNCHANGED <<server, database>>

ExpireStale_Never == FALSE /\ UNCHANGED vars   \* mutant: jobs never expire

(* fail_stale_running_jobs: a running job that nobody works on expires. *)
ExpireStale ==
    /\ pc = "idle"
    /\ job = "running"
    /\ job' = "failed"
    /\ UNCHANGED <<server, vehicles, resume, waiting, cooling, feed, local, pc, faults>>

CooldownEnds ==
    /\ cooling
    /\ cooling' = FALSE
    /\ UNCHANGED <<server, vehicles, resume, job, waiting, feed, local, pc, faults>>

Importer ==
    \/ TakeJob
    \/ FetchPage
    \/ FetchSkip
    \/ FetchEnds
    \/ FetchFails
    \/ QueueAgain
    \/ SetCooldown
    \/ CommitChunk
    \/ ChunkFails
    \/ FlushAgain
    \/ SaveLastId
    \/ DeleteMissing
    \/ ClearResume
    \/ CompleteJob
    \/ Recover
    \/ ExpireStale

Next ==
    \/ Importer
    \/ ServerAddsRow
    \/ RequestCollect
    \/ RunCommand
    \/ Crash
    \/ LoseDatabase
    \/ CooldownEnds

(* The scheduler polls for ever and is restarted after a crash; a collect *)
(* is requested every midnight; a cooldown is a deadline that passes.     *)
Fairness ==
    /\ WF_vars(Importer)
    /\ WF_vars(RequestCollect)
    /\ WF_vars(CooldownEnds)

Spec == Init /\ [][Next]_vars /\ Fairness

----------------------------------------------------------------------------
(* Type invariant: settings and stored rows hold ids the server has had,   *)
(* and a flush works on rows of the page (import_from_crawl).              *)
TypeOK ==
    /\ catalog \in Catalogs
    /\ rows \subseteq Ids
    /\ poison \subseteq Poison
    /\ vehicles \in [Keys -> Ids \cup {0}]
    /\ resume \in Ids \cup {0}
    /\ job \in {"none", "pending", "running", "failed", "completed"}
    /\ waiting \in Nat /\ cooling \in BOOLEAN
    /\ pc \in {"idle", "fetch", "flush", "handle", "queue", "cool", "clean", "clear", "complete", "down"}
    /\ startedFrom \in Ids \cup {0}
    /\ lastId \in Ids \cup {0}
    /\ buf \subseteq rows
    /\ kept \subseteq Keys
    /\ replace \in BOOLEAN /\ again \in BOOLEAN /\ eof \in BOOLEAN
    /\ todo \in Seq(buf)
    /\ pos \in Nat
    /\ skipEnd \in Ids \cup {0}
    /\ givenUp \subseteq Ids
    /\ faults \in 0..MaxFaults

(* The car of row r is stored, as the row says or as a later one does. *)
Collected(r) ==
    /\ vehicles[Key(r)] # 0
    /\ catalog[vehicles[Key(r)]].ts >= catalog[r].ts

(* The feed gives them all but those it reports to on_skip: a row that the *)
(* server adds later inside such a range is passed over as well, which     *)
(* only a range that was skipped in an outage leaves room for.             *)
Wanted == {r \in rows : catalog[r].ok} \ givenUp

(* No row is left behind: whatever failed or crashed, every row up to the *)
(* id the next collect starts after has been stored, or lies in a range   *)
(* that was reported as skipped (import_crawl.py lines 117-129 and        *)
(* 250-301, and the message of line 95).                                  *)
NothingLeftBehind == \A r \in Wanted : r <= StartOffset => Collected(r)

(* A completed job has stored every row the feed gave it or an earlier one: *)
(* those it has passed and not reported as skipped (import_from_crawl).     *)
CompletedJobStoredAll ==
    job = "completed" => \A r \in Wanted : r < pos => Collected(r)

(* The start of the next collect goes back only when a job completes and  *)
(* forgets the ids at the end that it rejected or skipped (line 305).     *)
StartNeverGoesBack ==
    [][pc # "clear" => StartOffset' >= StartOffset]_vars

(* Once faults stop, every row the server holds is stored or given up,    *)
(* through cooldowns, retries and restarts, unless the database refuses a *)
(* row: a collect that meets one fails, and so does the next.             *)
EveryRowCollected ==
    \A r \in Ids :
        r \in rows ~> r \notin Wanted \/ Collected(r) \/ poison \cap rows # {}
=============================================================================
