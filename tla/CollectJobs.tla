---------------------------- MODULE CollectJobs ----------------------------
(***************************************************************************)
(* The life of import jobs (apps/services/import_crawl.py) as the          *)
(* processes of the hub share them through the database: web workers and   *)
(* the scheduler request collects, the scheduler takes pending jobs        *)
(* (apps/scheduler.py), flask import-crawl runs one of its own, an admin   *)
(* resets the data (apps/routes/admin.py).  A step is one query or one     *)
(* commit, so what a process has read may be out of date when it writes.   *)
(* What a collect does with rows is left to CrawlImport.                   *)
(***************************************************************************)
EXTENDS Integers, FiniteSets

CONSTANTS
    Web,            \* gunicorn workers
    Commands,       \* processes of flask import-crawl
    Scheduler,      \* the scheduler process
    MaxJobs,        \* bound: jobs ever created
    MaxCrashes,     \* bound: crashes of processes
    MaxFailures     \* bound: collects that fail

ASSUME ProcsAssumption ==
    /\ IsFiniteSet(Web) /\ IsFiniteSet(Commands)
    /\ Web \cap Commands = {} /\ Scheduler \notin Web \cup Commands
ASSUME MaxAssumption ==
    MaxJobs \in Nat \ {0} /\ MaxCrashes \in Nat /\ MaxFailures \in Nat

Procs == Web \cup Commands \cup {Scheduler}
Jobs == 1..MaxJobs

VARIABLES
    status,         \* ImportJob.status; "none": not created, "gone": deleted
    aged,           \* jobs past STALE_IDLE_SECONDS or STALE_MAX_SECONDS
    collectNow,     \* setting crawl_collect_now, 0 when empty
    cooling,        \* the cooldown of crawl_cooldown_until is running
    pc,             \* what each process does next
    mine,           \* the job a process holds, or 0
    crashes, failures

table == <<status, aged>>
vars == <<status, aged, collectNow, cooling, pc, mine, crashes, failures>>

----------------------------------------------------------------------------
With(st) == {j \in Jobs : status[j] = st}
Open == With("pending") \cup With("running")

Greatest(S) == CHOOSE j \in S : \A i \in S : i <= j

Go(p, label) == pc' = [pc EXCEPT ![p] = label]
Hold(p, j) == mine' = [mine EXCEPT ![p] = j]
Mark(j, st) == status' = [status EXCEPT ![j] = st]

(* The next id, never one that was used. *)
NewJob == Greatest({j \in Jobs : \A i \in Jobs : i < j => status[i] # "none"})

(* Bound: a process starts to create a job only while an id is left for it. *)
Room == Cardinality({j \in Jobs : status[j] # "none"})
        + Cardinality({p \in Procs : pc[p] \in {"asked", "insert", "create"}}) < MaxJobs

ExpireStale_Never == UNCHANGED status   \* mutant: jobs never expire

(* fail_stale_running_jobs, the first half of find_running_job *)
ExpireStale ==
    status' = [j \in Jobs |-> IF status[j] = "running" /\ j \in aged
                              THEN "failed" ELSE status[j]]

(* what the second half then finds *)
Running == With("running") \ aged

----------------------------------------------------------------------------
Init ==
    /\ status = [j \in Jobs |-> "none"]
    /\ aged = {}
    /\ collectNow = 0
    /\ cooling = FALSE
    /\ pc = [p \in Procs |-> "idle"]
    /\ mine = [p \in Procs |-> 0]
    /\ crashes = 0
    /\ failures = 0

(* request_manual_collect: a POST to a web worker, or midnight.  The running *)
(* job is looked for first, then the pending one, then a job is inserted and *)
(* at last the setting is written.  The scheduler goes on to its tick.       *)
After(p) == IF p = Scheduler THEN "tick" ELSE "idle"

AskRunning(p) ==
    /\ p \in Web \cup {Scheduler}
    /\ pc[p] = "idle"
    /\ Room
    /\ ExpireStale
    /\ Go(p, IF Running # {} THEN After(p) ELSE "asked")
    /\ UNCHANGED <<aged, collectNow, cooling, mine, crashes, failures>>

(* mutant: the pending job is not looked for *)
AskPending_Skipped(p) ==
    /\ pc[p] = "asked"
    /\ Go(p, "insert")
    /\ UNCHANGED <<table, collectNow, cooling, mine, crashes, failures>>

AskPending(p) ==
    /\ pc[p] = "asked"
    /\ Go(p, IF With("pending") # {} THEN After(p) ELSE "insert")
    /\ UNCHANGED <<table, collectNow, cooling, mine, crashes, failures>>

InsertJob(p) ==
    /\ pc[p] = "insert"
    /\ Mark(NewJob, "pending")
    /\ Hold(p, NewJob)
    /\ Go(p, "flag")
    /\ UNCHANGED <<aged, collectNow, cooling, crashes, failures>>

FlagJob(p) ==
    /\ pc[p] = "flag"
    /\ collectNow' = mine[p]
    /\ Hold(p, 0)
    /\ Go(p, After(p))
    /\ UNCHANGED <<table, cooling, crashes, failures>>

(* tick during a cooldown does nothing. *)
TickCooling ==
    /\ pc[Scheduler] = "tick"
    /\ cooling
    /\ Go(Scheduler, "idle")
    /\ UNCHANGED <<table, collectNow, cooling, mine, crashes, failures>>

(* consume_queued_collect: not while a job runs; otherwise the pending job *)
(* with the greatest id is read and the setting cleared.                   *)
Poll ==
    /\ pc[Scheduler] \in {"idle", "tick"}
    /\ ~cooling
    /\ ExpireStale
    /\ Go(Scheduler, IF Running # {} THEN "idle" ELSE "polled")
    /\ UNCHANGED <<aged, collectNow, cooling, mine, crashes, failures>>

(* mutant: a running job is taken as well *)
PickPending_Open ==
    /\ pc[Scheduler] = "polled"
    /\ \/ Open = {} /\ Go(Scheduler, "idle") /\ UNCHANGED mine
       \/ /\ Open # {}
          /\ Hold(Scheduler, Greatest(Open))
          /\ Go(Scheduler, "picked")
    /\ UNCHANGED <<table, collectNow, cooling, crashes, failures>>

PickPending ==
    /\ pc[Scheduler] = "polled"
    /\ \/ With("pending") = {} /\ Go(Scheduler, "idle") /\ UNCHANGED mine
       \/ /\ With("pending") # {}
          /\ Hold(Scheduler, Greatest(With("pending")))
          /\ Go(Scheduler, "picked")
    /\ UNCHANGED <<table, collectNow, cooling, crashes, failures>>

(* mutant: the job that was picked is not handed to import_from_crawl *)
ClearFlag_NoJob ==
    /\ pc[Scheduler] = "picked"
    /\ collectNow' = 0
    /\ Hold(Scheduler, 0)
    /\ Go(Scheduler, "guard")
    /\ UNCHANGED <<table, cooling, crashes, failures>>

ClearFlag ==
    /\ pc[Scheduler] = "picked"
    /\ collectNow' = 0
    /\ Go(Scheduler, "guard")
    /\ UNCHANGED <<table, cooling, mine, crashes, failures>>

(* import_from_crawl, lines 176-178: refused while another job runs.  A  *)
(* command enters here.                                                  *)
Guard(p) ==
    /\ \/ pc[p] = "guard"
       \/ p \in Commands /\ pc[p] = "idle" /\ Room
    /\ ExpireStale
    /\ IF Running # {} /\ Greatest(Running) # mine[p]
       THEN Go(p, "idle") /\ Hold(p, 0)
       ELSE Go(p, IF mine[p] = 0 THEN "create" ELSE "start") /\ UNCHANGED mine
    /\ UNCHANGED <<aged, collectNow, cooling, crashes, failures>>

(* Lines 205-213: a command creates its job, running from the beginning. *)
CreateJob(p) ==
    /\ pc[p] = "create"
    /\ Mark(NewJob, "running")
    /\ Hold(p, NewJob)
    /\ Go(p, "import")
    /\ UNCHANGED <<aged, collectNow, cooling, crashes, failures>>

(* A step of a process that writes its job: an error, which ends the       *)
(* collect and nothing else, when reset_data has deleted the job meanwhile. *)
JobDeleted(p) ==
    /\ pc[p] \in {"start", "import"}
    /\ status[mine[p]] = "gone"
    /\ Hold(p, 0)
    /\ Go(p, "idle")
    /\ UNCHANGED <<table, collectNow, cooling, crashes, failures>>

(* Lines 214-220: the pending job that was read is made running. *)
StartJob(p) ==
    /\ pc[p] = "start"
    /\ status[mine[p]] # "gone"
    /\ Mark(mine[p], "running")
    /\ aged' = aged \ {mine[p]}
    /\ Go(p, "import")
    /\ UNCHANGED <<collectNow, cooling, mine, crashes, failures>>

(* Every page sets the job to running (import_row_dicts, line 273).  If it  *)
(* counts a row, the job has not been idle; it may still be a day old.     *)
StorePage(p) ==
    /\ pc[p] = "import"
    /\ status[mine[p]] # "gone"
    /\ Mark(mine[p], "running")
    /\ aged' \in {aged, aged \ {mine[p]}}
    /\ UNCHANGED <<collectNow, cooling, pc, mine, crashes, failures>>

CompleteJob(p) ==
    /\ pc[p] = "import"
    /\ status[mine[p]] # "gone"
    /\ Mark(mine[p], "completed")
    /\ Hold(p, 0)
    /\ Go(p, "idle")
    /\ UNCHANGED <<aged, collectNow, cooling, crashes, failures>>

(* The handler of lines 276-301: the job is pending again, then the        *)
(* cooldown is set, then the setting is written, each with its own commit. *)
FailCollect(p) ==
    /\ pc[p] = "import"
    /\ status[mine[p]] # "gone"
    /\ failures < MaxFailures
    /\ failures' = failures + 1
    /\ Mark(mine[p], "pending")
    /\ Go(p, "cool")
    /\ UNCHANGED <<aged, collectNow, cooling, mine, crashes>>

SetCooldown(p) ==
    /\ pc[p] = "cool"
    /\ cooling' = TRUE
    /\ Go(p, "requeue")
    /\ UNCHANGED <<table, collectNow, mine, crashes, failures>>

FlagRetry(p) ==
    /\ pc[p] = "requeue"
    /\ collectNow' = mine[p]
    /\ Hold(p, 0)
    /\ Go(p, "idle")
    /\ UNCHANGED <<table, cooling, crashes, failures>>

(* The flush fails in the handler as well: the job stays failed. *)
FailForGood(p) ==
    /\ pc[p] = "import"
    /\ status[mine[p]] # "gone"
    /\ failures < MaxFailures
    /\ failures' = failures + 1
    /\ Mark(mine[p], "failed")
    /\ Hold(p, 0)
    /\ Go(p, "idle")
    /\ UNCHANGED <<aged, collectNow, cooling, crashes>>

(* The database goes away: the handlers fail too, the process drops the    *)
(* collect and the job keeps its status.                                   *)
Abandon(p) ==
    /\ pc[p] = "import"
    /\ failures < MaxFailures
    /\ failures' = failures + 1
    /\ Hold(p, 0)
    /\ Go(p, "idle")
    /\ UNCHANGED <<table, collectNow, cooling, crashes>>

(* POST /reset-data deletes the jobs; the setting is not cleared. *)
ResetData ==
    /\ Web # {}
    /\ status' = [j \in Jobs |-> IF status[j] = "none" THEN "none" ELSE "gone"]
    /\ UNCHANGED <<aged, collectNow, cooling, pc, mine, crashes, failures>>

Crash(p) ==
    /\ pc[p] # "down"
    /\ p = Scheduler \/ pc[p] # "idle"
    /\ crashes < MaxCrashes
    /\ crashes' = crashes + 1
    /\ Hold(p, 0)
    /\ Go(p, IF p = Scheduler THEN "down" ELSE "idle")
    /\ UNCHANGED <<table, collectNow, cooling, failures>>

(* mutant: every job that has not failed is made pending *)
Recover_Finished ==
    /\ pc[Scheduler] = "down"
    /\ status' = [j \in Jobs |-> IF status[j] \in {"running", "completed"}
                                THEN "pending" ELSE status[j]]
    /\ Go(Scheduler, "idle")
    /\ UNCHANGED <<aged, collectNow, cooling, mine, crashes, failures>>

(* The scheduler starts again: recover_interrupted_jobs makes every running *)
(* job pending, whoever runs it.                                            *)
Recover ==
    /\ pc[Scheduler] = "down"
    /\ status' = [j \in Jobs |-> IF status[j] = "running" THEN "pending" ELSE status[j]]
    /\ IF With("running") = {}
       THEN Go(Scheduler, "idle") /\ UNCHANGED mine
       ELSE Go(Scheduler, "recovered") /\ Hold(Scheduler, Greatest(With("running")))
    /\ UNCHANGED <<aged, collectNow, cooling, crashes, failures>>

FlagRecovered ==
    /\ pc[Scheduler] = "recovered"
    /\ collectNow' = mine[Scheduler]
    /\ Hold(Scheduler, 0)
    /\ Go(Scheduler, "idle")
    /\ UNCHANGED <<table, cooling, crashes, failures>>

CooldownEnds ==
    /\ cooling
    /\ cooling' = FALSE
    /\ UNCHANGED <<table, collectNow, pc, mine, crashes, failures>>

(* Two hours without a row, or a day, have passed since started_at. *)
Age(j) ==
    /\ status[j] = "running"
    /\ aged' = aged \cup {j}
    /\ UNCHANGED <<status, collectNow, cooling, pc, mine, crashes, failures>>

Request(p) == AskRunning(p) \/ AskPending(p) \/ InsertJob(p) \/ FlagJob(p)

Collect(p) ==
    \/ Guard(p) \/ CreateJob(p) \/ JobDeleted(p) \/ StartJob(p) \/ StorePage(p)
    \/ CompleteJob(p) \/ FailCollect(p) \/ SetCooldown(p) \/ FlagRetry(p)
    \/ FailForGood(p) \/ Abandon(p)

Consume == TickCooling \/ Poll \/ PickPending \/ ClearFlag

Restart == Recover \/ FlagRecovered

Next ==
    \/ \E p \in Procs : Request(p) \/ Collect(p) \/ Crash(p)
    \/ Consume
    \/ Restart
    \/ ResetData
    \/ CooldownEnds
    \/ \E j \in Jobs : Age(j)

(* The scheduler's loop never stops and compose restarts it; a collect ends *)
(* (CrawlCursor, Terminates), so its process reaches the end of it; time    *)
(* passes.  Nobody has to post a request or run a command.                  *)
Fairness ==
    /\ WF_vars(Request(Scheduler) \/ Consume \/ Restart)
    /\ \A p \in Procs :
        /\ WF_vars(pc[p] # "idle" /\ (Request(p) \/ Collect(p)))
        /\ WF_vars(CompleteJob(p) \/ FailCollect(p) \/ FailForGood(p) \/ JobDeleted(p))
    /\ WF_vars(CooldownEnds)
    /\ \A j \in Jobs : WF_vars(Age(j))

Spec == Init /\ [][Next]_vars /\ Fairness

----------------------------------------------------------------------------
Typed ==
    /\ status \in [Jobs -> {"none", "pending", "running", "failed", "completed", "gone"}]
    /\ aged \subseteq Jobs
    /\ collectNow \in Jobs \cup {0}
    /\ cooling \in BOOLEAN
    /\ pc \in [Procs -> {"idle", "asked", "insert", "flag", "tick", "polled",
                         "picked", "guard", "create", "start", "import",
                         "cool", "requeue", "down", "recovered"}]
    /\ mine \in [Procs -> Jobs \cup {0}]
    /\ crashes \in 0..MaxCrashes
    /\ failures \in 0..MaxFailures

(* Type invariant: the statuses a row of import_jobs takes, the places      *)
(* between two commits where a process may stand, and that it has a job at  *)
(* hand, one that was created, at just those places where it works on one.  *)
Holding == {"flag", "picked", "guard", "start", "import", "cool", "requeue", "recovered"}
TypeOK ==
    /\ Typed
    /\ \A p \in Procs : mine[p] # 0 <=> pc[p] \in Holding
    /\ \A p \in Procs : mine[p] # 0 => status[mine[p]] # "none"

Importing(p) == pc[p] = "import"

(* Requests that race insert jobs twice, but never more open jobs than the *)
(* processes that can insert one: repeated clicks do not pile up.  That is *)
(* so while nobody runs flask import-crawl, whose collects each leave a    *)
(* pending job when they fail.                                             *)
OpenJobsBounded == Cardinality(Open) <= Cardinality(Procs)

(* No two processes store the rows of one job, unless the scheduler has    *)
(* been restarted, which makes the jobs of live commands pending too.      *)
OneWorkerUntilRestart ==
    crashes = 0 =>
        \A p, q \in Procs : Importing(p) /\ Importing(q) /\ mine[p] = mine[q] => p = q

(* A completed job is history: nothing opens it again, neither a late page  *)
(* nor a recovery.  The one exception is a restart of the scheduler beside  *)
(* flask import-crawl, which gives the running job of the command to the    *)
(* scheduler as well: of two that have a job at hand, the second may go on  *)
(* after the first has completed it.                                        *)
Shared(j) ==
    /\ Commands # {} /\ crashes > 0
    /\ \E p \in Procs : mine[p] = j /\ pc[p] \in {"start", "import"}
CompletedIsFinal ==
    [][\A j \in Jobs :
        status[j] = "completed" => status'[j] \in {"completed", "gone"} \/ Shared(j)]_vars

(* Every queued job is taken, behind cooldowns and restarts and whatever   *)
(* else is queued, and no job stays running for ever, though its process   *)
(* may have died.                                                          *)
JobsGoOn ==
    \A j \in Jobs :
        /\ status[j] = "pending" ~> status[j] # "pending"
        /\ status[j] = "running" ~> status[j] # "running"
=============================================================================
