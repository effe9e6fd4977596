--------------------------- MODULE SchedulerClock ---------------------------
(***************************************************************************)
(* When the scheduler (apps/scheduler.py) does what it does: the daily     *)
(* collect of midnight, the cooldown after a collect that failed and the   *)
(* pace of the requests to the crawl API.  Which job it takes and what it  *)
(* does with the rows is in CollectJobs and CrawlImport.                   *)
(*                                                                         *)
(* Time is a clock of one day and the time left of every delay, so that    *)
(* days go on without end.  The unit is the shortest sleep.  The process   *)
(* takes no time for a step, and any time for a request to the crawl API.  *)
(***************************************************************************)
EXTENDS Integers

CONSTANTS
    Day,
    Poll,               \* POLL_SECONDS
    CoolingPoll,        \* COOLDOWN_POLL_SECONDS
    ErrorRetry,         \* ERROR_RETRY_SECONDS
    PageDelay,          \* REQUEST_INTERVAL_SECONDS
    ErrorDelay,         \* ERROR_INTERVAL_SECONDS
    Cooldown,           \* DEFAULT_COOLDOWN_SECONDS
    Retries             \* retries of _get_with_retry

ASSUME DelaysAssumption ==
    /\ {Day, Poll, CoolingPoll, ErrorRetry, PageDelay, ErrorDelay, Cooldown} \subseteq Nat \ {0}
    /\ ErrorDelay <= PageDelay /\ PageDelay <= Cooldown /\ Retries \in Nat

VARIABLES
    clock,          \* time of the day, 0 at midnight in Seoul
    pc,
    nap,            \* what is left of time.sleep
    due,            \* time until nxt, 0 once it has come
    cool,           \* crawl_cooldown_remaining
    job,            \* the open job, and whether it is pending or running
    narrow,         \* crawl_page_limit is below the full page
    tries,          \* retries of the request
    since,          \* time since the last request, up to PageDelay
    unpaced,        \* a collect was cut off or completed since that request
    asked,          \* the daily collect has been asked for since midnight
    stayed          \* the scheduler has been in its loop since before midnight

delays == <<clock, nap, due, cool, since>>
collect == <<job, narrow, tries, unpaced>>
vars == <<delays, pc, collect, asked, stayed>>

Lesser(a, b) == IF a < b THEN a ELSE b
Greater(a, b) == IF a > b THEN a ELSE b

Collecting == pc \in {"send", "fetch", "pause"}
Sleeping == pc \in {"sleep", "retry", "pause", "await"}

(* next_midnight_kst: always after now. *)
UntilMidnight_Ceil == (Day - clock) % Day       \* mutant: midnight itself counts
UntilMidnight == Day - clock

----------------------------------------------------------------------------
Init ==
    /\ clock \in 0..(Day - 1)
    /\ pc = "recover" /\ nap = 0 /\ due = Day /\ cool = 0
    /\ job = "none" /\ narrow = FALSE /\ tries = 0
    /\ since = PageDelay /\ unpaced = TRUE /\ asked = FALSE /\ stayed = FALSE

(* main: the jobs a killed process left are pending again, without a       *)
(* cooldown, and nxt is computed.  While the database fails it tries again.*)
Recover ==
    /\ pc = "recover"
    /\ pc' = "check"
    /\ job' = IF job = "running" THEN "pending" ELSE job
    /\ due' = UntilMidnight
    /\ UNCHANGED <<clock, nap, cool, since, narrow, tries, unpaced, asked, stayed>>

RecoverFails ==
    /\ pc = "recover"
    /\ pc' = "await" /\ nap' = ErrorRetry
    /\ UNCHANGED <<clock, due, cool, since, collect, asked, stayed>>

(* The loop: past nxt the daily collect is asked for, which leaves an open *)
(* job as it is.                                                           *)
QueueDaily ==
    /\ pc = "check" /\ due = 0
    /\ pc' = "tick"
    /\ job' = IF job = "none" THEN "pending" ELSE job
    /\ due' = UntilMidnight
    /\ asked' = TRUE
    /\ UNCHANGED <<clock, nap, cool, since, narrow, tries, unpaced, stayed>>

QueueFails ==
    /\ pc = "check" /\ due = 0
    /\ pc' = "retry" /\ nap' = ErrorRetry
    /\ UNCHANGED <<clock, due, cool, since, collect, asked, stayed>>

NotDue_Anew ==                          \* mutant: nxt is computed in every turn of the loop
    /\ pc = "check"
    /\ pc' = "tick" /\ due' = UntilMidnight
    /\ UNCHANGED <<clock, nap, cool, since, collect, asked, stayed>>
NotDue ==
    /\ pc = "check" /\ due # 0
    /\ pc' = "tick"
    /\ UNCHANGED <<delays, collect, asked, stayed>>

(* The end of a turn: time.sleep(max(1, min(wait, until_next))). *)
Sleep_Whole(wait) == pc' = "sleep" /\ nap' = wait                       \* mutant
Sleep(wait) == pc' = "sleep" /\ nap' = Greater(1, Lesser(wait, due))

(* tick *)
TickCooling ==
    /\ pc = "tick" /\ cool # 0
    /\ Sleep(Lesser(CoolingPoll, cool))
    /\ UNCHANGED <<clock, due, cool, since, collect, asked, stayed>>

TickIdle ==
    /\ pc = "tick" /\ cool = 0 /\ job # "pending"
    /\ Sleep(Poll)
    /\ UNCHANGED <<clock, due, cool, since, collect, asked, stayed>>

TickFails ==
    /\ pc = "tick"
    /\ Sleep(ErrorRetry)
    /\ UNCHANGED <<clock, due, cool, since, collect, asked, stayed>>

TakeJob ==
    /\ pc = "tick" /\ cool = 0 /\ job = "pending"
    /\ pc' = "send" /\ job' = "running" /\ tries' = 0
    /\ UNCHANGED <<delays, narrow, unpaced, asked, stayed>>

----------------------------------------------------------------------------
(* The collect: a request, its answer, a delay and the next request.  The  *)
(* first one comes without a delay.                                        *)
Send ==
    /\ pc = "send"
    /\ pc' = "fetch" /\ since' = 0 /\ unpaced' = FALSE
    /\ UNCHANGED <<clock, nap, due, cool, job, narrow, tries, asked, stayed>>

Delay(small) == IF small THEN ErrorDelay ELSE PageDelay

Pause(small) == pc' = "pause" /\ nap' = Delay(small)

(* A page, after which a narrow one is doubled, maybe to the full page. *)
Page ==
    /\ pc = "fetch"
    /\ narrow' \in {FALSE, narrow} /\ tries' = 0
    /\ Pause(narrow')
    /\ UNCHANGED <<clock, due, cool, since, job, unpaced, asked, stayed>>

(* HTTP 500: the page is narrowed, or the skipped zone probed. *)
Narrow ==
    /\ pc = "fetch"
    /\ narrow' = TRUE /\ tries' = 0
    /\ Pause(TRUE)
    /\ UNCHANGED <<clock, due, cool, since, job, unpaced, asked, stayed>>

(* A transient failure: the same request again, not before the delay. *)
Retry ==
    /\ pc = "fetch" /\ tries < Retries
    /\ tries' = tries + 1
    /\ Pause(narrow)
    /\ UNCHANGED <<clock, due, cool, since, job, narrow, unpaced, asked, stayed>>

(* The collect fails: the job is pending again and the cooldown runs. *)
Fail_NoCooldown(wait) ==                \* mutant
    /\ pc = "fetch"
    /\ job' = "pending"
    /\ Sleep(Poll)
    /\ UNCHANGED <<clock, due, cool, since, narrow, tries, unpaced, asked, stayed>>
Fail(wait) ==
    /\ pc = "fetch"
    /\ job' = "pending" /\ cool' = wait
    /\ Sleep(Poll)
    /\ UNCHANGED <<clock, due, since, narrow, tries, unpaced, asked, stayed>>

(* The last page.  The page limit is cleared. *)
Complete ==
    /\ pc = "fetch"
    /\ job' = "none" /\ narrow' = FALSE /\ unpaced' = TRUE
    /\ Sleep(Poll)
    /\ UNCHANGED <<clock, due, cool, since, tries, asked, stayed>>

(* The database fails: the job stays running, and no cooldown is set. *)
LoseDatabase ==
    /\ pc = "fetch"
    /\ unpaced' = TRUE
    /\ Sleep(ErrorRetry)
    /\ UNCHANGED <<clock, due, cool, since, job, narrow, tries, asked, stayed>>

Wake ==
    /\ Sleeping /\ nap = 0
    /\ pc' = CASE pc = "pause" -> "send" [] pc = "await" -> "recover" [] OTHER -> "check"
    /\ UNCHANGED <<delays, collect, asked, stayed>>

----------------------------------------------------------------------------
(* An administrator asks for a collect. *)
Request ==
    /\ job = "none"
    /\ job' = "pending"
    /\ UNCHANGED <<delays, pc, narrow, tries, unpaced, asked, stayed>>

(* A job no process runs expires (fail_stale_running_jobs). *)
Expire ==
    /\ job = "running" /\ ~Collecting
    /\ job' = "none"
    /\ UNCHANGED <<delays, pc, narrow, tries, unpaced, asked, stayed>>

Crash ==
    /\ pc # "down"
    /\ pc' = "down" /\ nap' = 0 /\ tries' = 0
    /\ unpaced' = (unpaced \/ Collecting)
    /\ stayed' = FALSE
    /\ UNCHANGED <<clock, due, cool, since, job, narrow, asked>>

Start ==
    /\ pc = "down"
    /\ pc' = "recover"
    /\ UNCHANGED <<delays, collect, asked, stayed>>

Midnight == clock = Day - 1

(* Time passes while the process sleeps, is down or waits for an answer. *)
Less(t) == Greater(t - 1, 0)
Pass ==
    /\ \/ Sleeping /\ nap # 0
       \/ pc \in {"down", "fetch"}
    /\ clock' = IF Midnight THEN 0 ELSE clock + 1
    /\ nap' = Less(nap) /\ due' = Less(due) /\ cool' = Less(cool)
    /\ since' = Lesser(since + 1, PageDelay)
    /\ asked' = (asked /\ ~Midnight)
    /\ stayed' = IF Midnight THEN pc \notin {"down", "recover", "await"} ELSE stayed
    /\ UNCHANGED <<pc, collect>>

Loop ==
    \/ Recover \/ QueueDaily \/ NotDue \/ TickCooling \/ TickIdle \/ TakeJob
    \/ Send \/ Page \/ Narrow \/ Retry \/ Complete \/ Wake
    \/ \E wait \in {PageDelay, Cooldown} : Fail(wait)

Faults == RecoverFails \/ QueueFails \/ TickFails \/ LoseDatabase \/ Crash

Next == Loop \/ Faults \/ Start \/ Request \/ Expire \/ Pass

(* The process runs, time passes, and Docker starts it again. *)
Spec == Init /\ [][Next]_vars /\ WF_vars(Loop) /\ WF_vars(Start) /\ WF_vars(Pass)

----------------------------------------------------------------------------
Times ==
    /\ clock \in 0..(Day - 1)
    /\ nap \in Nat
    /\ due \in 0..Day
    /\ cool \in 0..Cooldown
    /\ tries \in 0..Retries
    /\ since \in 0..PageDelay

Flags ==
    /\ pc \in {"down", "recover", "await", "check", "retry", "tick", "sleep",
               "send", "fetch", "pause"}
    /\ job \in {"none", "pending", "running"}
    /\ narrow \in BOOLEAN /\ unpaced \in BOOLEAN /\ asked \in BOOLEAN /\ stayed \in BOOLEAN
    /\ Collecting => job = "running"

TypeOK == Times /\ Flags

(* Through crashes and restarts the daily collect is asked for once a day. *)
OncePerMidnight == [][pc = "check" /\ due' > due => ~asked]_pc

(* A day goes by without it only if the scheduler came up after its        *)
(* midnight, or was still collecting or failing to ask when it ended, or   *)
(* had stopped collecting no longer than the shortest sleep before.        *)
MissedOnlyWhileAway ==
    [][Midnight /\ ~asked /\ stayed =>
        Collecting \/ pc = "retry" \/ (pc = "sleep" /\ due = 0 /\ nap = 1)]_clock

(* A scheduler that sleeps has not slept through midnight: the collect it  *)
(* has not asked for yet comes with the shortest sleep.                    *)
MidnightPunctual == pc = "sleep" /\ stayed /\ ~asked => nap <= 1

(* Two requests are a page delay apart, or an error delay while the page   *)
(* is narrow, within one collect, its retries, and the next collect after  *)
(* one that failed (settings.html: one request in ten minutes).  Requests  *)
(* come closer only after a collect that completed or was cut off.         *)
RequestsPaced == [][pc = "send" /\ pc' = "fetch" => since >= Delay(narrow) \/ unpaced]_pc

(* No request is sent during the cooldown, through restarts too. *)
CooldownKept == Collecting => cool = 0

(* As long as the scheduler is up, its questions are answered and collects *)
(* come to an end, the daily collect is asked for again and again.         *)
DailyGoesOn ==
    (<>[](pc \notin {"down", "retry"}) /\ []<>(pc = "sleep")) => []<>asked
=============================================================================
