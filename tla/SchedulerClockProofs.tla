------------------------ MODULE SchedulerClockProofs ------------------------
(***************************************************************************)
(* ClockInv is an invariant of SchedulerClock, and the pace of requests,   *)
(* the cooldown and the daily collect of each midnight follow from it, for *)
(* every length of the day and of the delays.                              *)
(***************************************************************************)
EXTENDS SchedulerClock, TLAPS

(* The inductive invariant.  The process is in its loop: *)
Up == pc \notin {"down", "recover", "await"}

(* A request may be sent once the delay, or a cooldown not shorter than    *)
(* it, is over.                                                            *)
Paced ==
    /\ pc = "pause" => since + nap >= Delay(narrow) /\ ~unpaced
    /\ pc = "send" => since >= Delay(narrow) \/ unpaced
    /\ pc = "fetch" => ~unpaced
    /\ ~Collecting => since + cool >= PageDelay \/ unpaced

(* nxt is the coming midnight, or has come.  It has come if there was a    *)
(* midnight for which the daily collect has not been asked for.            *)
Dated ==
    /\ Up => due = 0 \/ due = Day - clock
    /\ Up /\ asked => due = Day - clock
    /\ stayed => Up
    /\ stayed /\ ~asked => due = 0

(* The sleep of the loop ends no later than nxt, or is the shortest one. *)
Wakeful == pc = "sleep" => nap <= 1 \/ nap <= due

ClockInv == TypeOK /\ CooldownKept /\ Paced /\ Dated /\ Wakeful

----------------------------------------------------------------------------
(* The delays are numbers, ErrorDelay the shortest of a collect. *)
LEMMA Positive ==
    /\ Day \in Nat /\ Day > 0 /\ Poll \in Nat /\ Poll > 0
    /\ CoolingPoll \in Nat /\ CoolingPoll > 0 /\ ErrorRetry \in Nat /\ ErrorRetry > 0
    /\ ErrorDelay \in Nat /\ ErrorDelay > 0 /\ PageDelay \in Nat /\ ErrorDelay <= PageDelay
    /\ Cooldown \in Nat /\ PageDelay <= Cooldown /\ Retries \in Nat
  BY DelaysAssumption

(* The scheduler starts at some time of the day. *)
LEMMA InvInit == Init => ClockInv
<1> SUFFICES ASSUME Init PROVE ClockInv
  OBVIOUS
<1>1. Times
  BY Positive DEF Init, Times
<1>2. Flags
  BY DEF Init, Flags, Collecting
<1>3. CooldownKept /\ Paced /\ Dated /\ Wakeful
  BY Positive DEF Init, CooldownKept, Paced, Dated, Wakeful, Collecting, Up
<1> QED
  BY <1>1, <1>2, <1>3 DEF ClockInv, TypeOK

(* The values that are not times. *)
LEMMA FlagsNext == Flags /\ [Next]_vars => Flags'
<1> SUFFICES ASSUME Flags, [Next]_vars PROVE Flags'
  OBVIOUS
<1> USE DEF Flags, Collecting, delays, collect
<1>1. CASE Recover
  BY <1>1 DEF Recover
<1>2. CASE QueueDaily
  BY <1>2 DEF QueueDaily
<1>3. CASE NotDue
  BY <1>3 DEF NotDue
<1>4. CASE TickCooling
  BY <1>4 DEF TickCooling, Sleep
<1>5. CASE TickIdle
  BY <1>5 DEF TickIdle, Sleep
<1>6. CASE TakeJob
  BY <1>6 DEF TakeJob
<1>7. CASE Send
  BY <1>7 DEF Send
<1>8. CASE Page
  BY <1>8 DEF Page, Pause
<1>9. CASE Narrow
  BY <1>9 DEF Narrow, Pause
<1>10. CASE Retry
  BY <1>10 DEF Retry, Pause
<1>11. CASE Complete
  BY <1>11 DEF Complete, Sleep
<1>12. CASE Wake
  BY <1>12 DEF Wake, Sleeping
<1>13. CASE \E wait \in {PageDelay, Cooldown} : Fail(wait)
  BY <1>13 DEF Fail, Sleep
<1>14. CASE RecoverFails
  BY <1>14 DEF RecoverFails
<1>15. CASE QueueFails
  BY <1>15 DEF QueueFails
<1>16. CASE TickFails
  BY <1>16 DEF TickFails, Sleep
<1>17. CASE LoseDatabase
  BY <1>17 DEF LoseDatabase, Sleep
<1>18. CASE Crash
  BY <1>18 DEF Crash
<1>19. CASE Start
  BY <1>19 DEF Start
<1>20. CASE Request
  BY <1>20 DEF Request
<1>21. CASE Expire
  BY <1>21 DEF Expire
<1>22. CASE Pass
  BY <1>22 DEF Pass, Sleeping, Midnight
<1>23. CASE UNCHANGED vars
  BY <1>23 DEF vars
<1> QED
  BY <1>1, <1>2, <1>3, <1>4, <1>5, <1>6, <1>7, <1>8, <1>9, <1>10, <1>11, <1>12,
     <1>13, <1>14, <1>15, <1>16, <1>17, <1>18, <1>19, <1>20, <1>21, <1>22,
     <1>23 DEF Next, Loop, Faults

(* Every step keeps the clock and what depends on it. *)
LEMMA TimesNext ==
    ASSUME ClockInv, [Next]_vars
    PROVE  Times' /\ CooldownKept' /\ Paced' /\ Dated' /\ Wakeful'
<1> USE Positive
      DEF ClockInv, TypeOK, Times, Flags, CooldownKept, Paced, Dated, Wakeful, Collecting, Up,
          delays, collect, Delay, UntilMidnight
<1>1. CASE Recover
  BY <1>1 DEF Recover
<1>2. CASE QueueDaily
  BY <1>2 DEF QueueDaily
<1>3. CASE NotDue
  BY <1>3 DEF NotDue
<1>4. CASE TickCooling
  BY <1>4 DEF TickCooling, Sleep, Greater, Lesser
<1>5. CASE TickIdle
  BY <1>5 DEF TickIdle, Sleep, Greater, Lesser
<1>6. CASE TakeJob
  BY <1>6 DEF TakeJob
<1>7. CASE Send
  BY <1>7 DEF Send
<1>8. CASE Page
  BY <1>8 DEF Page, Pause
<1>9. CASE Narrow
  BY <1>9 DEF Narrow, Pause
<1>10. CASE Retry
  BY <1>10 DEF Retry, Pause
<1>11. CASE Complete
  BY <1>11 DEF Complete, Sleep, Greater, Lesser
<1>12. CASE Wake
  BY <1>12 DEF Wake, Sleeping
<1>13. CASE \E wait \in {PageDelay, Cooldown} : Fail(wait)
  BY <1>13 DEF Fail, Sleep, Greater, Lesser
<1>14. CASE RecoverFails
  BY <1>14 DEF RecoverFails
<1>15. CASE QueueFails
  BY <1>15 DEF QueueFails
<1>16. CASE TickFails
  BY <1>16 DEF TickFails, Sleep, Greater, Lesser
<1>17. CASE LoseDatabase
  BY <1>17 DEF LoseDatabase, Sleep, Greater, Lesser
<1>18. CASE Crash
  <2>1. Times' /\ CooldownKept'
    BY <1>18 DEF Crash
  <2>2. Paced'
    <3>1. since' + cool' >= PageDelay \/ unpaced'
      <4>1. since + cool >= PageDelay \/ unpaced \/ Collecting
        BY DEF ClockInv, Paced
      <4> QED
        BY <1>18, <4>1 DEF Crash
    <3> QED
      BY <1>18, <3>1 DEF Crash
  <2>3. Dated' /\ Wakeful'
    BY <1>18 DEF Crash
  <2> QED
    BY <2>1, <2>2, <2>3
<1>19. CASE Start
  BY <1>19 DEF Start
<1>20. CASE Request
  BY <1>20 DEF Request
<1>21. CASE Expire
  BY <1>21 DEF Expire
<1>22. CASE Pass
  <2>1. Times'
    BY <1>22 DEF Pass, Less, Greater, Lesser, Midnight
  <2>2. CooldownKept'
    BY <1>22 DEF Pass, Less, Greater
  <2>3. Paced'
    BY <1>22 DEF Pass, Less, Greater, Lesser, Sleeping
  <2>4. Dated'
    <3>1. Up => due' = 0 \/ due' = Day - clock'
      BY <1>22 DEF Pass, Less, Greater, Midnight
    <3>2. Up' = Up
      BY <1>22 DEF Pass
    <3>3. CASE Midnight
      <4>1. Up => due' = 0
        BY <1>22, <3>3 DEF Pass, Less, Greater, Midnight
      <4>2. ~asked'
        BY <1>22, <3>3 DEF Pass
      <4>3. stayed' => Up
        BY <1>22, <3>3 DEF Pass
      <4> HIDE DEF Up
      <4> QED
        BY <3>2, <4>1, <4>2, <4>3
    <3>4. CASE ~Midnight
      BY <1>22, <3>1, <3>2, <3>4 DEF Pass, Less, Greater, Midnight
    <3> QED
      BY <3>3, <3>4
  <2>5. Wakeful'
    BY <1>22 DEF Pass, Less, Greater, Sleeping
  <2> QED
    BY <2>1, <2>2, <2>3, <2>4, <2>5
<1>23. CASE UNCHANGED vars
  BY <1>23 DEF vars
<1> QED
  BY <1>1, <1>2, <1>3, <1>4, <1>5, <1>6, <1>7, <1>8, <1>9, <1>10, <1>11, <1>12,
     <1>13, <1>14, <1>15, <1>16, <1>17, <1>18, <1>19, <1>20, <1>21, <1>22,
     <1>23 DEF Next, Loop, Faults

(* Every step preserves the inductive invariant. *)
LEMMA InvNext == ClockInv /\ [Next]_vars => ClockInv'
  BY FlagsNext, TimesNext DEF ClockInv, TypeOK

(* The clock is right in all reachable states. *)
LEMMA ClockInvariant == Spec => []ClockInv
  BY InvInit, InvNext, PTL DEF Spec

----------------------------------------------------------------------------
(* The types of SchedulerClock. *)
THEOREM TypeCorrect == Spec => []TypeOK
<1>1. ClockInv => TypeOK
  BY DEF ClockInv
<1> QED
  BY <1>1, ClockInvariant, PTL

(* No request is sent before the cooldown after a failed collect is over.  *)
THEOREM KeepsCooldown == Spec => []CooldownKept
<1>1. ClockInv => CooldownKept
  BY DEF ClockInv
<1> QED
  BY <1>1, ClockInvariant, PTL

(* time.sleep of the loop does not go past the midnight it waits for.      *)
THEOREM Punctual == Spec => []MidnightPunctual
<1>1. ClockInv => MidnightPunctual
  BY Positive DEF ClockInv, MidnightPunctual, Wakeful, Dated, TypeOK, Times
<1> QED
  BY <1>1, ClockInvariant, PTL

(* page_delay and error_delay are kept, within a collect and by the        *)
(* cooldown between one that fails and the next.                           *)
THEOREM PaceKept == Spec => RequestsPaced
<1>1. ClockInv => (pc = "send" /\ pc' = "fetch" => since >= Delay(narrow) \/ unpaced)
  BY DEF ClockInv, Paced
<1> QED
  BY <1>1, ClockInvariant, PTL DEF RequestsPaced

(* main asks for one daily collect after each midnight, whatever restarts. *)
THEOREM OnceADay == Spec => OncePerMidnight
<1>1. ClockInv /\ [Next]_vars => (pc = "check" /\ due' > due => ~asked)
  <2> SUFFICES ASSUME ClockInv, [Next]_vars, pc = "check", due' > due PROVE ~asked
    OBVIOUS
  <2>1. due = 0
    BY Positive
    DEF ClockInv, TypeOK, Times, Next, Loop, Faults, vars, delays, Recover, QueueDaily, NotDue,
        TickCooling, TickIdle, TakeJob, Send, Page, Narrow, Retry, Complete, Wake, Fail,
        RecoverFails, QueueFails, TickFails, LoseDatabase, Crash, Start, Request, Expire,
        Pass, Sleeping
  <2>2. ~(due = Day - clock)
    BY <2>1, Positive DEF ClockInv, TypeOK, Times
  <2> QED
    BY <2>2 DEF ClockInv, Dated, Up
<1> QED
  BY <1>1, ClockInvariant, PTL DEF Spec, OncePerMidnight

(* A midnight of a scheduler that is up goes by without a daily collect    *)
(* only while a collect or a failing database keeps it from its loop.      *)
THEOREM MissesOnlyAway == Spec => MissedOnlyWhileAway
<1>1. ClockInv /\ [Next]_vars =>
        [Midnight /\ ~asked /\ stayed =>
            Collecting \/ pc = "retry" \/ (pc = "sleep" /\ due = 0 /\ nap = 1)]_clock
  <2> SUFFICES ASSUME ClockInv, [Next]_vars, clock' # clock, ~asked, stayed
               PROVE  Collecting \/ pc = "retry" \/ (pc = "sleep" /\ due = 0 /\ nap = 1)
    OBVIOUS
  <2>1. Pass
    BY DEF Next, Loop, Faults, vars, delays, Recover, QueueDaily, NotDue, TickCooling, TickIdle,
           TakeJob, Send, Page, Narrow, Retry, Complete, Wake, Fail, RecoverFails, QueueFails,
           TickFails, LoseDatabase, Crash, Start, Request, Expire
  <2> QED
    BY <2>1 DEF ClockInv, TypeOK, Times, Dated, Wakeful, Up, Pass, Sleeping, Collecting
<1> QED
  BY <1>1, ClockInvariant, PTL DEF Spec, MissedOnlyWhileAway
=============================================================================
