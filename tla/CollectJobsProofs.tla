-------------------------- MODULE CollectJobsProofs --------------------------
(***************************************************************************)
(* That a job has one worker and a completed job stays completed until a   *)
(* restart meets a command, and that, unless commands run, there are no    *)
(* more open jobs than processes, for any number of web workers, commands, *)
(* jobs, crashes and failures.                                             *)
(***************************************************************************)
EXTENDS CollectJobs, FiniteSetTheorems, WellFoundedInduction, TLAPS

(* What a process of each kind does, and when it holds a job. *)
Placed ==
    /\ \A p \in Web : pc[p] \in {"idle", "asked", "insert", "flag"}
    /\ \A p \in Commands : pc[p] \in {"idle", "create", "import", "cool", "requeue"}
    /\ pc[Scheduler] # "create"
    /\ \A p \in Procs : mine[p] # 0 <=> pc[p] \in Holding

(* An id is left for each process that is about to create a job. *)
Created == {j \in Jobs : status[j] # "none"}
Creating == {p \in Procs : pc[p] \in {"asked", "insert", "create"}}
Counted == Cardinality(Created) + Cardinality(Creating) <= MaxJobs

Known == \A p \in Procs : mine[p] # 0 => status[mine[p]] # "none"

(* Until a restart nobody but its own command makes the job of a command   *)
(* pending, so the scheduler does not take it.                             *)
Working == {"picked", "guard", "start", "import"}
Apart ==
    crashes = 0 =>
        /\ pc[Scheduler] \notin {"down", "recovered"}
        /\ \A c \in Commands : Importing(c) =>
                /\ status[mine[c]] # "pending"
                /\ pc[Scheduler] \in Working => mine[c] # mine[Scheduler]
        /\ \A c, d \in Commands : Importing(c) /\ Importing(d) /\ mine[c] = mine[d] => c = d

JobsInv == Typed /\ Placed /\ Counted /\ Known /\ Apart

(* Whoever completes a job lets go of it, and nobody else has it at hand.  *)
Unfinished ==
    Commands = {} \/ crashes = 0 =>
        \A p \in Procs : pc[p] \in Working => status[mine[p]] # "completed"

(* Without commands at most one job runs, and none while the scheduler is  *)
(* about to take or to insert one.                                         *)
Alone ==
    Commands = {} =>
        /\ \A i, j \in With("running") : i = j
        /\ pc[Scheduler] \in {"asked", "insert", "polled", "picked", "guard", "start"}
                => With("running") = {}
        /\ pc[Scheduler] = "import" => With("running") \subseteq {mine[Scheduler]}
        /\ pc[Scheduler] \in {"picked", "guard", "start"}
                => status[mine[Scheduler]] \in {"pending", "gone"}

(* The job that is being imported may be open again with the next page,    *)
(* though it has expired meanwhile.                                        *)
Alive ==
    Open \cup {j \in Jobs : pc[Scheduler] = "import" /\ mine[Scheduler] = j /\ status[j] # "gone"}
Inserting == {p \in Procs : pc[p] = "insert"}
Bounded == Commands = {} => Cardinality(Alive) + Cardinality(Inserting) <= Cardinality(Procs)

----------------------------------------------------------------------------
(* A nonempty set of jobs has a greatest one. *)
LEMMA GreatestOf ==
    ASSUME NEW S \in SUBSET Jobs, S # {}
    PROVE  Greatest(S) \in S /\ \A i \in S : i <= Greatest(S)
<1> DEFINE Distances == {MaxJobs - j : j \in S}
<1>1. Distances \subseteq Nat /\ Distances # {}
  BY MaxAssumption DEF Jobs
<1>2. PICK d \in Distances : \A e \in Distances : <<e, d>> \notin OpToRel(<, Nat)
  BY <1>1, NatLessThanWellFounded, WFMin
<1>3. \A e \in Distances : ~(e < d)
  BY <1>1, <1>2 DEF OpToRel
<1>4. PICK j \in S : d = MaxJobs - j
  OBVIOUS
<1>5. \A i \in S : i <= j
  <2> TAKE i \in S
  <2>1. ~(MaxJobs - i < MaxJobs - j)
    BY <1>3, <1>4
  <2> QED
    BY <2>1, MaxAssumption DEF Jobs
<1> QED
  BY <1>5 DEF Greatest

(* There are finitely many processes and jobs. *)
LEMMA ProcsFinite == IsFiniteSet(Procs) /\ IsFiniteSet(Jobs) /\ Cardinality(Jobs) = MaxJobs
<1>1. IsFiniteSet(Web \cup Commands)
  BY ProcsAssumption, FS_Union
<1>2. IsFiniteSet(Procs)
  BY <1>1, FS_AddElement DEF Procs
<1> QED
  BY <1>2, MaxAssumption, FS_Interval DEF Jobs

(* So the sets that Counted measures are finite. *)
LEMMA CountsAreNumbers ==
    /\ IsFiniteSet(Created) /\ Cardinality(Created) \in Nat
    /\ IsFiniteSet(Creating) /\ Cardinality(Creating) \in Nat
<1>1. Created \subseteq Jobs /\ Creating \subseteq Procs
  BY DEF Created, Creating
<1> QED
  BY <1>1, ProcsFinite, FS_Subset, FS_CardinalityType

(* A process that creates a job gets an id that was never used. *)
LEMMA NewJobIsNew ==
    ASSUME Typed, Counted, Creating # {}
    PROVE  NewJob \in Jobs /\ status[NewJob] = "none"
<1> DEFINE Prefix == {j \in Jobs : \A i \in Jobs : i < j => status[i] # "none"}
<1>1. 1 \in Prefix
  BY MaxAssumption DEF Jobs
<1>2. NewJob \in Prefix /\ \A i \in Prefix : i <= NewJob
  BY <1>1, GreatestOf DEF NewJob
<1>3. SUFFICES ASSUME status[NewJob] # "none" PROVE FALSE
  BY <1>2
<1>4. CASE NewJob < MaxJobs
  <2>1. NewJob + 1 \in Jobs
    BY <1>2, <1>4, MaxAssumption DEF Jobs
  <2>2. NewJob + 1 \in Prefix
    <3>1. ASSUME NEW i \in Jobs, i < NewJob + 1 PROVE status[i] # "none"
      <4>1. i < NewJob \/ i = NewJob
        BY <1>2, <3>1 DEF Jobs
      <4> QED
        BY <1>2, <1>3, <4>1
    <3> QED
      BY <2>1, <3>1
  <2> QED
    BY <1>2, <2>2 DEF Jobs
<1>5. CASE NewJob = MaxJobs
  <2>1. Created = Jobs
    <3>1. ASSUME NEW i \in Jobs PROVE status[i] # "none"
      <4>1. i < MaxJobs \/ i = MaxJobs
        BY MaxAssumption DEF Jobs
      <4> QED
        BY <1>2, <1>3, <1>5, <4>1
    <3> QED
      BY <3>1 DEF Created
  <2>2. Cardinality(Creating) # 0
    BY CountsAreNumbers, FS_EmptySet
  <2> QED
    BY <2>1, <2>2, CountsAreNumbers, ProcsFinite, MaxAssumption DEF Counted
<1> QED
  BY <1>2, <1>4, <1>5, MaxAssumption DEF Jobs

----------------------------------------------------------------------------
(* Every step keeps the types and the places of the processes. *)
LEMMA TypeNext ==
    Typed /\ Placed /\ Counted /\ [Next]_vars => Typed' /\ Placed'
<1> SUFFICES ASSUME Typed, Placed, Counted, [Next]_vars PROVE Typed' /\ Placed'
  OBVIOUS
<1>a. \A S \in SUBSET Jobs : S # {} => Greatest(S) \in Jobs
  BY GreatestOf
<1>b. Creating # {} => NewJob \in Jobs /\ NewJob # 0
  BY NewJobIsNew, MaxAssumption DEF Jobs
<1>c. 0 \notin Jobs
  BY DEF Jobs
<1> USE ProcsAssumption, MaxAssumption, <1>c
      DEF Typed, Placed, Holding, Procs, Go, Hold, Mark, After, ExpireStale, Running, With, table
<1>1. CASE \E p \in Procs : AskRunning(p)
  BY <1>1 DEF AskRunning
<1>2. CASE \E p \in Procs : AskPending(p)
  BY <1>2 DEF AskPending
<1>3. CASE \E p \in Procs : InsertJob(p)
  BY <1>3, <1>b DEF InsertJob, Creating
<1>4. CASE \E p \in Procs : FlagJob(p)
  BY <1>4 DEF FlagJob
<1>5. CASE \E p \in Procs : Guard(p)
  BY <1>5 DEF Guard
<1>6. CASE \E p \in Procs : CreateJob(p)
  BY <1>6, <1>b DEF CreateJob, Creating
<1>7. CASE \E p \in Procs : JobDeleted(p)
  BY <1>7 DEF JobDeleted
<1>8. CASE \E p \in Procs : StartJob(p)
  BY <1>8 DEF StartJob
<1>9. CASE \E p \in Procs : StorePage(p)
  BY <1>9 DEF StorePage
<1>10. CASE \E p \in Procs : CompleteJob(p)
  BY <1>10 DEF CompleteJob
<1>11. CASE \E p \in Procs : FailCollect(p)
  BY <1>11 DEF FailCollect
<1>12. CASE \E p \in Procs : SetCooldown(p)
  BY <1>12 DEF SetCooldown
<1>13. CASE \E p \in Procs : FlagRetry(p)
  BY <1>13 DEF FlagRetry
<1>14. CASE \E p \in Procs : FailForGood(p)
  BY <1>14 DEF FailForGood
<1>15. CASE \E p \in Procs : Abandon(p)
  BY <1>15 DEF Abandon
<1>16. CASE \E p \in Procs : Crash(p)
  BY <1>16 DEF Crash
<1>17. CASE TickCooling
  BY <1>17 DEF TickCooling
<1>18. CASE Poll
  BY <1>18 DEF Poll
<1>19. CASE PickPending
  BY <1>19, <1>a DEF PickPending
<1>20. CASE ClearFlag
  BY <1>20 DEF ClearFlag
<1>21. CASE Recover
  BY <1>21, <1>a DEF Recover
<1>22. CASE FlagRecovered
  BY <1>22 DEF FlagRecovered
<1>23. CASE ResetData
  BY <1>23 DEF ResetData
<1>24. CASE CooldownEnds
  BY <1>24 DEF CooldownEnds
<1>25. CASE \E j \in Jobs : Age(j)
  BY <1>25 DEF Age
<1>26. CASE UNCHANGED vars
  BY <1>26 DEF vars
<1> QED
  BY <1>1, <1>2, <1>3, <1>4, <1>5, <1>6, <1>7, <1>8, <1>9,
     <1>10, <1>11, <1>12, <1>13, <1>14, <1>15, <1>16, <1>17, <1>18,
     <1>19, <1>20, <1>21, <1>22, <1>23, <1>24, <1>25, <1>26
     DEF Next, Request, Collect, Consume, Restart

(* Every step leaves an id for those who are about to create a job. *)
LEMMA CountedNext ==
    Typed /\ Placed /\ Known /\ Counted /\ [Next]_vars => Counted'
<1> SUFFICES ASSUME Typed, Placed, Known, Counted, [Next]_vars PROVE Counted'
  OBVIOUS
<1>a. /\ IsFiniteSet(Created) /\ IsFiniteSet(Created')
      /\ IsFiniteSet(Creating) /\ IsFiniteSet(Creating')
  <2>1. Created' \subseteq Jobs /\ Creating' \subseteq Procs
    BY DEF Created, Creating
  <2> QED
    BY <2>1, CountsAreNumbers, ProcsFinite, FS_Subset
<1>b. /\ Cardinality(Created) \in Nat /\ Cardinality(Created') \in Nat
      /\ Cardinality(Creating) \in Nat /\ Cardinality(Creating') \in Nat
  BY <1>a, FS_CardinalityType
<1>c. ASSUME Created' \subseteq Created, Creating' \subseteq Creating PROVE Counted'
  <2>1. Cardinality(Created') <= Cardinality(Created) /\ Cardinality(Creating') <= Cardinality(Creating)
    BY <1>a, <1>c, FS_Subset
  <2> QED
    BY <1>b, <2>1, MaxAssumption DEF Counted
<1>d. ASSUME Room, NEW p \in Procs, Created' \subseteq Created, Creating' \subseteq Creating \cup {p}
      PROVE  Counted'
  <2>1. Cardinality(Created') <= Cardinality(Created)
    BY <1>a, <1>d, FS_Subset
  <2>2. /\ IsFiniteSet(Creating \cup {p})
        /\ \/ Cardinality(Creating \cup {p}) = Cardinality(Creating)
           \/ Cardinality(Creating \cup {p}) = Cardinality(Creating) + 1
    BY <1>a, FS_AddElement
  <2>3. Cardinality(Creating') <= Cardinality(Creating \cup {p})
    BY <2>2, <1>d, FS_Subset
  <2>4. Cardinality(Created) + Cardinality(Creating) < MaxJobs
    BY <1>d DEF Room, Created, Creating
  <2> QED
    BY <1>b, <2>1, <2>2, <2>3, <2>4, MaxAssumption DEF Counted
<1>e. ASSUME NEW p \in Creating, NEW j \in Jobs, Created' \subseteq Created \cup {j},
             Creating' = Creating \ {p}
      PROVE  Counted'
  <2>1. /\ IsFiniteSet(Created \cup {j})
        /\ \/ Cardinality(Created \cup {j}) = Cardinality(Created)
           \/ Cardinality(Created \cup {j}) = Cardinality(Created) + 1
    BY <1>a, FS_AddElement
  <2>2. Cardinality(Created') <= Cardinality(Created \cup {j})
    BY <2>1, <1>e, FS_Subset
  <2>3. Cardinality(Creating') = Cardinality(Creating) - 1
    BY <1>a, <1>e, FS_RemoveElement
  <2> QED
    BY <1>b, <2>1, <2>2, <2>3, MaxAssumption DEF Counted
<1>f. Creating # {} => NewJob \in Jobs
  BY NewJobIsNew
<1> USE ProcsAssumption
      DEF Typed, Placed, Holding, Known, Procs, Created, Creating,
          Go, Hold, Mark, After, ExpireStale, Running, With, table
<1>1. CASE \E p \in Procs : AskRunning(p)
  <2>1. PICK p \in Procs : AskRunning(p)
    BY <1>1
  <2>2. Created' \subseteq Created /\ Creating' \subseteq Creating \cup {p}
    BY <2>1 DEF AskRunning
  <2>3. Room
    BY <2>1 DEF AskRunning
  <2> QED
    BY <1>d, <2>2, <2>3
<1>2. CASE \E p \in Procs : AskPending(p)
  BY <1>2, <1>c DEF AskPending
<1>3. CASE \E p \in Procs : InsertJob(p)
  <2>1. PICK p \in Procs : InsertJob(p)
    BY <1>3
  <2>2. p \in Creating /\ Creating' = Creating \ {p}
    BY <2>1 DEF InsertJob
  <2>3. Created' \subseteq Created \cup {NewJob}
    BY <2>1 DEF InsertJob
  <2> QED
    BY <1>e, <1>f, <2>2, <2>3
<1>4. CASE \E p \in Procs : FlagJob(p)
  BY <1>4, <1>c DEF FlagJob
<1>5. CASE \E p \in Procs : Guard(p)
  <2>1. PICK p \in Procs : Guard(p)
    BY <1>5
  <2>2. Created' \subseteq Created /\ Creating' \subseteq Creating \cup {p}
    BY <2>1 DEF Guard
  <2>3. CASE Room
    BY <1>d, <2>2, <2>3
  <2>4. CASE pc[p] = "guard"
    <3>1. Creating' \subseteq Creating
      BY <2>1, <2>4 DEF Guard
    <3> QED
      BY <1>c, <2>2, <3>1
  <2> QED
    BY <2>1, <2>3, <2>4 DEF Guard
<1>6. CASE \E p \in Procs : CreateJob(p)
  <2>1. PICK p \in Procs : CreateJob(p)
    BY <1>6
  <2>2. p \in Creating /\ Creating' = Creating \ {p}
    BY <2>1 DEF CreateJob
  <2>3. Created' \subseteq Created \cup {NewJob}
    BY <2>1 DEF CreateJob
  <2> QED
    BY <1>e, <1>f, <2>2, <2>3
<1>7. CASE \E p \in Procs : JobDeleted(p)
  BY <1>7, <1>c DEF JobDeleted
<1>8. CASE \E p \in Procs : StartJob(p)
  BY <1>8, <1>c DEF StartJob
<1>9. CASE \E p \in Procs : StorePage(p)
  BY <1>9, <1>c DEF StorePage
<1>10. CASE \E p \in Procs : CompleteJob(p)
  BY <1>10, <1>c DEF CompleteJob
<1>11. CASE \E p \in Procs : FailCollect(p)
  BY <1>11, <1>c DEF FailCollect
<1>12. CASE \E p \in Procs : SetCooldown(p)
  BY <1>12, <1>c DEF SetCooldown
<1>13. CASE \E p \in Procs : FlagRetry(p)
  BY <1>13, <1>c DEF FlagRetry
<1>14. CASE \E p \in Procs : FailForGood(p)
  BY <1>14, <1>c DEF FailForGood
<1>15. CASE \E p \in Procs : Abandon(p)
  BY <1>15, <1>c DEF Abandon
<1>16. CASE \E p \in Procs : Crash(p)
  BY <1>16, <1>c DEF Crash
<1>17. CASE TickCooling
  BY <1>17, <1>c DEF TickCooling
<1>18. CASE Poll
  BY <1>18, <1>c DEF Poll
<1>19. CASE PickPending
  BY <1>19, <1>c DEF PickPending
<1>20. CASE ClearFlag
  BY <1>20, <1>c DEF ClearFlag
<1>21. CASE Recover
  BY <1>21, <1>c DEF Recover
<1>22. CASE FlagRecovered
  BY <1>22, <1>c DEF FlagRecovered
<1>23. CASE ResetData
  BY <1>23, <1>c DEF ResetData
<1>24. CASE CooldownEnds
  BY <1>24, <1>c DEF CooldownEnds
<1>25. CASE \E j \in Jobs : Age(j)
  BY <1>25, <1>c DEF Age
<1>26. CASE UNCHANGED vars
  BY <1>26, <1>c DEF vars
<1> QED
  BY <1>1, <1>2, <1>3, <1>4, <1>5, <1>6, <1>7, <1>8, <1>9,
     <1>10, <1>11, <1>12, <1>13, <1>14, <1>15, <1>16, <1>17, <1>18,
     <1>19, <1>20, <1>21, <1>22, <1>23, <1>24, <1>25, <1>26
     DEF Next, Request, Collect, Consume, Restart

(* Every step keeps the jobs that processes hold among the created ones. *)
LEMMA KnownNext ==
    Typed /\ Placed /\ Known /\ Counted /\ [Next]_vars => Known'
<1> SUFFICES ASSUME Typed, Placed, Known, Counted, [Next]_vars PROVE Known'
  OBVIOUS
<1>a. \A S \in SUBSET Jobs : S # {} => Greatest(S) \in S
  BY GreatestOf
<1>b. Creating # {} => NewJob \in Jobs
  BY NewJobIsNew
<1> USE ProcsAssumption, MaxAssumption
      DEF Typed, Placed, Holding, Known, Procs, Go, Hold, Mark, After, ExpireStale, Running, With, table
<1>1. CASE \E p \in Procs : AskRunning(p)
  BY <1>1 DEF AskRunning
<1>2. CASE \E p \in Procs : AskPending(p)
  BY <1>2 DEF AskPending
<1>3. CASE \E p \in Procs : InsertJob(p)
  BY <1>3, <1>b DEF InsertJob, Creating
<1>4. CASE \E p \in Procs : FlagJob(p)
  BY <1>4 DEF FlagJob
<1>5. CASE \E p \in Procs : Guard(p)
  BY <1>5 DEF Guard
<1>6. CASE \E p \in Procs : CreateJob(p)
  BY <1>6, <1>b DEF CreateJob, Creating
<1>7. CASE \E p \in Procs : JobDeleted(p)
  BY <1>7 DEF JobDeleted
<1>8. CASE \E p \in Procs : StartJob(p)
  BY <1>8 DEF StartJob
<1>9. CASE \E p \in Procs : StorePage(p)
  BY <1>9 DEF StorePage
<1>10. CASE \E p \in Procs : CompleteJob(p)
  BY <1>10 DEF CompleteJob
<1>11. CASE \E p \in Procs : FailCollect(p)
  BY <1>11 DEF FailCollect
<1>12. CASE \E p \in Procs : SetCooldown(p)
  BY <1>12 DEF SetCooldown
<1>13. CASE \E p \in Procs : FlagRetry(p)
  BY <1>13 DEF FlagRetry
<1>14. CASE \E p \in Procs : FailForGood(p)
  BY <1>14 DEF FailForGood
<1>15. CASE \E p \in Procs : Abandon(p)
  BY <1>15 DEF Abandon
<1>16. CASE \E p \in Procs : Crash(p)
  BY <1>16 DEF Crash
<1>17. CASE TickCooling
  BY <1>17 DEF TickCooling
<1>18. CASE Poll
  BY <1>18 DEF Poll
<1>19. CASE PickPending
  BY <1>19, <1>a DEF PickPending
<1>20. CASE ClearFlag
  BY <1>20 DEF ClearFlag
<1>21. CASE Recover
  BY <1>21, <1>a DEF Recover
<1>22. CASE FlagRecovered
  BY <1>22 DEF FlagRecovered
<1>23. CASE ResetData
  BY <1>23 DEF ResetData
<1>24. CASE CooldownEnds
  BY <1>24 DEF CooldownEnds
<1>25. CASE \E j \in Jobs : Age(j)
  BY <1>25 DEF Age
<1>26. CASE UNCHANGED vars
  BY <1>26 DEF vars
<1> QED
  BY <1>1, <1>2, <1>3, <1>4, <1>5, <1>6, <1>7, <1>8, <1>9,
     <1>10, <1>11, <1>12, <1>13, <1>14, <1>15, <1>16, <1>17, <1>18,
     <1>19, <1>20, <1>21, <1>22, <1>23, <1>24, <1>25, <1>26
     DEF Next, Request, Collect, Consume, Restart

(* Every step before a restart keeps the jobs of commands to themselves. *)
LEMMA ApartNext ==
    JobsInv /\ [Next]_vars => Apart'
<1> SUFFICES ASSUME Typed, Placed, Known, Counted, Apart, [Next]_vars, crashes' = 0 PROVE Apart'
  BY DEF JobsInv, Apart
<1>a. \A S \in SUBSET Jobs : S # {} => Greatest(S) \in S
  BY GreatestOf
<1>b. Creating # {} => NewJob \in Jobs /\ status[NewJob] = "none"
  BY NewJobIsNew
<1> USE ProcsAssumption, MaxAssumption
      DEF Typed, Placed, Holding, Known, Apart, Working, Importing, Procs,
          Go, Hold, Mark, After, ExpireStale, Running, With, table
<1>1. CASE \E p \in Procs : AskRunning(p)
  BY <1>1 DEF AskRunning
<1>2. CASE \E p \in Procs : AskPending(p)
  BY <1>2 DEF AskPending
<1>3. CASE \E p \in Procs : InsertJob(p)
  BY <1>3, <1>b DEF InsertJob, Creating
<1>4. CASE \E p \in Procs : FlagJob(p)
  BY <1>4 DEF FlagJob
<1>5. CASE \E p \in Procs : Guard(p)
  BY <1>5 DEF Guard
<1>6. CASE \E p \in Procs : CreateJob(p)
  BY <1>6, <1>b DEF CreateJob, Creating
<1>7. CASE \E p \in Procs : JobDeleted(p)
  BY <1>7 DEF JobDeleted
<1>8. CASE \E p \in Procs : StartJob(p)
  BY <1>8 DEF StartJob
<1>9. CASE \E p \in Procs : StorePage(p)
  BY <1>9 DEF StorePage
<1>10. CASE \E p \in Procs : CompleteJob(p)
  BY <1>10 DEF CompleteJob
<1>11. CASE \E p \in Procs : FailCollect(p)
  BY <1>11 DEF FailCollect
<1>12. CASE \E p \in Procs : SetCooldown(p)
  BY <1>12 DEF SetCooldown
<1>13. CASE \E p \in Procs : FlagRetry(p)
  BY <1>13 DEF FlagRetry
<1>14. CASE \E p \in Procs : FailForGood(p)
  BY <1>14 DEF FailForGood
<1>15. CASE \E p \in Procs : Abandon(p)
  BY <1>15 DEF Abandon
<1>16. CASE \E p \in Procs : Crash(p)
  BY <1>16 DEF Crash
<1>17. CASE TickCooling
  BY <1>17 DEF TickCooling
<1>18. CASE Poll
  BY <1>18 DEF Poll
<1>19. CASE PickPending
  BY <1>19, <1>a DEF PickPending
<1>20. CASE ClearFlag
  BY <1>20 DEF ClearFlag
<1>21. CASE Recover
  BY <1>21, <1>a DEF Recover
<1>22. CASE FlagRecovered
  BY <1>22 DEF FlagRecovered
<1>23. CASE ResetData
  BY <1>23 DEF ResetData
<1>24. CASE CooldownEnds
  BY <1>24 DEF CooldownEnds
<1>25. CASE \E j \in Jobs : Age(j)
  BY <1>25 DEF Age
<1>26. CASE UNCHANGED vars
  BY <1>26 DEF vars
<1> QED
  BY <1>1, <1>2, <1>3, <1>4, <1>5, <1>6, <1>7, <1>8, <1>9,
     <1>10, <1>11, <1>12, <1>13, <1>14, <1>15, <1>16, <1>17, <1>18,
     <1>19, <1>20, <1>21, <1>22, <1>23, <1>24, <1>25, <1>26
     DEF Next, Request, Collect, Consume, Restart

(* No step completes a job that the scheduler is going to import. *)
LEMMA UnfinishedNext ==
    JobsInv /\ Unfinished /\ [Next]_vars => Unfinished'
<1>0. ASSUME JobsInv, [Next]_vars
      PROVE  crashes \in Nat /\ crashes' \in Nat /\ (crashes' = 0 => crashes = 0)
  <2>1. crashes \in Nat
    BY <1>0, MaxAssumption DEF JobsInv, Typed
  <2>2. CASE \E p \in Procs : Crash(p)
    BY <2>1, <2>2 DEF Crash
  <2>3. CASE ~ \E p \in Procs : Crash(p)
    <3>1. crashes' = crashes
      BY <1>0, <2>3
         DEF Next, Request, Collect, Consume, Restart, AskRunning, AskPending, InsertJob,
             FlagJob, Guard, CreateJob, StartJob, StorePage, CompleteJob, FailCollect,
             FailForGood, JobDeleted, SetCooldown, FlagRetry, Abandon, TickCooling, Poll,
             PickPending, ClearFlag, Recover, FlagRecovered, ResetData, CooldownEnds, Age, vars
    <3> QED
      BY <2>1, <3>1
  <2> QED
    BY <2>2, <2>3
<1> SUFFICES ASSUME Typed, Placed, Known, Counted, Apart, Unfinished, [Next]_vars,
                    Commands = {} \/ crashes' = 0, Commands = {} \/ crashes = 0
             PROVE  Unfinished'
  BY <1>0 DEF JobsInv, Unfinished
<1>a. \A S \in SUBSET Jobs : S # {} => Greatest(S) \in S
  BY GreatestOf
<1>b. Creating # {} => NewJob \in Jobs /\ status[NewJob] = "none"
  BY NewJobIsNew
<1> USE ProcsAssumption, MaxAssumption
      DEF Typed, Placed, Holding, Known, Unfinished, Working, Procs,
          Go, Hold, Mark, After, ExpireStale, Running, With, table
<1>1. CASE \E p \in Procs : AskRunning(p)
  BY <1>1 DEF AskRunning
<1>2. CASE \E p \in Procs : AskPending(p)
  BY <1>2 DEF AskPending
<1>3. CASE \E p \in Procs : InsertJob(p)
  BY <1>3, <1>b DEF InsertJob, Creating
<1>4. CASE \E p \in Procs : FlagJob(p)
  BY <1>4 DEF FlagJob
<1>5. CASE \E p \in Procs : Guard(p)
  BY <1>5 DEF Guard
<1>6. CASE \E p \in Procs : CreateJob(p)
  BY <1>6, <1>b DEF CreateJob, Creating
<1>7. CASE \E p \in Procs : JobDeleted(p)
  BY <1>7 DEF JobDeleted
<1>8. CASE \E p \in Procs : StartJob(p)
  BY <1>8 DEF StartJob
<1>9. CASE \E p \in Procs : StorePage(p)
  BY <1>9 DEF StorePage
<1>10. CASE \E p \in Procs : CompleteJob(p)
  <2>1. PICK p \in Procs : CompleteJob(p)
    BY <1>10
  <2>2. /\ Importing(p) /\ status' = [status EXCEPT ![mine[p]] = "completed"]
        /\ pc' = [pc EXCEPT ![p] = "idle"] /\ mine' = [mine EXCEPT ![p] = 0]
    BY <2>1 DEF CompleteJob, Importing
  <2>3. ASSUME NEW q \in Procs, q # p, pc[q] \in Working PROVE mine[q] # mine[p]
    <3>1. p \notin Web /\ q \notin Web
      BY <2>2, <2>3 DEF Importing
    <3>2. CASE Commands = {}
      BY <2>3, <3>1, <3>2
    <3>3. CASE crashes = 0 /\ p = Scheduler
      BY <2>2, <2>3, <3>1, <3>3 DEF Apart, Importing
    <3>4. CASE crashes = 0 /\ p \in Commands
      BY <2>2, <2>3, <3>1, <3>4 DEF Apart, Importing
    <3> QED
      BY <3>1, <3>2, <3>3, <3>4
  <2> QED
    BY <2>2, <2>3
<1>11. CASE \E p \in Procs : FailCollect(p)
  BY <1>11 DEF FailCollect
<1>12. CASE \E p \in Procs : SetCooldown(p)
  BY <1>12 DEF SetCooldown
<1>13. CASE \E p \in Procs : FlagRetry(p)
  BY <1>13 DEF FlagRetry
<1>14. CASE \E p \in Procs : FailForGood(p)
  BY <1>14 DEF FailForGood
<1>15. CASE \E p \in Procs : Abandon(p)
  BY <1>15 DEF Abandon
<1>16. CASE \E p \in Procs : Crash(p)
  BY <1>16 DEF Crash
<1>17. CASE TickCooling
  BY <1>17 DEF TickCooling
<1>18. CASE Poll
  BY <1>18 DEF Poll
<1>19. CASE PickPending
  BY <1>19, <1>a DEF PickPending
<1>20. CASE ClearFlag
  BY <1>20 DEF ClearFlag
<1>21. CASE Recover
  BY <1>21, <1>a DEF Recover
<1>22. CASE FlagRecovered
  BY <1>22 DEF FlagRecovered
<1>23. CASE ResetData
  BY <1>23 DEF ResetData
<1>24. CASE CooldownEnds
  BY <1>24 DEF CooldownEnds
<1>25. CASE \E j \in Jobs : Age(j)
  BY <1>25 DEF Age
<1>26. CASE UNCHANGED vars
  BY <1>26 DEF vars
<1> QED
  BY <1>1, <1>2, <1>3, <1>4, <1>5, <1>6, <1>7, <1>8, <1>9,
     <1>10, <1>11, <1>12, <1>13, <1>14, <1>15, <1>16, <1>17, <1>18,
     <1>19, <1>20, <1>21, <1>22, <1>23, <1>24, <1>25, <1>26
     DEF Next, Request, Collect, Consume, Restart

(* Only the scheduler makes a job running, after it has seen that none is. *)
LEMMA AloneNext ==
    JobsInv /\ Alone /\ [Next]_vars => Alone'
<1> SUFFICES ASSUME Typed, Placed, Known, Counted, Alone, [Next]_vars, Commands = {} PROVE Alone'
  BY DEF JobsInv, Alone
<1>a. \A S \in SUBSET Jobs : S # {} => Greatest(S) \in S
  BY GreatestOf
<1>b. Creating # {} => NewJob \in Jobs /\ status[NewJob] = "none"
  BY NewJobIsNew
<1> USE ProcsAssumption, MaxAssumption
      DEF Typed, Placed, Holding, Known, Alone, Procs,
          Go, Hold, Mark, After, ExpireStale, Running, With, table
<1>1. CASE \E p \in Procs : AskRunning(p)
  BY <1>1 DEF AskRunning
<1>2. CASE \E p \in Procs : AskPending(p)
  BY <1>2 DEF AskPending
<1>3. CASE \E p \in Procs : InsertJob(p)
  BY <1>3, <1>b DEF InsertJob, Creating
<1>4. CASE \E p \in Procs : FlagJob(p)
  BY <1>4 DEF FlagJob
<1>5. CASE \E p \in Procs : Guard(p)
  BY <1>5 DEF Guard
<1>6. CASE \E p \in Procs : CreateJob(p)
  BY <1>6 DEF CreateJob
<1>7. CASE \E p \in Procs : JobDeleted(p)
  BY <1>7 DEF JobDeleted
<1>8. CASE \E p \in Procs : StartJob(p)
  BY <1>8 DEF StartJob
<1>9. CASE \E p \in Procs : StorePage(p)
  BY <1>9 DEF StorePage
<1>10. CASE \E p \in Procs : CompleteJob(p)
  BY <1>10 DEF CompleteJob
<1>11. CASE \E p \in Procs : FailCollect(p)
  BY <1>11 DEF FailCollect
<1>12. CASE \E p \in Procs : SetCooldown(p)
  BY <1>12 DEF SetCooldown
<1>13. CASE \E p \in Procs : FlagRetry(p)
  BY <1>13 DEF FlagRetry
<1>14. CASE \E p \in Procs : FailForGood(p)
  BY <1>14 DEF FailForGood
<1>15. CASE \E p \in Procs : Abandon(p)
  BY <1>15 DEF Abandon
<1>16. CASE \E p \in Procs : Crash(p)
  BY <1>16 DEF Crash
<1>17. CASE TickCooling
  BY <1>17 DEF TickCooling
<1>18. CASE Poll
  BY <1>18 DEF Poll
<1>19. CASE PickPending
  BY <1>19, <1>a DEF PickPending
<1>20. CASE ClearFlag
  BY <1>20 DEF ClearFlag
<1>21. CASE Recover
  BY <1>21 DEF Recover
<1>22. CASE FlagRecovered
  BY <1>22 DEF FlagRecovered
<1>23. CASE ResetData
  BY <1>23 DEF ResetData
<1>24. CASE CooldownEnds
  BY <1>24 DEF CooldownEnds
<1>25. CASE \E j \in Jobs : Age(j)
  BY <1>25 DEF Age
<1>26. CASE UNCHANGED vars
  BY <1>26 DEF vars
<1> QED
  BY <1>1, <1>2, <1>3, <1>4, <1>5, <1>6, <1>7, <1>8, <1>9,
     <1>10, <1>11, <1>12, <1>13, <1>14, <1>15, <1>16, <1>17, <1>18,
     <1>19, <1>20, <1>21, <1>22, <1>23, <1>24, <1>25, <1>26
     DEF Next, Request, Collect, Consume, Restart

(* A request inserts a job when it has seen none pending; then at most the *)
(* job that runs is open, and the scheduler is not inserting one.          *)
LEMMA BoundedNext ==
    JobsInv /\ Alone /\ Bounded /\ [Next]_vars => Bounded'
<1> SUFFICES ASSUME Typed, Placed, Known, Counted, Alone, Bounded, [Next]_vars, Commands = {}
             PROVE  Bounded'
  BY DEF JobsInv, Bounded
<1>a. /\ IsFiniteSet(Alive) /\ IsFiniteSet(Alive')
      /\ IsFiniteSet(Inserting) /\ IsFiniteSet(Inserting')
  <2>1. Alive \subseteq Jobs /\ Alive' \subseteq Jobs
    BY DEF Alive, Open, With
  <2>2. Inserting \subseteq Procs /\ Inserting' \subseteq Procs
    BY DEF Inserting
  <2> QED
    BY <2>1, <2>2, ProcsFinite, FS_Subset
<1>b. /\ Cardinality(Alive) \in Nat /\ Cardinality(Alive') \in Nat
      /\ Cardinality(Inserting) \in Nat /\ Cardinality(Inserting') \in Nat
      /\ Cardinality(Procs) \in Nat
  BY <1>a, ProcsFinite, FS_CardinalityType
<1>c. ASSUME Alive' \subseteq Alive, Inserting' \subseteq Inserting PROVE Bounded'
  <2>1. Cardinality(Alive') <= Cardinality(Alive) /\ Cardinality(Inserting') <= Cardinality(Inserting)
    BY <1>a, <1>c, FS_Subset
  <2> QED
    BY <1>b, <2>1 DEF Bounded
<1>d. ASSUME NEW j, Alive' \subseteq {j}, Alive' # {} => Scheduler \notin Inserting' PROVE Bounded'
  <2>1. CASE Alive' = {}
    <3>1. Inserting' \subseteq Procs
      BY DEF Inserting
    <3>2. Cardinality(Inserting') <= Cardinality(Procs) /\ Cardinality(Alive') = 0
      BY <2>1, <3>1, ProcsFinite, FS_Subset, FS_EmptySet
    <3> QED
      BY <1>b, <3>2 DEF Bounded
  <2>2. CASE Alive' # {}
    <3>1. Alive' = {j} /\ Inserting' \subseteq Procs \ {Scheduler}
      BY <1>d, <2>2 DEF Inserting
    <3>2. /\ IsFiniteSet(Procs \ {Scheduler})
          /\ Cardinality(Procs \ {Scheduler}) = Cardinality(Procs) - 1
      BY ProcsFinite, FS_RemoveElement DEF Procs
    <3>3. Cardinality(Inserting') <= Cardinality(Procs) - 1
      BY <3>1, <3>2, FS_Subset
    <3>4. Cardinality(Alive') = 1
      BY <3>1, FS_Singleton
    <3> QED
      BY <1>b, <3>3, <3>4 DEF Bounded
  <2> QED
    BY <2>1, <2>2
<1>e. ASSUME NEW p \in Inserting, NEW j, Alive' \subseteq Alive \cup {j},
             Inserting' = Inserting \ {p}
      PROVE  Bounded'
  <2>1. /\ IsFiniteSet(Alive \cup {j})
        /\ \/ Cardinality(Alive \cup {j}) = Cardinality(Alive)
           \/ Cardinality(Alive \cup {j}) = Cardinality(Alive) + 1
    BY <1>a, FS_AddElement
  <2>2. Cardinality(Alive') <= Cardinality(Alive \cup {j})
    BY <2>1, <1>e, FS_Subset
  <2>3. Cardinality(Inserting') = Cardinality(Inserting) - 1
    BY <1>a, <1>e, FS_RemoveElement
  <2> QED
    BY <1>b, <2>1, <2>2, <2>3 DEF Bounded
<1>f. \A S \in SUBSET Jobs : S # {} => Greatest(S) \in S
  BY GreatestOf
<1> USE ProcsAssumption, MaxAssumption
      DEF Typed, Placed, Holding, Known, Alone, Procs, Alive, Inserting, Open,
          Go, Hold, Mark, After, ExpireStale, Running, With, table
<1>1. CASE \E p \in Procs : AskRunning(p)
  BY <1>1, <1>c DEF AskRunning
<1>2. CASE \E p \in Procs : AskPending(p)
  <2>1. PICK p \in Procs : AskPending(p)
    BY <1>2
  <2>2. CASE With("pending") # {}
    <3>1. Alive' \subseteq Alive /\ Inserting' \subseteq Inserting
      BY <2>1, <2>2 DEF AskPending
    <3> QED
      BY <1>c, <3>1
  <2>3. CASE With("pending") = {}
    <3>1. \E j : Alive' \subseteq {j}
      BY <2>1, <2>3 DEF AskPending
    <3>2. Alive' # {} => Scheduler \notin Inserting'
      BY <2>1, <2>3 DEF AskPending
    <3> QED
      BY <1>d, <3>1, <3>2
  <2> QED
    BY <2>2, <2>3
<1>3. CASE \E p \in Procs : InsertJob(p)
  <2>1. PICK p \in Procs : InsertJob(p)
    BY <1>3
  <2>2. p \in Inserting /\ Inserting' = Inserting \ {p}
    BY <2>1 DEF InsertJob
  <2>3. Alive' \subseteq Alive \cup {NewJob}
    BY <2>1 DEF InsertJob
  <2> QED
    BY <1>e, <2>2, <2>3
<1>4. CASE \E p \in Procs : FlagJob(p)
  BY <1>4, <1>c DEF FlagJob
<1>5. CASE \E p \in Procs : Guard(p)
  BY <1>5, <1>c DEF Guard
<1>6. CASE \E p \in Procs : CreateJob(p)
  BY <1>6 DEF CreateJob
<1>7. CASE \E p \in Procs : JobDeleted(p)
  BY <1>7, <1>c DEF JobDeleted
<1>8. CASE \E p \in Procs : StartJob(p)
  BY <1>8, <1>c DEF StartJob
<1>9. CASE \E p \in Procs : StorePage(p)
  BY <1>9, <1>c DEF StorePage
<1>10. CASE \E p \in Procs : CompleteJob(p)
  BY <1>10, <1>c DEF CompleteJob
<1>11. CASE \E p \in Procs : FailCollect(p)
  BY <1>11, <1>c DEF FailCollect
<1>12. CASE \E p \in Procs : SetCooldown(p)
  BY <1>12, <1>c DEF SetCooldown
<1>13. CASE \E p \in Procs : FlagRetry(p)
  BY <1>13, <1>c DEF FlagRetry
<1>14. CASE \E p \in Procs : FailForGood(p)
  BY <1>14, <1>c DEF FailForGood
<1>15. CASE \E p \in Procs : Abandon(p)
  BY <1>15, <1>c DEF Abandon
<1>16. CASE \E p \in Procs : Crash(p)
  BY <1>16, <1>c DEF Crash
<1>17. CASE TickCooling
  BY <1>17, <1>c DEF TickCooling
<1>18. CASE Poll
  BY <1>18, <1>c DEF Poll
<1>19. CASE PickPending
  BY <1>19, <1>c, <1>f DEF PickPending
<1>20. CASE ClearFlag
  BY <1>20, <1>c DEF ClearFlag
<1>21. CASE Recover
  BY <1>21, <1>c DEF Recover
<1>22. CASE FlagRecovered
  BY <1>22, <1>c DEF FlagRecovered
<1>23. CASE ResetData
  BY <1>23, <1>c DEF ResetData
<1>24. CASE CooldownEnds
  BY <1>24, <1>c DEF CooldownEnds
<1>25. CASE \E j \in Jobs : Age(j)
  BY <1>25, <1>c DEF Age
<1>26. CASE UNCHANGED vars
  BY <1>26, <1>c DEF vars
<1> QED
  BY <1>1, <1>2, <1>3, <1>4, <1>5, <1>6, <1>7, <1>8, <1>9,
     <1>10, <1>11, <1>12, <1>13, <1>14, <1>15, <1>16, <1>17, <1>18,
     <1>19, <1>20, <1>21, <1>22, <1>23, <1>24, <1>25, <1>26
     DEF Next, Request, Collect, Consume, Restart

----------------------------------------------------------------------------
(* Nobody has asked for a collect yet. *)
LEMMA JobsInit == Init => JobsInv /\ Unfinished /\ Alone /\ Bounded
<1> SUFFICES ASSUME Init PROVE JobsInv /\ Unfinished /\ Alone /\ Bounded
  OBVIOUS
<1> USE ProcsAssumption, MaxAssumption
<1>1. Typed
  <2>1. crashes \in 0..MaxCrashes /\ failures \in 0..MaxFailures
    BY DEF Init
  <2> QED
    BY <2>1 DEF Init, Typed
<1>2. Placed
  <2>1. \A p \in Procs : pc[p] = "idle" /\ mine[p] = 0
    BY DEF Init
  <2> QED
    BY <2>1 DEF Placed, Holding, Procs
<1>3. Known /\ Apart /\ Unfinished
  BY DEF Init, Known, Apart, Importing, Unfinished, Working, Procs
<1>4. Counted
  <2>1. Created = {} /\ Creating = {}
    BY DEF Init, Created, Creating
  <2> QED
    BY <2>1, FS_EmptySet DEF Counted
<1>5. Alone
  BY DEF Init, Alone, With, Procs
<1>6. Bounded
  <2>1. Alive = {} /\ Inserting = {}
    BY DEF Init, Alive, Open, With, Inserting, Procs
  <2> QED
    BY <2>1, ProcsFinite, FS_EmptySet, FS_CardinalityType DEF Bounded
<1> QED
  BY <1>1, <1>2, <1>3, <1>4, <1>5, <1>6 DEF JobsInv

(* Every step preserves the inductive invariant. *)
LEMMA JobsStep ==
    JobsInv /\ Unfinished /\ Alone /\ Bounded /\ [Next]_vars
        => JobsInv' /\ Unfinished' /\ Alone' /\ Bounded'
BY TypeNext, CountedNext, KnownNext, ApartNext, UnfinishedNext, AloneNext, BoundedNext DEF JobsInv

(* The inductive invariant: an id is left for every process that is about  *)
(* to create a job, the job a process holds exists, and until a restart    *)
(* the jobs of commands and that of the scheduler are apart, so a job that  *)
(* is being imported is not yet completed.  Without commands one job       *)
(* runs at most, and there is a process for every job that is open or      *)
(* about to be inserted.                                                   *)
THEOREM JobsInvariant == Spec => [](JobsInv /\ Unfinished /\ Alone /\ Bounded)
BY JobsInit, JobsStep, PTL DEF Spec

(* The table of jobs, the settings and the processes keep their types, and *)
(* a process has a job at hand, one that was created, just where it works  *)
(* on one.                                                                 *)
THEOREM TypeCorrect == Spec => []TypeOK
<1>1. JobsInv => TypeOK
  BY DEF JobsInv, Placed, Known, TypeOK
<1> QED
  BY <1>1, JobsInvariant, PTL

(* Until a process crashes no two processes store the rows of one job: the *)
(* job of a command is never pending while the command works on it, though *)
(* it may expire and be made running again, and a job that the scheduler   *)
(* has picked is no command's.                                             *)
THEOREM OneWorker == Spec => []OneWorkerUntilRestart
<1>1. JobsInv => OneWorkerUntilRestart
  <2> SUFFICES ASSUME Typed, Placed, Apart, crashes = 0,
                      NEW p \in Procs, NEW q \in Procs,
                      Importing(p), Importing(q), mine[p] = mine[q]
               PROVE  p = q
    BY DEF JobsInv, OneWorkerUntilRestart
  <2>1. p \notin Web /\ q \notin Web
    BY DEF Placed, Importing
  <2>2. CASE p = Scheduler \/ q = Scheduler
    BY <2>1, <2>2 DEF Apart, Importing, Working, Procs
  <2>3. CASE p \in Commands /\ q \in Commands
    BY <2>3 DEF Apart
  <2> QED
    BY <2>1, <2>2, <2>3 DEF Procs
<1> QED
  BY <1>1, JobsInvariant, PTL

(* A completed job stays completed until it is deleted, through crashes,   *)
(* expiry, late pages and resets, with any number of commands beside the   *)
(* scheduler; only after a restart that meets a command may a process that *)
(* has the job at hand go on with it.                                      *)
THEOREM CompletedStays == Spec => CompletedIsFinal
<1> DEFINE Stays ==
        \A j \in Jobs :
            status[j] = "completed" => status'[j] \in {"completed", "gone"} \/ Shared(j)
<1>1. JobsInv /\ Unfinished /\ [Next]_vars => [Stays]_vars
  <2> SUFFICES ASSUME Typed, Placed, Known, Counted, Unfinished, [Next]_vars,
                      NEW j \in Jobs, status[j] = "completed", ~Shared(j)
               PROVE  status'[j] \in {"completed", "gone"}
    BY DEF JobsInv
  <2>1. Creating # {} => NewJob \in Jobs /\ status[NewJob] = "none"
    BY NewJobIsNew
  <2>0. ASSUME NEW p \in Procs, pc[p] \in {"start", "import"} PROVE mine[p] # j
    <3>1. CASE Commands = {} \/ crashes = 0
      BY <2>0, <3>1 DEF Unfinished, Working
    <3>2. CASE Commands # {} /\ crashes # 0
      <4>1. crashes > 0
        BY <3>2, MaxAssumption DEF Typed
      <4> QED
        BY <2>0, <3>2, <4>1 DEF Shared
    <3> QED
      BY <3>1, <3>2
  <2> USE ProcsAssumption DEF Typed, Placed, Holding, Known, Procs, Mark, table
  <2>2. CASE \E p \in Procs : InsertJob(p) \/ CreateJob(p)
    BY <2>1, <2>2 DEF InsertJob, CreateJob, Creating
  <2>3. CASE \E p \in Procs : \/ StartJob(p) \/ StorePage(p) \/ CompleteJob(p)
                              \/ FailCollect(p) \/ FailForGood(p)
    BY <2>0, <2>3 DEF StartJob, StorePage, CompleteJob, FailCollect, FailForGood
  <2>4. CASE Recover \/ ResetData
    BY <2>4 DEF Recover, ResetData
  <2>5. CASE ExpireStale
    BY <2>5 DEF ExpireStale
  <2>6. CASE status' = status
    BY <2>6
  <2> QED
    BY <2>2, <2>3, <2>4, <2>5, <2>6
       DEF Next, Request, Collect, Consume, Restart, AskRunning, AskPending, FlagJob, Guard,
           JobDeleted, SetCooldown, FlagRetry, Abandon, Crash, TickCooling, Poll, PickPending,
           ClearFlag, FlagRecovered, CooldownEnds, Age, vars
<1> QED
  BY <1>1, JobsInvariant, PTL DEF Spec, CompletedIsFinal

(* While nobody runs flask import-crawl, requests that race do not pile up *)
(* jobs: there are never more open jobs than processes, whatever crashes,  *)
(* expires, fails or is recovered.  (Each failing collect of a command     *)
(* leaves a pending job, so with commands there may be more.)              *)
THEOREM OpenBounded == ASSUME Commands = {} PROVE Spec => []OpenJobsBounded
<1>1. JobsInv /\ Bounded => OpenJobsBounded
  <2> SUFFICES ASSUME Bounded PROVE OpenJobsBounded
    OBVIOUS
  <2>1. Open \subseteq Alive /\ Alive \subseteq Jobs /\ Inserting \subseteq Procs
    BY DEF Alive, Open, With, Inserting
  <2>2. Cardinality(Open) <= Cardinality(Alive)
    BY <2>1, ProcsFinite, FS_Subset
  <2>3. /\ Cardinality(Open) \in Nat /\ Cardinality(Alive) \in Nat
        /\ Cardinality(Inserting) \in Nat /\ Cardinality(Procs) \in Nat
    BY <2>1, ProcsFinite, FS_Subset, FS_CardinalityType
  <2> QED
    BY <2>2, <2>3 DEF Bounded, OpenJobsBounded
<1> QED
  BY <1>1, JobsInvariant, PTL
==============================================================================
