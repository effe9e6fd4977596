SPECIFICATION Spec
CONSTANTS
    w1 = w1
    w2 = w2
    command = command
    Scheduler = scheduler
    Web <- OneWorker
    Commands <- OneCommand
    MaxJobs = 2
    MaxCrashes = 1
    MaxFailures = 1
INVARIANTS
    OneWorkerUntilRestart
PROPERTIES
    CompletedIsFinal
    JobsGoOn
CHECK_DEADLOCK FALSE
