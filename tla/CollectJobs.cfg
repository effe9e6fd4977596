SPECIFICATION Spec
CONSTANTS
    w1 = w1
    w2 = w2
    command = command
    Scheduler = scheduler
    Web <- TwoWorkers
    Commands <- NoCommand
    MaxJobs = 4
    MaxCrashes = 1
    MaxFailures = 1
INVARIANTS
    TypeOK
    OpenJobsBounded
CHECK_DEADLOCK FALSE
