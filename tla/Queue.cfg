SPECIFICATION FairSpec
CONSTANTS
    Searches = {s1}
    Workers = {w1, w2}
    Jobs = {j1, j2}
    NoJob = NoJob
    NoKey = NoKey
    Term = 2
    Grace = 1
    ReminderWindow = 1
    MaxAttempts = 2
    Wait = 1
    Horizon = 1
INVARIANTS
    CopiesNeedFailures
    SuccessSettles
    RunsAreBounded
PROPERTIES
    ImplementsPromise
    WaitingJobsEnd
CHECK_DEADLOCK FALSE
