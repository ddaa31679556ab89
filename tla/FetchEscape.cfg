SPECIFICATION Spec
CONSTANTS
    Statuses <- Samples
    MaxRetries = 1
INVARIANTS
    OnlyFetchErrors
CHECK_DEADLOCK FALSE
