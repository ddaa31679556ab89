SPECIFICATION Spec
CONSTANTS
    Statuses <- Samples
    MaxRetries = 2
INVARIANTS
    ErrorTellsLastAttempt
    EndsWithFirstConclusiveOutcome
CHECK_DEADLOCK FALSE
