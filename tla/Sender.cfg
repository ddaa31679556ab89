SPECIFICATION FairSpec
CONSTANTS
    Intents = {i1}
    MAX_MESSAGE_BYTES = 1
    MaxAttempts = 2
INVARIANTS
    OutcomesAreTrue
    TakenOnce
PROPERTIES
    SendReturns
CHECK_DEADLOCK FALSE
