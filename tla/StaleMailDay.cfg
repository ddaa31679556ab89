SPECIFICATION Spec
CONSTANTS
    Addresses = {a1}
    Sources = {k1}
    SearchIds = {s1, s2, s3}
    Workers = {w1, w2}
    Names = {n1}
    Profiles = {p1}
    Nobody = Nobody
    Erased = Erased
    Requests = {"request"}
    ACTIVE_SUBSCRIBER_LIMIT = 1
    ACTIVE_SEARCH_LIMIT = 2
    CONFIRMATION_DAILY_LIMIT = 1
    REQUEST_SOURCE_DAILY_LIMIT = 3
    PENDING_SEARCH_LIMIT = 3
    DayLength = 1
    ConfirmTerm = 2
    Term = 2
    Grace = 1
    ReminderWindow = 1
    RecoveryTerm = 2
    MaxTime = 2
    MaxLag = 1
    MaxForms = 0
    Spare = 0
SYMMETRY Interchangeable
INVARIANTS
    EmailLimit
