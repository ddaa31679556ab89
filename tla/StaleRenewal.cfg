SPECIFICATION Spec
CONSTANTS
    Addresses = {a1}
    Sources = {k1}
    SearchIds = {s1, s2}
    Workers = {w1, w2}
    Names = {n1}
    Profiles = {p1}
    Nobody = Nobody
    Erased = Erased
    Requests = {"request", "activate", "renew"}
    ACTIVE_SUBSCRIBER_LIMIT = 1
    ACTIVE_SEARCH_LIMIT = 1
    CONFIRMATION_DAILY_LIMIT = 2
    REQUEST_SOURCE_DAILY_LIMIT = 2
    PENDING_SEARCH_LIMIT = 2
    DayLength = 9
    ConfirmTerm = 4
    Term = 2
    Grace = 1
    ReminderWindow = 1
    RecoveryTerm = 2
    MaxTime = 4
    MaxLag = 1
    MaxForms = 0
    Spare = 0
SYMMETRY Interchangeable
INVARIANTS
    AddressLimit
