SPECIFICATION Spec
CONSTANTS
    Addresses = {a1, a2}
    Sources = {k1}
    SearchIds = {s1, s2}
    Workers = {w1}
    Names = {n1}
    Profiles = {p1}
    Nobody = Nobody
    Erased = Erased
    Requests = {"request", "activate", "renew", "suppress", "purge", "recover"}
    ACTIVE_SUBSCRIBER_LIMIT = 1
    ACTIVE_SEARCH_LIMIT = 1
    CONFIRMATION_DAILY_LIMIT = 2
    REQUEST_SOURCE_DAILY_LIMIT = 3
    PENDING_SEARCH_LIMIT = 1
    DayLength = 2
    ConfirmTerm = 2
    Term = 2
    Grace = 1
    ReminderWindow = 1
    RecoveryTerm = 1
    MaxTime = 3
    MaxLag = 0
    MaxForms = 0
    Spare = 0
SYMMETRY Interchangeable
INVARIANTS
    TypeOK
    AddressLimit
    ServiceLimits
    DailyLimits
PROPERTIES
    ReactivationRestarts
    KeepsSearchPromise
