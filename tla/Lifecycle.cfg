SPECIFICATION SpecActive
CONSTANTS
    Addresses = {a1}
    Sources = {k1}
    SearchIds = {s1}
    Workers = {w1, w2}
    Names = {n1, n2}
    Profiles = {p1, p2}
    Nobody = Nobody
    Erased = Erased
    Requests = {"edit", "renew", "cancel", "unsubscribe", "suppress", "prepare", "capture", "purge"}
    ACTIVE_SUBSCRIBER_LIMIT = 1
    ACTIVE_SEARCH_LIMIT = 2
    CONFIRMATION_DAILY_LIMIT = 2
    REQUEST_SOURCE_DAILY_LIMIT = 2
    PENDING_SEARCH_LIMIT = 2
    DayLength = 9
    ConfirmTerm = 2
    Term = 2
    Grace = 1
    ReminderWindow = 1
    RecoveryTerm = 1
    MaxTime = 3
    MaxLag = 1
    MaxForms = 1
    Spare = 0
SYMMETRY Interchangeable
INVARIANTS
    PurgeMatchesDeadlines
    SuppressionStops
PROPERTIES
    RemindersSettle
    PreviewsAreCurrent
    RenewalsDoNotStack
    CancelledForGood
    CancellationTimeKept
    EditSawCurrent
    RevisionTracksProfile
