SPECIFICATION LossySpecActive
CONSTANTS
    Addresses = {a1}
    Sources = {k1}
    SearchIds = {s1, s2}
    Workers = {w1, w2}
    Names = {n1}
    Profiles = {p1}
    Nobody = Nobody
    Erased = Erased
    Requests = {"request", "recover", "consume", "cancel", "renew", "suppress", "purge"}
    ACTIVE_SUBSCRIBER_LIMIT = 1
    ACTIVE_SEARCH_LIMIT = 2
    CONFIRMATION_DAILY_LIMIT = 1
    REQUEST_SOURCE_DAILY_LIMIT = 2
    PENDING_SEARCH_LIMIT = 2
    DayLength = 1
    ConfirmTerm = 2
    Term = 1
    Grace = 1
    ReminderWindow = 1
    RecoveryTerm = 1
    MaxTime = 2
    MaxLag = 0
    MaxForms = 0
    MaxMails = 1
    Spare = 1
SYMMETRY Interchangeable
PROPERTIES
    UseKillsAllLinks
    DeadLinksStayDead
    SuppressionLasts
    ReplacedLinksPowerless
