\* Two deliveries of two people, two to a window and one to a batch, with fairness.
SPECIFICATION FairSpec
CONSTANTS
    p1 = p1
    p2 = p2
    NULL = NULL
    Deliveries = {1, 2}
    Profiles = {p1, p2}
    Owner <- TwoOwners
    Channels = {"webhook"}
    RouteNames = {"n1"}
    Expiries <- NoExpiry
    CredentialSets <- HasAll
    LADDER_SECONDS <- ShortLadder
    MAX_CONFIRMED_FAILURES = 2
    MAX_TRANSPORT_FAILURES = 2
    IDEMPOTENCY_WINDOW = 0
    CREDENTIAL_DEFER = 1
    QuietLength = 1
    BATCH_LIMIT = 2
    CONCURRENCY = 1
    RefusesSeen = FALSE
    RoutesAtStart <- WebhookRoute
    MaxOverdue = 0
    MaxEvents = 1
    MaxShown = 1
INVARIANTS
    AwaitedRowStaysClaimed
    FreshIdAfterRefusal
PROPERTIES
    PendingSettles
