\* One delivery on the webhook: drifting route names, expiry, three calls, two crashes.
SPECIFICATION Spec
CONSTANTS
    p1 = p1
    p2 = p2
    NULL = NULL
    Deliveries = {1}
    Profiles = {p1}
    Owner <- OneOwner
    Channels = {"webhook"}
    RouteNames = {"n1", "n2"}
    Expiries <- SomeExpiry
    CredentialSets <- HasAll
    LADDER_SECONDS <- ShortLadder
    MAX_CONFIRMED_FAILURES = 2
    MAX_TRANSPORT_FAILURES = 2
    IDEMPOTENCY_WINDOW = 1
    CREDENTIAL_DEFER = 1
    QuietLength = 1
    BATCH_LIMIT = 2
    CONCURRENCY = 1
    RefusesSeen = FALSE
    RoutesAtStart <- NoRoute
    MaxOverdue = 0
    MaxEvents = 4
    MaxShown = 2
INVARIANTS
    NoSecondPush
    ReadMeansReached
PROPERTIES
    LifecycleSpec
