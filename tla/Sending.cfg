\* One delivery on the channels that do not deduplicate; credentials come and go.
\* One delivery by each channel, mails to one and two recipients.
\* Two alerts, one profile with briefs, three requests to the weather service.
SPECIFICATION UnionSpec
CONSTANTS
    p1 = p1
    p2 = p2
    NULL = NULL
    Deliveries = {1}
    Profiles = {p1}
    Owner <- OneOwner
    Channels = {"bark", "log", "openclaw"}
    RouteNames = {"n1"}
    Expiries <- NoExpiry
    CredentialSets <- MayLoseAll
    LADDER_SECONDS <- ShortLadder
    MAX_CONFIRMED_FAILURES = 2
    MAX_TRANSPORT_FAILURES = 2
    IDEMPOTENCY_WINDOW = 1
    CREDENTIAL_DEFER = 1
    QuietLength = 1
    BATCH_LIMIT = 2
    CONCURRENCY = 1
    RefusesSeen = FALSE
    RoutesAtStart <- NoRoute
    MaxOverdue = 0
    MaxEvents = 4
    MaxShown = 2
    Slots = {s1, s2, s3}
    MAX_CONCURRENCY = 2
    maxAttempts = 2
    DayTicks = 2
    MinuteTtl = 1
    DailyTtl = 2
    MemoTtl = 2
    NoEntry = NoEntry
    MaxTick = 3
    MaxCalls = 3
    Alerts = {a1, a2}
    Levels = {NoLevel, "blue", "red"}
    NoLevel = NoLevel
    Rank <- MCRank
    minRank = 1
    Watchers = {w1}
    AlertTtl = 2
    ToolTtl = 1
    HistoryWindow = 2
    NoEnd = NoEnd
    NoList = NoList
    MaxAlertTick = 3
    MaxChanges = 2
    BriefProfiles = {b1}
    Cities = {home, other}
    DefaultCity = home
    NoPlan = NoPlan
    NoCity = NoCity
    NoRun = NoRun
    DayLength = 2
    CatchUp = 1
    MaxBriefTick = 2
    MaxSettings = 1
    MaxBriefCrashes = 1
    MailUrls <- MCMailUrls
    MAX_RECIPIENTS = 10
    Malformed = Malformed
    NoUrl = NoUrl
    MaxReplies = 2
    Urls <- MCUrls
    Targets <- MCTargets
    NoTarget = NoTarget
INVARIANTS
    HeldUntilRetry
    VerdictMatchesFarEnd
    GateKeepsItsPlaces
    ForecastStartsToday
    AlertsOnlyUpgrade
    LastingAlertIsTold
    BriefForEachRun
SYMMETRY AnyAlert
CHECK_DEADLOCK FALSE
