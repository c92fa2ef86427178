\* A database, its backups and restores; two people's sessions and a stop;
\* one ledger of two people, months of two days, weeks of three.
SPECIFICATION UnionSpec
CONSTANTS
    Writes = {w1}
    Builds = {1, 2}
    backupKeep = 1
    PARTIAL_STALE = 1
    VacuumOutlastsBusy = FALSE
    MaxClock = 1
    MaxBackups = 3
    MaxRestores = 1
    MaxDataFaults = 1
    Members = {p1, p2}
    MASTER = MASTER
    Links = {later}
    DONE = DONE
    MAX_SESSIONS = 2
    SESSION_IDLE = 1
    HTTP_SHUTDOWN_WAIT = 1
    NoSession = NoSession
    MaxConcurrent = 2
    MaxRequests = 3
    MaxServiceNow = 2
    MaxServiceFaults = 1
    Profiles = {1, 2}
    LedgerIds = {1}
    Names = {"n1"}
    FAMILY = 0
    NULL = NULL
    WEEK = 3
    MONTH = 2
    LOOKBACK_MONTHS = 2
    RETENTION_DAYS = 1
    DIGEST_WINDOW = 1
    WEEKLY_WINDOW = 2
    DateOffsets <- NearDates
    Routed = {1, 2}
    LastCall = 5
    MaxNow = 10
    MaxEntries = 2
    MaxEdits = 1
    MaxCrashes = 1
INVARIANTS
    CanonicalIsWhole
    AcknowledgedIsKept
    ClosedIsQuiet
    LinkActsOnce
PROPERTIES
    ReportedOnce
    CaughtUp
SYMMETRY Alike
CHECK_DEADLOCK FALSE
