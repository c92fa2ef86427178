\* Two people with two ledgers; one bill due every other day; a holiday over new year,
\* with a schedule that follows it; a daemon and a restore that start at any time.
SPECIFICATION UnionSpec
CONSTANTS
    Profiles = {p1, p2}
    LedgerIds = {1, 2}
    Names = {"n1"}
    FAMILY = 0
    NULL = NULL
    Texts = {"food", "Food", "meal"}
    categoryKey <- FoldedText
    TOTAL = TOTAL
    Amounts = {8}
    Limits = {8, 10}
    YearMonths = {1}
    RequestIds = {r}
    Calls = 4
    Submissions = 1
    BillIds = {1}
    ScheduleIds = {1, 2, 3}
    DueDates <- EveryOtherDay
    NEAR_HORIZON_DAYS = 3
    Missing = Missing
    MaxDay = 3
    MaxEdits = 3
    MaxFaults = 1
    DateYear <- MCDateYear
    Month <- MCMonth
    CrossYear = {2, 3}
    Autumn = {1, 2, 3}
    Weekends = {2, 5}
    Files <- MCFiles
    Callers = {refresh, schedules}
    RefreshJob = refresh
    Readers = {r1}
    FETCH_COOLDOWN = 2
    WORKDAY_PROXIMITY = 2
    remindDaysBefore = 1
    NoYear = 0
    MidDay = 2
    MaxHolidayTick = 7
    MaxHolidayCrashes = 1
    Candidates = {1, 2, 3, 4, 5}
    SchedulesJob = schedules
    NearHorizon = 3
    FarHorizon = 5
    MATERIALIZE_ITERATIONS = 2
    EXEMPT_SCAN_ITERATIONS = 4
    q1 = q1
    q2 = q2
    k0 = k0
    k1 = k1
    k2 = k2
    Nothing = Nothing
    Corrupt = Corrupt
    Earlier = Earlier
    Procs = {q1, q2}
    Restores = {q2}
    Pids = {k0, k1, k2}
    Pid <- OwnPids
    Inodes = {i1, i2, i3, i4}
    Found <- AnyLock
    ReadsStart = TRUE
    MAX_TAKEOVER_ATTEMPTS = 10
    MaxCrashes = 2
INVARIANTS
    FilterMeansItsDays
    AtMostOneHolder
    HolidayAnswersTrue
    RequestRecordedOnce
    RepetitionRecordsNothing
    RemindersBelongToBills
PROPERTIES
    AlertsMatchCrossings
    LoneStartSucceeds
SYMMETRY Alike
CHECK_DEADLOCK FALSE
