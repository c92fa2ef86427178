\* A daily schedule for working days, from a week before the last days of the year.
SPECIFICATION FilterSpec
CONSTANTS
    DateYear <- MCDateYear
    Month <- MCMonth
    CrossYear = {5, 6, 7}
    Autumn = {1, 2, 3, 4, 5, 6, 7}
    Weekends = {4, 5}
    Files <- MCFiles
    Callers = {refresh, schedules}
    RefreshJob = refresh
    Readers = {r1}
    FETCH_COOLDOWN = 2
    WORKDAY_PROXIMITY = 2
    remindDaysBefore = 1
    NoYear = 0
    MidDay = 2
    MaxHolidayTick = 8
    MaxHolidayCrashes = 0
    Candidates = {1, 2, 3, 4, 5, 6, 7, 8}
    SchedulesJob = schedules
    NearHorizon = 6
    FarHorizon = 8
    MATERIALIZE_ITERATIONS = 3
    EXEMPT_SCAN_ITERATIONS = 8
INVARIANTS
    PassedOverComesBack
CHECK_DEADLOCK FALSE
