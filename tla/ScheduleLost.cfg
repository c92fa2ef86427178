SPECIFICATION FairSpec
CONSTANTS
    DAY = 3
    Rules <- OnlyDaily
    Times = {1, 2}
    OffsetLists <- TwoOffsets
    Resends = {1}
    Escalations <- OneStep
    Kinds = {"todo"}
    Patchable = {"time"}
    SnoozeMinutes = {1}
    CATCHUP_GRACE_MINUTES = 1
    NEAR_HORIZON_DAYS = 1
    FAR_HORIZON_DAYS = 4
    MATERIALIZE_ITERATIONS = 2
    EXEMPT_SCAN_ITERATIONS = 9
    FIRE_LIMIT = 1
    OCCURRENCE_CLEANUP_DAYS = 9
    MaxNow = 6
    MaxEdits = 2
    MaxFaults = 0
PROPERTIES
    InterruptedEventSurvives
