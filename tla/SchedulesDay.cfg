SPECIFICATION FairSpec
CONSTANTS
    DAY = 3
    Rules <- CoreRules
    Times = {0}
    OffsetLists <- TwoOffsets
    Resends = {2}
    Escalations <- CoreEscalations
    Kinds = {"todo"}
    Patchable = {}
    SnoozeMinutes = {1}
    CATCHUP_GRACE_MINUTES = 0
    NEAR_HORIZON_DAYS = 1
    FAR_HORIZON_DAYS = 4
    MATERIALIZE_ITERATIONS = 2
    EXEMPT_SCAN_ITERATIONS = 9
    FIRE_LIMIT = 2
    OCCURRENCE_CLEANUP_DAYS = 1
    MaxNow = 7
    MaxEdits = 2
    MaxFaults = 1
INVARIANTS
    SettledStaysQuiet
    NotifiedWasAnnounced
    AnnouncedOnce
    CountIsKept
PROPERTIES
    NextStaysVisible
