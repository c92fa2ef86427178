\* Two jobs, hung handlers, failing writes, two starts.
SPECIFICATION FairSpec
CONSTANTS
    Jobs = {1, 2}
    Fires <- Two
    CATCHUP_POLICY <- TwoPolicy
    TIMEOUT = 1
    ONSTART_WAIT = 1
    JOB_WAIT = 1
    ZOMBIE_WAIT = 1
    HTTP_WAIT = 0
    DRAIN_WAIT = 0
    FALLBACK = 3
    NULL = NULL
    Horizon = 3
    MaxStarts = 2
    MaxFaults = 1
INVARIANTS
    OneHandlerPerJob
    MarksMatchHandlers
PROPERTIES
    RecordedOutcomeStays
    NoRerunAfterOk
    CatchupsGetTheirTurn
    StopEnds
