SPECIFICATION TouchSpec
CONSTANTS
    DEBOUNCE_MS = 2
    HOLD_MS = 12
    DOUBLETAP_WINDOW_MS = 10
    MIN_EVENT_GAP_MS = 10
    HOLD_DURATION_MAX_MS = 14
    SampleGaps <- MCSampleGaps
    MaxNow = 38
INVARIANTS
    EveryContactClaimedOnce
PROPERTIES
    PendingTapNeverLost
CHECK_DEADLOCK FALSE
