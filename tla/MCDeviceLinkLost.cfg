SPECIFICATION Spec
CONSTANTS
    INPUT_QUEUE_LEN = 2
    TxFrames = 1
    RxFrames = 2
    FRAME_MS = 2
    HostDurations <- MCHostDurations
    LOCAL_ACK_DURATION_MS = 2
    MaxGestures = 2
    MaxBehaviors = 0
    MaxConnections = 2
INVARIANTS
    DequeuedTouchNotLost
