SPECIFICATION FairSpec
CONSTANTS
    INPUT_QUEUE_LEN = 2
    TxFrames = 1
    RxFrames = 2
    FRAME_MS = 2
    HostDurations <- MCHostDurations
    LOCAL_ACK_DURATION_MS = 2
    MaxGestures = 3
    MaxBehaviors = 2
    MaxConnections = 2
INVARIANTS
    NotReplayed
    DisconnectedTouchNotQueued
    NeverBoth
    UplinkInOrder
PROPERTIES
    LatestUpdateIsDrawn
    DeadLinkReleased
    QueuedTouchLeaves
