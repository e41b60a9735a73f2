SPECIFICATION Spec
CONSTANTS
    FRAME_MS = 50
    Updates <- MCUpdates
    Arrivals <- MCArrivals
    None = None
INVARIANTS
    NeverStill
    StaysOnPanel
    BubbleLeavesShiro
    TextFits
    BlinksWhenLeftAlone
PROPERTIES
    MovesSmoothly
