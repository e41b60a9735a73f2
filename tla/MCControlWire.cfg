SPECIFICATION Spec
CONSTANTS
    Outputs <- MCOutputs
    Foreign <- MCForeign
    Gestures <- MCGestures
    Noise <- MCNoise
    MaxLines = 2
    None = None
    Ill = Ill
INVARIANTS
    OnlyUpdatesAreQueued
    SentIsShown
    TouchIsHeard
