SPECIFICATION Spec
CONSTANTS
    Handlers = {h1, h2}
    Sources = {airpods}
    Ttls = {2}
    ActivityTtls = {3}
    Intervals = {1, 5}
    MaxTick = 1
    KEEPALIVE_INTERVAL = 2
    MaxQueue = 1
    MaxNow = 9
    None = None
SYMMETRY Symmetry
CHECK_DEADLOCK FALSE
INVARIANTS
    LabelNoticedInTime
