SPECIFICATION FairSpec
CONSTANTS
    s1 = s1
    s2 = s2
    loop = loop
    uplink = uplink
    g1 = g1
    None = None
    Senders <- OneSender
    Closer = loop
    Reader = uplink
    HasReader = TRUE
    Sockets <- TwoSockets
    Touches <- OneTouch
    MaxInflight = 2
INVARIANTS
    NoLeakedSocket
    UplinkLinesWhole
    DownlinkLinesIntact
PROPERTIES
    ImplementsSingleLink
    LinkRestored
    SocketsClosedAfterClose
CHECK_DEADLOCK FALSE
