CONSTANTS
    c1 = c1
    c2 = c2
    c3 = c3
    m1 = m1
    None = None
    Sockets <- Ten
    Calls <- ThreeCalls
    Messages <- OneMessage
    MaxRetries = 2
    MaxDrops = 2
    MayClose = TRUE
    Surroundings <- AnySurroundings
SPECIFICATION FairSpec
INVARIANTS
    TypeOK
    ConnectedHasSocket
    DropIsHeard
    OneConnection
    PromiseIsLive
PROPERTIES
    CalmStaysClosed
    ComesBack
    WaitingIsSettled
CHECK_DEADLOCK FALSE
