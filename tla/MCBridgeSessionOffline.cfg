CONSTANTS
    x = x
    y = y
    ch = ch
    r1 = r1
    r2 = r2
    p = p
    s = s
    t = t
    q = q
    f = f
    None = None
    Sessions <- OneSession
    Channels <- OneChannel
    Messages <- Requests2
    From <- FromX
    Kind <- KindOf
    Channel <- ChannelOf
    Named <- WithId
    Handlers = 2
    OfflineAt = 1
SPECIFICATION Spec
INVARIANTS
    ClosedIsOffline
CHECK_DEADLOCK FALSE
