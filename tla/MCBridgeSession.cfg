CONSTANTS
    x = x
    y = y
    ch = ch
    r1 = r1
    r2 = r2
    p = p
    s = s
    t = t
    q = q
    f = f
    None = None
    Sessions <- TwoSessions
    Channels <- OneChannel
    Messages <- AllKinds
    From <- FromBoth
    Kind <- KindOf
    Channel <- ChannelOf
    Named <- WithId
    Handlers = 2
    OfflineAt = 1
SPECIFICATION FairSpec
INVARIANTS
    TypeOK
    OneSubscriptionPerChannel
    ClosedHearsNothing
    OfflineOnce
PROPERTIES
    StayingIsAnswered
    ClosedIsForgotten
CHECK_DEADLOCK FALSE
