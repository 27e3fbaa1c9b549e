CONSTANTS
    n1 = n1
    n2 = n2
    c1 = c1
    c2 = c2
    g = g
    m1 = m1
    m2 = m2
    s1 = s1
    s2 = s2
    s3 = s3
    None = None
    Nodes <- TwoNodes
    Subs <- AllSubs
    Casts <- OnlyNode
    Messages <- OneMessage
    Topic <- TopicOf
    Resets <- Nobody
    Crashes <- Nobody
SPECIFICATION SafeSpec
INVARIANTS
    StoppedStopsRefreshing
CHECK_DEADLOCK FALSE
