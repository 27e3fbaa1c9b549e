CONSTANTS
    a = a
    b = b
    c = c
    u = u
    v = v
    w = w
    None = None
    Nodes <- SharedNodes
    Clients <- OnlyA
    Urls <- SharedUrls
    Inbox <- SharedInbox
    Serves <- SharedServes
    Calls <- SharedCalls
    MaxRequests = 2
    Concurrency = 1
    MaxAttempts = 2
    MaxCrashes = 1
SPECIFICATION FairSpec
INVARIANTS
    TypeOK
    OwnAnswer
    ReplyOrReason
PROPERTIES
    HandlersFinish
    ImplementsLifecycle
CHECK_DEADLOCK FALSE
