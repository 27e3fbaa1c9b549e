CONSTANTS
    a = a
    b = b
    c = c
    u = u
    v = v
    w = w
    None = None
    Nodes <- ChainNodes
    Clients <- OnlyA
    Urls <- ChainUrls
    Inbox <- ChainInbox
    Serves <- ChainServes
    Calls <- ChainCalls
    MaxRequests = 2
    Concurrency = 2
    MaxAttempts = 2
    MaxCrashes = 0
SPECIFICATION PatientSpec
PROPERTIES
    RequestsAreAnswered
CHECK_DEADLOCK FALSE
