CONSTANTS
    c1 = c1
    c2 = c2
    c3 = c3
    m1 = m1
    None = None
    Sockets <- Three
    Calls <- OneCall
    Messages <- Nothing
    MaxRetries = 2
    MaxDrops = 1
    MayClose = TRUE
    Surroundings <- Hasty
SPECIFICATION Spec
PROPERTIES
    ClosedStaysClosed
CHECK_DEADLOCK FALSE
