\* Safety and liveness of one RemoteTransport.
CONSTANTS
    a = a
    b = b
    c = c
    Ids <- MCIds
    Timed <- MCTimed
    Copies <- MCCopies
    Foreign = Foreign
    NoAnswer = NoAnswer
SPECIFICATION Spec
INVARIANTS
    TypeOK
    TableIsComplete
    AnsweredByOwnResponse
PROPERTIES
    ImplementsLifecycle
CHECK_DEADLOCK FALSE
