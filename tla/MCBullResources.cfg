CONSTANTS
    n1 = n1
    n2 = n2
    p = p
    q = q
    j1 = j1
    Nodes <- BothNodes
    Queues <- TwoQueues
    Jobs <- OneJob
    Half = 2
    Grace = 1
    Late = 3
    MaxTime = 12
    Crashes <- OnlyN1
SPECIFICATION Spec
INVARIANTS
    TypeOK
    UsedIsRegistered
PROPERTIES
    CleanerSparesUsed
CHECK_DEADLOCK FALSE
