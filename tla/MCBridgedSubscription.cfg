CONSTANTS
    s1 = s1
    s2 = s2
    None = None
    Subs <- MCSubs
    Casts <- MCCasts
    Sessions <- MCSessions
    Publications <- MCPublications
    Jobs = 2
SPECIFICATION Spec
INVARIANTS
    TypeOK
    LiveIsBridged
    RefusedWhileShared
    HeardOnce
    StoppedIsForgotten
CHECK_DEADLOCK FALSE
