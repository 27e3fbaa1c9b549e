SPECIFICATION Spec
CONSTANTS
    a = a
    b = b
    g = g
    c1 = c1
    c2 = c2
    None = None
    Nodes = {a, b, g}
    Home = a
    Bridges = {g}
    Optimized = {a}
    Calls = {c1, c2}
    Parent <- MCParent
    Usable <- MCUsable
    Endings = {"result", "error", "other", "rethrow", "raw"}
INVARIANTS
    TypeOK
    ErrorNamesItsOrigin
    ReportedWhereItArose
    CallerIsTold
CHECK_DEADLOCK FALSE
