\* Five requests of every kind over three families.
CONSTANTS
    Tokens = {1, 2, 3, 4}
    Families = {1, 2, 3}
    x1 = x1
    x2 = x2
    x3 = x3
    x4 = x4
    x5 = x5
    Requests = {x1, x2, x3, x4, x5}
SYMMETRY MCRequests
SPECIFICATION SessionSpec
INVARIANTS
    OneLiveTokenPerFamily
PROPERTIES
    ClosedFamilyStaysClosed
\* Requests, tokens and families run out: the model ends there.
CHECK_DEADLOCK FALSE
