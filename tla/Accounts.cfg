SPECIFICATION AccountsSpec
CONSTANTS
    Ids = {1, 2}
    Emails = {e1, e2}
    Passwords = {p1, p2}
    Subs = {g1, g2}
    Requests = {x1, x2, x3, x4}
    SignupEnabled = TRUE
    NoEmail = NoEmail
    NoPassword = NoPassword
    NoSub = NoSub
    NoId = NoId
SYMMETRY AccountsSymmetry
CHECK_DEADLOCK FALSE
INVARIANTS
    GoogleSessionsFollowTheSub
PROPERTIES
    GoogleSubIsForLife
