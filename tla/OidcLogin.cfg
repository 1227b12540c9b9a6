\* Three requests, two browsers, a user who is let in and one who is not, one failure.
SPECIFICATION Spec
CONSTANTS
    Requests = {r1, r2, r3}
    Browsers = {b1, b2}
    Kinds = {"login", "again", "upstream", "logout", "visit"}
    Endpoints = {e1}
    Admin = Admin
    Upstream = Upstream
    Users = {u1, u2}
    Allowed = {u1}
    Cleared = Cleared
    None = None
    MaxLogins = 2
    MaxFailures = 1
INVARIANTS
    TypeOK
    OidcInv
    SessionsReachable
    RefusedHasCause
PROPERTIES
    LogoutHolds
SYMMETRY OidcSymmetry
CHECK_DEADLOCK FALSE
