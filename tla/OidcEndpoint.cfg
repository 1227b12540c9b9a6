\* One login, and one visit.
SPECIFICATION Spec
CONSTANTS
    Requests = {r1, r2}
    Browsers = {b1}
    Kinds = {"login", "visit"}
    Endpoints = {e1}
    Admin = Admin
    Upstream = Upstream
    Users = {u1}
    Allowed = {u1}
    Cleared = Cleared
    None = None
    MaxLogins = 1
    MaxFailures = 0
PROPERTIES
    SessionAdmits
CHECK_DEADLOCK FALSE
