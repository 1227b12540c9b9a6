\* Two logins of one upstream, one browser each, no failure.
SPECIFICATION Spec
CONSTANTS
    Flows = {f1, f2}
    Browsers = {b1, b2}
    Names = {n1}
    Configured = {}
    ConfiguredId = ConfiguredId
    OldToken = OldToken
    None = None
    MaxFailures = 0
INVARIANTS
    TokenPersists
CHECK_DEADLOCK FALSE
