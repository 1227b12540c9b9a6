\* One login, one failure: the discovery of the client.
SPECIFICATION Spec
CONSTANTS
    Flows = {f1}
    Browsers = {b1}
    Names = {n1}
    Configured = {}
    ConfiguredId = ConfiguredId
    OldToken = OldToken
    None = None
    MaxFailures = 1
INVARIANTS
    RetryHelps
CHECK_DEADLOCK FALSE
