\* Two logins, two browsers, an upstream that registers clients and one whose
\* client is configured, one failure.
SPECIFICATION Spec
CONSTANTS
    Flows = {f1, f2}
    Browsers = {b1, b2}
    Names = {n1, n2}
    Configured = {n2}
    ConfiguredId = ConfiguredId
    OldToken = OldToken
    None = None
    MaxFailures = 1
INVARIANTS
    TypeOK
    LoginInv
    RefusedHasRival
    LoginSucceeds
SYMMETRY LoginSymmetry
CHECK_DEADLOCK FALSE
