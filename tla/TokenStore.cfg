\* Two goroutines, two upstreams, one token, one crash.
SPECIFICATION FairSpec
CONSTANTS
    Callers = {c1, c2}
    Names = {n1, n2}
    Tokens = {t1}
    NoToken = NoToken
    NoRequest = NoRequest
    Absent = Absent
    Malformed = Malformed
    MaxCrashes = 1
INVARIANTS
    TypeOK
    StoreInv
    LitterOnlyAfterCrash
PROPERTIES
    MapSpec
    CallsReturn
CHECK_DEADLOCK FALSE
