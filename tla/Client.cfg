\* A caller, ping, keepConnect and two logins; the upstream fails once.
SPECIFICATION FairSpec
CONSTANTS
    Callers = {c1}
    Logins = {l1, l2}
    Tokens = {t1}
    NoToken = NoToken
    Torn = Torn
    Http = TRUE
    Mentions401 = TRUE
    MaxFaults = 1
INVARIANTS
    TypeOK
    NoSessionLeak
    SessionInv
PROPERTIES
    OnlyFailedSessionDropped
    LifecycleSpec
    BrokenSessionReplaced
    BrokenSessionDropped
    StoredTokenConnects
    KeeperSettles
    GoroutinesStop
CHECK_DEADLOCK FALSE
