\* A stdio upstream, nobody but keepConnect and ping: one failure is enough.
SPECIFICATION FairSpec
CONSTANTS
    Callers = {}
    Logins = {}
    Tokens = {t1}
    NoToken = NoToken
    Torn = Torn
    Http = FALSE
    Mentions401 = FALSE
    MaxFaults = 1
PROPERTIES
    Reconnects
CHECK_DEADLOCK FALSE
