\* One upstream with one tool that comes or goes once, behind an endpoint of its own.
SPECIFICATION FairSpec
CONSTANTS
    c1 = c1
    c2 = c2
    l1 = l1
    l2 = l2
    Clients = {c1}
    Links = {l1}
    ClientOf <- OneClient
    PrefixOf <- Apart
    Multi = FALSE
    Lists <- Tools
    ItemsOf <- OneTool
    MaxChanges = 1
    MaxFaults = 0
PROPERTIES
    EventDuringRefreshHandled
CHECK_DEADLOCK FALSE
