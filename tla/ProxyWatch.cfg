\* Two upstreams with a tool and a resource each, behind one endpoint.
SPECIFICATION FairSpec
CONSTANTS
    c1 = c1
    c2 = c2
    l1 = l1
    l2 = l2
    Clients = {c1, c2}
    Links = {l1, l2}
    ClientOf <- TwoClients
    PrefixOf <- Apart
    Multi = TRUE
    Lists <- MoreOnFirst
    ItemsOf <- ToolAndTemplate
    MaxChanges = 1
    MaxFaults = 1
INVARIANTS
    TypeOK
    RegistryMatchesServed
PROPERTIES
    OthersUntouched
    WokenRefreshes
CHECK_DEADLOCK FALSE
