\* One upstream with a resource template whose URI has a scheme, behind an endpoint for several.
SPECIFICATION Spec
CONSTANTS
    c1 = c1
    c2 = c2
    l1 = l1
    l2 = l2
    Clients = {c1}
    Links = {l1}
    ClientOf <- OneClient
    PrefixOf <- Apart
    Multi = TRUE
    Lists <- ResourcesOnly
    ItemsOf <- ToolAndTemplate
    MaxChanges = 1
    MaxFaults = 0
INVARIANTS
    ForwardsOriginal
CHECK_DEADLOCK FALSE
