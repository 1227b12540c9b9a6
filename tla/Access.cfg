\* Configurations with up to two users and two groups, and an identity provider
\* that knows a third user.
SPECIFICATION Spec
CONSTANTS
    alice = alice
    bob = bob
    carol = carol
    ta = ta
    tb = tb
    idOfAlice = idOfAlice
    idOfCarol = idOfCarol
    Everyone = {alice, bob, carol}
    Tokens = {ta, tb, idOfAlice, idOfCarol}
    Jwts = {tb, idOfAlice}
    Subject <- SubjectOf
    None = None
    Malformed = Malformed
    Configs <- MCConfigs
    Rules <- MCRules
    Items <- MCItems
INVARIANTS
    TypeOK
    IdentityProved
    TokenHelps
    ListedIsUsable
CHECK_DEADLOCK FALSE
