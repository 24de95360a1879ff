SPECIFICATION FairSpec
CONSTANTS
    alice = alice
    bob = bob
    carol = carol
    d1 = d1
    d2 = d2
    r1 = r1
    r2 = r2
    r3 = r3
    planner = planner
    admin = admin
    NoUser = NoUser
    NoDraft = NoDraft
    Admin = admin
    Draft = {d1, d2}
    User = {alice, bob, carol}
    Role = {planner, admin}
    Disabled = {}
    Unregistered = FALSE
    Req = {r1, r2}
    Overlap = FALSE
    MaxAttempts = 2
    MaxFaults = 0
    MaxCrashes = 0
    RolesOf <- MCRolesOf
    Chains <- MCChains
INVARIANTS
    NobodyLeftOut
PROPERTIES
    ImplementsProgress
    TerminalIsFinal
CHECK_DEADLOCK FALSE
