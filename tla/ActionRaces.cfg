SPECIFICATION Spec
CONSTANTS
    alice = alice
    bob = bob
    carol = carol
    d1 = d1
    d2 = d2
    r1 = r1
    r2 = r2
    r3 = r3
    planner = planner
    admin = admin
    NoUser = NoUser
    NoDraft = NoDraft
    Admin = admin
    Draft = {d1}
    User = {alice, carol}
    Role = {planner, admin}
    Disabled = {}
    Unregistered = FALSE
    Req = {r1, r2}
    Overlap = TRUE
    MaxAttempts = 1
    MaxFaults = 1
    MaxCrashes = 1
    RolesOf <- LeanRolesOf
    Chains <- TwoSteps
INVARIANTS
    ApprovalsSound
    AuditBeforeWriteBack
SYMMETRY Slots
CONSTRAINT OneFailure
CHECK_DEADLOCK FALSE
