------------------------- MODULE MCActionApproval -------------------------
(* Small instances of ActionApproval for TLC: a planner who originates, a  *)
(* second planner and an administrator who is a planner too.               *)
EXTENDS ActionApproval, TLC

CONSTANTS alice, bob, carol, d1, d2, r1, r2, r3, planner, admin

MCRolesOf == alice :> {planner} @@ bob :> {planner} @@ carol :> {planner, admin}

\* Two users only: whatever alice originates, carol decides.
LeanRolesOf == alice :> {planner} @@ carol :> {planner, admin}

TwoSteps == {<<planner, admin>>}
MCChains == {<<planner, admin>>, <<admin, planner>>, <<admin>>}

\* A failed write or a restart, not both.
OneFailure == faults + crashes <= 1

Slots == Permutations(Req)
==========================================================================
