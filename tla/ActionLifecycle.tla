--------------------------- MODULE ActionLifecycle ---------------------------
(***************************************************************************)
(* What an action draft promises its readers: the state machine of the     *)
(* comment above ActionService (apps/datacore/src/actions.ts) and of       *)
(* section S2.1 of docs/PRD-addendum-solvers-and-gaps.md, one variable per *)
(* fact and no mention of requests, copies or storage.                     *)
(*                                                                         *)
(*   status   where each draft stands                                      *)
(*   left     how many approval steps are still undecided                  *)
(*   written  whether the write-back adapter has touched the target        *)
(***************************************************************************)
EXTENDS Naturals

CONSTANTS
    Draft,      \* the drafts
    MaxChain    \* the longest approval chain an action type may have (at least 1)

VARIABLES status, left, written
lifecycleVars == <<status, left, written>>

LifecycleStatus == {"ABSENT", "DRAFT", "PENDING_APPROVAL", "APPROVED", "REJECTED",
                    "CANCELLED", "EXECUTING", "EXECUTED", "EXECUTION_FAILED"}

LifecycleTypeOK ==
    /\ status \in [Draft -> LifecycleStatus]
    /\ left \in [Draft -> 0..MaxChain]
    /\ written \in [Draft -> BOOLEAN]

LifecycleInit ==
    /\ status = [d \in Draft |-> "ABSENT"]
    /\ left = [d \in Draft |-> 0]
    /\ written = [d \in Draft |-> FALSE]

\* A draft moves from one of the statuses in `from` to `to`.
Move(d, from, to) ==
    /\ status[d] \in from
    /\ status' = [status EXCEPT ![d] = to]

CreateDraft(d) ==
    /\ Move(d, {"ABSENT"}, "DRAFT")
    /\ UNCHANGED <<left, written>>

SubmitDraft(d) ==
    /\ Move(d, {"DRAFT"}, "PENDING_APPROVAL")
    /\ \E n \in 1..MaxChain : left' = [left EXCEPT ![d] = n]
    /\ UNCHANGED written

ApproveStep(d) ==
    /\ left[d] > 0
    /\ left' = [left EXCEPT ![d] = @ - 1]
    /\ Move(d, {"PENDING_APPROVAL"}, IF left[d] = 1 THEN "APPROVED" ELSE "PENDING_APPROVAL")
    /\ UNCHANGED written

\* The rejected step counts as decided.
RejectStep(d) ==
    /\ left[d] > 0
    /\ left' = [left EXCEPT ![d] = @ - 1]
    /\ Move(d, {"PENDING_APPROVAL"}, "REJECTED")
    /\ UNCHANGED written

CancelDraft(d) ==
    /\ Move(d, {"DRAFT", "PENDING_APPROVAL", "APPROVED"}, "CANCELLED")
    /\ UNCHANGED <<left, written>>

StartExecution(d) ==
    /\ Move(d, {"APPROVED"}, "EXECUTING")
    /\ UNCHANGED <<left, written>>

WriteBack(d) ==
    /\ status[d] = "EXECUTING"
    /\ written' = [written EXCEPT ![d] = TRUE]
    /\ UNCHANGED <<status, left>>

Succeed(d) ==
    /\ written[d]
    /\ Move(d, {"EXECUTING"}, "EXECUTED")
    /\ UNCHANGED <<left, written>>

GiveUp(d) ==
    /\ Move(d, {"EXECUTING"}, "EXECUTION_FAILED")
    /\ UNCHANGED <<left, written>>

LifecycleNext ==
    \E d \in Draft :
        \/ CreateDraft(d) \/ SubmitDraft(d) \/ ApproveStep(d) \/ RejectStep(d)
        \/ CancelDraft(d) \/ StartExecution(d) \/ WriteBack(d) \/ Succeed(d) \/ GiveUp(d)

\* People may never act, but the service carries out what was approved.
Progress(d) ==
    /\ WF_lifecycleVars(StartExecution(d))
    /\ WF_lifecycleVars(Succeed(d) \/ GiveUp(d))

LifecycleSafety == LifecycleInit /\ [][LifecycleNext]_lifecycleVars

LifecycleSpec == LifecycleSafety /\ \A d \in Draft : Progress(d)

=============================================================================
