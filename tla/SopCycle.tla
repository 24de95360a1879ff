------------------------------ MODULE SopCycle ------------------------------
(***************************************************************************)
(* One monthly S&OP version (sop.ts): the five steps, direct edits, the    *)
(* direct finalisation and the one that goes through an action draft.      *)
(*                                                                         *)
(* Every operation reads the version, works, and puts the whole record     *)
(* back; a worker is one such operation under way.  What a step computes   *)
(* is left out; edits counts the writes that changed a field.              *)
(***************************************************************************)
EXTENDS Naturals, FiniteSets

CONSTANTS
    SopWorkers,   \* operations that may be under way at once
    SopDrafts,    \* action drafts that may ask for the finalisation
    NoDraft,      \* no pendingApproval
    MaxEdits      \* bound: writes that change a field

ASSUME SopAssumption == MaxEdits \in Nat /\ NoDraft \notin SopDrafts

VARIABLES
    sop,        \* the stored SopVersion
    sopWork,    \* per worker: what it is doing and the record it will put
    sopDrafts,  \* per draft: none, created, open (marked or refused), executed or rejected
    announced   \* sop.finalized events

sopVars == <<sop, sopWork, sopDrafts, announced>>

SopVersion == [status : {"DRAFT", "IN_REVIEW", "EXEC_MEETING", "FINAL"}, steps : SUBSET (1..5), pass : BOOLEAN,
               pendingApproval : SopDrafts \cup {NoDraft}, edits : 0..MaxEdits]
NewVersion == [status |-> "DRAFT", steps |-> {}, pass |-> FALSE, pendingApproval |-> NoDraft, edits |-> 0]

Work == [doing : {"nothing", "edit", "finalize", "change", "announce"}, put : SopVersion]
NoWork == [doing |-> "nothing", put |-> NewVersion]

SopTypeOK ==
    /\ sop \in SopVersion /\ sopWork \in [SopWorkers -> Work]
    /\ sopDrafts \in [SopDrafts -> {"none", "created", "open", "executed", "rejected"}]
    /\ announced \in Nat

SopInit ==
    /\ sop = NewVersion /\ sopWork = [w \in SopWorkers |-> NoWork]
    /\ sopDrafts = [d \in SopDrafts |-> "none"] /\ announced = 0

Idle(w) == sopWork[w].doing = "nothing"
Begin(w, what, version) == sopWork' = [sopWork EXCEPT ![w] = [doing |-> what, put |-> version]]
Edited(v) == [v EXCEPT !.edits = @ + 1]

-----------------------------------------------------------------------------
(* The reading half of each operation *)

\* Mutant of Patch: the lock of a FINAL version is not asked.
PatchUnlocked(w) ==
    /\ Idle(w) /\ sop.edits < MaxEdits
    /\ Begin(w, "edit", Edited(sop))
    /\ UNCHANGED <<sop, sopDrafts, announced>>

\* patch: the inputs of a version that is not FINAL.
Patch(w) ==
    /\ Idle(w) /\ sop.status # "FINAL" /\ sop.edits < MaxEdits
    /\ Begin(w, "edit", Edited(sop))
    /\ UNCHANGED <<sop, sopDrafts, announced>>

\* Whether the step's predecessor is there: step 2 asks for the status only.
Ready(n) == CASE n = 1 -> TRUE
              [] n = 2 -> sop.status # "DRAFT"
              [] n = 5 -> 4 \in sop.steps /\ sop.pass
              [] OTHER -> (n - 1) \in sop.steps

AfterStep(n) == CASE n = 1 -> IF sop.status = "DRAFT" THEN "IN_REVIEW" ELSE sop.status
                  [] n = 5 -> "EXEC_MEETING"
                  [] OTHER -> sop.status

\* Step 4 passes or not by its figures: gross margin and cash.
Verdicts(n) == IF n = 4 THEN BOOLEAN ELSE {sop.pass}

\* advance: a step is recorded, again if it was.
Advance(w) == \E n \in 1..5 : \E pass \in Verdicts(n) :
    /\ Idle(w) /\ sop.status # "FINAL" /\ sop.edits < MaxEdits /\ Ready(n)
    /\ Begin(w, "edit", [Edited(sop) EXCEPT !.steps = @ \cup {n}, !.status = AfterStep(n), !.pass = pass])
    /\ UNCHANGED <<sop, sopDrafts, announced>>

Finalised == [sop EXCEPT !.status = "FINAL", !.pendingApproval = NoDraft]

\* finalize: the direct way, from EXEC_MEETING only.
Finalize(w) ==
    /\ Idle(w) /\ sop.status = "EXEC_MEETING"
    /\ Begin(w, "finalize", Finalised)
    /\ UNCHANGED <<sop, sopDrafts, announced>>

\* POST action-drafts: asserts that the version may be finalised and creates the draft.
RequestFinalize(d) ==
    /\ sopDrafts[d] = "none" /\ sop.status = "EXEC_MEETING"
    /\ sopDrafts' = [sopDrafts EXCEPT ![d] = "created"]
    /\ UNCHANGED <<sop, sopWork, announced>>

\* markFinalizePending, after the creation; the request fails if the version is FINAL by now.
MarkPending(w, d) ==
    /\ Idle(w) /\ sopDrafts[d] = "created"
    /\ sopDrafts' = [sopDrafts EXCEPT ![d] = "open"]
    /\ IF sop.status = "FINAL" THEN UNCHANGED sopWork
                               ELSE Begin(w, "edit", [sop EXCEPT !.pendingApproval = d])
    /\ UNCHANGED <<sop, announced>>

\* applyFinalizeAction, when the draft is approved: whatever the status, unless it is FINAL.
ExecuteFinalize(w, d) ==
    /\ Idle(w) /\ sopDrafts[d] \in {"created", "open"}
    /\ sopDrafts' = [sopDrafts EXCEPT ![d] = "executed"]
    /\ IF sop.status = "FINAL" THEN UNCHANGED sopWork ELSE Begin(w, "finalize", Finalised)
    /\ UNCHANGED <<sop, announced>>

\* The draft is rejected: the version is not told.
RejectFinalize(d) ==
    /\ sopDrafts[d] \in {"created", "open"}
    /\ sopDrafts' = [sopDrafts EXCEPT ![d] = "rejected"]
    /\ UNCHANGED <<sop, sopWork, announced>>

\* applyChangeAction: an approved change of the inputs, in any status.
ExecuteChange(w) ==
    /\ Idle(w) /\ sop.edits < MaxEdits
    /\ Begin(w, "change", Edited(sop))
    /\ UNCHANGED <<sop, sopDrafts, announced>>

-----------------------------------------------------------------------------
(* The writing half *)

Put(w) ==
    /\ sopWork[w].doing \in {"edit", "finalize", "change"}
    /\ sop' = sopWork[w].put
    /\ sopWork' = [sopWork EXCEPT ![w] = IF @.doing = "finalize" THEN [doing |-> "announce", put |-> NewVersion]
                                                                 ELSE NoWork]
    /\ UNCHANGED <<sopDrafts, announced>>

\* sop.finalized is emitted, or that fails and nobody emits it later.
Announce(w) == \E sent \in {0, 1} :
    /\ sopWork[w].doing = "announce"
    /\ sopWork' = [sopWork EXCEPT ![w] = NoWork]
    /\ announced' = announced + sent
    /\ UNCHANGED <<sop, sopDrafts>>

SopNext ==
    \/ \E w \in SopWorkers : \/ Patch(w) \/ Advance(w) \/ Finalize(w) \/ ExecuteChange(w) \/ Put(w) \/ Announce(w)
                             \/ \E d \in SopDrafts : MarkPending(w, d) \/ ExecuteFinalize(w, d)
    \/ \E d \in SopDrafts : RequestFinalize(d) \/ RejectFinalize(d)

SopSpec == SopInit /\ [][SopNext]_sopVars

-----------------------------------------------------------------------------
(* Properties *)

\* The lock C22 (sop.ts:12, 55): a FINAL version stays FINAL, and no field of it changes but by an
\* approved change action.
FinalStays ==
    [][sop.status = "FINAL" =>
        \/ sop' = sop
        \/ sop' = Edited(sop) /\ \E w \in SopWorkers : sopWork[w].doing = "change" /\ Put(w)]_sopVars

\* A version becomes FINAL only through the meeting of step 5 and with all before it on record,
\* and it is not left waiting for an approval, however drafts and direct requests mix.
FinalIsWhole == sop.status = "FINAL" => sop.steps = 1..5 /\ sop.pendingApproval = NoDraft

\* The month is announced at most once, through several drafts and the direct request.
FinalizedOnce == announced <= 1 /\ (announced = 1 => sop.status = "FINAL")

\* Both: the month is closed once and as a whole.
FinalSound == FinalIsWhole /\ FinalizedOnce

\* And what has been closed stays as it was approved.
MonthCloses == []FinalSound /\ FinalStays

=============================================================================
