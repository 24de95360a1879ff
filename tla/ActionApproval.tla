--------------------------- MODULE ActionApproval ---------------------------
(***************************************************************************)
(* ActionService of apps/datacore/src/actions.ts: drafts are created,      *)
(* submitted, approved step by step, rejected, cancelled and executed by   *)
(* HTTP requests that run concurrently in one Node process and share only  *)
(* the repository.                                                         *)
(*                                                                         *)
(* Every `await` is a place where another request may run, so a handler is *)
(* a chain of actions: it GETs a draft and checks it, works on its own     *)
(* copy (the memory store clones, the SQL store deserialises), PUTs the    *)
(* whole copy back, EMITs the event to the outbox as a second write, and   *)
(* NOTIFYs.  approve continues into execute(), which calls the write-back  *)
(* adapter up to MaxAttempts times.                                        *)
(***************************************************************************)
EXTENDS Naturals, Sequences, FiniteSets

CONSTANTS
    Draft,          \* drafts that may be created
    User,           \* users of the tenant
    Role,           \* base roles (a scope suffix such as ":plant" is stripped)
    Admin,          \* the role "admin"
    RolesOf,        \* the roles each user holds
    Disabled,       \* users whose account is DISABLED: they cannot log in
    Chains,         \* approval chains of the registered action types
    Unregistered,   \* TRUE: a draft may name an action type nobody registered
    Req,            \* request slots: how many requests are in flight at once
    Overlap,        \* FALSE: requests for one draft never overlap
    MaxAttempts,    \* retryDelaysMs.length
    MaxFaults,      \* bound: how many repository or outbox writes fail
    MaxCrashes,     \* bound: how often the process restarts
    NoUser, NoDraft \* absent values

ASSUME RoleAssumption ==
    /\ Admin \in Role
    /\ RolesOf \in [User -> SUBSET Role]
    /\ Disabled \subseteq User
    /\ NoUser \notin User
    /\ NoDraft \notin Draft

\* registerType accepts chains of one to three steps only.
ASSUME ChainAssumption ==
    \A chain \in Chains : chain \in Seq(Role) /\ Len(chain) \in 1..3

ASSUME BoundAssumption ==
    /\ Overlap \in BOOLEAN
    /\ Unregistered \in BOOLEAN
    /\ MaxAttempts \in Nat \ {0}
    /\ MaxFaults \in Nat
    /\ MaxCrashes \in Nat

VARIABLES
    store,      \* repos.actionDrafts
    req,        \* what each request in flight has read and where it stands
    events,     \* outbox rows about each draft, in the order they were emitted
    inbox,      \* notifications sent
    applied,    \* how often the adapter changed the target on behalf of a draft
    faults,     \* writes that have failed so far
    crashes     \* restarts so far

vars == <<store, req, events, inbox, applied, faults, crashes>>

-----------------------------------------------------------------------------
(* Records *)

Status == {"ABSENT", "DRAFT", "PENDING_APPROVAL", "APPROVED", "REJECTED",
           "CANCELLED", "EXECUTING", "EXECUTED", "EXECUTION_FAILED"}

Step == [role : Role, decision : {"NONE", "APPROVE", "REJECT"}, by : User \cup {NoUser}]

Record == [status : Status, origin : User \cup {NoUser}, steps : Seq(Step)]

Absent == [status |-> "ABSENT", origin |-> NoUser, steps |-> <<>>]

\* Where a request stands: the await it is about to leave.
Pc == {"idle", "submit", "put", "emit", "notify", "execGet", "execPut", "call",
       "donePut", "doneEmit", "failPut", "failEmit"}

Request == [pc : Pc, draft : Draft \cup {NoDraft}, copy : Record, tries : 0..MaxAttempts]

Idle == [pc |-> "idle", draft |-> NoDraft, copy |-> Absent, tries |-> 0]

\* Each event is named by the status it announces.
Event == Status \ {"ABSENT", "DRAFT", "EXECUTING"}

Notice == [to : User, about : Event, draft : Draft]

TypeOK ==
    /\ store \in [Draft -> Record]
    /\ req \in [Req -> Request]
    /\ \A r \in Req : req[r].pc # "idle" => req[r].draft \in Draft
    /\ events \in [Draft -> Seq(Event)]
    /\ inbox \subseteq Notice
    /\ applied \in [Draft -> Nat]
    /\ faults \in 0..MaxFaults
    /\ crashes \in 0..MaxCrashes

Init ==
    /\ store = [d \in Draft |-> Absent]
    /\ req = [r \in Req |-> Idle]
    /\ events = [d \in Draft |-> <<>>]
    /\ inbox = {}
    /\ applied = [d \in Draft |-> 0]
    /\ faults = 0
    /\ crashes = 0

-----------------------------------------------------------------------------
(* Helpers *)

Holds(u, role) == role \in RolesOf[u]

\* Who counts as an approver when a draft is submitted: the account's status
\* is not looked at.
Eligible(role, origin) == {u \in User : u # origin /\ Holds(u, role)}

\* Who notifyRole writes to: ACTIVE accounts only.
Notified(role, origin) == Eligible(role, origin) \ Disabled

Undecided(rec) == {i \in DOMAIN rec.steps : rec.steps[i].decision = "NONE"}

\* Mutant of IsCurrent: any open step may be decided.
IsCurrentAnyOpen(rec, i) == i \in Undecided(rec)

\* i is the step approvalSteps.find((s) => !s.decision) returns.
IsCurrent(rec, i) == i \in Undecided(rec) /\ \A j \in Undecided(rec) : i <= j

HasEvent(d, e) == \E i \in DOMAIN events[d] : events[d][i] = e

\* A request may start unless requests for this draft are kept apart and one is running.
MayStart(r, d) ==
    /\ req[r].pc = "idle"
    /\ Overlap \/ \A q \in Req : req[q].draft # d

Holding(d, copy) == [pc |-> "put", draft |-> d, copy |-> copy, tries |-> 0]

At(r, pc) == [req EXCEPT ![r].pc = pc]

Finished(r) == [req EXCEPT ![r] = Idle]

-----------------------------------------------------------------------------
(* The first half of each handler: get, check, change the copy *)

\* create(): put a DRAFT, then submit it unless the body says submit: false.
Create(r, u, d, submitNow) ==
    /\ store[d].status = "ABSENT"
    /\ MayStart(r, d)
    /\ u \notin Disabled
    /\ store' = [store EXCEPT ![d] = [Absent EXCEPT !.status = "DRAFT", !.origin = u]]
    /\ req' = IF submitNow THEN [req EXCEPT ![r] = [Idle EXCEPT !.pc = "submit", !.draft = d]]
                           ELSE req
    /\ UNCHANGED <<events, inbox, applied, faults, crashes>>

\* What submit() builds once every check has passed.  Parameter and rule checks
\* either pass or throw; a throw leaves everything as it was.
Submitted(rec, chain) ==
    [rec EXCEPT !.status = "PENDING_APPROVAL",
                !.steps = [i \in 1..Len(chain) |->
                              [role |-> chain[i], decision |-> "NONE", by |-> NoUser]]]

\* The chain is the registered type's, every role of which needs somebody other
\* than the originator; a type nobody registered gets [admin], unchecked.
ChainAllowed(chain, origin) ==
    \/ /\ chain \in Chains
       /\ \A i \in DOMAIN chain : Eligible(chain[i], origin) # {}
    \/ Unregistered /\ chain = <<Admin>>

Submit(r, d, chain) ==
    /\ MayStart(r, d) \/ (req[r].pc = "submit" /\ req[r].draft = d)
    /\ store[d].status = "DRAFT"
    /\ ChainAllowed(chain, store[d].origin)
    /\ req' = [req EXCEPT ![r] = Holding(d, Submitted(store[d], chain))]
    /\ UNCHANGED <<store, events, inbox, applied, faults, crashes>>

\* submit() throws: the draft stays a DRAFT (or whatever it has become).
SubmitRefused(r) ==
    /\ req[r].pc = "submit"
    /\ req' = Finished(r)
    /\ UNCHANGED <<store, events, inbox, applied, faults, crashes>>

\* The current step of the copy with u's decision in it.
Decided(rec, i, u, decision) ==
    [rec EXCEPT !.steps[i] = [@ EXCEPT !.decision = decision, !.by = u]]

AfterApproval(rec, i, u) ==
    LET decided == Decided(rec, i, u, "APPROVE")
    IN  IF Undecided(decided) = {} THEN [decided EXCEPT !.status = "APPROVED"] ELSE decided

\* Mutant of MayDecide: the draft's status is not looked at.
MayDecideAnyStatus(u, rec, i) ==
    u \notin Disabled /\ IsCurrent(rec, i) /\ Holds(u, rec.steps[i].role)

MayDecide(u, rec, i) ==
    /\ u \notin Disabled
    /\ rec.status = "PENDING_APPROVAL"
    /\ IsCurrent(rec, i)
    /\ Holds(u, rec.steps[i].role)

Approve(r, u, d) ==
    /\ MayStart(r, d)
    /\ \E i \in DOMAIN store[d].steps :
          /\ MayDecide(u, store[d], i)
          /\ u # store[d].origin
          /\ req' = [req EXCEPT ![r] = Holding(d, AfterApproval(store[d], i, u))]
    /\ UNCHANGED <<store, events, inbox, applied, faults, crashes>>

\* Unlike approve, reject does not ask whether u is the originator.
Reject(r, u, d) ==
    /\ MayStart(r, d)
    /\ \E i \in DOMAIN store[d].steps :
          /\ MayDecide(u, store[d], i)
          /\ req' = [req EXCEPT ![r] =
                        Holding(d, [Decided(store[d], i, u, "REJECT") EXCEPT !.status = "REJECTED"])]
    /\ UNCHANGED <<store, events, inbox, applied, faults, crashes>>

Cancel(r, u, d) ==
    /\ MayStart(r, d)
    /\ store[d].status \in {"DRAFT", "PENDING_APPROVAL", "APPROVED"}
    /\ u \notin Disabled
    /\ u = store[d].origin \/ Holds(u, Admin)
    /\ req' = [req EXCEPT ![r] = Holding(d, [store[d] EXCEPT !.status = "CANCELLED"])]
    /\ UNCHANGED <<store, events, inbox, applied, faults, crashes>>

-----------------------------------------------------------------------------
(* The second half: put, emit, notify *)

PutCopy(r, pc, next) ==
    /\ req[r].pc = pc
    /\ store' = [store EXCEPT ![req[r].draft] = req[r].copy]
    /\ req' = At(r, next)
    /\ UNCHANGED <<events, inbox, applied, faults, crashes>>

EmitStatus(r, pc, after) ==
    /\ req[r].pc = pc
    /\ events' = [events EXCEPT ![req[r].draft] = Append(@, req[r].copy.status)]
    /\ req' = after
    /\ UNCHANGED <<store, inbox, applied, faults, crashes>>

\* Mutant of Put: the draft is executed before its event is emitted.
PutThenExecute(r) ==
    PutCopy(r, "put", IF req[r].copy.status = "APPROVED" THEN "execGet" ELSE "emit")

Put(r) == PutCopy(r, "put", "emit")

\* cancel() ends with its event; the others notify.
Emit(r) ==
    EmitStatus(r, "emit",
               IF req[r].copy.status = "CANCELLED" THEN Finished(r) ELSE At(r, "notify"))

\* Mutant of Recipients: whatever step waits, the first role is told.
RecipientsFirstRole(rec) ==
    IF rec.status = "PENDING_APPROVAL" THEN Notified(rec.steps[1].role, rec.origin)
                                       ELSE {rec.origin} \ {NoUser}

\* The role of the step that now waits, or the originator.
Recipients(rec) ==
    IF rec.status = "PENDING_APPROVAL"
    THEN UNION {Notified(rec.steps[i].role, rec.origin) :
                    i \in {j \in DOMAIN rec.steps : IsCurrent(rec, j)}}
    ELSE {rec.origin} \ {NoUser}

\* Mutant of Notify: approve() returns instead of going on to execute().
NotifyAndReturn(r) ==
    /\ req[r].pc = "notify"
    /\ inbox' = inbox \cup
          {[to |-> u, about |-> req[r].copy.status, draft |-> req[r].draft] :
               u \in Recipients(req[r].copy)}
    /\ req' = Finished(r)
    /\ UNCHANGED <<store, events, applied, faults, crashes>>

Notify(r) ==
    LET copy == req[r].copy IN
    /\ req[r].pc = "notify"
    /\ inbox' = inbox \cup
          {[to |-> u, about |-> copy.status, draft |-> req[r].draft] : u \in Recipients(copy)}
    /\ req' = IF copy.status = "APPROVED" THEN At(r, "execGet") ELSE Finished(r)
    /\ UNCHANGED <<store, events, applied, faults, crashes>>

-----------------------------------------------------------------------------
(* execute(), which only approve() calls *)

ExecuteGet(r) ==
    LET rec == store[req[r].draft] IN
    /\ req[r].pc = "execGet"
    /\ req' = IF rec.status = "APPROVED"
              THEN [req EXCEPT ![r].pc = "execPut", ![r].copy = [rec EXCEPT !.status = "EXECUTING"]]
              ELSE Finished(r)    \* throws INVALID_STEP
    /\ UNCHANGED <<store, events, inbox, applied, faults, crashes>>

ExecutePut(r) == PutCopy(r, "execPut", "call")

\* Back to the head of the while loop, or out of it when the attempts are used up.
NextAttempt(r) ==
    IF req[r].tries < MaxAttempts
    THEN At(r, "call")
    ELSE [req EXCEPT ![r].pc = "failPut", ![r].copy.status = "EXECUTION_FAILED"]

CallSucceeds(r) ==
    /\ req[r].pc = "call"
    /\ req[r].tries < MaxAttempts
    /\ applied' = [applied EXCEPT ![req[r].draft] = @ + 1]
    /\ req' = [req EXCEPT ![r].pc = "donePut", ![r].tries = @ + 1, ![r].copy.status = "EXECUTED"]
    /\ UNCHANGED <<store, events, inbox, faults, crashes>>

\* The adapter answers ok: false or throws, perhaps after it has already written
\* (the object patch is put before the derivations run).
CallFails(r, wrote) ==
    /\ req[r].pc = "call"
    /\ req[r].tries < MaxAttempts
    /\ applied' = IF wrote THEN [applied EXCEPT ![req[r].draft] = @ + 1] ELSE applied
    /\ req' = IF req[r].tries + 1 < MaxAttempts
              THEN [req EXCEPT ![r].tries = @ + 1]
              ELSE [req EXCEPT ![r].tries = @ + 1, ![r].pc = "failPut",
                               ![r].copy.status = "EXECUTION_FAILED"]
    /\ UNCHANGED <<store, events, inbox, faults, crashes>>

DonePut(r)  == PutCopy(r, "donePut", "doneEmit")
DoneEmit(r) == EmitStatus(r, "doneEmit", Finished(r))
FailPut(r)  == PutCopy(r, "failPut", "failEmit")
FailEmit(r) == EmitStatus(r, "failEmit", Finished(r))

-----------------------------------------------------------------------------
(* Failures *)

\* A write fails.  Inside execute()'s try block the error is caught and counts
\* as a failed attempt; anywhere else the request ends with an error.
WriteFails(r) ==
    /\ faults < MaxFaults
    /\ faults' = faults + 1
    /\ req[r].pc \in {"put", "emit", "notify", "execPut", "donePut", "doneEmit", "failPut", "failEmit"}
    /\ req' = IF req[r].pc \in {"donePut", "doneEmit"} THEN NextAttempt(r) ELSE Finished(r)
    /\ UNCHANGED <<store, events, inbox, applied, crashes>>

\* The process restarts: the requests are gone, the rows stay.  Nothing in the
\* code resumes a draft afterwards.
Crash ==
    /\ crashes < MaxCrashes
    /\ crashes' = crashes + 1
    /\ \E r \in Req : req[r].pc # "idle"
    /\ req' = [r \in Req |-> Idle]
    /\ UNCHANGED <<store, events, inbox, applied, faults>>

-----------------------------------------------------------------------------
(* The system *)

\* Somebody sends a request.
Arrive(r) ==
    \E d \in Draft :
        \/ \E chain \in Chains \cup {<<Admin>>} : Submit(r, d, chain)
        \/ \E u \in User : \/ \E submitNow \in BOOLEAN : Create(r, u, d, submitNow)
                           \/ Approve(r, u, d)
                           \/ Reject(r, u, d)
                           \/ Cancel(r, u, d)

\* A request in flight goes on.
Continue(r) ==
    \/ SubmitRefused(r)
    \/ Put(r) \/ Emit(r) \/ Notify(r)
    \/ ExecuteGet(r) \/ ExecutePut(r)
    \/ CallSucceeds(r) \/ \E wrote \in BOOLEAN : CallFails(r, wrote)
    \/ DonePut(r) \/ DoneEmit(r) \/ FailPut(r) \/ FailEmit(r)

Next ==
    \/ \E r \in Req : Arrive(r) \/ Continue(r) \/ WriteFails(r)
    \/ Crash

Spec == Init /\ [][Next]_vars

\* The event loop runs every request whose awaited promise has settled.
FairSpec == Spec /\ \A r \in Req : WF_vars(Continue(r))

-----------------------------------------------------------------------------
(* Properties *)

Quiet(d) == \A r \in Req : req[r].draft # d

Granted == {"APPROVED", "EXECUTING", "EXECUTED", "EXECUTION_FAILED"}

\* Step i of rec was decided by somebody entitled to approve it.
Vouched(rec, i) ==
    /\ rec.steps[i].by \in User
    /\ rec.steps[i].by # rec.origin
    /\ Holds(rec.steps[i].by, rec.steps[i].role)

FullyApproved(rec) ==
    /\ rec.steps # <<>>
    /\ \A i \in DOMAIN rec.steps : rec.steps[i].decision = "APPROVE" /\ Vouched(rec, i)

\* However approvals, submissions, cancellations and restarts interleave, a stored draft
\* that was let through to execution carries an approval of every step, each by a holder
\* of the step's role who is not the originator.
Authorised == \A d \in Draft : store[d].status \in Granted => FullyApproved(store[d])

\* Steps are decided in the order of the chain: no lost update leaves a decided step
\* behind an undecided one.
SequentialApproval ==
    \A d \in Draft : \A i, j \in DOMAIN store[d].steps :
        (i < j /\ store[d].steps[j].decision # "NONE") => store[d].steps[i].decision = "APPROVE"

\* The audit trail never lags the write-back: whenever the adapter has changed the
\* target, the action.approved event of that draft is in the outbox already.
AuditBeforeWriteBack ==
    \A d \in Draft : applied[d] > 0 => HasEvent(d, "APPROVED")

\* A registered draft that waits has somebody who can log in, holds the role of the
\* step that waits, and is not the originator.
ApproverExists ==
    \A d \in Draft : \A i \in DOMAIN store[d].steps :
        (store[d].status = "PENDING_APPROVAL" /\ IsCurrent(store[d], i))
            => \E u \in User : MayDecide(u, store[d], i) /\ u # store[d].origin

\* Once no request is working on a draft, its audit trail (GET .../audit) ends with the
\* status it has, and nobody who should act on it has been left out.
AuditTrailComplete ==
    \A d \in Draft :
        (Quiet(d) /\ store[d].status \in Event) =>
            /\ events[d] # <<>>
            /\ events[d][Len(events[d])] = store[d].status

ApproverTold ==
    \A d \in Draft : \A i \in DOMAIN store[d].steps :
        (Quiet(d) /\ store[d].status = "PENDING_APPROVAL" /\ IsCurrent(store[d], i)) =>
            \A u \in User : (MayDecide(u, store[d], i) /\ u # store[d].origin) =>
                [to |-> u, about |-> "PENDING_APPROVAL", draft |-> d] \in inbox

\* All three: a draft that nobody works on has said what became of it, and to those who are needed
\* now, of whom there is one.
NobodyLeftOut == AuditTrailComplete /\ ApproverTold /\ ApproverExists

\* A rejected, cancelled, executed or failed draft stays what it is.
TerminalIsFinal ==
    [][\A d \in Draft : store[d].status \in {"REJECTED", "CANCELLED", "EXECUTED", "EXECUTION_FAILED"}
            => store'[d].status = store[d].status]_vars

-----------------------------------------------------------------------------
(* Why Authorised, SequentialApproval and AuditBeforeWriteBack hold: the     *)
(* stored records and the copies the requests work on are all sound, so it   *)
(* does not matter which copy overwrites which record.                       *)

Sound(rec) ==
    /\ \A i \in DOMAIN rec.steps : rec.steps[i].decision = "APPROVE" => Vouched(rec, i)
    /\ \A i, j \in DOMAIN rec.steps :
          (i < j /\ rec.steps[j].decision # "NONE") => rec.steps[i].decision = "APPROVE"
    /\ rec.status = "PENDING_APPROVAL" =>
          \A i \in DOMAIN rec.steps : rec.steps[i].decision # "REJECT"
    /\ rec.status \in Granted =>
          /\ rec.steps # <<>>
          /\ \A i \in DOMAIN rec.steps : rec.steps[i].decision = "APPROVE"

\* What the copy of a request that stands at pc may say.
StatusAt(pc) ==
    CASE pc \in {"put", "emit", "notify"} -> {"PENDING_APPROVAL", "APPROVED", "REJECTED", "CANCELLED"}
      [] pc = "execGet"                   -> {"APPROVED"}
      [] pc = "execPut"                   -> {"EXECUTING"}
      [] pc = "call"                      -> {"EXECUTING", "EXECUTED"}
      [] pc \in {"donePut", "doneEmit"}   -> {"EXECUTED"}
      [] pc \in {"failPut", "failEmit"}   -> {"EXECUTION_FAILED"}
      [] OTHER                            -> {"ABSENT"}

\* The request is past the emission of action.approved.
Announced(q) ==
    \/ q.pc \in {"execGet", "execPut", "call", "donePut", "doneEmit", "failPut", "failEmit"}
    \/ q.pc = "notify" /\ q.copy.status = "APPROVED"

RequestOK(q) ==
    /\ Sound(q.copy)
    /\ q.copy.status \in StatusAt(q.pc)
    /\ Announced(q) => HasEvent(q.draft, "APPROVED")

\* However requests, failed writes and restarts interleave, every record and every copy
\* is sound, and the adapter is never called before the approval is on the audit trail.
ApprovalInvariant ==
    /\ TypeOK
    /\ \A d \in Draft : Sound(store[d])
    /\ \A r \in Req : RequestOK(req[r])
    /\ \A d \in Draft : applied[d] > 0 => HasEvent(d, "APPROVED")

\* What it is for: chains are decided in order, and only a draft with all its approvals, each by
\* somebody entitled to it, gets to execution.
ApprovalsSound == ApprovalInvariant /\ Authorised /\ SequentialApproval

-----------------------------------------------------------------------------
(* The lifecycle this service promises *)

Lifecycle == INSTANCE ActionLifecycle WITH
    MaxChain <- 3,
    status  <- [d \in Draft |-> store[d].status],
    left    <- [d \in Draft |-> Cardinality(Undecided(store[d]))],
    written <- [d \in Draft |-> applied[d] > 0]

\* Requests for one draft that do not overlap implement the documented state machine,
\* and carry out what was approved, or report that they could not.
ImplementsProgress == Lifecycle!LifecycleSpec

=============================================================================
