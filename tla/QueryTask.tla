----------------------------- MODULE QueryTask -----------------------------
(***************************************************************************)
(* The query orchestrator of apps/agentcore/src/router/orchestrator.ts     *)
(* with the event log (events.ts) and the interruption sweep               *)
(* (ops/sweep.ts).                                                         *)
(*                                                                         *)
(* Each task has a pipeline of its own; replies, cancellations, the        *)
(* clarification timer, the submission of a sibling and the sweep act on   *)
(* the same row.  Every repository call is an await, and a patch is last-  *)
(* write-wins on the status, so an actor reads, lets the others run, and   *)
(* patches.  Clarifications waiting for a reply and the flags of cancelled *)
(* tasks live in memory and are gone after a restart.                      *)
(***************************************************************************)
EXTENDS Naturals, Sequences, FiniteSets

CONSTANTS
    Task,           \* ids newId("task") will hand out
    Key,            \* idempotency keys
    Conv,           \* conversations
    KeyOf,          \* the key a submission carries, or NoKey
    ConvOf,         \* the conversation a submission names, or NoConv
    NoKey, NoConv, NoTask,
    ActiveLimit,    \* unfinished tasks a user may have (3 in the code)
    MaxRounds,      \* clarification rounds before the agent takes over (2 in the code)
    Interference,   \* which of "submits", "cancel", "supersede", "age" may interfere
    MaxCrashes      \* bound: restarts

ASSUME SubmissionAssumption ==
    /\ KeyOf \in [Task -> Key \cup {NoKey}] /\ NoKey \notin Key
    /\ ConvOf \in [Task -> Conv \cup {NoConv}] /\ NoConv \notin Conv
    /\ NoTask \notin Task

ASSUME LimitAssumption ==
    /\ ActiveLimit \in Nat \ {0}
    /\ MaxRounds \in Nat \ {0}
    /\ Interference \subseteq {"submits", "cancel", "supersede", "age"}
    /\ MaxCrashes \in Nat

VARIABLES
    status,     \* tasks.status
    rounds,     \* tasks.clarificationRounds
    idem,       \* repos.idempotency: the task first submitted under a key
    events,     \* the terminal events of each task's log, in order
    experience, \* tasks distilled into the experience memory
    old,        \* tasks created more than ten minutes ago
    pending,    \* this.pending: tasks waiting for a reply, their timers armed
    cancelled,  \* this.cancelled
    pipe,       \* where each task's own submission and pipeline stand
    job,        \* a status change in flight, per task and other actor
    sib,        \* the siblings a submission still has to supersede
    crashes

store  == <<status, rounds, idem, events, experience, old>>
memory == <<pending, cancelled, pipe, job, sib>>
vars   == <<store, memory, crashes>>

-----------------------------------------------------------------------------
(* Types *)

Status == {"ABSENT", "ROUTING", "AWAITING_CLARIFICATION", "EXECUTING_WORKFLOW",
           "EXECUTING_AGENT", "COMPLETED", "FAILED", "CANCELLED"}
Active == {"ROUTING", "AWAITING_CLARIFICATION", "EXECUTING_WORKFLOW", "EXECUTING_AGENT"}
Terminal == {"COMPLETED", "FAILED", "CANCELLED"}

\* A pipeline: where it stands, and the outcome it is about to write.
PipePc == {"none", "counted", "keyed", "supersede", "superPatch", "superEmit", "queued",
           "route", "proceed", "ask", "arm", "waiting", "reroute", "planA", "runA", "planB",
           "replyB", "scene", "runB", "replyRun", "runScene",
           "fail", "patch", "emit", "record", "done"}
Pipe == [pc : PipePc, out : Terminal \cup {"OPEN"}, agent : BOOLEAN]
At(pc) == [pc |-> pc, out |-> "OPEN", agent |-> FALSE]

\* The other actors; "read" is a canceller or a replier that has fetched the row.
Actor == {"canceller", "replier", "timer", "sweeper"}
Job == [pc : {"idle", "read", "patch", "emit"}, saw : Status]
NoJob == [pc |-> "idle", saw |-> "ABSENT"]

TypeOK ==
    /\ status \in [Task -> Status]
    /\ rounds \in [Task -> Nat]
    /\ idem \in [Key -> Task \cup {NoTask}]
    /\ events \in [Task -> Seq(Terminal)]
    /\ experience \subseteq Task /\ old \subseteq Task
    /\ pending \subseteq Task /\ cancelled \subseteq Task
    /\ pipe \in [Task -> Pipe]
    /\ job \in [Task -> [Actor -> Job]]
    /\ sib \in [Task -> [todo : SUBSET Task, victim : Task \cup {NoTask}]]
    /\ crashes \in 0..MaxCrashes

NoSiblings == [todo |-> {}, victim |-> NoTask]

Init ==
    /\ status = [t \in Task |-> "ABSENT"]
    /\ rounds = [t \in Task |-> 0]
    /\ idem = [k \in Key |-> NoTask]
    /\ events = [t \in Task |-> <<>>]
    /\ experience = {} /\ old = {} /\ pending = {} /\ cancelled = {}
    /\ pipe = [t \in Task |-> At("none")]
    /\ job = [t \in Task |-> [a \in Actor |-> NoJob]]
    /\ sib = [t \in Task |-> NoSiblings]
    /\ crashes = 0

-----------------------------------------------------------------------------
(* submitQuery *)

\* Submissions between the count and the end of the request; they overlap only under
\* "submits".
Submitting == {t \in Task :
    pipe[t].pc \in {"counted", "keyed", "supersede", "superPatch", "superEmit"}}

ActiveTasks == {t \in Task : status[t] \in Active}

Go(t, pc) == pipe' = [pipe EXCEPT ![t] = At(pc)]

Submit(t) ==
    /\ pipe[t].pc = "none" /\ status[t] = "ABSENT"
    /\ "submits" \in Interference \/ Submitting = {}
    /\ Cardinality(ActiveTasks) < ActiveLimit      \* else 429
    /\ Go(t, "counted")
    /\ UNCHANGED <<store, pending, cancelled, job, sib, crashes>>

\* Mutant of Reserve: put instead of putIfAbsent, the key goes to the newest submission.
ReserveOverwrites(t) ==
    /\ pipe[t].pc = "counted"
    /\ idem' = IF KeyOf[t] = NoKey THEN idem ELSE [idem EXCEPT ![KeyOf[t]] = t]
    /\ Go(t, "keyed")
    /\ UNCHANGED <<status, rounds, events, experience, old,
                   pending, cancelled, job, sib, crashes>>

\* putIfAbsent under the key; a submission whose key is taken answers with the first
\* task, unless that task's row is not there (yet).
Reserve(t) ==
    LET k == KeyOf[t] IN
    /\ pipe[t].pc = "counted"
    /\ idem' = IF k # NoKey /\ idem[k] = NoTask THEN [idem EXCEPT ![k] = t] ELSE idem
    /\ Go(t, IF k # NoKey /\ idem[k] # NoTask /\ status[idem[k]] # "ABSENT"
             THEN "done" ELSE "keyed")
    /\ UNCHANGED <<status, rounds, events, experience, old,
                   pending, cancelled, job, sib, crashes>>

\* The row is inserted; keepPrevious leaves the conversation's other tasks alone.
Insert(t, keepPrevious) ==
    /\ pipe[t].pc = "keyed"
    /\ status' = [status EXCEPT ![t] = "ROUTING"]
    /\ keepPrevious \/ "supersede" \in Interference
    /\ Go(t, IF keepPrevious \/ ConvOf[t] = NoConv THEN "queued" ELSE "supersede")
    /\ UNCHANGED <<rounds, idem, events, experience, old,
                   pending, cancelled, job, sib, crashes>>

\* supersedeConversation lists the siblings once, with the statuses they have then ...
ListSiblings(t) ==
    /\ pipe[t].pc = "supersede"
    /\ sib' = [sib EXCEPT ![t].todo =
                  {s \in ActiveTasks \ {t} : ConvOf[s] = ConvOf[t]}]
    /\ Go(t, "superPatch")
    /\ UNCHANGED <<store, pending, cancelled, job, crashes>>

\* ... and takes them one by one: flag, drop the clarification, patch, emit.
MarkSibling(t, s) ==
    /\ pipe[t].pc = "superPatch" /\ sib[t].victim = NoTask
    /\ s \in sib[t].todo
    /\ cancelled' = cancelled \cup {s}
    /\ pending' = pending \ {s}
    /\ sib' = [sib EXCEPT ![t] = [todo |-> @.todo \ {s}, victim |-> s]]
    /\ UNCHANGED <<store, pipe, job, crashes>>

\* Mutant of PatchSibling: the superseded task's stream is not told.
PatchSiblingSilently(t) ==
    /\ pipe[t].pc = "superPatch" /\ sib[t].victim # NoTask
    /\ status' = [status EXCEPT ![sib[t].victim] = "CANCELLED"]
    /\ sib' = [sib EXCEPT ![t].victim = NoTask]
    /\ UNCHANGED <<rounds, idem, events, experience, old,
                   pending, cancelled, pipe, job, crashes>>

PatchSibling(t) ==
    /\ pipe[t].pc = "superPatch" /\ sib[t].victim # NoTask
    /\ status' = [status EXCEPT ![sib[t].victim] = "CANCELLED"]
    /\ Go(t, "superEmit")
    /\ UNCHANGED <<rounds, idem, events, experience, old,
                   pending, cancelled, job, sib, crashes>>

EmitSibling(t) ==
    /\ pipe[t].pc = "superEmit"
    /\ events' = [events EXCEPT ![sib[t].victim] = Append(@, "CANCELLED")]
    /\ sib' = [sib EXCEPT ![t].victim = NoTask]
    /\ Go(t, "superPatch")
    /\ UNCHANGED <<status, rounds, idem, experience, old, pending, cancelled, job, crashes>>

SupersedeDone(t) ==
    /\ pipe[t].pc = "superPatch" /\ sib[t] = NoSiblings
    /\ Go(t, "queued")
    /\ UNCHANGED <<store, pending, cancelled, job, sib, crashes>>

-----------------------------------------------------------------------------
(* The pipeline *)

\* A step that only moves the pipeline on.
Step(t, pc, next) ==
    /\ pipe[t].pc = pc
    /\ Go(t, next)
    /\ UNCHANGED <<store, pending, cancelled, job, sib, crashes>>

\* A step that patches the status.
StepPatch(t, pc, s, next) ==
    /\ pipe[t].pc = pc
    /\ status' = [status EXCEPT ![t] = s]
    /\ Go(t, next)
    /\ UNCHANGED <<rounds, idem, events, experience, old, pending, cancelled, job, sib, crashes>>

\* The pipeline has decided how the task ends; it patches next, then emits.
Conclude(t, pc, out, agent) ==
    /\ pipe[t].pc = pc
    /\ pipe' = [pipe EXCEPT ![t] = [pc |-> "patch", out |-> out, agent |-> agent]]
    /\ UNCHANGED <<store, pending, cancelled, job, sib, crashes>>

\* runPipeline looks at the status once, when it starts.
RunPipeline(t) == Step(t, "queued", IF status[t] = "ROUTING" THEN "route" ELSE "done")

\* Scene mode, narrowing, classification and thresholds choose where to go on.
Route(t) ==
    \E next \in {"scene", "planB", "ask", "proceed", "fail"} : Step(t, "route", next)

\* WORKFLOW_ONLY without a hit, or the agent fallback switched off.
WorkflowOnlyMiss(t) ==
    \E pc \in {"route", "planB", "replyB"} : Conclude(t, pc, "COMPLETED", FALSE)

\* Mutant of ProceedWithIntent: > for >=, one question too many.
ProceedOneMore(t) ==
    \/ Step(t, "proceed", "planA")
    \/ Step(t, "proceed", IF rounds[t] > MaxRounds THEN "planB" ELSE "ask")

\* proceedWithIntent: the slots are filled, or something is missing; after MaxRounds
\* questions the agent takes over.
ProceedWithIntent(t) ==
    \/ Step(t, "proceed", "planA")
    \/ Step(t, "proceed", IF rounds[t] >= MaxRounds THEN "planB" ELSE "ask")

\* requestClarification: patch, then arm the timer and remember the question.
RequestClarification(t) ==
    /\ pipe[t].pc = "ask"
    /\ status' = [status EXCEPT ![t] = "AWAITING_CLARIFICATION"]
    /\ rounds' = [rounds EXCEPT ![t] = @ + 1]
    /\ Go(t, "arm")
    /\ UNCHANGED <<idem, events, experience, old, pending, cancelled, job, sib, crashes>>

ArmTimer(t) ==
    /\ pipe[t].pc = "arm"
    /\ pending' = pending \cup {t}
    /\ Go(t, "waiting")
    /\ UNCHANGED <<store, cancelled, job, sib, crashes>>

\* runPathA: the plan is found (or not), the steps run, the result is written whatever
\* has happened to the row meanwhile.
RunPathA(t) ==
    \/ Step(t, "planA", "fail")
    \/ StepPatch(t, "planA", "EXECUTING_WORKFLOW", "runA")

WorkflowEnds(t) == \E out \in {"COMPLETED", "FAILED"} : Conclude(t, "runA", out, FALSE)

\* The agent loop runs in the pipeline, or in the request handler of a reply.
RunPathB(t) ==
    \/ StepPatch(t, "planB", "EXECUTING_AGENT", "runB")
    \/ StepPatch(t, "replyB", "EXECUTING_AGENT", "replyRun")

\* The flag is looked at when the loop has returned.
AgentEnds(t) == \E pc \in {"runB", "replyRun"} :
    Conclude(t, pc, IF t \in cancelled THEN "CANCELLED" ELSE "COMPLETED", TRUE)

RunSceneAgent(t) == StepPatch(t, "scene", "EXECUTING_AGENT", "runScene")

\* The scene agent's result is written without a look at the flag.
SceneAgentEnds(t) == Conclude(t, "runScene", "COMPLETED", TRUE)

\* An exception anywhere in the pipeline ends in failTask ...
Throw(t) == \E pc \in {"route", "proceed", "runA", "runB", "runScene"} : Step(t, pc, "fail")

\* ... but one in the handler of a reply ends the request and leaves the row as it is.
ThrowToReplier(t) == Step(t, "replyRun", "done")

FailTask(t) ==
    \/ status[t] \in Terminal /\ Step(t, "fail", "done")
    \/ status[t] \notin Terminal /\ Conclude(t, "fail", "FAILED", FALSE)

PatchOutcome(t) ==
    /\ pipe[t].pc = "patch"
    /\ status' = [status EXCEPT ![t] = pipe[t].out]
    /\ pipe' = [pipe EXCEPT ![t].pc = "emit"]
    /\ UNCHANGED <<rounds, idem, events, experience, old, pending, cancelled, job, sib, crashes>>

EmitOutcome(t) ==
    /\ pipe[t].pc = "emit"
    /\ events' = [events EXCEPT ![t] = Append(@, pipe[t].out)]
    /\ Go(t, IF pipe[t].agent /\ pipe[t].out = "COMPLETED" THEN "record" ELSE "done")
    /\ UNCHANGED <<status, rounds, idem, experience, old, pending, cancelled, job, sib, crashes>>

\* recordExperience never fails the task.
RecordExperience(t) ==
    /\ pipe[t].pc = "record"
    /\ experience' = experience \cup {t}
    /\ Go(t, "done")
    /\ UNCHANGED <<status, rounds, idem, events, old, pending, cancelled, job, sib, crashes>>

\* After a reply: none of the options, or on with the intent.
Reroute(t) == \E next \in {"replyB", "proceed"} : StepPatch(t, "reroute", "ROUTING", next)

-----------------------------------------------------------------------------
(* Replies, cancellation, timer, sweep *)

SetJob(t, a, pc, saw) == job' = [job EXCEPT ![t][a] = [pc |-> pc, saw |-> saw]]

\* Both handlers fetch the row first ...
FetchRow(t, a) ==
    /\ a \in {"canceller", "replier"}
    /\ a = "canceller" => "cancel" \in Interference
    /\ job[t][a].pc = "idle" /\ status[t] # "ABSENT"
    /\ SetJob(t, a, "read", status[t])
    /\ UNCHANGED <<store, pending, cancelled, pipe, sib, crashes>>

\* Mutant of HandleClarification: the question is left in the map.
HandleClarificationKeepsQuestion(t) ==
    LET accepted == job[t]["replier"].saw = "AWAITING_CLARIFICATION" /\ t \in pending IN
    /\ job[t]["replier"].pc = "read"
    /\ SetJob(t, "replier", "idle", "ABSENT")
    /\ pipe' = IF accepted THEN [pipe EXCEPT ![t] = At("reroute")] ELSE pipe
    /\ UNCHANGED <<store, pending, cancelled, sib, crashes>>

\* ... a reply goes on if the row said AWAITING_CLARIFICATION and the question is still
\* there, else 409 ...
HandleClarification(t) ==
    LET accepted == job[t]["replier"].saw = "AWAITING_CLARIFICATION" /\ t \in pending IN
    /\ job[t]["replier"].pc = "read"
    /\ SetJob(t, "replier", "idle", "ABSENT")
    /\ pending' = IF accepted THEN pending \ {t} ELSE pending
    /\ pipe' = IF accepted THEN [pipe EXCEPT ![t] = At("reroute")] ELSE pipe
    /\ UNCHANGED <<store, cancelled, sib, crashes>>

\* ... and a cancellation raises the flag and writes CANCELLED unless the task executes.
CancelQuery(t) ==
    /\ job[t]["canceller"].pc = "read"
    /\ cancelled' = cancelled \cup {t}
    /\ pending' = pending \ {t}
    /\ IF t \in pending \/ job[t]["canceller"].saw = "ROUTING"
       THEN SetJob(t, "canceller", "patch", "CANCELLED")
       ELSE SetJob(t, "canceller", "idle", "ABSENT")
    /\ UNCHANGED <<store, pipe, sib, crashes>>

\* The ten minutes for a reply are over.
CancelForTimeout(t) ==
    /\ t \in pending /\ job[t]["timer"].pc = "idle"
    /\ pending' = pending \ {t}
    /\ SetJob(t, "timer", "patch", "CANCELLED")
    /\ UNCHANGED <<store, cancelled, pipe, sib, crashes>>

\* Ten minutes since the creation are over.  Without "age" this takes longer than any
\* pipeline, so only tasks no process works on any more are affected.
GrowOld(t) ==
    /\ status[t] # "ABSENT" /\ t \notin old
    /\ "age" \in Interference \/ pipe[t].pc = "done"
    /\ old' = old \cup {t}
    /\ UNCHANGED <<status, rounds, idem, events, experience, memory, crashes>>

\* Mutant of Sweep: looks for interrupted agents only.
SweepAgents(t) ==
    /\ job[t]["sweeper"].pc = "idle"
    /\ t \in old /\ status[t] = "EXECUTING_AGENT"
    /\ SetJob(t, "sweeper", "patch", "FAILED")
    /\ UNCHANGED <<store, pending, cancelled, pipe, sib, crashes>>

\* The sweep lists what is stuck and then patches it; both passes over the list are
\* one job per task.
Sweep(t) ==
    /\ job[t]["sweeper"].pc = "idle"
    /\ t \in old /\ status[t] \in {"EXECUTING_WORKFLOW", "EXECUTING_AGENT"}
    /\ SetJob(t, "sweeper", "patch", "FAILED")
    /\ UNCHANGED <<store, pending, cancelled, pipe, sib, crashes>>

\* Canceller, timer and sweeper patch, then emit the same outcome.
JobPatch(t, a) ==
    /\ job[t][a].pc = "patch"
    /\ status' = [status EXCEPT ![t] = job[t][a].saw]
    /\ SetJob(t, a, "emit", job[t][a].saw)
    /\ UNCHANGED <<rounds, idem, events, experience, old, pending, cancelled, pipe, sib, crashes>>

JobEmit(t, a) ==
    /\ job[t][a].pc = "emit"
    /\ events' = [events EXCEPT ![t] = Append(@, job[t][a].saw)]
    /\ SetJob(t, a, "idle", "ABSENT")
    /\ UNCHANGED <<status, rounds, idem, experience, old, pending, cancelled, pipe, sib, crashes>>

\* A restart forgets pipelines, questions, flags and timers; the rows stay.
Crash ==
    /\ crashes < MaxCrashes /\ crashes' = crashes + 1
    /\ pending' = {} /\ cancelled' = {}
    /\ pipe' = [t \in Task |-> IF pipe[t].pc = "none" THEN At("none") ELSE At("done")]
    /\ job' = [t \in Task |-> [a \in Actor |-> NoJob]]
    /\ sib' = [t \in Task |-> NoSiblings]
    /\ UNCHANGED store

-----------------------------------------------------------------------------
(* The system *)

\* What the process itself does next for the submission and the pipeline of t.
Work(t) ==
    \/ Reserve(t) \/ \E keep \in BOOLEAN : Insert(t, keep)
    \/ ListSiblings(t) \/ (\E s \in Task : MarkSibling(t, s))
    \/ PatchSibling(t) \/ EmitSibling(t) \/ SupersedeDone(t)
    \/ RunPipeline(t) \/ Route(t) \/ WorkflowOnlyMiss(t) \/ ProceedWithIntent(t)
    \/ RequestClarification(t) \/ ArmTimer(t) \/ Reroute(t)
    \/ RunPathA(t) \/ WorkflowEnds(t) \/ RunPathB(t) \/ AgentEnds(t)
    \/ RunSceneAgent(t) \/ SceneAgentEnds(t)
    \/ Throw(t) \/ ThrowToReplier(t) \/ FailTask(t) \/ PatchOutcome(t) \/ EmitOutcome(t) \/ RecordExperience(t)

\* What it does next for one of the other actors.
JobWork(t, a) ==
    \/ a = "replier" /\ HandleClarification(t)
    \/ a = "canceller" /\ CancelQuery(t)
    \/ JobPatch(t, a) \/ JobEmit(t, a)

Next ==
    \/ \E t \in Task :
          \/ Submit(t) \/ Work(t)
          \/ \E a \in Actor : FetchRow(t, a) \/ JobWork(t, a)
          \/ CancelForTimeout(t) \/ GrowOld(t) \/ Sweep(t)
    \/ Crash

Spec == Init /\ [][Next]_vars

\* The event loop serves every settled promise, timers fire and the sweep comes round
\* every minute; nobody has to submit, reply or cancel.
Fairness == \A t \in Task :
    /\ WF_vars(Work(t)) /\ \A a \in Actor : WF_vars(JobWork(t, a))
    /\ WF_vars(CancelForTimeout(t)) /\ WF_vars(GrowOld(t)) /\ WF_vars(Sweep(t))

FairSpec == Spec /\ Fairness

-----------------------------------------------------------------------------
(* Properties *)

\* Nobody is working on the task.
Quiet(t) ==
    /\ pipe[t].pc = "done" \/ (pipe[t].pc = "waiting" /\ t \notin pending)
    /\ \A a \in Actor : job[t][a].pc = "idle"
    /\ \A s \in Task : sib[s].victim # t

\* A task that has ended and that nobody works on has told its stream so: whoever wins a
\* race of cancellation, timeout, supersession, sweep and completion, some terminal event
\* is there to close the stream (no restart in between).
EndedIsAnnounced == \A t \in Task :
    (Quiet(t) /\ status[t] \in Terminal) => events[t] # <<>>

\* However replies, timeouts and cancellations interleave, a task asks back at most
\* MaxRounds times.
RoundsBounded == \A t \in Task : rounds[t] <= MaxRounds

\* A question that waits for its reply belongs to a pipeline that has stopped to wait, so
\* no reply ever starts a second pipeline for a task whose first one is still running.
OnePipeline == \A t \in Task : t \in pending => pipe[t].pc = "waiting"

\* Every submitted task ends; after a restart the sweep ends those that were executing, and
\* only one that was being routed or waiting for a reply may stay behind.
Settles == \A t \in Task : (status[t] # "ABSENT") ~>
    \/ status[t] \in Terminal
    \/ crashes > 0 /\ status[t] \in {"ROUTING", "AWAITING_CLARIFICATION"}

\* One key, one task, as long as the key leads to a row: a submission that a restart caught
\* between reserving its key and inserting its row leaves a key nobody can use again.
IdempotentSubmission == \A t, u \in Task :
    (t # u /\ KeyOf[t] # NoKey /\ KeyOf[t] = KeyOf[u]) =>
        \/ status[t] = "ABSENT" \/ status[u] = "ABSENT"
        \/ crashes > 0 /\ \E w \in Task : idem[KeyOf[t]] = w /\ status[w] = "ABSENT"

\* A stream carries one terminal event.
OneTerminalEvent == \A t \in Task : Len(events[t]) <= 1

\* One task per key, a bounded number of questions and one ending per task.
OneOfEach == TypeOK /\ IdempotentSubmission /\ RoundsBounded /\ OneTerminalEvent

Lifecycle == INSTANCE QueryLifecycle WITH
    verdict <- [t \in Task |-> IF events[t] = <<>> THEN "OPEN" ELSE events[t][Len(events[t])]]

\* Left alone by cancellations, siblings and the sweep of live tasks, but not by replies,
\* timeouts and restarts, a task behaves as its lifecycle says.
ImplementsLifecycle == Lifecycle!QuerySafety

=============================================================================
