-------------------------- MODULE QueryTaskProofs --------------------------
(***************************************************************************)
(* What QueryTask promises for any tasks, keys, conversations, limits and  *)
(* interference: one pipeline per task, a bounded number of questions,     *)
(* and, without a restart, a terminal event for whatever has ended; and    *)
(* that a task nobody interferes with implements its lifecycle.            *)
(*                                                                         *)
(* All actors write the status as they like.  The first argument is that   *)
(* whoever writes a terminal one still holds the event that goes with it,  *)
(* and that a pipeline gives up its place only by waiting for a reply; the *)
(* second, that without interference the row, the stream and the key of a  *)
(* task say what the place of its pipeline says.                           *)
(***************************************************************************)
EXTENDS QueryTask, TLAPS

-----------------------------------------------------------------------------
(* The inductive invariant *)

\* Before its first question a task has none behind it.
Early == {"none", "counted", "keyed", "supersede", "superPatch", "superEmit", "queued", "route"}

PipeSound(t) ==
    /\ pipe[t].pc \in {"patch", "emit"} => pipe[t].out \in Terminal
    /\ t \in pending => pipe[t].pc = "waiting"
    /\ rounds[t] <= MaxRounds
    /\ pipe[t].pc = "ask" => rounds[t] < MaxRounds
    /\ pipe[t].pc \in Early => rounds[t] = 0

\* What another actor writes is an ending.
JobsSound(t) == \A a \in Actor : job[t][a].pc \in {"patch", "emit"} => job[t][a].saw \in Terminal

\* Somebody is about to tell the stream of t.
Telling(t) ==
    \/ pipe[t].pc = "emit"
    \/ \E a \in Actor : job[t][a].pc = "emit"
    \/ \E s \in Task : pipe[s].pc = "superEmit" /\ sib[s].victim = t

Told(t) == status[t] \in Terminal => events[t] # <<>> \/ Telling(t)

QueryInv ==
    /\ TypeOK
    /\ \A t \in Task : PipeSound(t) /\ JobsSound(t)
    /\ MaxCrashes = 0 => \A t \in Task : Told(t)

-----------------------------------------------------------------------------
(* Facts about the data *)

LEMMA AtType == \A pc \in PipePc : At(pc) \in Pipe /\ At(pc).pc = pc
  BY DEF At, Pipe

LEMMA NoJobType == NoJob \in Job /\ NoJob.pc = "idle"
  BY DEF NoJob, Job, Status

LEMMA InitQuery == Init => QueryInv
  <1> SUFFICES ASSUME Init PROVE QueryInv
    OBVIOUS
  <1>1. \A t \in Task : pipe[t] = At("none") /\ At("none") \in Pipe /\ At("none").pc = "none"
    BY AtType DEF Init, PipePc
  <1>2. \A t \in Task, a \in Actor : job[t][a] = NoJob
    BY DEF Init
  <1>3. TypeOK
    <2>1. status \in [Task -> Status] /\ rounds \in [Task -> Nat] /\ idem \in [Key -> Task \cup {NoTask}]
      BY DEF Init, Status
    <2>2. events \in [Task -> Seq(Terminal)]
      BY DEF Init
    <2>3. pipe \in [Task -> Pipe] /\ job \in [Task -> [Actor -> Job]]
      BY <1>1, NoJobType DEF Init
    <2>4. sib \in [Task -> [todo : SUBSET Task, victim : Task \cup {NoTask}]]
      BY DEF Init, NoSiblings
    <2> QED
      BY <2>1, <2>2, <2>3, <2>4, LimitAssumption DEF Init, TypeOK
  <1>4. \A t \in Task : PipeSound(t)
    BY <1>1, LimitAssumption DEF Init, PipeSound
  <1>5. \A t \in Task : JobsSound(t) /\ Told(t)
    BY <1>2, NoJobType DEF Init, JobsSound, Told, Terminal
  <1> QED
    BY <1>3, <1>4, <1>5 DEF QueryInv

-----------------------------------------------------------------------------
(* Steps of a pipeline *)

\* The pipeline of t goes to p, which is as sound as where it came from.
LEMMA PipeKeeps ==
    ASSUME QueryInv, TypeOK', NEW t \in Task, NEW p, pipe' = [pipe EXCEPT ![t] = p], UNCHANGED job,
           p.pc \in {"patch", "emit"} => p.out \in Terminal,
           pending' \subseteq pending \cup {t}, t \in pending' => p.pc = "waiting",
           \A u \in Task : u # t => rounds'[u] = rounds[u],
           rounds'[t] <= MaxRounds,
           p.pc = "ask" => rounds'[t] < MaxRounds,
           p.pc \in Early => rounds'[t] = 0,
           MaxCrashes = 0 => \A u \in Task : Told(u)'
    PROVE  QueryInv'
  <1>1. pipe'[t] = p /\ \A u \in Task : u # t => pipe'[u] = pipe[u]
    BY DEF QueryInv, TypeOK
  <1>2. ASSUME NEW u \in Task PROVE PipeSound(u)'
    <2>1. CASE u = t
      BY <1>1, <2>1 DEF PipeSound
    <2>2. CASE u # t
      BY <1>1, <2>2 DEF QueryInv, PipeSound
    <2> QED
      BY <2>1, <2>2
  <1>3. \A u \in Task : JobsSound(u)'
    BY DEF QueryInv, JobsSound
  <1> QED
    BY <1>2, <1>3 DEF QueryInv

\* Nothing that is still to be told is forgotten by a pipeline that is not telling anything.
LEMMA TellKeeps ==
    ASSUME QueryInv, MaxCrashes = 0, NEW t \in Task, NEW p, pipe' = [pipe EXCEPT ![t] = p],
           pipe[t].pc \notin {"emit", "superEmit"}, UNCHANGED <<job, events>>,
           \A u \in Task : sib'[u].victim = sib[u].victim,
           \A u \in Task : u # t => status'[u] = status[u],
           status'[t] = status[t] \/ status'[t] \notin Terminal \/ p.pc = "emit"
    PROVE  \A u \in Task : Told(u)'
  <1>1. pipe'[t] = p /\ \A u \in Task : u # t => pipe'[u] = pipe[u]
    BY DEF QueryInv, TypeOK
  <1>2. ASSUME NEW u \in Task, Telling(u) PROVE Telling(u)'
    BY <1>1, <1>2 DEF Telling
  <1>3. p.pc = "emit" => Telling(t)'
    BY <1>1 DEF Telling
  <1> QED
    BY <1>2, <1>3 DEF QueryInv, Told

\* A pipeline that goes on to another place, perhaps with a status that is no ending.
LEMMA GoKeeps ==
    ASSUME QueryInv, NEW t \in Task, NEW pc \in PipePc \ {"patch", "emit", "waiting"}, Go(t, pc),
           pipe[t].pc \notin {"emit", "superEmit", "waiting"},
           UNCHANGED <<rounds, events, old, job, crashes>>,
           pending' \subseteq pending,
           idem' \in [Key -> Task \cup {NoTask}], experience' \subseteq Task, cancelled' \subseteq Task,
           sib' \in [Task -> [todo : SUBSET Task, victim : Task \cup {NoTask}]],
           \A u \in Task : sib'[u].victim = sib[u].victim,
           UNCHANGED status \/ \E s \in Status \ Terminal : status' = [status EXCEPT ![t] = s],
           pc = "ask" => rounds[t] < MaxRounds,
           pc \in Early => rounds[t] = 0
    PROVE  QueryInv'
  <1>1. At(pc) \in Pipe /\ At(pc).pc = pc /\ pipe' = [pipe EXCEPT ![t] = At(pc)]
    BY AtType DEF Go
  <1>2. /\ status' \in [Task -> Status] /\ \A u \in Task : u # t => status'[u] = status[u]
        /\ status'[t] = status[t] \/ status'[t] \notin Terminal
    <2>1. status \in [Task -> Status]
      BY DEF QueryInv, TypeOK
    <2>2. CASE UNCHANGED status
      BY <2>1, <2>2
    <2>3. CASE \E s \in Status \ Terminal : status' = [status EXCEPT ![t] = s]
      BY <2>1, <2>3
    <2> QED
      BY <2>2, <2>3
  <1>4. TypeOK'
    BY <1>1, <1>2 DEF QueryInv, TypeOK
  <1>5. PipeSound(t) /\ t \notin pending'
    BY DEF QueryInv, PipeSound
  <1>6. MaxCrashes = 0 => \A u \in Task : Told(u)'
    BY <1>1, <1>2, TellKeeps
  <1>7. pending' \subseteq pending \cup {t} /\ rounds'[t] <= MaxRounds /\ \A u \in Task : rounds'[u] = rounds[u]
    BY <1>5 DEF PipeSound
  <1>8. At(pc).pc \notin {"patch", "emit"}
    BY <1>1
  <1> QED
    BY <1>1, <1>4, <1>5, <1>6, <1>7, <1>8, PipeKeeps

LEMMA StepKeeps ==
    ASSUME QueryInv, NEW t \in Task, NEW from, NEW to \in PipePc \ {"patch", "emit", "waiting"}, Step(t, from, to),
           from \notin {"emit", "superEmit", "waiting"},
           to = "ask" => rounds[t] < MaxRounds,
           to \in Early => rounds[t] = 0
    PROVE  QueryInv'
  <1>1. Go(t, to) /\ pipe[t].pc = from
        /\ UNCHANGED <<status, rounds, idem, events, experience, old, pending, cancelled, job, sib, crashes>>
    BY DEF Step, store
  <1>2. idem \in [Key -> Task \cup {NoTask}] /\ experience \subseteq Task /\ cancelled \subseteq Task
        /\ sib \in [Task -> [todo : SUBSET Task, victim : Task \cup {NoTask}]]
    BY DEF QueryInv, TypeOK
  <1> QED
    BY <1>1, <1>2, GoKeeps

LEMMA StepPatchKeeps ==
    ASSUME QueryInv, NEW t \in Task, NEW from, NEW s \in Status \ Terminal,
           NEW to \in PipePc \ {"patch", "emit", "waiting", "ask"}, to \notin Early,
           StepPatch(t, from, s, to),
           from \notin {"emit", "superEmit", "waiting"}
    PROVE  QueryInv'
  <1>1. Go(t, to) /\ pipe[t].pc = from /\ status' = [status EXCEPT ![t] = s]
        /\ UNCHANGED <<rounds, idem, events, experience, old, pending, cancelled, job, sib, crashes>>
    BY DEF StepPatch
  <1>2. idem \in [Key -> Task \cup {NoTask}] /\ experience \subseteq Task /\ cancelled \subseteq Task
        /\ sib \in [Task -> [todo : SUBSET Task, victim : Task \cup {NoTask}]]
    BY DEF QueryInv, TypeOK
  <1> QED
    BY <1>1, <1>2, GoKeeps

LEMMA ConcludeKeeps ==
    ASSUME QueryInv, NEW t \in Task, NEW from, NEW out \in Terminal, NEW agent \in BOOLEAN,
           Conclude(t, from, out, agent),
           from \notin {"emit", "superEmit", "waiting"}
    PROVE  QueryInv'
  <1> DEFINE p == [pc |-> "patch", out |-> out, agent |-> agent]
  <1>1. p \in Pipe /\ p.pc = "patch" /\ p.out = out
    BY DEF Pipe, PipePc
  <1> HIDE DEF p
  <1>2. /\ pipe[t].pc = from /\ pipe' = [pipe EXCEPT ![t] = p]
        /\ UNCHANGED <<status, rounds, idem, events, experience, old, pending, cancelled, job, sib, crashes>>
    BY DEF Conclude, store, p
  <1>3. TypeOK'
    BY <1>1, <1>2 DEF QueryInv, TypeOK
  <1>4. t \notin pending' /\ rounds[t] <= MaxRounds
    BY <1>2 DEF QueryInv, PipeSound
  <1>5. MaxCrashes = 0 => \A u \in Task : Told(u)'
    BY <1>2, TellKeeps
  <1>6. p.pc \notin Early /\ p.pc # "ask"
    BY <1>1 DEF Early
  <1> QED
    BY <1>1, <1>2, <1>3, <1>4, <1>5, <1>6, PipeKeeps

-----------------------------------------------------------------------------
(* One lemma per group of actions *)

LEMMA SubmissionKeeps ==
    ASSUME QueryInv, NEW t \in Task,
           Submit(t) \/ Reserve(t) \/ (\E keep \in BOOLEAN : Insert(t, keep))
           \/ ListSiblings(t) \/ SupersedeDone(t)
    PROVE  QueryInv'
  <1>1. /\ status \in [Task -> Status] /\ idem \in [Key -> Task \cup {NoTask}]
        /\ experience \subseteq Task /\ cancelled \subseteq Task
        /\ sib \in [Task -> [todo : SUBSET Task, victim : Task \cup {NoTask}]]
    BY DEF QueryInv, TypeOK
  <1>2. pipe[t].pc \in {"none", "counted", "keyed", "supersede", "superPatch"} => rounds[t] = 0
    BY DEF QueryInv, PipeSound, Early
  <1>3. "ROUTING" \in Status \ Terminal
    BY DEF Status, Terminal
  <1>4. CASE Submit(t)
    <2>1. Go(t, "counted") /\ pipe[t].pc = "none"
          /\ UNCHANGED <<status, rounds, idem, events, experience, old, pending, cancelled, job, sib, crashes>>
      BY <1>4 DEF Submit, store
    <2> QED
      BY <1>1, <1>2, <2>1, GoKeeps DEF PipePc
  <1>5. CASE Reserve(t)
    <2>1. PICK pc \in {"done", "keyed"} : Go(t, pc)
      BY <1>5 DEF Reserve
    <2>2. pipe[t].pc = "counted"
          /\ UNCHANGED <<status, rounds, events, experience, old, pending, cancelled, job, sib, crashes>>
      BY <1>5 DEF Reserve
    <2>3. idem' \in [Key -> Task \cup {NoTask}]
      BY <1>1, <1>5 DEF Reserve
    <2> QED
      BY <1>1, <1>2, <2>1, <2>2, <2>3, GoKeeps DEF PipePc
  <1>6. CASE \E keep \in BOOLEAN : Insert(t, keep)
    <2>1. PICK pc \in {"queued", "supersede"} : Go(t, pc)
      BY <1>6 DEF Insert
    <2>2. /\ pipe[t].pc = "keyed" /\ status' = [status EXCEPT ![t] = "ROUTING"]
          /\ UNCHANGED <<rounds, idem, events, experience, old, pending, cancelled, job, sib, crashes>>
      BY <1>6 DEF Insert
    <2> QED
      BY <1>1, <1>2, <1>3, <2>1, <2>2, GoKeeps DEF PipePc
  <1>7. CASE ListSiblings(t)
    <2> DEFINE T == {s \in ActiveTasks \ {t} : ConvOf[s] = ConvOf[t]}
    <2>1. T \subseteq Task
      BY DEF ActiveTasks
    <2>2. sib' = [sib EXCEPT ![t].todo = T]
      BY <1>7 DEF ListSiblings
    <2>3. Go(t, "superPatch") /\ pipe[t].pc = "supersede"
          /\ UNCHANGED <<status, rounds, idem, events, experience, old, pending, cancelled, job, crashes>>
      BY <1>7 DEF ListSiblings, store
    <2> HIDE DEF T
    <2>4. sib' \in [Task -> [todo : SUBSET Task, victim : Task \cup {NoTask}]]
      BY <1>1, <2>1, <2>2
    <2>5. \A u \in Task : sib'[u].victim = sib[u].victim
      BY <1>1, <2>2
    <2> QED
      BY <1>1, <1>2, <2>3, <2>4, <2>5, GoKeeps DEF PipePc
  <1>8. CASE SupersedeDone(t)
    <2>1. Go(t, "queued") /\ pipe[t].pc = "superPatch"
          /\ UNCHANGED <<status, rounds, idem, events, experience, old, pending, cancelled, job, sib, crashes>>
      BY <1>8 DEF SupersedeDone, store
    <2> QED
      BY <1>1, <1>2, <2>1, GoKeeps DEF PipePc
  <1> QED
    BY <1>4, <1>5, <1>6, <1>7, <1>8

LEMMA RoutingKeeps ==
    ASSUME QueryInv, NEW t \in Task,
           RunPipeline(t) \/ Route(t) \/ ProceedWithIntent(t) \/ Throw(t) \/ ThrowToReplier(t)
    PROVE  QueryInv'
  <1>1. /\ MaxRounds \in Nat \ {0} /\ rounds[t] \in Nat
        /\ pipe[t].pc \in {"queued", "route"} => rounds[t] = 0
    BY LimitAssumption DEF QueryInv, TypeOK, PipeSound, Early
  <1>2. CASE RunPipeline(t)
    <2>1. PICK to \in {"route", "done"} : Step(t, "queued", to)
      BY <1>2 DEF RunPipeline
    <2>2. rounds[t] = 0
      BY <1>1, <2>1 DEF Step
    <2> QED
      BY <2>1, <2>2, StepKeeps DEF PipePc
  <1>3. CASE Route(t)
    <2>1. PICK to \in {"scene", "planB", "ask", "proceed", "fail"} : Step(t, "route", to)
      BY <1>3 DEF Route
    <2>2. rounds[t] = 0 /\ rounds[t] < MaxRounds
      BY <1>1, <2>1 DEF Step
    <2> QED
      BY <2>1, <2>2, StepKeeps DEF PipePc
  <1>4. CASE ProceedWithIntent(t)
    <2>1. PICK to \in {"planA", "planB", "ask"} :
              Step(t, "proceed", to) /\ (to = "ask" => ~(rounds[t] >= MaxRounds))
      BY <1>4 DEF ProceedWithIntent
    <2>2. to = "ask" => rounds[t] < MaxRounds
      BY <1>1, <2>1
    <2>3. to \notin Early /\ to \in PipePc \ {"patch", "emit", "waiting"}
      BY DEF Early, PipePc
    <2> QED
      BY <2>1, <2>2, <2>3, StepKeeps
  <1>5. CASE Throw(t)
    <2>1. PICK from \in {"route", "proceed", "runA", "runB", "runScene"} : Step(t, from, "fail")
      BY <1>5 DEF Throw
    <2> QED
      BY <2>1, StepKeeps DEF PipePc, Early
  <1>6. CASE ThrowToReplier(t)
    BY <1>6, StepKeeps DEF PipePc, Early, ThrowToReplier
  <1> QED
    BY <1>2, <1>3, <1>4, <1>5, <1>6

LEMMA ExecutionKeeps ==
    ASSUME QueryInv, NEW t \in Task, RunPathA(t) \/ RunPathB(t) \/ RunSceneAgent(t) \/ Reroute(t)
    PROVE  QueryInv'
  <1>1. "EXECUTING_WORKFLOW" \in Status \ Terminal /\ "EXECUTING_AGENT" \in Status \ Terminal
        /\ "ROUTING" \in Status \ Terminal
    BY DEF Status, Terminal
  <1>2. CASE RunPathA(t)
    <2>1. CASE Step(t, "planA", "fail")
      BY <2>1, StepKeeps DEF PipePc, Early
    <2>2. CASE StepPatch(t, "planA", "EXECUTING_WORKFLOW", "runA")
      BY <1>1, <2>2, StepPatchKeeps DEF PipePc, Early
    <2> QED
      BY <1>2, <2>1, <2>2 DEF RunPathA
  <1>3. CASE RunPathB(t)
    <2>1. CASE StepPatch(t, "planB", "EXECUTING_AGENT", "runB")
      BY <1>1, <2>1, StepPatchKeeps DEF PipePc, Early
    <2>2. CASE StepPatch(t, "replyB", "EXECUTING_AGENT", "replyRun")
      BY <1>1, <2>2, StepPatchKeeps DEF PipePc, Early
    <2> QED
      BY <1>3, <2>1, <2>2 DEF RunPathB
  <1>4. CASE RunSceneAgent(t)
    BY <1>1, <1>4, StepPatchKeeps DEF PipePc, Early, RunSceneAgent
  <1>5. CASE Reroute(t)
    <2>1. PICK to \in {"replyB", "proceed"} : StepPatch(t, "reroute", "ROUTING", to)
      BY <1>5 DEF Reroute
    <2>2. to \notin Early /\ to \in PipePc \ {"patch", "emit", "waiting", "ask"}
      BY DEF Early, PipePc
    <2> QED
      BY <1>1, <2>1, <2>2, StepPatchKeeps
  <1> QED
    BY <1>2, <1>3, <1>4, <1>5

LEMMA DecisionKeeps ==
    ASSUME QueryInv, NEW t \in Task,
           WorkflowOnlyMiss(t) \/ WorkflowEnds(t) \/ AgentEnds(t) \/ SceneAgentEnds(t) \/ FailTask(t)
    PROVE  QueryInv'
  <1>1. {"COMPLETED", "FAILED", "CANCELLED"} = Terminal
    BY DEF Terminal
  <1>2. CASE WorkflowOnlyMiss(t)
    <2>1. PICK from \in {"route", "planB", "replyB"} : Conclude(t, from, "COMPLETED", FALSE)
      BY <1>2 DEF WorkflowOnlyMiss
    <2> QED
      BY <1>1, <2>1, ConcludeKeeps
  <1>3. CASE WorkflowEnds(t)
    <2>1. PICK out \in {"COMPLETED", "FAILED"} : Conclude(t, "runA", out, FALSE)
      BY <1>3 DEF WorkflowEnds
    <2> QED
      BY <1>1, <2>1, ConcludeKeeps
  <1>4. CASE AgentEnds(t)
    <2>1. PICK from \in {"runB", "replyRun"}, out \in {"CANCELLED", "COMPLETED"} :
              Conclude(t, from, out, TRUE)
      BY <1>4 DEF AgentEnds
    <2> QED
      BY <1>1, <2>1, ConcludeKeeps
  <1>5. CASE SceneAgentEnds(t)
    BY <1>1, <1>5, ConcludeKeeps DEF SceneAgentEnds
  <1>6. CASE FailTask(t)
    <2>1. CASE Step(t, "fail", "done")
      BY <2>1, StepKeeps DEF PipePc, Early
    <2>2. CASE Conclude(t, "fail", "FAILED", FALSE)
      BY <1>1, <2>2, ConcludeKeeps
    <2> QED
      BY <1>6, <2>1, <2>2 DEF FailTask
  <1> QED
    BY <1>2, <1>3, <1>4, <1>5, <1>6

LEMMA RecordKeeps ==
    ASSUME QueryInv, NEW t \in Task, RecordExperience(t)
    PROVE  QueryInv'
  <1>1. /\ Go(t, "done") /\ pipe[t].pc = "record" /\ experience' = experience \cup {t}
        /\ UNCHANGED <<status, rounds, idem, events, old, pending, cancelled, job, sib, crashes>>
    BY DEF RecordExperience
  <1>2. idem \in [Key -> Task \cup {NoTask}] /\ experience' \subseteq Task /\ cancelled \subseteq Task
        /\ sib \in [Task -> [todo : SUBSET Task, victim : Task \cup {NoTask}]]
    BY <1>1 DEF QueryInv, TypeOK
  <1> QED
    BY <1>1, <1>2, GoKeeps DEF PipePc, Early

\* A question is asked only where one is left, and remembered only when the pipeline waits.
LEMMA QuestionKeeps ==
    ASSUME QueryInv, NEW t \in Task, RequestClarification(t) \/ ArmTimer(t)
    PROVE  QueryInv'
  <1>1. /\ MaxRounds \in Nat /\ rounds \in [Task -> Nat] /\ status \in [Task -> Status]
        /\ rounds[t] <= MaxRounds /\ (pipe[t].pc = "ask" => rounds[t] < MaxRounds)
    BY LimitAssumption DEF QueryInv, TypeOK, PipeSound
  <1>2. CASE RequestClarification(t)
    <2>1. /\ pipe[t].pc = "ask" /\ pipe' = [pipe EXCEPT ![t] = At("arm")]
          /\ status' = [status EXCEPT ![t] = "AWAITING_CLARIFICATION"]
          /\ rounds' = [rounds EXCEPT ![t] = rounds[t] + 1]
          /\ UNCHANGED <<idem, events, experience, old, pending, cancelled, job, sib, crashes>>
      BY <1>2 DEF RequestClarification, Go
    <2>2. At("arm") \in Pipe /\ At("arm").pc = "arm"
      BY AtType DEF PipePc
    <2>3. rounds'[t] <= MaxRounds /\ \A u \in Task : u # t => rounds'[u] = rounds[u]
      BY <1>1, <2>1
    <2>4. "AWAITING_CLARIFICATION" \in Status \ Terminal
      BY DEF Status, Terminal
    <2>5. TypeOK'
      <3>1. rounds' \in [Task -> Nat] /\ status' \in [Task -> Status]
        BY <1>1, <2>1, <2>4
      <3> QED
        BY <2>1, <2>2, <3>1 DEF QueryInv, TypeOK
    <2>6. status'[t] \notin Terminal /\ \A u \in Task : u # t => status'[u] = status[u]
      BY <1>1, <2>1, <2>4
    <2>7. MaxCrashes = 0 => \A u \in Task : Told(u)'
      BY <2>1, <2>6, TellKeeps
    <2>8. t \notin pending'
      BY <2>1 DEF QueryInv, PipeSound
    <2>9. "arm" \notin Early \cup {"ask", "patch", "emit"}
      BY DEF Early
    <2> QED
      BY <2>1, <2>2, <2>3, <2>5, <2>7, <2>8, <2>9, PipeKeeps
  <1>3. CASE ArmTimer(t)
    <2>1. /\ pipe[t].pc = "arm" /\ pipe' = [pipe EXCEPT ![t] = At("waiting")]
          /\ pending' = pending \cup {t}
          /\ UNCHANGED <<status, rounds, idem, events, experience, old, cancelled, job, sib, crashes>>
      BY <1>3 DEF ArmTimer, Go, store
    <2>2. At("waiting") \in Pipe /\ At("waiting").pc = "waiting"
      BY AtType DEF PipePc
    <2>3. TypeOK'
      BY <2>1, <2>2 DEF QueryInv, TypeOK
    <2>4. MaxCrashes = 0 => \A u \in Task : Told(u)'
      BY <2>1, TellKeeps
    <2>5. "waiting" \notin Early \cup {"ask", "patch", "emit"}
      BY DEF Early
    <2> QED
      BY <1>1, <2>1, <2>2, <2>3, <2>4, <2>5, PipeKeeps
  <1> QED
    BY <1>2, <1>3

\* The outcome is written by a pipeline that tells it next ...
LEMMA OutcomeKeeps ==
    ASSUME QueryInv, NEW t \in Task, PatchOutcome(t) \/ EmitOutcome(t)
    PROVE  QueryInv'
  <1>1. /\ pipe \in [Task -> Pipe] /\ pipe[t] \in Pipe /\ status \in [Task -> Status]
        /\ events \in [Task -> Seq(Terminal)]
        /\ rounds[t] <= MaxRounds /\ (pipe[t].pc \in {"patch", "emit"} => pipe[t].out \in Terminal)
        /\ (pipe[t].pc \in {"patch", "emit"} => t \notin pending)
    BY DEF QueryInv, TypeOK, PipeSound
  <1>2. Terminal \subseteq Status
    BY DEF Terminal, Status
  <1>3. CASE PatchOutcome(t)
    <2>1. /\ pipe[t].pc = "patch" /\ status' = [status EXCEPT ![t] = pipe[t].out]
          /\ pipe' = [pipe EXCEPT ![t].pc = "emit"]
          /\ UNCHANGED <<rounds, idem, events, experience, old, pending, cancelled, job, sib, crashes>>
      BY <1>3 DEF PatchOutcome
    <2> DEFINE p == [pipe[t] EXCEPT !.pc = "emit"]
    <2>2. pipe' = [pipe EXCEPT ![t] = p] /\ p \in Pipe /\ p.pc = "emit" /\ p.out = pipe[t].out
      BY <1>1, <2>1 DEF Pipe, PipePc
    <2>3. p.out \in Terminal /\ t \notin pending
      BY <1>1, <2>1, <2>2
    <2>4. \E q : q = p
      OBVIOUS
    <2> HIDE DEF p
    <2>5. PICK q : q = p
      BY <2>4
    <2>6. status' \in [Task -> Status] /\ \A u \in Task : u # t => status'[u] = status[u]
      BY <1>1, <1>2, <2>1
    <2>7. TypeOK'
      <3>1. pipe' \in [Task -> Pipe]
        BY <1>1, <2>2
      <3> QED
        BY <2>1, <2>6, <3>1 DEF QueryInv, TypeOK
    <2>8. MaxCrashes = 0 => \A u \in Task : Told(u)'
      BY <2>1, <2>2, <2>5, <2>6, TellKeeps
    <2>9. q.pc \notin Early \cup {"ask"}
      BY <2>2, <2>5 DEF Early
    <2> QED
      BY <1>1, <2>1, <2>2, <2>3, <2>5, <2>7, <2>8, <2>9, PipeKeeps
  <1>4. CASE EmitOutcome(t)
    <2>1. /\ pipe[t].pc = "emit" /\ events' = [events EXCEPT ![t] = Append(events[t], pipe[t].out)]
          /\ UNCHANGED <<status, rounds, idem, experience, old, pending, cancelled, job, sib, crashes>>
      BY <1>4 DEF EmitOutcome
    <2>2. PICK pc \in {"record", "done"} : pipe' = [pipe EXCEPT ![t] = At(pc)]
      BY <1>4 DEF EmitOutcome, Go
    <2>3. At(pc) \in Pipe /\ At(pc).pc = pc /\ pc \notin Early \cup {"ask", "patch", "emit", "superEmit"}
      BY AtType DEF PipePc, Early
    <2>4. /\ events' \in [Task -> Seq(Terminal)] /\ events'[t] # <<>>
          /\ \A u \in Task : u # t => events'[u] = events[u]
      <3>1. Append(events[t], pipe[t].out) \in Seq(Terminal) /\ Append(events[t], pipe[t].out) # <<>>
        BY <1>1, <2>1
      <3> QED
        BY <1>1, <2>1, <3>1
    <2>5. TypeOK'
      BY <2>1, <2>2, <2>3, <2>4 DEF QueryInv, TypeOK
    <2>6. ASSUME MaxCrashes = 0, NEW u \in Task PROVE Told(u)'
      <3>1. CASE u = t
        BY <2>4, <3>1 DEF Told
      <3>2. CASE u # t
        <4>1. pipe'[u] = pipe[u] /\ \A s \in Task : pipe[s].pc = "superEmit" => pipe'[s] = pipe[s]
          BY <1>1, <2>1, <2>2, <3>2
        <4>2. Telling(u) => Telling(u)'
          BY <2>1, <4>1 DEF Telling
        <4> QED
          BY <2>1, <2>4, <2>6, <3>2, <4>2 DEF QueryInv, Told
      <3> QED
        BY <3>1, <3>2
    <2> QED
      BY <1>1, <2>1, <2>2, <2>3, <2>5, <2>6, PipeKeeps
  <1> QED
    BY <1>3, <1>4

\* ... and a superseded task by the submission that goes on to tell it.
LEMMA SiblingKeeps ==
    ASSUME QueryInv, NEW t \in Task, (\E s \in Task : MarkSibling(t, s)) \/ PatchSibling(t) \/ EmitSibling(t)
    PROVE  QueryInv'
  <1>1. /\ pipe \in [Task -> Pipe] /\ status \in [Task -> Status] /\ events \in [Task -> Seq(Terminal)]
        /\ sib \in [Task -> [todo : SUBSET Task, victim : Task \cup {NoTask}]]
        /\ pending \subseteq Task /\ cancelled \subseteq Task /\ NoTask \notin Task
    BY SubmissionAssumption DEF QueryInv, TypeOK
  <1>2. CASE \E s \in Task : MarkSibling(t, s)
    <2>1. PICK s \in Task : MarkSibling(t, s)
      BY <1>2
    <2>2. /\ pipe[t].pc = "superPatch" /\ cancelled' = cancelled \cup {s} /\ pending' = pending \ {s}
          /\ sib' = [sib EXCEPT ![t] = [todo |-> sib[t].todo \ {s}, victim |-> s]]
          /\ UNCHANGED <<status, rounds, idem, events, experience, old, pipe, job, crashes>>
      BY <2>1 DEF MarkSibling, store
    <2>3. sib' \in [Task -> [todo : SUBSET Task, victim : Task \cup {NoTask}]]
      BY <1>1, <2>2
    <2>4. TypeOK'
      BY <1>1, <2>2, <2>3 DEF QueryInv, TypeOK
    <2>5. \A u \in Task : PipeSound(u)' /\ JobsSound(u)'
      BY <2>2 DEF QueryInv, PipeSound, JobsSound
    <2>6. ASSUME MaxCrashes = 0, NEW u \in Task PROVE Told(u)'
      <3>1. \A r \in Task : pipe[r].pc = "superEmit" => sib'[r] = sib[r]
        BY <1>1, <2>2
      <3>2. Telling(u) => Telling(u)'
        BY <2>2, <3>1 DEF Telling
      <3> QED
        BY <2>2, <2>6, <3>2 DEF QueryInv, Told
    <2> QED
      BY <2>4, <2>5, <2>6 DEF QueryInv
  <1>3. CASE PatchSibling(t)
    <2>1. PICK v : v = sib[t].victim
      OBVIOUS
    <2>2. /\ pipe[t].pc = "superPatch" /\ v \in Task /\ status' = [status EXCEPT ![v] = "CANCELLED"]
          /\ pipe' = [pipe EXCEPT ![t] = At("superEmit")]
          /\ UNCHANGED <<rounds, idem, events, experience, old, pending, cancelled, job, sib, crashes>>
      BY <1>1, <1>3, <2>1 DEF PatchSibling, Go
    <2>3. At("superEmit") \in Pipe /\ At("superEmit").pc = "superEmit"
      BY AtType DEF PipePc
    <2>4. status' \in [Task -> Status] /\ \A u \in Task : u # v => status'[u] = status[u]
      BY <1>1, <2>2 DEF Status
    <2>5. TypeOK'
      BY <2>2, <2>3, <2>4 DEF QueryInv, TypeOK
    <2>6. rounds[t] = 0 /\ rounds[t] <= MaxRounds /\ t \notin pending
      BY <2>2 DEF QueryInv, PipeSound, Early
    <2>7. ASSUME MaxCrashes = 0, NEW u \in Task PROVE Told(u)'
      <3>1. pipe'[t].pc = "superEmit" /\ \A r \in Task : r # t => pipe'[r] = pipe[r]
        BY <1>1, <2>2, <2>3
      <3>2. CASE u = v
        BY <2>1, <2>2, <3>1, <3>2 DEF Told, Telling
      <3>3. CASE u # v
        <4>1. Telling(u) => Telling(u)'
          BY <2>2, <3>1 DEF Telling
        <4> QED
          BY <2>2, <2>4, <2>7, <3>3, <4>1 DEF QueryInv, Told
      <3> QED
        BY <3>2, <3>3
    <2>8. "superEmit" \notin {"ask", "patch", "emit"}
      OBVIOUS
    <2> QED
      BY <2>2, <2>3, <2>5, <2>6, <2>7, <2>8, PipeKeeps
  <1>4. CASE EmitSibling(t)
    <2>1. PICK v : v = sib[t].victim
      OBVIOUS
    <2>2. /\ pipe[t].pc = "superEmit" /\ events' = [events EXCEPT ![v] = Append(events[v], "CANCELLED")]
          /\ sib' = [sib EXCEPT ![t].victim = NoTask]
          /\ pipe' = [pipe EXCEPT ![t] = At("superPatch")]
          /\ UNCHANGED <<status, rounds, idem, experience, old, pending, cancelled, job, crashes>>
      BY <1>4, <2>1 DEF EmitSibling, Go
    <2>3. At("superPatch") \in Pipe /\ At("superPatch").pc = "superPatch"
      BY AtType DEF PipePc
    <2>4. /\ events' \in [Task -> Seq(Terminal)] /\ (v \in Task => events'[v] # <<>>)
          /\ \A u \in Task : u # v => events'[u] = events[u]
      <3>1. CASE v \in Task
        <4>1. events[v] \in Seq(Terminal) /\ "CANCELLED" \in Terminal
          BY <1>1, <3>1 DEF Terminal
        <4>2. Append(events[v], "CANCELLED") \in Seq(Terminal) /\ Append(events[v], "CANCELLED") # <<>>
          BY <4>1
        <4> QED
          BY <1>1, <2>2, <3>1, <4>2
      <3>2. CASE v \notin Task
        BY <1>1, <2>2, <3>2
      <3> QED
        BY <3>1, <3>2
    <2>5. sib' \in [Task -> [todo : SUBSET Task, victim : Task \cup {NoTask}]]
      <3>1. sib[t] \in [todo : SUBSET Task, victim : Task \cup {NoTask}]
        BY <1>1
      <3>2. [todo |-> sib[t].todo, victim |-> NoTask] \in [todo : SUBSET Task, victim : Task \cup {NoTask}]
        BY <3>1
      <3>3. [sib[t] EXCEPT !.victim = NoTask] = [todo |-> sib[t].todo, victim |-> NoTask]
        BY <3>1
      <3>4. sib' = [sib EXCEPT ![t] = [sib[t] EXCEPT !.victim = NoTask]]
        BY <2>2
      <3> QED
        BY <1>1, <3>2, <3>3, <3>4
    <2>6. TypeOK'
      BY <2>2, <2>3, <2>4, <2>5 DEF QueryInv, TypeOK
    <2>7. rounds[t] = 0 /\ rounds[t] <= MaxRounds /\ t \notin pending
      BY <2>2 DEF QueryInv, PipeSound, Early
    <2>8. ASSUME MaxCrashes = 0, NEW u \in Task PROVE Told(u)'
      <3>1. \A r \in Task : r # t => pipe'[r] = pipe[r] /\ sib'[r] = sib[r]
        BY <1>1, <2>2
      <3>2. CASE u = v
        BY <2>4, <3>2 DEF Told
      <3>3. CASE u # v
        <4>1. pipe[u].pc = "emit" => pipe'[u].pc = "emit"
          BY <2>2, <3>1
        <4>2. Telling(u) => Telling(u)'
          BY <2>1, <2>2, <3>1, <3>3, <4>1 DEF Telling
        <4> QED
          BY <2>2, <2>4, <2>8, <3>3, <4>2 DEF QueryInv, Told
      <3> QED
        BY <3>2, <3>3
    <2>9. "superPatch" \notin {"ask", "patch", "emit"}
      OBVIOUS
    <2> QED
      BY <2>2, <2>3, <2>6, <2>7, <2>8, <2>9, PipeKeeps
  <1> QED
    BY <1>2, <1>3, <1>4

-----------------------------------------------------------------------------
(* Steps of the other actors *)

\* A job that moves on without having told anything.
LEMMA JobMoves ==
    ASSUME QueryInv, NEW t \in Task, NEW a \in Actor, NEW j \in Job, job' = [job EXCEPT ![t][a] = j],
           job[t][a].pc # "emit", j.pc \in {"patch", "emit"} => j.saw \in Terminal,
           UNCHANGED <<pipe, sib, rounds, idem, events, experience, old, crashes>>,
           pending' \subseteq pending, cancelled' \subseteq Task,
           status' \in [Task -> Status], \A u \in Task : u # t => status'[u] = status[u],
           status'[t] = status[t] \/ j.pc = "emit"
    PROVE  QueryInv'
  <1>1. job \in [Task -> [Actor -> Job]]
    BY DEF QueryInv, TypeOK
  <1>2. /\ job' \in [Task -> [Actor -> Job]] /\ job'[t][a] = j
        /\ \A u \in Task, b \in Actor : (u # t \/ b # a) => job'[u][b] = job[u][b]
    BY <1>1
  <1>3. TypeOK'
    BY <1>2 DEF QueryInv, TypeOK
  <1>4. \A u \in Task : PipeSound(u)'
    BY DEF QueryInv, PipeSound
  <1>5. \A u \in Task : JobsSound(u)'
    BY <1>2 DEF QueryInv, JobsSound
  <1>6. ASSUME MaxCrashes = 0, NEW u \in Task PROVE Told(u)'
    <2>1. Telling(u) => Telling(u)'
      BY <1>2 DEF Telling
    <2>2. (u = t /\ j.pc = "emit") => Telling(u)'
      BY <1>2 DEF Telling
    <2> QED
      BY <1>6, <2>1, <2>2 DEF QueryInv, Told
  <1> QED
    BY <1>3, <1>4, <1>5, <1>6 DEF QueryInv

LEMMA JobsKeep ==
    ASSUME QueryInv, NEW t \in Task,
           CancelForTimeout(t) \/ Sweep(t)
           \/ \E a \in Actor : FetchRow(t, a) \/ JobPatch(t, a) \/ (a = "canceller" /\ CancelQuery(t))
    PROVE  QueryInv'
  <1>1. /\ status \in [Task -> Status] /\ cancelled \subseteq Task
        /\ "timer" \in Actor /\ "sweeper" \in Actor /\ "canceller" \in Actor
    BY DEF QueryInv, TypeOK, Actor
  <1>2. {"CANCELLED", "FAILED"} \subseteq Terminal /\ Terminal \subseteq Status
    BY DEF Terminal, Status
  <1>3. ASSUME NEW pc \in {"idle", "read", "patch", "emit"}, NEW saw \in Status
        PROVE  [pc |-> pc, saw |-> saw] \in Job
    BY DEF Job
  <1>4. CASE CancelForTimeout(t)
    <2> DEFINE j == [pc |-> "patch", saw |-> "CANCELLED"]
    <2>1. /\ job' = [job EXCEPT ![t]["timer"] = j] /\ job[t]["timer"].pc = "idle"
          /\ pending' = pending \ {t}
          /\ UNCHANGED <<status, rounds, idem, events, experience, old, cancelled, pipe, sib, crashes>>
      BY <1>4 DEF CancelForTimeout, SetJob, store
    <2>2. j \in Job /\ j.pc = "patch" /\ j.saw \in Terminal
      BY <1>2, <1>3
    <2> HIDE DEF j
    <2> QED
      BY <1>1, <2>1, <2>2, JobMoves
  <1>5. CASE Sweep(t)
    <2> DEFINE j == [pc |-> "patch", saw |-> "FAILED"]
    <2>1. /\ job' = [job EXCEPT ![t]["sweeper"] = j] /\ job[t]["sweeper"].pc = "idle"
          /\ UNCHANGED <<status, rounds, idem, events, experience, old, pending, cancelled, pipe, sib, crashes>>
      BY <1>5 DEF Sweep, SetJob, store
    <2>2. j \in Job /\ j.pc = "patch" /\ j.saw \in Terminal
      BY <1>2, <1>3
    <2> HIDE DEF j
    <2> QED
      BY <1>1, <2>1, <2>2, JobMoves
  <1>6. CASE \E a \in Actor : FetchRow(t, a)
    <2>1. PICK a \in Actor : FetchRow(t, a)
      BY <1>6
    <2> DEFINE j == [pc |-> "read", saw |-> status[t]]
    <2>2. /\ job' = [job EXCEPT ![t][a] = j] /\ job[t][a].pc = "idle"
          /\ UNCHANGED <<status, rounds, idem, events, experience, old, pending, cancelled, pipe, sib, crashes>>
      BY <2>1 DEF FetchRow, SetJob, store
    <2>3. j \in Job /\ j.pc = "read"
      BY <1>1, <1>3
    <2> HIDE DEF j
    <2> QED
      BY <1>1, <2>2, <2>3, JobMoves
  <1>7. CASE \E a \in Actor : JobPatch(t, a)
    <2>1. PICK a \in Actor : JobPatch(t, a)
      BY <1>7
    <2>2. PICK saw : saw = job[t][a].saw
      OBVIOUS
    <2>3. job[t][a].pc = "patch" /\ saw \in Terminal
      BY <2>1, <2>2 DEF JobPatch, QueryInv, JobsSound
    <2> DEFINE j == [pc |-> "emit", saw |-> saw]
    <2>4. /\ job' = [job EXCEPT ![t][a] = j] /\ status' = [status EXCEPT ![t] = saw]
          /\ UNCHANGED <<rounds, idem, events, experience, old, pending, cancelled, pipe, sib, crashes>>
      BY <2>1, <2>2 DEF JobPatch, SetJob
    <2>5. j \in Job /\ j.pc = "emit" /\ j.saw \in Terminal
      BY <1>2, <1>3, <2>3
    <2>6. status' \in [Task -> Status] /\ \A u \in Task : u # t => status'[u] = status[u]
      BY <1>1, <1>2, <2>3, <2>4
    <2> HIDE DEF j
    <2> QED
      BY <1>1, <2>3, <2>4, <2>5, <2>6, JobMoves
  <1>8. CASE CancelQuery(t)
    <2>1. PICK j \in {[pc |-> "patch", saw |-> "CANCELLED"], [pc |-> "idle", saw |-> "ABSENT"]} :
              job' = [job EXCEPT ![t]["canceller"] = j]
      BY <1>8 DEF CancelQuery, SetJob
    <2>2. j \in Job /\ (j.pc \in {"patch", "emit"} => j.saw \in Terminal)
      <3>1. "ABSENT" \in Status
        BY DEF Status
      <3> QED
        BY <1>2, <1>3, <2>1, <3>1
    <2>3. /\ job[t]["canceller"].pc = "read"
          /\ cancelled' = cancelled \cup {t} /\ pending' = pending \ {t}
          /\ UNCHANGED <<status, rounds, idem, events, experience, old, pipe, sib, crashes>>
      BY <1>8 DEF CancelQuery, store
    <2> QED
      BY <1>1, <2>1, <2>2, <2>3, JobMoves
  <1> QED
    BY <1>4, <1>5, <1>6, <1>7, <1>8

\* A job that has told the stream is idle again.
LEMMA JobEmitKeeps ==
    ASSUME QueryInv, NEW t \in Task, NEW a \in Actor, JobEmit(t, a)
    PROVE  QueryInv'
  <1>1. job \in [Task -> [Actor -> Job]] /\ events \in [Task -> Seq(Terminal)]
    BY DEF QueryInv, TypeOK
  <1>2. PICK saw : saw = job[t][a].saw
    OBVIOUS
  <1>3. /\ job[t][a].pc = "emit" /\ saw \in Terminal
        /\ events' = [events EXCEPT ![t] = Append(events[t], saw)]
        /\ job' = [job EXCEPT ![t][a] = [pc |-> "idle", saw |-> "ABSENT"]]
        /\ UNCHANGED <<status, rounds, idem, experience, old, pending, cancelled, pipe, sib, crashes>>
    BY <1>2 DEF JobEmit, SetJob, QueryInv, JobsSound
  <1>4. /\ job' \in [Task -> [Actor -> Job]] /\ job'[t][a].pc = "idle"
        /\ \A u \in Task, b \in Actor : (u # t \/ b # a) => job'[u][b] = job[u][b]
    BY <1>1, <1>3, NoJobType DEF NoJob
  <1>5. /\ events' \in [Task -> Seq(Terminal)] /\ events'[t] # <<>>
        /\ \A u \in Task : u # t => events'[u] = events[u]
    <2>1. Append(events[t], saw) \in Seq(Terminal) /\ Append(events[t], saw) # <<>>
      BY <1>1, <1>3
    <2> QED
      BY <1>1, <1>3, <2>1
  <1>6. TypeOK'
    BY <1>3, <1>4, <1>5 DEF QueryInv, TypeOK
  <1>7. \A u \in Task : PipeSound(u)'
    BY <1>3 DEF QueryInv, PipeSound
  <1>8. \A u \in Task : JobsSound(u)'
    BY <1>4 DEF QueryInv, JobsSound
  <1>9. ASSUME MaxCrashes = 0, NEW u \in Task PROVE Told(u)'
    <2>1. CASE u = t
      BY <1>5, <2>1 DEF Told
    <2>2. CASE u # t
      <3>1. Telling(u) => Telling(u)'
        BY <1>3, <1>4, <2>2 DEF Telling
      <3> QED
        BY <1>3, <1>5, <1>9, <2>2, <3>1 DEF QueryInv, Told
    <2> QED
      BY <2>1, <2>2
  <1> QED
    BY <1>6, <1>7, <1>8, <1>9 DEF QueryInv

\* An accepted reply takes over a pipeline that had stopped to wait.
LEMMA ReplyKeeps ==
    ASSUME QueryInv, NEW t \in Task, HandleClarification(t)
    PROVE  QueryInv'
  <1>1. /\ job \in [Task -> [Actor -> Job]] /\ pipe \in [Task -> Pipe] /\ pending \subseteq Task
        /\ "replier" \in Actor
    BY DEF QueryInv, TypeOK, Actor
  <1>2. /\ job[t]["replier"].pc = "read"
        /\ job' = [job EXCEPT ![t]["replier"] = [pc |-> "idle", saw |-> "ABSENT"]]
        /\ UNCHANGED <<status, rounds, idem, events, experience, old, cancelled, sib, crashes>>
    BY DEF HandleClarification, SetJob, store
  <1>3. \/ UNCHANGED <<pipe, pending>>
        \/ t \in pending /\ pending' = pending \ {t} /\ pipe' = [pipe EXCEPT ![t] = At("reroute")]
    BY DEF HandleClarification
  <1>4. At("reroute") \in Pipe /\ At("reroute").pc = "reroute"
    BY AtType DEF PipePc
  <1>5. /\ job' \in [Task -> [Actor -> Job]] /\ job'[t]["replier"].pc = "idle"
        /\ \A u \in Task, b \in Actor : (u # t \/ b # "replier") => job'[u][b] = job[u][b]
    BY <1>1, <1>2, NoJobType DEF NoJob
  <1>6. /\ pipe' \in [Task -> Pipe] /\ pending' \subseteq pending
        /\ \A u \in Task : u # t => pipe'[u] = pipe[u]
        /\ pipe'[t] = pipe[t] \/ (pipe[t].pc = "waiting" /\ pipe'[t].pc = "reroute" /\ t \notin pending')
    BY <1>1, <1>3, <1>4 DEF QueryInv, PipeSound
  <1>7. TypeOK'
    BY <1>2, <1>5, <1>6 DEF QueryInv, TypeOK
  <1>8. ASSUME NEW u \in Task PROVE PipeSound(u)'
    <2>1. "reroute" \notin Early \cup {"ask", "patch", "emit"}
      BY DEF Early
    <2> QED
      BY <1>2, <1>6, <2>1 DEF QueryInv, PipeSound
  <1>9. \A u \in Task : JobsSound(u)'
    BY <1>5 DEF QueryInv, JobsSound
  <1>10. ASSUME MaxCrashes = 0, NEW u \in Task PROVE Told(u)'
    <2>1. Telling(u) => Telling(u)'
      <3>1. \A r \in Task : pipe[r].pc \in {"emit", "superEmit"} => pipe'[r] = pipe[r]
        BY <1>6
      <3>2. \A b \in Actor : job[u][b].pc = "emit" => job'[u][b] = job[u][b]
        BY <1>2, <1>5
      <3> QED
        BY <1>2, <3>1, <3>2 DEF Telling
    <2> QED
      BY <1>2, <1>10, <2>1 DEF QueryInv, Told
  <1> QED
    BY <1>7, <1>8, <1>9, <1>10 DEF QueryInv

LEMMA GrowOldKeeps ==
    ASSUME QueryInv, NEW t \in Task, GrowOld(t)
    PROVE  QueryInv'
  <1>1. /\ old' = old \cup {t}
        /\ UNCHANGED <<status, rounds, idem, events, experience, pending, cancelled, pipe, job, sib, crashes>>
    BY DEF GrowOld, memory
  <1>2. TypeOK'
    BY <1>1 DEF QueryInv, TypeOK
  <1>3. \A u \in Task : PipeSound(u)' /\ JobsSound(u)'
    BY <1>1 DEF QueryInv, PipeSound, JobsSound
  <1>4. ASSUME MaxCrashes = 0, NEW u \in Task PROVE Told(u)'
    BY <1>1, <1>4 DEF QueryInv, Told, Telling
  <1> QED
    BY <1>2, <1>3, <1>4 DEF QueryInv

\* A restart forgets who was telling what.
LEMMA CrashKeeps == QueryInv /\ Crash => QueryInv'
  <1> SUFFICES ASSUME QueryInv, Crash PROVE QueryInv'
    OBVIOUS
  <1>1. /\ crashes \in 0..MaxCrashes /\ MaxCrashes \in Nat /\ crashes < MaxCrashes /\ crashes' = crashes + 1
        /\ pending' = {} /\ cancelled' = {}
        /\ UNCHANGED <<status, rounds, idem, events, experience, old>>
    BY LimitAssumption DEF QueryInv, TypeOK, Crash, store
  <1>2. crashes' \in 0..MaxCrashes /\ MaxCrashes # 0
    BY <1>1
  <1>3. \A u \in Task : pipe'[u] \in Pipe /\ (pipe'[u].pc = "done" \/ (pipe'[u].pc = "none" /\ pipe[u].pc = "none"))
    BY AtType DEF Crash, PipePc
  <1>4. pipe' \in [Task -> Pipe]
    BY <1>3 DEF Crash
  <1>5. job' \in [Task -> [Actor -> Job]] /\ \A u \in Task, a \in Actor : job'[u][a].pc = "idle"
    BY NoJobType DEF Crash
  <1>6. sib' \in [Task -> [todo : SUBSET Task, victim : Task \cup {NoTask}]]
    BY DEF Crash, NoSiblings
  <1>7. TypeOK'
    BY <1>1, <1>2, <1>4, <1>5, <1>6 DEF QueryInv, TypeOK
  <1>8. \A u \in Task : PipeSound(u)'
    BY <1>1, <1>3 DEF QueryInv, PipeSound, Early
  <1>9. \A u \in Task : JobsSound(u)'
    BY <1>5 DEF JobsSound
  <1> QED
    BY <1>2, <1>7, <1>8, <1>9 DEF QueryInv

-----------------------------------------------------------------------------
(* The theorems *)

LEMMA NextQuery == QueryInv /\ [Next]_vars => QueryInv'
  <1> SUFFICES ASSUME QueryInv, [Next]_vars PROVE QueryInv'
    OBVIOUS
  <1>1. CASE UNCHANGED vars
    <2>1. UNCHANGED <<status, rounds, idem, events, experience, old, pending, cancelled, pipe, job, sib, crashes>>
      BY <1>1 DEF vars, store, memory
    <2>2. TypeOK'
      BY <2>1 DEF QueryInv, TypeOK
    <2>3. \A u \in Task : PipeSound(u)' /\ JobsSound(u)'
      BY <2>1 DEF QueryInv, PipeSound, JobsSound
    <2>4. MaxCrashes = 0 => \A u \in Task : Told(u)'
      BY <2>1 DEF QueryInv, Told, Telling
    <2> QED
      BY <2>2, <2>3, <2>4 DEF QueryInv
  <1>2. CASE Crash
    BY <1>2, CrashKeeps
  <1>3. ASSUME NEW t \in Task, Work(t) PROVE QueryInv'
    BY <1>3, SubmissionKeeps, RoutingKeeps, ExecutionKeeps, DecisionKeeps, RecordKeeps,
       QuestionKeeps, OutcomeKeeps, SiblingKeeps DEF Work
  <1>4. ASSUME NEW t \in Task, NEW a \in Actor, FetchRow(t, a) \/ JobWork(t, a) PROVE QueryInv'
    BY <1>4, JobsKeep, JobEmitKeeps, ReplyKeeps DEF JobWork
  <1>5. ASSUME NEW t \in Task, Submit(t) \/ CancelForTimeout(t) \/ GrowOld(t) \/ Sweep(t) PROVE QueryInv'
    BY <1>5, SubmissionKeeps, JobsKeep, GrowOldKeeps
  <1> QED
    BY <1>1, <1>2, <1>3, <1>4, <1>5 DEF Next

\* The strengthened invariant: types, what each pipeline and each job is about to write,
\* and, without a restart, who still has to tell a stream that its task has ended.
THEOREM QueryInvariant == Spec => []QueryInv
  <1>1. Init => QueryInv
    BY InitQuery
  <1>2. QueryInv /\ [Next]_vars => QueryInv'
    BY NextQuery
  <1> QED
    BY <1>1, <1>2, PTL DEF Spec

\* However many replies, cancellations, siblings, sweeps and restarts interfere, no task is
\* worked on by two pipelines: handleClarification only wakes one that waits.
THEOREM OnePipelineAlways == Spec => []OnePipeline
  <1>1. QueryInv => OnePipeline
    BY DEF QueryInv, PipeSound, OnePipeline
  <1> QED
    BY <1>1, QueryInvariant, PTL

\* No task asks back more than MaxRounds times (proceedWithIntent).
THEOREM RoundsBoundedAlways == Spec => []RoundsBounded
  <1>1. QueryInv => RoundsBounded
    BY DEF QueryInv, PipeSound, RoundsBounded
  <1> QED
    BY <1>1, QueryInvariant, PTL

\* While the process does not restart, a task that has ended has told its stream or
\* somebody is still about to.
THEOREM EndedIsAnnouncedAlways ==
    ASSUME MaxCrashes = 0
    PROVE  Spec => []EndedIsAnnounced
  <1>1. QueryInv => EndedIsAnnounced
    <2> SUFFICES ASSUME QueryInv, NEW t \in Task, Quiet(t), status[t] \in Terminal PROVE events[t] # <<>>
      BY DEF EndedIsAnnounced
    <2>1. ~Telling(t)
      BY DEF Quiet, Telling
    <2> QED
      BY <2>1 DEF QueryInv, Told
  <1> QED
    BY <1>1, QueryInvariant, PTL

-----------------------------------------------------------------------------
(* Left alone: nobody cancels, supersedes or sweeps a live task, and       *)
(* submissions come one after the other (Interference = {}).  Replies,     *)
(* timeouts, restarts and the sweep of what they left are still there.     *)

Executing == {"EXECUTING_WORKFLOW", "EXECUTING_AGENT"}

\* What the row says while the pipeline is where it is.
RowFits(t) ==
    /\ pipe[t].pc \in {"none", "counted", "keyed"} => status[t] = "ABSENT"
    /\ pipe[t].pc \in {"queued", "route", "proceed", "ask", "planA", "planB", "replyB", "scene"} =>
          status[t] = "ROUTING"
    /\ pipe[t].pc \in {"arm", "reroute"} => status[t] = "AWAITING_CLARIFICATION"
    /\ pipe[t].pc \in {"runA", "runB", "replyRun", "runScene"} => status[t] \in Executing
    /\ pipe[t].pc \in {"fail", "patch"} => status[t] \in {"ROUTING"} \cup Executing
    /\ pipe[t].pc \notin {"supersede", "superPatch", "superEmit"}
    /\ pipe[t].pc \notin {"none", "counted", "keyed", "done"} => status[t] # "ABSENT"
    /\ t \in pending => status[t] = "AWAITING_CLARIFICATION"
    /\ pipe[t].pc = "emit" => status[t] = pipe[t].out /\ events[t] = <<>>

\* Of the other actors only the timer and the sweep write, and only where no pipeline does.
ActorsFit(t) ==
    /\ job[t]["canceller"].pc = "idle" /\ job[t]["replier"].pc \in {"idle", "read"}
    /\ job[t]["timer"].pc \in {"idle", "patch", "emit"} /\ job[t]["sweeper"].pc \in {"idle", "patch", "emit"}
    /\ job[t]["timer"].pc # "idle" => pipe[t].pc = "waiting" /\ t \notin pending
    /\ job[t]["sweeper"].pc # "idle" => pipe[t].pc = "done"
    /\ t \in old => pipe[t].pc = "done"
    /\ job[t]["timer"].pc = "patch" => status[t] = "AWAITING_CLARIFICATION"
    /\ job[t]["sweeper"].pc = "patch" => status[t] \in Executing
    /\ \A a \in Actor : job[t][a].pc = "emit" => status[t] = job[t][a].saw /\ events[t] = <<>>

\* A stream is silent until its task has ended, and then says one thing.
StreamFits(t) ==
    /\ status[t] \notin Terminal => events[t] = <<>>
    /\ Len(events[t]) <= 1

\* A restart came between the key and the row.
Lost(w) == status[w] = "ABSENT" /\ pipe[w].pc = "done" /\ crashes > 0

\* Whoever has passed Reserve holds its key, or the key's holder was lost.
KeysFit ==
    /\ \A t \in Task : KeyOf[t] # NoKey /\ (pipe[t].pc = "keyed" \/ status[t] # "ABSENT") =>
          idem[KeyOf[t]] = t \/ \E w \in Task : idem[KeyOf[t]] = w /\ Lost(w)
    /\ \A w \in Task : KeyOf[w] # NoKey /\ idem[KeyOf[w]] = w =>
          /\ pipe[w].pc \notin {"none", "counted"}
          /\ pipe[w].pc = "done" /\ status[w] = "ABSENT" => crashes > 0
    /\ \A k \in Key, w \in Task : idem[k] = w => KeyOf[w] = k

SoloInv ==
    /\ sib = [t \in Task |-> NoSiblings]
    /\ \A t \in Task : RowFits(t) /\ ActorsFit(t) /\ StreamFits(t)
    /\ \A t, u \in Submitting : t = u
    /\ KeysFit

\* What a step may do to what the lifecycle sees.
LifecycleStep == [Lifecycle!QueryNext]_(Lifecycle!queryVars)

-----------------------------------------------------------------------------
(* Steps of the lifecycle *)

LEMMA SeesNothing == UNCHANGED <<status, rounds, events>> => LifecycleStep
  BY DEF LifecycleStep, Lifecycle!queryVars

LEMMA SeesStatus ==
    ASSUME NEW t \in Task, NEW s, status' = [status EXCEPT ![t] = s], UNCHANGED <<rounds, events>>,
           \/ status[t] = "ABSENT" /\ s = "ROUTING"
           \/ status[t] = "AWAITING_CLARIFICATION" /\ s = "ROUTING"
           \/ status[t] = "ROUTING" /\ s \in Executing
           \/ status[t] \in {"ROUTING", "AWAITING_CLARIFICATION"} \cup Executing /\ s \in Terminal
    PROVE  LifecycleStep
  <1> USE DEF LifecycleStep, Lifecycle!QueryNext, Lifecycle!To
  <1>1. CASE status[t] = "ABSENT" /\ s = "ROUTING"
    <2>1. Lifecycle!Accept(t)
      BY <1>1 DEF Lifecycle!Accept
    <2> QED
      BY <2>1
  <1>2. CASE status[t] = "AWAITING_CLARIFICATION" /\ s = "ROUTING"
    <2>1. Lifecycle!Answered(t)
      BY <1>2 DEF Lifecycle!Answered
    <2> QED
      BY <2>1
  <1>3. CASE status[t] = "ROUTING" /\ s \in Executing
    <2>1. Lifecycle!Begin(t)
      BY <1>3 DEF Lifecycle!Begin, Lifecycle!Executing, Executing
    <2> QED
      BY <2>1
  <1>4. CASE status[t] \in {"ROUTING", "AWAITING_CLARIFICATION"} \cup Executing /\ s \in Terminal
    <2>1. Lifecycle!End(t)
      BY <1>4 DEF Lifecycle!End, Lifecycle!Executing, Lifecycle!Ended, Executing, Terminal
    <2> QED
      BY <2>1
  <1> QED
    BY <1>1, <1>2, <1>3, <1>4

LEMMA SeesEvent ==
    ASSUME QueryInv, NEW t \in Task, NEW s \in Terminal, events[t] = <<>>, status[t] = s,
           events' = [events EXCEPT ![t] = Append(events[t], s)], UNCHANGED <<status, rounds>>
    PROVE  LifecycleStep /\ events'[t] = <<s>>
  <1> DEFINE V(e) == IF e = <<>> THEN "OPEN" ELSE e[Len(e)]
             said == [u \in Task |-> V(events[u])]
  <1>1. events \in [Task -> Seq(Terminal)]
    BY DEF QueryInv, TypeOK
  <1>2. /\ events'[t] = <<s>> /\ events' \in [Task -> Seq(Terminal)]
        /\ \A u \in Task : u # t => events'[u] = events[u]
    BY <1>1
  <1>3. V(events'[t]) = s /\ V(events[t]) = "OPEN"
    BY <1>2
  <1>4. said' = [u \in Task |-> V(events'[u])]
    OBVIOUS
  <1>5. said' = [said EXCEPT ![t] = s]
    <2>1. ASSUME NEW u \in Task, u # t PROVE V(events'[u]) = V(events[u])
      BY <1>2, <2>1
    <2> HIDE DEF V
    <2> QED
      BY <1>3, <1>4, <2>1
  <1>6. said[t] = "OPEN"
    BY <1>3
  <1>7. Lifecycle!Announce(t)
    BY <1>5, <1>6 DEF Lifecycle!Announce, Lifecycle!Ended, Terminal
  <1> QED
    BY <1>2, <1>7 DEF LifecycleStep, Lifecycle!QueryNext

-----------------------------------------------------------------------------
(* Steps of a pipeline, left alone *)

\* Where a pipeline works on its row.
Working == {"queued", "route", "proceed", "ask", "arm", "reroute", "planA", "runA", "planB",
            "replyB", "scene", "runB", "replyRun", "runScene", "fail", "patch", "emit", "record"}

\* The pipeline of t goes on to p; nobody else is doing anything to t.
LEMMA RunsOn ==
    ASSUME QueryInv, SoloInv, NEW t \in Task, NEW p, pipe' = [pipe EXCEPT ![t] = p],
           UNCHANGED <<job, sib, old, crashes, idem>>,
           pipe[t].pc \in Working, p.pc \in Working \cup {"waiting", "done"},
           pending' \subseteq pending \cup {t},
           \A u \in Task : u # t => status'[u] = status[u] /\ events'[u] = events[u],
           status'[t] # "ABSENT", RowFits(t)', StreamFits(t)'
    PROVE  SoloInv'
  <1>1. pipe'[t] = p /\ \A u \in Task : u # t => pipe'[u] = pipe[u]
    BY DEF QueryInv, TypeOK
  <1>2. status[t] # "ABSENT"
    BY DEF SoloInv, RowFits, Working
  <1>3. ASSUME NEW u \in Task, u # t PROVE RowFits(u)' /\ StreamFits(u)'
    <2>1. RowFits(u) /\ StreamFits(u)
      BY DEF SoloInv
    <2> QED
      BY <1>1, <1>3, <2>1 DEF RowFits, StreamFits
  <1>4. ASSUME NEW u \in Task PROVE ActorsFit(u)'
    <2>1. ActorsFit(u)
      BY DEF SoloInv
    <2>2. CASE u = t
      <3>1. job[t]["timer"].pc = "idle" /\ job[t]["sweeper"].pc = "idle" /\ t \notin old
        BY <2>1, <2>2 DEF ActorsFit, Working
      <3>2. \A a \in Actor : job[t][a].pc # "emit"
        BY <2>1, <2>2, <3>1 DEF ActorsFit, Actor
      <3> QED
        BY <2>1, <2>2, <3>1, <3>2 DEF ActorsFit
    <2>3. CASE u # t
      BY <1>1, <2>1, <2>3 DEF ActorsFit
    <2> QED
      BY <2>2, <2>3
  <1>5. Submitting' \subseteq Submitting
    BY <1>1 DEF Submitting, Working
  <1>6. KeysFit'
    <2>1. KeysFit
      BY DEF SoloInv
    <2>2. \A w \in Task : Lost(w) => Lost(w)'
      BY <1>1, <1>2 DEF Lost
    <2>3. ASSUME NEW u \in Task
          PROVE  /\ pipe'[u].pc = "keyed" \/ status'[u] # "ABSENT" => pipe[u].pc = "keyed" \/ status[u] # "ABSENT"
                 /\ pipe[u].pc \notin {"none", "counted"} => pipe'[u].pc \notin {"none", "counted"}
                 /\ pipe'[u].pc = "done" /\ status'[u] = "ABSENT" => pipe[u].pc = "done" /\ status[u] = "ABSENT"
      BY <1>1, <1>2 DEF Working
    <2>4. \A u \in Task : KeyOf[u] # NoKey /\ (pipe'[u].pc = "keyed" \/ status'[u] # "ABSENT") =>
             idem[KeyOf[u]] = u \/ \E w \in Task : idem[KeyOf[u]] = w /\ Lost(w)'
      BY <2>1, <2>2, <2>3 DEF KeysFit
    <2>5. \A w \in Task : KeyOf[w] # NoKey /\ idem[KeyOf[w]] = w =>
             /\ pipe'[w].pc \notin {"none", "counted"}
             /\ pipe'[w].pc = "done" /\ status'[w] = "ABSENT" => crashes > 0
      BY <2>1, <2>3 DEF KeysFit
    <2> QED
      BY <2>1, <2>4, <2>5 DEF KeysFit
  <1> QED
    BY <1>3, <1>4, <1>5, <1>6 DEF SoloInv

\* It goes on without a look at the row's status, or without changing it.
LEMMA StepSolo ==
    ASSUME QueryInv, SoloInv, NEW t \in Task, NEW from, NEW to, Step(t, from, to),
           \/ from \in {"queued", "route", "proceed", "planA"}
                 /\ to \in {"route", "proceed", "ask", "planA", "planB", "scene", "fail"}
           \/ from \in {"runA", "runB", "runScene"} /\ to = "fail"
           \/ from = "replyRun" /\ to = "done"
    PROVE  SoloInv' /\ LifecycleStep
  <1>1. /\ pipe[t].pc = from /\ pipe' = [pipe EXCEPT ![t] = At(to)]
        /\ UNCHANGED <<status, rounds, idem, events, experience, old, pending, cancelled, job, sib, crashes>>
    BY DEF Step, Go, store
  <1>2. pipe'[t].pc = to /\ At(to).pc = to
    BY <1>1 DEF QueryInv, TypeOK, At
  <1>3. RowFits(t) /\ StreamFits(t) /\ t \notin pending
    BY <1>1 DEF SoloInv, QueryInv, PipeSound
  <1>4. RowFits(t)'
    BY <1>1, <1>2, <1>3 DEF RowFits, Executing
  <1>5. StreamFits(t)'
    BY <1>1, <1>3 DEF StreamFits
  <1>6. from \in Working /\ to \in Working \cup {"done"} /\ status[t] # "ABSENT"
    BY <1>1, <1>3 DEF Working, RowFits
  <1> QED
    BY <1>1, <1>2, <1>4, <1>5, <1>6, RunsOn, SeesNothing

\* It writes a status that is no ending.
LEMMA StepPatchSolo ==
    ASSUME QueryInv, SoloInv, NEW t \in Task, NEW from, NEW s, NEW to, StepPatch(t, from, s, to),
           \/ from \in {"planA", "planB", "replyB", "scene"} /\ s \in Executing
                 /\ to \in {"runA", "runB", "replyRun", "runScene"}
           \/ from = "reroute" /\ s = "ROUTING" /\ to \in {"replyB", "proceed"}
    PROVE  SoloInv' /\ LifecycleStep
  <1>1. /\ pipe[t].pc = from /\ pipe' = [pipe EXCEPT ![t] = At(to)] /\ status' = [status EXCEPT ![t] = s]
        /\ UNCHANGED <<rounds, idem, events, experience, old, pending, cancelled, job, sib, crashes>>
    BY DEF StepPatch, Go
  <1>2. /\ pipe'[t].pc = to /\ At(to).pc = to /\ status'[t] = s
        /\ \A u \in Task : u # t => status'[u] = status[u]
    BY <1>1 DEF QueryInv, TypeOK, At
  <1>3. RowFits(t) /\ StreamFits(t) /\ t \notin pending
    BY <1>1 DEF SoloInv, QueryInv, PipeSound
  <1>4. status[t] \notin Terminal
    BY <1>1, <1>3 DEF RowFits, Terminal
  <1>5. RowFits(t)'
    BY <1>1, <1>2, <1>3 DEF RowFits, Executing
  <1>6. StreamFits(t)'
    BY <1>1, <1>3, <1>4 DEF StreamFits
  <1>7. from \in Working /\ to \in Working /\ s # "ABSENT"
    BY <1>1 DEF Working, Executing
  <1>8. \/ status[t] = "AWAITING_CLARIFICATION" /\ s = "ROUTING"
        \/ status[t] = "ROUTING" /\ s \in Executing
    BY <1>1, <1>3 DEF RowFits
  <1>9. LifecycleStep
    BY <1>1, <1>8, SeesStatus
  <1> QED
    BY <1>1, <1>2, <1>5, <1>6, <1>7, <1>9, RunsOn

\* It decides how the task ends.
LEMMA ConcludeSolo ==
    ASSUME QueryInv, SoloInv, NEW t \in Task, NEW from, NEW out \in Terminal, NEW agent, Conclude(t, from, out, agent),
           from \in {"route", "planB", "replyB", "runA", "runB", "replyRun", "runScene", "fail"}
    PROVE  SoloInv' /\ LifecycleStep
  <1> DEFINE p == [pc |-> "patch", out |-> out, agent |-> agent]
  <1>1. /\ pipe[t].pc = from /\ pipe' = [pipe EXCEPT ![t] = p]
        /\ UNCHANGED <<status, rounds, idem, events, experience, old, pending, cancelled, job, sib, crashes>>
    BY DEF Conclude, store
  <1>2. pipe'[t].pc = "patch" /\ p.pc = "patch"
    BY <1>1 DEF QueryInv, TypeOK
  <1>3. RowFits(t) /\ StreamFits(t) /\ t \notin pending
    BY <1>1 DEF SoloInv, QueryInv, PipeSound
  <1>4. status[t] \in {"ROUTING"} \cup Executing
    BY <1>1, <1>3 DEF RowFits
  <1>5. RowFits(t)'
    BY <1>1, <1>2, <1>3, <1>4 DEF RowFits, Executing
  <1>6. StreamFits(t)'
    BY <1>1, <1>3 DEF StreamFits
  <1>7. from \in Working /\ "patch" \in Working /\ status[t] # "ABSENT"
    BY <1>1, <1>4 DEF Working, Executing
  <1> HIDE DEF p
  <1> QED
    BY <1>1, <1>2, <1>5, <1>6, <1>7, RunsOn, SeesNothing

\* The pipeline decides; FailTask finds the row still open.
LEMMA DecidesSolo ==
    ASSUME QueryInv, SoloInv, NEW t \in Task,
           RunPipeline(t) \/ Route(t) \/ WorkflowOnlyMiss(t) \/ ProceedWithIntent(t)
           \/ WorkflowEnds(t) \/ AgentEnds(t) \/ SceneAgentEnds(t)
           \/ Throw(t) \/ ThrowToReplier(t) \/ FailTask(t)
    PROVE  SoloInv' /\ LifecycleStep
  <1>1. RowFits(t)
    BY DEF SoloInv
  <1>2. {"COMPLETED", "FAILED", "CANCELLED"} \subseteq Terminal
    BY DEF Terminal
  <1>3. CASE RunPipeline(t)
    <2>1. status[t] = "ROUTING"
      BY <1>1, <1>3 DEF RunPipeline, Step, RowFits
    <2>2. Step(t, "queued", "route")
      BY <1>3, <2>1 DEF RunPipeline
    <2> QED
      BY <2>2, StepSolo
  <1>4. CASE Route(t)
    <2>1. PICK to \in {"scene", "planB", "ask", "proceed", "fail"} : Step(t, "route", to)
      BY <1>4 DEF Route
    <2> QED
      BY <2>1, StepSolo
  <1>5. CASE WorkflowOnlyMiss(t)
    <2>1. PICK from \in {"route", "planB", "replyB"} : Conclude(t, from, "COMPLETED", FALSE)
      BY <1>5 DEF WorkflowOnlyMiss
    <2> QED
      BY <1>2, <2>1, ConcludeSolo
  <1>6. CASE ProceedWithIntent(t)
    <2>1. PICK to \in {"planA", "planB", "ask"} : Step(t, "proceed", to)
      BY <1>6 DEF ProceedWithIntent
    <2> QED
      BY <2>1, StepSolo
  <1>7. CASE WorkflowEnds(t)
    <2>1. PICK out \in {"COMPLETED", "FAILED"} : Conclude(t, "runA", out, FALSE)
      BY <1>7 DEF WorkflowEnds
    <2> QED
      BY <1>2, <2>1, ConcludeSolo
  <1>8. CASE AgentEnds(t)
    <2>1. PICK from \in {"runB", "replyRun"}, out \in {"CANCELLED", "COMPLETED"} : Conclude(t, from, out, TRUE)
      BY <1>8 DEF AgentEnds
    <2> QED
      BY <1>2, <2>1, ConcludeSolo
  <1>9. CASE SceneAgentEnds(t)
    BY <1>2, <1>9, ConcludeSolo DEF SceneAgentEnds
  <1>10. CASE Throw(t)
    <2>1. PICK from \in {"route", "proceed", "runA", "runB", "runScene"} : Step(t, from, "fail")
      BY <1>10 DEF Throw
    <2> QED
      BY <2>1, StepSolo
  <1>11. CASE ThrowToReplier(t)
    BY <1>11, StepSolo DEF ThrowToReplier
  <1>12. CASE FailTask(t)
    <2>1. status[t] \notin Terminal
      BY <1>1, <1>12 DEF FailTask, Step, Conclude, RowFits, Terminal, Executing
    <2>2. Conclude(t, "fail", "FAILED", FALSE)
      BY <1>12, <2>1 DEF FailTask
    <2> QED
      BY <1>2, <2>2, ConcludeSolo
  <1> QED
    BY <1>3, <1>4, <1>5, <1>6, <1>7, <1>8, <1>9, <1>10, <1>11, <1>12

\* The pipeline writes a status that is no ending.
LEMMA MarksSolo ==
    ASSUME QueryInv, SoloInv, NEW t \in Task, RunPathA(t) \/ RunPathB(t) \/ RunSceneAgent(t) \/ Reroute(t)
    PROVE  SoloInv' /\ LifecycleStep
  <1>1. {"EXECUTING_WORKFLOW", "EXECUTING_AGENT"} \subseteq Executing
    BY DEF Executing
  <1>2. CASE Step(t, "planA", "fail")
    BY <1>2, StepSolo
  <1>3. CASE StepPatch(t, "planA", "EXECUTING_WORKFLOW", "runA")
    BY <1>1, <1>3, StepPatchSolo
  <1>4. CASE RunPathB(t)
    <2>1. CASE StepPatch(t, "planB", "EXECUTING_AGENT", "runB")
      BY <1>1, <2>1, StepPatchSolo
    <2>2. CASE StepPatch(t, "replyB", "EXECUTING_AGENT", "replyRun")
      BY <1>1, <2>2, StepPatchSolo
    <2> QED
      BY <1>4, <2>1, <2>2 DEF RunPathB
  <1>5. CASE RunSceneAgent(t)
    BY <1>1, <1>5, StepPatchSolo DEF RunSceneAgent
  <1>6. CASE Reroute(t)
    <2>1. PICK to \in {"replyB", "proceed"} : StepPatch(t, "reroute", "ROUTING", to)
      BY <1>6 DEF Reroute
    <2> QED
      BY <2>1, StepPatchSolo
  <1> QED
    BY <1>2, <1>3, <1>4, <1>5, <1>6 DEF RunPathA

\* It asks back, and arms the timer.
LEMMA AsksSolo ==
    ASSUME QueryInv, SoloInv, NEW t \in Task, RequestClarification(t) \/ ArmTimer(t)
    PROVE  SoloInv' /\ LifecycleStep
  <1>1. /\ status \in [Task -> Status] /\ rounds \in [Task -> Nat] /\ pipe \in [Task -> Pipe]
        /\ RowFits(t) /\ StreamFits(t) /\ PipeSound(t)
    BY DEF SoloInv, QueryInv, TypeOK
  <1>2. CASE RequestClarification(t)
    <2>1. /\ pipe[t].pc = "ask" /\ pipe' = [pipe EXCEPT ![t] = At("arm")]
          /\ status' = [status EXCEPT ![t] = "AWAITING_CLARIFICATION"]
          /\ rounds' = [rounds EXCEPT ![t] = @ + 1]
          /\ UNCHANGED <<idem, events, experience, old, pending, cancelled, job, sib, crashes>>
      BY <1>2 DEF RequestClarification, Go
    <2>2. /\ pipe'[t].pc = "arm" /\ At("arm").pc = "arm" /\ status'[t] = "AWAITING_CLARIFICATION"
          /\ \A u \in Task : u # t => status'[u] = status[u]
      BY <1>1, <2>1 DEF At
    <2>3. status[t] = "ROUTING" /\ rounds[t] < MaxRounds
      BY <1>1, <2>1 DEF RowFits, PipeSound
    <2>4. RowFits(t)'
      BY <2>2 DEF RowFits
    <2>5. StreamFits(t)'
      BY <1>1, <2>1, <2>3 DEF StreamFits, Terminal
    <2>6. Lifecycle!AskBack(t)
      BY <2>1, <2>3 DEF Lifecycle!AskBack, Lifecycle!To
    <2>7. LifecycleStep
      BY <2>6 DEF LifecycleStep, Lifecycle!QueryNext
    <2> QED
      BY <2>1, <2>2, <2>4, <2>5, <2>7, RunsOn DEF Working
  <1>3. CASE ArmTimer(t)
    <2>1. /\ pipe[t].pc = "arm" /\ pipe' = [pipe EXCEPT ![t] = At("waiting")] /\ pending' = pending \cup {t}
          /\ UNCHANGED <<status, rounds, idem, events, experience, old, cancelled, job, sib, crashes>>
      BY <1>3 DEF ArmTimer, Go, store
    <2>2. pipe'[t].pc = "waiting" /\ At("waiting").pc = "waiting"
      BY <1>1, <2>1 DEF At
    <2>3. status[t] = "AWAITING_CLARIFICATION"
      BY <1>1, <2>1 DEF RowFits
    <2>4. RowFits(t)'
      BY <2>1, <2>2, <2>3 DEF RowFits
    <2>5. StreamFits(t)'
      BY <1>1, <2>1 DEF StreamFits
    <2> QED
      BY <2>1, <2>2, <2>3, <2>4, <2>5, RunsOn, SeesNothing DEF Working
  <1> QED
    BY <1>2, <1>3

\* It writes the outcome, tells the stream, and records the experience.
LEMMA EndsSolo ==
    ASSUME QueryInv, SoloInv, NEW t \in Task, PatchOutcome(t) \/ EmitOutcome(t) \/ RecordExperience(t)
    PROVE  SoloInv' /\ LifecycleStep
  <1>1. /\ status \in [Task -> Status] /\ pipe \in [Task -> Pipe] /\ events \in [Task -> Seq(Terminal)]
        /\ RowFits(t) /\ StreamFits(t) /\ PipeSound(t)
    BY DEF SoloInv, QueryInv, TypeOK
  <1>2. pipe[t].pc \in {"patch", "emit"} => pipe[t].out \in Terminal
    BY <1>1 DEF PipeSound
  <1>3. CASE PatchOutcome(t)
    <2>1. /\ pipe[t].pc = "patch" /\ status' = [status EXCEPT ![t] = pipe[t].out]
          /\ pipe' = [pipe EXCEPT ![t].pc = "emit"]
          /\ UNCHANGED <<rounds, idem, events, experience, old, pending, cancelled, job, sib, crashes>>
      BY <1>3 DEF PatchOutcome
    <2> DEFINE p == [pipe[t] EXCEPT !.pc = "emit"]
    <2>2. /\ pipe' = [pipe EXCEPT ![t] = p] /\ pipe'[t] = p /\ p.pc = "emit" /\ p.out = pipe[t].out
          /\ status'[t] = pipe[t].out /\ \A u \in Task : u # t => status'[u] = status[u]
      BY <1>1, <2>1 DEF Pipe
    <2>3. status[t] \in {"ROUTING"} \cup Executing /\ t \notin pending /\ events[t] = <<>>
      BY <1>1, <2>1 DEF RowFits, PipeSound, StreamFits, Executing, Terminal
    <2> HIDE DEF p
    <2>4. RowFits(t)'
      BY <1>2, <2>1, <2>2, <2>3 DEF RowFits, Terminal
    <2>5. StreamFits(t)'
      BY <2>1, <2>3, <1>1 DEF StreamFits
    <2>6. LifecycleStep
      BY <1>2, <2>1, <2>3, SeesStatus
    <2>7. status'[t] # "ABSENT"
      BY <1>2, <2>1, <2>2 DEF Terminal
    <2> QED
      BY <2>1, <2>2, <2>4, <2>5, <2>6, <2>7, RunsOn DEF Working
  <1>4. CASE EmitOutcome(t)
    <2>1. PICK out : out = pipe[t].out
      OBVIOUS
    <2>2. PICK to \in {"record", "done"} : pipe' = [pipe EXCEPT ![t] = At(to)]
      BY <1>4 DEF EmitOutcome, Go
    <2>3. /\ pipe[t].pc = "emit" /\ events' = [events EXCEPT ![t] = Append(events[t], out)]
          /\ UNCHANGED <<status, rounds, idem, experience, old, pending, cancelled, job, sib, crashes>>
      BY <1>4, <2>1 DEF EmitOutcome
    <2>4. out \in Terminal /\ status[t] = out /\ events[t] = <<>> /\ t \notin pending
      BY <1>1, <1>2, <2>1, <2>3 DEF RowFits, PipeSound
    <2>5. /\ pipe'[t].pc = to /\ At(to).pc = to
          /\ \A u \in Task : u # t => events'[u] = events[u]
      BY <1>1, <2>2, <2>3 DEF At
    <2>6. LifecycleStep /\ events'[t] = <<out>>
      BY <2>3, <2>4, SeesEvent
    <2>7. RowFits(t)'
      BY <2>3, <2>4, <2>5 DEF RowFits, Terminal
    <2>8. StreamFits(t)'
      BY <2>3, <2>4, <2>6 DEF StreamFits
    <2>9. status[t] # "ABSENT"
      BY <2>4 DEF Terminal
    <2> QED
      BY <2>2, <2>3, <2>5, <2>6, <2>7, <2>8, <2>9, RunsOn DEF Working
  <1>5. CASE RecordExperience(t)
    <2>1. /\ pipe[t].pc = "record" /\ pipe' = [pipe EXCEPT ![t] = At("done")]
          /\ UNCHANGED <<status, rounds, idem, events, old, pending, cancelled, job, sib, crashes>>
      BY <1>5 DEF RecordExperience, Go
    <2>2. pipe'[t].pc = "done" /\ At("done").pc = "done"
      BY <1>1, <2>1 DEF At
    <2>3. RowFits(t)' /\ StreamFits(t)' /\ status[t] # "ABSENT"
      BY <1>1, <2>1, <2>2 DEF RowFits, StreamFits
    <2> QED
      BY <2>1, <2>2, <2>3, RunsOn, SeesNothing DEF Working
  <1> QED
    BY <1>3, <1>4, <1>5

-----------------------------------------------------------------------------
(* Submissions, one after the other *)

\* A submission that goes on keeps everything but the keys.
LEMMA SubmitsOn ==
    ASSUME QueryInv, SoloInv, NEW t \in Task, NEW to, Go(t, to),
           UNCHANGED <<job, sib, old, crashes, pending, events>>,
           pipe[t].pc \in {"none", "counted", "keyed"},
           \/ to \in {"counted", "keyed", "done"} /\ UNCHANGED status
           \/ to = "queued" /\ status' = [status EXCEPT ![t] = "ROUTING"],
           to = "counted" => Submitting = {},
           to # "counted" => pipe[t].pc # "none",
           KeysFit'
    PROVE  SoloInv'
  <1>1. /\ status \in [Task -> Status] /\ pipe \in [Task -> Pipe]
        /\ RowFits(t) /\ StreamFits(t) /\ ActorsFit(t)
    BY DEF SoloInv, QueryInv, TypeOK
  <1>2. /\ pipe'[t].pc = to /\ \A u \in Task : u # t => pipe'[u] = pipe[u] /\ status'[u] = status[u]
    BY <1>1 DEF Go, At
  <1>3. status[t] = "ABSENT" /\ events[t] = <<>> /\ t \notin pending
    BY <1>1 DEF RowFits, StreamFits, Terminal, QueryInv, PipeSound
  <1>4. ASSUME NEW u \in Task PROVE RowFits(u)' /\ StreamFits(u)' /\ ActorsFit(u)'
    <2>1. RowFits(u) /\ StreamFits(u) /\ ActorsFit(u)
      BY DEF SoloInv
    <2>2. CASE u # t
      BY <1>2, <2>1, <2>2 DEF RowFits, StreamFits, ActorsFit
    <2>3. CASE u = t
      <3>1. RowFits(t)'
        BY <1>1, <1>2, <1>3 DEF RowFits
      <3>2. StreamFits(t)'
        BY <1>3 DEF StreamFits
      <3>3. job[t]["timer"].pc = "idle" /\ job[t]["sweeper"].pc = "idle" /\ t \notin old
        BY <1>1 DEF ActorsFit
      <3>4. \A a \in Actor : job[t][a].pc # "emit"
        BY <1>1, <3>3 DEF ActorsFit, Actor
      <3>5. ActorsFit(t)'
        BY <1>1, <3>3, <3>4 DEF ActorsFit
      <3> QED
        BY <2>3, <3>1, <3>2, <3>5
    <2> QED
      BY <2>2, <2>3
  <1>5. ASSUME NEW u \in Submitting', NEW v \in Submitting' PROVE u = v
    <2>1. CASE to = "counted"
      BY <1>2, <2>1 DEF Submitting
    <2>2. CASE to # "counted"
      <3>1. Submitting' \subseteq Submitting
        BY <1>2, <2>2 DEF Submitting
      <3> QED
        BY <3>1 DEF SoloInv
    <2> QED
      BY <2>1, <2>2
  <1> QED
    BY <1>4, <1>5 DEF SoloInv

LEMMA SubmissionSolo ==
    ASSUME Interference = {}, QueryInv, SoloInv, NEW t \in Task,
           Submit(t) \/ Reserve(t) \/ \E keep \in BOOLEAN : Insert(t, keep)
    PROVE  SoloInv' /\ LifecycleStep
  <1>1. /\ status \in [Task -> Status] /\ pipe \in [Task -> Pipe] /\ idem \in [Key -> Task \cup {NoTask}]
        /\ RowFits(t) /\ KeysFit /\ KeyOf \in [Task -> Key \cup {NoKey}] /\ NoTask \notin Task
    BY SubmissionAssumption DEF SoloInv, QueryInv, TypeOK
  <1>2. CASE Submit(t)
    <2>1. /\ pipe[t].pc = "none" /\ Go(t, "counted") /\ Submitting = {}
          /\ UNCHANGED <<status, rounds, idem, events, experience, old, pending, cancelled, job, sib, crashes>>
      BY <1>2 DEF Submit, store
    <2>2. /\ pipe'[t].pc = "counted" /\ \A u \in Task : u # t => pipe'[u] = pipe[u]
      BY <1>1, <2>1 DEF Go, At
    <2>3. \A w \in Task : Lost(w) => Lost(w)'
      BY <2>1, <2>2 DEF Lost
    <2>4. KeyOf[t] # NoKey => idem[KeyOf[t]] # t
      BY <1>1, <2>1 DEF KeysFit
    <2>5. KeysFit'
      BY <1>1, <2>1, <2>2, <2>3, <2>4 DEF KeysFit
    <2> QED
      BY <2>1, <2>5, SubmitsOn, SeesNothing
  <1>3. CASE Reserve(t)
    <2>1. PICK k : k = KeyOf[t]
      OBVIOUS
    <2>2. /\ pipe[t].pc = "counted" /\ status[t] = "ABSENT"
          /\ UNCHANGED <<status, rounds, events, experience, old, pending, cancelled, job, sib, crashes>>
      BY <1>1, <1>3 DEF Reserve, RowFits
    <2>3. ASSUME NEW u \in Task, u # t PROVE pipe[u].pc # "keyed"
      BY <2>2, <2>3 DEF SoloInv, Submitting
    <2>4. CASE k = NoKey
      <3>1. Go(t, "keyed") /\ idem' = idem
        BY <1>3, <2>1, <2>4 DEF Reserve
      <3>2. /\ pipe'[t].pc = "keyed" /\ \A u \in Task : u # t => pipe'[u] = pipe[u]
        BY <1>1, <3>1 DEF Go, At
      <3>3. \A w \in Task : Lost(w) => Lost(w)'
        BY <2>2, <3>2 DEF Lost
      <3>4. \A u \in Task : KeyOf[u] # NoKey => u # t
        BY <2>1, <2>4
      <3>5. \A u \in Task : KeyOf[u] # NoKey /\ (pipe'[u].pc = "keyed" \/ status'[u] # "ABSENT") =>
               idem[KeyOf[u]] = u \/ \E w \in Task : idem[KeyOf[u]] = w /\ Lost(w)'
        BY <1>1, <2>2, <3>2, <3>3, <3>4 DEF KeysFit
      <3>6. KeysFit'
        BY <1>1, <2>2, <3>1, <3>2, <3>4, <3>5 DEF KeysFit
      <3> QED
        BY <2>2, <3>1, <3>6, SubmitsOn, SeesNothing
    <2>5. CASE k # NoKey /\ idem[k] = NoTask
      <3>1. Go(t, "keyed") /\ idem' = [idem EXCEPT ![k] = t] /\ k \in Key
        BY <1>1, <1>3, <2>1, <2>5 DEF Reserve
      <3>2. /\ pipe'[t].pc = "keyed" /\ \A u \in Task : u # t => pipe'[u] = pipe[u]
        BY <1>1, <3>1 DEF Go, At
      <3>3. \A w \in Task : Lost(w) => Lost(w)'
        BY <2>2, <3>2 DEF Lost
      <3>4. idem'[k] = t /\ \A j \in Key : j # k => idem'[j] = idem[j]
        BY <1>1, <3>1
      <3>5. ASSUME NEW u \in Task, KeyOf[u] # NoKey, (pipe'[u].pc = "keyed" \/ status'[u] # "ABSENT")
            PROVE  idem'[KeyOf[u]] = u \/ \E w \in Task : idem'[KeyOf[u]] = w /\ Lost(w)'
        <4>1. CASE KeyOf[u] = k
          <5>1. CASE u = t
            BY <2>1, <3>4, <5>1
          <5>2. CASE u # t
            BY <1>1, <2>2, <2>5, <3>2, <3>5, <4>1, <5>2 DEF KeysFit
          <5> QED
            BY <5>1, <5>2
        <4>2. CASE KeyOf[u] # k
          <5>1. u # t /\ idem'[KeyOf[u]] = idem[KeyOf[u]]
            BY <1>1, <2>1, <3>4, <3>5, <4>2
          <5> QED
            BY <1>1, <2>2, <3>2, <3>3, <3>5, <5>1 DEF KeysFit
        <4> QED
          BY <4>1, <4>2
      <3>6. ASSUME NEW w \in Task, KeyOf[w] # NoKey, idem'[KeyOf[w]] = w
            PROVE  /\ pipe'[w].pc \notin {"none", "counted"}
                   /\ pipe'[w].pc = "done" /\ status'[w] = "ABSENT" => crashes' > 0
        <4>1. CASE w = t
          BY <3>2, <4>1
        <4>2. CASE w # t
          <5>1. KeyOf[w] # k /\ idem[KeyOf[w]] = w
            BY <1>1, <3>4, <3>6, <4>2
          <5> QED
            BY <1>1, <2>2, <3>2, <3>6, <4>2, <5>1 DEF KeysFit
        <4> QED
          BY <4>1, <4>2
      <3>7. \A j \in Key, w \in Task : idem'[j] = w => KeyOf[w] = j
        BY <1>1, <2>1, <3>4 DEF KeysFit
      <3>8. KeysFit'
        BY <3>5, <3>6, <3>7 DEF KeysFit
      <3> QED
        BY <2>2, <3>1, <3>8, SubmitsOn, SeesNothing
    <2>6. CASE k # NoKey /\ idem[k] # NoTask
      <3>1. PICK w \in Task : idem[k] = w /\ KeyOf[w] = k
        BY <1>1, <2>1, <2>6 DEF KeysFit
      <3>2. idem' = idem /\ Go(t, IF status[w] # "ABSENT" THEN "done" ELSE "keyed") /\ w # t
        BY <1>1, <1>3, <2>1, <2>2, <2>6, <3>1 DEF Reserve, KeysFit
      <3>3. /\ pipe'[t].pc = IF status[w] # "ABSENT" THEN "done" ELSE "keyed"
            /\ \A u \in Task : u # t => pipe'[u] = pipe[u]
        BY <1>1, <3>2 DEF Go, At
      <3>4. \A v \in Task : Lost(v) => Lost(v)'
        BY <2>2, <3>3 DEF Lost
      <3>5. status[w] = "ABSENT" => Lost(w)'
        <4>1. SUFFICES ASSUME status[w] = "ABSENT" PROVE Lost(w)
          BY <3>4
        <4>2. pipe[w].pc \notin {"none", "counted"} /\ (pipe[w].pc = "done" => crashes > 0)
          BY <1>1, <2>6, <3>1, <4>1 DEF KeysFit
        <4>3. pipe[w].pc \in {"none", "counted", "keyed", "done"}
          BY <4>1 DEF SoloInv, RowFits
        <4>4. pipe[w].pc = "done"
          BY <2>3, <3>2, <4>2, <4>3
        <4> QED
          BY <4>1, <4>2, <4>4 DEF Lost
      <3>6. KeysFit'
        <4>1. ASSUME NEW u \in Task, KeyOf[u] # NoKey, (pipe'[u].pc = "keyed" \/ status'[u] # "ABSENT")
              PROVE  idem[KeyOf[u]] = u \/ \E v \in Task : idem[KeyOf[u]] = v /\ Lost(v)'
          <5>1. CASE u = t
            BY <2>1, <2>2, <3>1, <3>3, <3>5, <4>1, <5>1
          <5>2. CASE u # t
            BY <1>1, <2>2, <3>3, <3>4, <4>1, <5>2 DEF KeysFit
          <5> QED
            BY <5>1, <5>2
        <4>2. KeyOf[t] # NoKey => idem[KeyOf[t]] # t
          BY <2>1, <3>1, <3>2
        <4> QED
          BY <1>1, <2>2, <3>2, <3>3, <4>1, <4>2 DEF KeysFit
      <3> QED
        BY <2>2, <3>2, <3>6, SubmitsOn, SeesNothing
    <2> QED
      BY <2>4, <2>5, <2>6
  <1>4. CASE \E keep \in BOOLEAN : Insert(t, keep)
    <2>1. /\ pipe[t].pc = "keyed" /\ Go(t, "queued") /\ status' = [status EXCEPT ![t] = "ROUTING"]
          /\ UNCHANGED <<rounds, idem, events, experience, old, pending, cancelled, job, sib, crashes>>
      BY <1>4 DEF Insert
    <2>2. /\ status[t] = "ABSENT" /\ status'[t] = "ROUTING" /\ pipe'[t].pc = "queued"
          /\ \A u \in Task : u # t => pipe'[u] = pipe[u] /\ status'[u] = status[u]
      BY <1>1, <2>1 DEF Go, At, RowFits
    <2>3. \A w \in Task : Lost(w) => Lost(w)'
      BY <2>1, <2>2 DEF Lost
    <2>4. KeysFit'
      BY <1>1, <2>1, <2>2, <2>3 DEF KeysFit
    <2> QED
      BY <2>1, <2>2, <2>4, SubmitsOn, SeesStatus
  <1> QED
    BY <1>2, <1>3, <1>4

-----------------------------------------------------------------------------
(* The other actors, left alone *)

\* A job of t moves on while its pipeline rests.
LEMMA JobSolo ==
    ASSUME QueryInv, SoloInv, NEW t \in Task, NEW a \in {"replier", "timer", "sweeper"}, NEW j,
           job' = [job EXCEPT ![t][a] = j],
           UNCHANGED <<pipe, sib, old, crashes, idem>>, pending' \subseteq pending,
           \A u \in Task : u # t => status'[u] = status[u] /\ events'[u] = events[u],
           status[t] # "ABSENT" /\ status'[t] # "ABSENT",
           RowFits(t)', StreamFits(t)', ActorsFit(t)'
    PROVE  SoloInv'
  <1>1. \A u \in Task : u # t => job'[u] = job[u]
    BY DEF QueryInv, TypeOK
  <1>2. ASSUME NEW u \in Task, u # t PROVE RowFits(u)' /\ StreamFits(u)' /\ ActorsFit(u)'
    <2>1. RowFits(u) /\ StreamFits(u) /\ ActorsFit(u)
      BY DEF SoloInv
    <2> QED
      BY <1>1, <1>2, <2>1 DEF RowFits, StreamFits, ActorsFit
  <1>3. \A u \in Task : status'[u] = "ABSENT" <=> status[u] = "ABSENT"
    OBVIOUS
  <1>4. KeysFit'
    <2>1. KeysFit /\ \A w \in Task : Lost(w) => Lost(w)'
      BY <1>3 DEF SoloInv, Lost
    <2> QED
      BY <1>3, <2>1 DEF KeysFit
  <1>5. Submitting' = Submitting
    BY DEF Submitting
  <1> QED
    BY <1>2, <1>4, <1>5 DEF SoloInv

LEMMA ActorsSolo ==
    ASSUME Interference = {}, QueryInv, SoloInv, NEW t \in Task,
           CancelForTimeout(t) \/ Sweep(t) \/ \E a \in Actor : FetchRow(t, a) \/ JobPatch(t, a) \/ JobEmit(t, a)
    PROVE  SoloInv' /\ LifecycleStep
  <1>1. /\ status \in [Task -> Status] /\ job \in [Task -> [Actor -> Job]] /\ events \in [Task -> Seq(Terminal)]
        /\ RowFits(t) /\ StreamFits(t) /\ ActorsFit(t) /\ PipeSound(t) /\ JobsSound(t)
    BY DEF SoloInv, QueryInv, TypeOK
  <1>2. Actor = {"canceller", "replier", "timer", "sweeper"}
    BY DEF Actor
  <1>3. ASSUME NEW a \in Actor, NEW j, job' = [job EXCEPT ![t][a] = j]
        PROVE  job'[t][a] = j /\ \A b \in Actor : b # a => job'[t][b] = job[t][b]
    BY <1>1, <1>3
  <1>4. CASE CancelForTimeout(t)
    <2> DEFINE j == [pc |-> "patch", saw |-> "CANCELLED"]
    <2>1. /\ job' = [job EXCEPT ![t]["timer"] = j] /\ t \in pending /\ pending' = pending \ {t}
          /\ UNCHANGED <<status, rounds, idem, events, experience, old, cancelled, pipe, sib, crashes>>
      BY <1>4 DEF CancelForTimeout, SetJob, store
    <2>2. j.pc = "patch" /\ "timer" \in Actor
      BY <1>2
    <2> HIDE DEF j
    <2>3. job'[t]["timer"] = j /\ \A b \in Actor : b # "timer" => job'[t][b] = job[t][b]
      BY <1>3, <2>1, <2>2
    <2>4. status[t] = "AWAITING_CLARIFICATION" /\ pipe[t].pc = "waiting"
      BY <1>1, <2>1 DEF RowFits, PipeSound
    <2>5. RowFits(t)' /\ StreamFits(t)'
      BY <1>1, <2>1, <2>4 DEF RowFits, StreamFits
    <2>6. ActorsFit(t)'
      BY <1>1, <1>2, <2>1, <2>2, <2>3, <2>4 DEF ActorsFit
    <2> QED
      BY <2>1, <2>4, <2>5, <2>6, JobSolo, SeesNothing
  <1>5. CASE Sweep(t)
    <2> DEFINE j == [pc |-> "patch", saw |-> "FAILED"]
    <2>1. /\ job' = [job EXCEPT ![t]["sweeper"] = j] /\ t \in old /\ status[t] \in Executing
          /\ UNCHANGED <<status, rounds, idem, events, experience, old, pending, cancelled, pipe, sib, crashes>>
      BY <1>5 DEF Sweep, SetJob, store, Executing
    <2>2. j.pc = "patch" /\ "sweeper" \in Actor
      BY <1>2
    <2> HIDE DEF j
    <2>3. job'[t]["sweeper"] = j /\ \A b \in Actor : b # "sweeper" => job'[t][b] = job[t][b]
      BY <1>3, <2>1, <2>2
    <2>4. pipe[t].pc = "done" /\ status[t] # "ABSENT"
      BY <1>1, <2>1 DEF ActorsFit, Executing
    <2>5. RowFits(t)' /\ StreamFits(t)'
      BY <1>1, <2>1, <2>4 DEF RowFits, StreamFits
    <2>6. ActorsFit(t)'
      BY <1>1, <1>2, <2>1, <2>2, <2>3, <2>4 DEF ActorsFit
    <2> QED
      BY <2>1, <2>4, <2>5, <2>6, JobSolo, SeesNothing
  <1>6. CASE \E a \in Actor : FetchRow(t, a)
    <2>1. FetchRow(t, "replier")
      BY <1>6 DEF FetchRow
    <2> DEFINE j == [pc |-> "read", saw |-> status[t]]
    <2>2. /\ job' = [job EXCEPT ![t]["replier"] = j] /\ status[t] # "ABSENT"
          /\ UNCHANGED <<status, rounds, idem, events, experience, old, pending, cancelled, pipe, sib, crashes>>
      BY <2>1 DEF FetchRow, SetJob, store
    <2>3. j.pc = "read" /\ "replier" \in Actor
      BY <1>2
    <2> HIDE DEF j
    <2>4. job'[t]["replier"] = j /\ \A b \in Actor : b # "replier" => job'[t][b] = job[t][b]
      BY <1>3, <2>2, <2>3
    <2>5. RowFits(t)' /\ StreamFits(t)'
      BY <1>1, <2>2 DEF RowFits, StreamFits
    <2>6. ActorsFit(t)'
      BY <1>1, <1>2, <2>2, <2>3, <2>4 DEF ActorsFit
    <2> QED
      BY <2>2, <2>5, <2>6, JobSolo, SeesNothing
  <1>7. CASE \E a \in Actor : JobPatch(t, a)
    <2>1. PICK a \in Actor : JobPatch(t, a)
      BY <1>7
    <2>2. PICK saw : saw = job[t][a].saw
      OBVIOUS
    <2> DEFINE j == [pc |-> "emit", saw |-> saw]
    <2>3. /\ job[t][a].pc = "patch" /\ job' = [job EXCEPT ![t][a] = j] /\ status' = [status EXCEPT ![t] = saw]
          /\ UNCHANGED <<rounds, idem, events, experience, old, pending, cancelled, pipe, sib, crashes>>
      BY <2>1, <2>2 DEF JobPatch, SetJob
    <2>4. a \in {"timer", "sweeper"} /\ saw \in Terminal
      BY <1>1, <1>2, <2>2, <2>3 DEF ActorsFit, JobsSound
    <2>5. j.pc = "emit" /\ j.saw = saw
      OBVIOUS
    <2> HIDE DEF j
    <2>6. job'[t][a] = j /\ \A b \in Actor : b # a => job'[t][b] = job[t][b]
      BY <1>3, <2>3
    <2>7. /\ status[t] \in {"AWAITING_CLARIFICATION"} \cup Executing /\ pipe[t].pc \in {"waiting", "done"}
          /\ t \notin pending /\ events[t] = <<>>
      <3>1. status[t] \in {"AWAITING_CLARIFICATION"} \cup Executing /\ pipe[t].pc \in {"waiting", "done"}
        BY <1>1, <2>3, <2>4 DEF ActorsFit
      <3>2. t \notin pending
        BY <1>1, <2>3, <2>4 DEF ActorsFit, PipeSound
      <3>3. events[t] = <<>>
        BY <1>1, <3>1 DEF StreamFits, Terminal, Executing
      <3> QED
        BY <3>1, <3>2, <3>3
    <2>8. status'[t] = saw /\ saw # "ABSENT" /\ \A u \in Task : u # t => status'[u] = status[u]
      BY <1>1, <2>3, <2>4 DEF Terminal
    <2>9. RowFits(t)' /\ StreamFits(t)'
      BY <1>1, <2>3, <2>7, <2>8 DEF RowFits, StreamFits
    <2>10. ActorsFit(t)'
      <3>1. CASE a = "timer"
        <4>1. job[t]["sweeper"].pc = "idle" /\ job[t]["canceller"].pc = "idle" /\ job[t]["replier"].pc \in {"idle", "read"}
          BY <1>1, <2>3, <3>1 DEF ActorsFit
        <4>2. /\ job'[t]["timer"] = j /\ job'[t]["sweeper"] = job[t]["sweeper"]
              /\ job'[t]["canceller"] = job[t]["canceller"] /\ job'[t]["replier"] = job[t]["replier"]
          BY <1>2, <2>6, <3>1
        <4> QED
          BY <1>1, <1>2, <2>3, <2>5, <2>7, <2>8, <3>1, <4>1, <4>2 DEF ActorsFit
      <3>2. CASE a = "sweeper"
        <4>1. job[t]["timer"].pc = "idle" /\ job[t]["canceller"].pc = "idle" /\ job[t]["replier"].pc \in {"idle", "read"}
          BY <1>1, <2>3, <3>2 DEF ActorsFit
        <4>2. /\ job'[t]["sweeper"] = j /\ job'[t]["timer"] = job[t]["timer"]
              /\ job'[t]["canceller"] = job[t]["canceller"] /\ job'[t]["replier"] = job[t]["replier"]
          BY <1>2, <2>6, <3>2
        <4> QED
          BY <1>1, <1>2, <2>3, <2>5, <2>7, <2>8, <3>2, <4>1, <4>2 DEF ActorsFit
      <3> QED
        BY <2>4, <3>1, <3>2
    <2>11. LifecycleStep
      BY <2>3, <2>4, <2>7, SeesStatus
    <2>12. status[t] # "ABSENT"
      BY <2>7 DEF Executing
    <2> QED
      BY <2>3, <2>4, <2>8, <2>9, <2>10, <2>11, <2>12, JobSolo
  <1>8. CASE \E a \in Actor : JobEmit(t, a)
    <2>1. PICK a \in Actor : JobEmit(t, a)
      BY <1>8
    <2>2. PICK saw : saw = job[t][a].saw
      OBVIOUS
    <2> DEFINE j == [pc |-> "idle", saw |-> "ABSENT"]
    <2>3. /\ job[t][a].pc = "emit" /\ job' = [job EXCEPT ![t][a] = j]
          /\ events' = [events EXCEPT ![t] = Append(events[t], saw)]
          /\ UNCHANGED <<status, rounds, idem, experience, old, pending, cancelled, pipe, sib, crashes>>
      BY <2>1, <2>2 DEF JobEmit, SetJob
    <2>4. a \in {"timer", "sweeper"} /\ saw \in Terminal /\ status[t] = saw /\ events[t] = <<>>
      BY <1>1, <1>2, <2>2, <2>3 DEF ActorsFit, JobsSound
    <2>5. j.pc = "idle"
      OBVIOUS
    <2> HIDE DEF j
    <2>6. job'[t][a] = j /\ \A b \in Actor : b # a => job'[t][b] = job[t][b]
      BY <1>3, <2>3
    <2>7. LifecycleStep /\ events'[t] = <<saw>> /\ \A u \in Task : u # t => events'[u] = events[u]
      BY <1>1, <2>3, <2>4, SeesEvent
    <2>8. pipe[t].pc \in {"waiting", "done"}
      BY <1>1, <2>3, <2>4 DEF ActorsFit
    <2>9. RowFits(t)' /\ StreamFits(t)' /\ status[t] # "ABSENT"
      BY <1>1, <2>3, <2>4, <2>7, <2>8 DEF RowFits, StreamFits, Terminal
    <2>10. ASSUME NEW b \in Actor PROVE job'[t][b].pc # "emit"
      BY <1>1, <1>2, <2>3, <2>4, <2>5, <2>6 DEF ActorsFit
    <2>11. ActorsFit(t)'
      BY <1>1, <1>2, <2>3, <2>4, <2>5, <2>6, <2>10 DEF ActorsFit
    <2> QED
      BY <2>3, <2>4, <2>7, <2>9, <2>11, JobSolo
  <1> QED
    BY <1>4, <1>5, <1>6, <1>7, <1>8

\* An accepted reply finds the question still open, and takes the pipeline over.
LEMMA ReplySolo ==
    ASSUME QueryInv, SoloInv, NEW t \in Task, HandleClarification(t)
    PROVE  SoloInv' /\ LifecycleStep
  <1>1. /\ status \in [Task -> Status] /\ job \in [Task -> [Actor -> Job]] /\ pipe \in [Task -> Pipe]
        /\ RowFits(t) /\ StreamFits(t) /\ ActorsFit(t) /\ PipeSound(t)
    BY DEF SoloInv, QueryInv, TypeOK
  <1>2. Actor = {"canceller", "replier", "timer", "sweeper"}
    BY DEF Actor
  <1> DEFINE j == [pc |-> "idle", saw |-> "ABSENT"]
  <1>3. /\ job' = [job EXCEPT ![t]["replier"] = j]
        /\ UNCHANGED <<status, rounds, idem, events, experience, old, cancelled, sib, crashes>>
    BY DEF HandleClarification, SetJob, store
  <1>4. j.pc = "idle"
    OBVIOUS
  <1> HIDE DEF j
  <1>5. /\ job'[t]["replier"] = j /\ \A b \in Actor : b # "replier" => job'[t][b] = job[t][b]
        /\ \A u \in Task : u # t => job'[u] = job[u]
    BY <1>1, <1>2, <1>3
  <1>6. LifecycleStep
    BY <1>3, SeesNothing
  <1>7. CASE UNCHANGED <<pipe, pending>>
    <2>1. CASE status[t] = "ABSENT"
      <3>1. ASSUME NEW u \in Task PROVE RowFits(u)' /\ StreamFits(u)' /\ ActorsFit(u)'
        <4>1. RowFits(u) /\ StreamFits(u) /\ ActorsFit(u)
          BY DEF SoloInv
        <4>2. RowFits(u)' /\ StreamFits(u)'
          BY <1>3, <1>7, <4>1 DEF RowFits, StreamFits
        <4>3. /\ job'[u]["replier"].pc \in {"idle", "read"}
              /\ \A b \in Actor : b # "replier" => job'[u][b] = job[u][b]
          BY <1>4, <1>5, <4>1 DEF ActorsFit
        <4>4. ActorsFit(u)'
          BY <1>2, <1>3, <1>7, <4>1, <4>3 DEF ActorsFit
        <4> QED
          BY <4>2, <4>4
      <3>2. KeysFit' /\ Submitting' = Submitting
        BY <1>3, <1>7 DEF SoloInv, KeysFit, Lost, Submitting
      <3> QED
        BY <1>3, <1>6, <3>1, <3>2 DEF SoloInv
    <2>2. CASE status[t] # "ABSENT"
      <3>1. RowFits(t)' /\ StreamFits(t)'
        BY <1>1, <1>3, <1>7 DEF RowFits, StreamFits
      <3>2. ActorsFit(t)'
        BY <1>1, <1>2, <1>3, <1>4, <1>5, <1>7 DEF ActorsFit
      <3> QED
        BY <1>3, <1>6, <1>7, <2>2, <3>1, <3>2, JobSolo
    <2> QED
      BY <2>1, <2>2
  <1>8. CASE t \in pending /\ pending' = pending \ {t} /\ pipe' = [pipe EXCEPT ![t] = At("reroute")]
    <2>1. /\ pipe'[t].pc = "reroute" /\ \A u \in Task : u # t => pipe'[u] = pipe[u]
      BY <1>1, <1>8 DEF At
    <2>2. pipe[t].pc = "waiting" /\ status[t] = "AWAITING_CLARIFICATION"
      BY <1>1, <1>8 DEF PipeSound, RowFits
    <2>3. ASSUME NEW u \in Task PROVE RowFits(u)' /\ StreamFits(u)' /\ ActorsFit(u)'
      <3>1. RowFits(u) /\ StreamFits(u) /\ ActorsFit(u)
        BY DEF SoloInv
      <3>2. CASE u = t
        <4>1. RowFits(t)' /\ StreamFits(t)'
          BY <1>1, <1>3, <1>8, <2>1, <2>2 DEF RowFits, StreamFits
        <4>2. ActorsFit(t)'
          BY <1>1, <1>2, <1>3, <1>4, <1>5, <1>8, <2>1, <2>2 DEF ActorsFit
        <4> QED
          BY <3>2, <4>1, <4>2
      <3>3. CASE u # t
        BY <1>3, <1>5, <1>8, <2>1, <3>1, <3>3 DEF RowFits, StreamFits, ActorsFit
      <3> QED
        BY <3>2, <3>3
    <2>4. Submitting' = Submitting
      BY <2>1, <2>2 DEF Submitting
    <2>5. \A w \in Task : /\ pipe'[w].pc \in {"none", "counted", "keyed", "done"} => pipe'[w] = pipe[w]
                          /\ Lost(w) => Lost(w)'
      BY <1>3, <2>1, <2>2 DEF Lost
    <2>6. KeysFit'
      <3>1. KeysFit
        BY DEF SoloInv
      <3> QED
        BY <1>3, <2>5, <3>1 DEF KeysFit
    <2> QED
      BY <1>3, <1>6, <2>3, <2>4, <2>6 DEF SoloInv
  <1> QED
    BY <1>7, <1>8 DEF HandleClarification

LEMMA GrowOldSolo ==
    ASSUME Interference = {}, QueryInv, SoloInv, NEW t \in Task, GrowOld(t)
    PROVE  SoloInv' /\ LifecycleStep
  <1>1. /\ pipe[t].pc = "done" /\ old' = old \cup {t}
        /\ UNCHANGED <<status, rounds, idem, events, experience, pending, cancelled, pipe, job, sib, crashes>>
    BY DEF GrowOld, memory
  <1>2. ASSUME NEW u \in Task PROVE RowFits(u)' /\ StreamFits(u)' /\ ActorsFit(u)'
    BY <1>1 DEF SoloInv, RowFits, StreamFits, ActorsFit
  <1>3. KeysFit' /\ Submitting' = Submitting
    BY <1>1 DEF SoloInv, KeysFit, Lost, Submitting
  <1> QED
    BY <1>1, <1>2, <1>3, SeesNothing DEF SoloInv

\* A restart ends every pipeline and every job.
LEMMA CrashSolo ==
    ASSUME QueryInv, SoloInv, Crash
    PROVE  SoloInv' /\ LifecycleStep
  <1>1. /\ crashes \in Nat /\ crashes' = crashes + 1 /\ pending' = {}
        /\ sib' = [t \in Task |-> NoSiblings]
        /\ UNCHANGED <<status, rounds, idem, events, experience, old>>
    BY LimitAssumption DEF Crash, store, QueryInv, TypeOK
  <1>2. \A u \in Task : (pipe'[u].pc = "none" /\ pipe[u].pc = "none") \/ (pipe'[u].pc = "done" /\ pipe[u].pc # "none")
    BY DEF Crash, At
  <1>3. \A u \in Task, a \in Actor : job'[u][a].pc = "idle"
    BY NoJobType DEF Crash
  <1>4. ASSUME NEW u \in Task PROVE RowFits(u)' /\ StreamFits(u)' /\ ActorsFit(u)'
    <2>1. RowFits(u) /\ StreamFits(u) /\ ActorsFit(u)
      BY DEF SoloInv
    <2>2. {"canceller", "replier", "timer", "sweeper"} \subseteq Actor
      BY DEF Actor
    <2>3. RowFits(u)'
      BY <1>1, <1>2, <2>1 DEF RowFits
    <2>4. StreamFits(u)'
      BY <1>1, <2>1 DEF StreamFits
    <2>5. ActorsFit(u)'
      BY <1>1, <1>2, <1>3, <2>1, <2>2 DEF ActorsFit
    <2> QED
      BY <2>3, <2>4, <2>5
  <1>5. Submitting' = {}
    BY <1>2 DEF Submitting
  <1>6. KeysFit'
    <2>1. /\ KeysFit /\ crashes' > 0 /\ \A w \in Task : Lost(w) => Lost(w)'
      BY <1>1, <1>2 DEF SoloInv, Lost
    <2>2. \A w \in Task : pipe'[w].pc # "keyed" /\ (pipe[w].pc \notin {"none", "counted"} => pipe'[w].pc \notin {"none", "counted"})
      BY <1>2
    <2>3. \A u \in Task : KeyOf[u] # NoKey /\ status[u] # "ABSENT" =>
             idem[KeyOf[u]] = u \/ \E w \in Task : idem[KeyOf[u]] = w /\ Lost(w)'
      BY <2>1 DEF KeysFit
    <2> QED
      BY <1>1, <2>1, <2>2, <2>3 DEF KeysFit
  <1> QED
    BY <1>1, <1>4, <1>5, <1>6, SeesNothing DEF SoloInv

-----------------------------------------------------------------------------
(* The lifecycle *)

LEMMA InitSolo == Init => SoloInv /\ Lifecycle!QueryInit
  <1> SUFFICES ASSUME Init PROVE SoloInv /\ Lifecycle!QueryInit
    OBVIOUS
  <1>1. \A t \in Task : /\ pipe[t].pc = "none" /\ status[t] = "ABSENT" /\ events[t] = <<>> /\ rounds[t] = 0
                        /\ \A a \in Actor : job[t][a].pc = "idle"
    BY NoJobType DEF Init, At
  <1>2. ASSUME NEW t \in Task PROVE RowFits(t) /\ ActorsFit(t) /\ StreamFits(t)
    <2>1. {"canceller", "replier", "timer", "sweeper"} \subseteq Actor
      BY DEF Actor
    <2>2. t \notin pending /\ t \notin old
      BY DEF Init
    <2>3. RowFits(t)
      BY <1>1, <2>2 DEF RowFits
    <2>4. ActorsFit(t)
      BY <1>1, <2>1, <2>2 DEF ActorsFit
    <2>5. StreamFits(t)
      BY <1>1 DEF StreamFits
    <2> QED
      BY <2>3, <2>4, <2>5
  <1>3. KeysFit
    <2>1. \A k \in Key : idem[k] = NoTask
      BY DEF Init
    <2>2. \A k \in Key, w \in Task : idem[k] # w
      BY <2>1, SubmissionAssumption
    <2>3. \A w \in Task : KeyOf[w] # NoKey => KeyOf[w] \in Key
      BY SubmissionAssumption
    <2> QED
      BY <1>1, <2>2, <2>3 DEF KeysFit
  <1>4. Submitting = {}
    BY <1>1 DEF Submitting
  <1>5. Lifecycle!QueryInit
    BY <1>1 DEF Lifecycle!QueryInit, Init
  <1> QED
    BY <1>2, <1>3, <1>4, <1>5 DEF Init, SoloInv

LEMMA NextSolo ==
    ASSUME Interference = {}, QueryInv, SoloInv, [Next]_vars
    PROVE  SoloInv' /\ LifecycleStep
  <1>1. CASE UNCHANGED vars
    <2>1. UNCHANGED <<status, rounds, idem, events, experience, old, pending, cancelled, pipe, job, sib, crashes>>
      BY <1>1 DEF vars, store, memory
    <2>2. \A t \in Task : RowFits(t)' /\ StreamFits(t)' /\ ActorsFit(t)'
      BY <2>1 DEF SoloInv, RowFits, StreamFits, ActorsFit
    <2>3. KeysFit' /\ Submitting' = Submitting
      BY <2>1 DEF SoloInv, KeysFit, Lost, Submitting
    <2> QED
      BY <2>1, <2>2, <2>3, SeesNothing DEF SoloInv
  <1>2. CASE Crash
    BY <1>2, CrashSolo
  <1>3. ASSUME NEW t \in Task, Work(t) PROVE SoloInv' /\ LifecycleStep
    <2>1. ~(ListSiblings(t) \/ (\E s \in Task : MarkSibling(t, s)) \/ PatchSibling(t) \/ EmitSibling(t) \/ SupersedeDone(t))
      BY DEF ListSiblings, MarkSibling, PatchSibling, EmitSibling, SupersedeDone, SoloInv, RowFits
    <2> QED
      BY <1>3, <2>1, SubmissionSolo, DecidesSolo, MarksSolo, AsksSolo, EndsSolo DEF Work
  <1>4. ASSUME NEW t \in Task, NEW a \in Actor, FetchRow(t, a) \/ JobWork(t, a) PROVE SoloInv' /\ LifecycleStep
    <2>1. ~CancelQuery(t)
      BY DEF CancelQuery, SoloInv, ActorsFit
    <2> QED
      BY <1>4, <2>1, ActorsSolo, ReplySolo DEF JobWork
  <1>5. ASSUME NEW t \in Task, Submit(t) \/ CancelForTimeout(t) \/ GrowOld(t) \/ Sweep(t) PROVE SoloInv' /\ LifecycleStep
    BY <1>5, SubmissionSolo, ActorsSolo, GrowOldSolo
  <1> QED
    BY <1>1, <1>2, <1>3, <1>4, <1>5 DEF Next

\* Left alone by cancellations, siblings and the sweep of live tasks (Interference = {}), but
\* through replies, timeouts and any number of restarts, every task behaves as the
\* orchestration PRD's lifecycle says: the status advances along its table, the task ends once,
\* and its stream is closed by the one terminal event that tells how.
THEOREM ImplementsLifecycleAlways ==
    ASSUME Interference = {}
    PROVE  Spec => ImplementsLifecycle
  <1>1. Init => QueryInv /\ SoloInv /\ Lifecycle!QueryInit
    BY InitQuery, InitSolo
  <1>2. QueryInv /\ SoloInv /\ [Next]_vars => (QueryInv /\ SoloInv)' /\ [Lifecycle!QueryNext]_(Lifecycle!queryVars)
    BY NextQuery, NextSolo DEF LifecycleStep
  <1> QED
    BY <1>1, <1>2, PTL DEF Spec, ImplementsLifecycle, Lifecycle!QuerySafety

\* One task per key unless a restart lost the key's holder (Reserve, Insert), at most MaxRounds
\* questions, and one terminal event per stream, under the same premise.
THEOREM OneOfEachAlways ==
    ASSUME Interference = {}
    PROVE  Spec => []OneOfEach
  <1>1. Init => QueryInv /\ SoloInv
    BY InitQuery, InitSolo
  <1>2. QueryInv /\ SoloInv /\ [Next]_vars => (QueryInv /\ SoloInv)'
    BY NextQuery, NextSolo
  <1>3. QueryInv /\ SoloInv => OneOfEach
    <2> SUFFICES ASSUME QueryInv, SoloInv PROVE OneOfEach
      OBVIOUS
    <2>1. IdempotentSubmission
      <3> SUFFICES ASSUME NEW t \in Task, NEW u \in Task, t # u, KeyOf[t] # NoKey, KeyOf[t] = KeyOf[u],
                          status[t] # "ABSENT", status[u] # "ABSENT"
                   PROVE  crashes > 0 /\ \E w \in Task : idem[KeyOf[t]] = w /\ status[w] = "ABSENT"
        BY DEF IdempotentSubmission
      <3>1. idem[KeyOf[t]] # t \/ idem[KeyOf[u]] # u
        OBVIOUS
      <3>2. \A v \in {t, u} : idem[KeyOf[v]] = v \/ \E w \in Task : idem[KeyOf[v]] = w /\ Lost(w)
        BY DEF SoloInv, KeysFit
      <3> QED
        BY <3>1, <3>2 DEF Lost
    <2>2. RoundsBounded /\ OneTerminalEvent
      BY DEF QueryInv, PipeSound, SoloInv, StreamFits, RoundsBounded, OneTerminalEvent
    <2> QED
      BY <2>1, <2>2 DEF OneOfEach, QueryInv
  <1> QED
    BY <1>1, <1>2, <1>3, PTL DEF Spec

=============================================================================
