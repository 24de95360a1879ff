----------------------------- MODULE Scheduler -----------------------------
(***************************************************************************)
(* SchedulerService of apps/datacore/src/scheduler.ts over the job store   *)
(* of repo/memory.ts (and the SKIP LOCKED one of repo/pg.ts).  Every 30 s  *)
(* a tick claims the due jobs in one atomic step, which moves nextRunAt    *)
(* on, and then works through what it has claimed; ticks are not awaited,  *)
(* so a slow handler lets them overlap.  Administrators pause, resume,     *)
(* register and unregister jobs by get and put meanwhile.                  *)
(***************************************************************************)
EXTENDS Naturals, FiniteSets

CONSTANTS
    Job,        \* scheduled jobs
    Tick,       \* ticks that may be under way at once
    Period,     \* every cron fires at the multiples of Period
    Grace,      \* missedGraceMs
    MaxTime,    \* bound: the clock
    MaxEdits,   \* bound: administrative requests
    MaxFails,   \* bound: handlers that throw
    MaxCrashes  \* bound: restarts

ASSUME SchedulerAssumption ==
    /\ Period \in Nat \ {0}
    /\ {Grace, MaxTime, MaxEdits, MaxFails, MaxCrashes} \subseteq Nat

VARIABLES
    now,
    jobs,       \* repos.scheduledJobs
    runs,       \* repos.schedulerRuns, by <<job, scheduledAt>>
    tick,       \* what each tick has claimed and where it stands
    edit,       \* a request between its get and its put, per job
    calls,      \* how often the handler was called for a run
    edits, fails, crashes

vars == <<now, jobs, runs, tick, edit, calls, edits, fails, crashes>>

-----------------------------------------------------------------------------
(* Records *)

\* cronNext: the first occurrence after t.
CronNext(t) == (t \div Period + 1) * Period

Slot == 0..MaxTime + Period
JobRec == [there : BOOLEAN, next : Slot, status : {"ACTIVE", "PAUSED"}]
NoJob == [there |-> FALSE, next |-> 0, status |-> "ACTIVE"]

Run == Job \X Slot
RunStatus == {"NONE", "RUNNING", "SUCCEEDED", "FAILED", "MISSED"}

\* todo: claimed jobs not looked at yet; copy, slot: their records and occurrences.
TickState == [pc : {"rest", "next", "new", "run", "putJob", "close"}, at : 0..MaxTime,
              todo : SUBSET Job, cur : SUBSET Job, outcome : RunStatus,
              copy : [Job -> JobRec], slot : [Job -> Slot]]
Rest == [pc |-> "rest", at |-> 0, todo |-> {}, cur |-> {}, outcome |-> "NONE",
         copy |-> [j \in Job |-> NoJob], slot |-> [j \in Job |-> 0]]

Edit == [kind : {"none", "pause", "resume", "register"}, copy : JobRec]
NoEdit == [kind |-> "none", copy |-> NoJob]

TypeOK ==
    /\ now \in 0..MaxTime
    /\ jobs \in [Job -> JobRec]
    /\ runs \in [Run -> RunStatus]
    /\ tick \in [Tick -> TickState]
    /\ edit \in [Job -> Edit]
    /\ calls \in [Run -> Nat]
    /\ edits \in 0..MaxEdits /\ fails \in 0..MaxFails /\ crashes \in 0..MaxCrashes

Init ==
    /\ now = 0
    /\ jobs = [j \in Job |-> NoJob]
    /\ runs = [r \in Run |-> "NONE"]
    /\ tick = [k \in Tick |-> Rest]
    /\ edit = [j \in Job |-> NoEdit]
    /\ calls = [r \in Run |-> 0]
    /\ edits = 0 /\ fails = 0 /\ crashes = 0

-----------------------------------------------------------------------------
(* register, unregister, setStatus *)

Open(j, kind) ==
    /\ edit[j] = NoEdit
    /\ edits < MaxEdits /\ edits' = edits + 1
    /\ edit' = [edit EXCEPT ![j] = [kind |-> kind, copy |-> jobs[j]]]
    /\ UNCHANGED <<now, jobs, runs, tick, calls, fails, crashes>>

RegisterGet(j) == Open(j, "register")
SetStatusGet(j) == jobs[j].there /\ \E kind \in {"pause", "resume"} : Open(j, kind)

Close(j, rec) ==
    /\ jobs' = [jobs EXCEPT ![j] = rec]
    /\ edit' = [edit EXCEPT ![j] = NoEdit]
    /\ UNCHANGED <<now, runs, tick, calls, edits, fails, crashes>>

\* A job that exists keeps the status it was read with; nextRunAt is worked out anew.
RegisterPut(j) ==
    /\ edit[j].kind = "register"
    /\ Close(j, [there |-> TRUE, next |-> CronNext(now), status |-> edit[j].copy.status])

PausePut(j) ==
    /\ edit[j].kind = "pause"
    /\ Close(j, [edit[j].copy EXCEPT !.status = "PAUSED"])

ResumePut(j) ==
    /\ edit[j].kind = "resume"
    /\ Close(j, [edit[j].copy EXCEPT !.status = "ACTIVE", !.next = CronNext(now)])

Unregister(j) ==
    /\ jobs[j].there
    /\ edits < MaxEdits /\ edits' = edits + 1
    /\ jobs' = [jobs EXCEPT ![j] = NoJob]
    /\ UNCHANGED <<now, runs, tick, edit, calls, fails, crashes>>

-----------------------------------------------------------------------------
(* tick *)

Due(j) == jobs[j].there /\ jobs[j].status = "ACTIVE" /\ jobs[j].next <= now

\* claimDue: one step for all due jobs.
Claim(k) ==
    LET due == {j \in Job : Due(j)}
        moved(j) == [jobs[j] EXCEPT !.next = CronNext(now)]
    IN
    /\ tick[k].pc = "rest" /\ due # {}
    /\ jobs' = [j \in Job |-> IF j \in due THEN moved(j) ELSE jobs[j]]
    /\ tick' = [tick EXCEPT ![k] =
          [Rest EXCEPT !.pc = "next", !.at = now, !.todo = due,
                       !.copy = [j \in Job |-> IF j \in due THEN moved(j) ELSE NoJob],
                       !.slot = [j \in Job |-> IF j \in due THEN jobs[j].next ELSE 0]]]
    /\ UNCHANGED <<now, runs, edit, calls, edits, fails, crashes>>

RunOf(k, j) == <<j, tick[k].slot[j]>>

\* Mutant of Onward: return where the code has continue.
OnwardReturns(k) == Rest

\* The loop goes on with the next claimed job, or the tick is over.
Onward(k) == IF tick[k].todo = {} THEN Rest
             ELSE [tick[k] EXCEPT !.pc = "next", !.cur = {}, !.outcome = "NONE"]

\* Look the run up; a run that is known is skipped.
Lookup(k, j) ==
    /\ tick[k].pc = "next" /\ j \in tick[k].todo
    /\ tick' = [tick EXCEPT ![k] =
          IF runs[RunOf(k, j)] = "NONE"
          THEN [tick[k] EXCEPT !.pc = "new", !.todo = @ \ {j}, !.cur = {j}]
          ELSE IF @.todo = {j} THEN Rest ELSE [tick[k] EXCEPT !.todo = @ \ {j}]]
    /\ UNCHANGED <<now, jobs, runs, edit, calls, edits, fails, crashes>>

Late(k, j) == tick[k].at > tick[k].slot[j] + Grace

RecordMissed(k, j) ==
    /\ tick[k].pc = "new" /\ j \in tick[k].cur /\ Late(k, j)
    /\ runs' = [runs EXCEPT ![RunOf(k, j)] = "MISSED"]
    /\ tick' = [tick EXCEPT ![k] = Onward(k)]
    /\ UNCHANGED <<now, jobs, edit, calls, edits, fails, crashes>>

\* Mutant of StartRun: lateness is not looked at.
StartRunAnyway(k, j) ==
    /\ tick[k].pc = "new" /\ j \in tick[k].cur
    /\ runs' = [runs EXCEPT ![RunOf(k, j)] = "RUNNING"]
    /\ calls' = [calls EXCEPT ![RunOf(k, j)] = @ + 1]
    /\ tick' = [tick EXCEPT ![k].pc = "run"]
    /\ UNCHANGED <<now, jobs, edit, edits, fails, crashes>>

\* RUNNING is recorded and the handler called.
StartRun(k, j) ==
    /\ tick[k].pc = "new" /\ j \in tick[k].cur /\ ~Late(k, j)
    /\ runs' = [runs EXCEPT ![RunOf(k, j)] = "RUNNING"]
    /\ calls' = [calls EXCEPT ![RunOf(k, j)] = @ + 1]
    /\ tick' = [tick EXCEPT ![k].pc = "run"]
    /\ UNCHANGED <<now, jobs, edit, edits, fails, crashes>>

HandlerReturns(k) ==
    /\ tick[k].pc = "run"
    /\ tick' = [tick EXCEPT ![k].pc = "close", ![k].outcome = "SUCCEEDED"]
    /\ UNCHANGED <<now, jobs, runs, edit, calls, edits, fails, crashes>>

HandlerThrows(k) ==
    /\ tick[k].pc = "run"
    /\ fails < MaxFails /\ fails' = fails + 1
    /\ tick' = [tick EXCEPT ![k].pc = "putJob", ![k].outcome = "FAILED"]
    /\ UNCHANGED <<now, jobs, runs, edit, calls, edits, crashes>>

\* lastError goes into the job as it was claimed, and that record is put back.
PutJob(k, j) ==
    /\ tick[k].pc = "putJob" /\ j \in tick[k].cur
    /\ jobs' = [jobs EXCEPT ![j] = tick[k].copy[j]]
    /\ tick' = [tick EXCEPT ![k].pc = "close"]
    /\ UNCHANGED <<now, runs, edit, calls, edits, fails, crashes>>

CloseRun(k, j) ==
    /\ tick[k].pc = "close" /\ j \in tick[k].cur
    /\ runs' = [runs EXCEPT ![RunOf(k, j)] = tick[k].outcome]
    /\ tick' = [tick EXCEPT ![k] = Onward(k)]
    /\ UNCHANGED <<now, jobs, edit, calls, edits, fails, crashes>>

-----------------------------------------------------------------------------
(* The system *)

Advance ==
    /\ now < MaxTime /\ now' = now + 1
    /\ UNCHANGED <<jobs, runs, tick, edit, calls, edits, fails, crashes>>

\* A restart with nothing in flight changes nothing.
Crash ==
    /\ crashes < MaxCrashes /\ crashes' = crashes + 1
    /\ (\E k \in Tick : tick[k] # Rest) \/ (\E j \in Job : edit[j] # NoEdit)
    /\ tick' = [k \in Tick |-> Rest]
    /\ edit' = [j \in Job |-> NoEdit]
    /\ UNCHANGED <<now, jobs, runs, calls, edits, fails>>

Work(k) ==
    \/ Claim(k) \/ HandlerReturns(k) \/ HandlerThrows(k)
    \/ \E j \in Job : Lookup(k, j) \/ RecordMissed(k, j) \/ StartRun(k, j)
                      \/ PutJob(k, j) \/ CloseRun(k, j)

Next ==
    \/ \E k \in Tick : Work(k)
    \/ \E j \in Job : \/ RegisterGet(j) \/ RegisterPut(j) \/ Unregister(j)
                      \/ SetStatusGet(j) \/ PausePut(j) \/ ResumePut(j)
    \/ Advance \/ Crash

Spec == Init /\ [][Next]_vars

\* The interval timer starts ticks and a tick that has started is served to its end.
FairSpec == Spec /\ \A k \in Tick : WF_vars(Work(k))

-----------------------------------------------------------------------------
(* Properties *)

\* (jobId, scheduledAt) is an idempotency key: whatever is paused, resumed, registered
\* or restarted meanwhile, an occurrence is handled at most once, unless a handler has
\* thrown (its tick puts the job back with an old nextRunAt).
RunOnce == fails = 0 => \A r \in Run : calls[r] <= 1

\* An occurrence is never handled later than the grace allows when its tick began, and one
\* that was recorded as MISSED has not been handled, unless a handler has thrown: two ticks
\* may then hold the same occurrence, one of them too late.
NoBackfill ==
    /\ \A k \in Tick, j \in Job :
          (tick[k].pc = "run" /\ j \in tick[k].cur) => tick[k].at <= tick[k].slot[j] + Grace
    /\ fails = 0 => \A r \in Run : runs[r] = "MISSED" => calls[r] = 0

Final == {"SUCCEEDED", "FAILED", "MISSED"}

\* The history of a run only moves on: it ends once, and what has ended is not rewritten,
\* unless a handler has thrown.
HistoryIsFinal == [][\A r \in Run :
    (fails = 0 /\ runs[r] \in Final) => runs'[r] = runs[r]]_vars

\* Two ticks never hold the same occurrence, whichever way they overlap, unless a handler
\* has thrown.
ClaimsDisjoint == fails = 0 => \A k, l \in Tick : \A j \in Job :
    (/\ k # l
     /\ j \in tick[k].todo \cup tick[k].cur
     /\ j \in tick[l].todo \cup tick[l].cur) => tick[k].slot[j] # tick[l].slot[j]

\* Whatever ticks overlap and whatever is paused, resumed, registered or restarted meanwhile: an
\* occurrence is held by one tick, handled once, and not after the grace.
RunsSound == TypeOK /\ NoBackfill /\ RunOnce /\ ClaimsDisjoint

\* What a tick has claimed is in the history in the end, unless the process restarts.
Claimed(r) == \E k \in Tick : r[1] \in tick[k].todo /\ r = RunOf(k, r[1])
Occurrence == {s \in 1..MaxTime : s % Period = 0}
ClaimedIsRecorded == \A r \in Job \X Occurrence : Claimed(r) ~> (runs[r] \in Final \/ crashes > 0)

\* Only a request that resumes or registers makes a paused or removed job ACTIVE.
PauseHolds == [][\A j \in Job :
    (/\ ~(jobs[j].there /\ jobs[j].status = "ACTIVE")
     /\ jobs'[j].there /\ jobs'[j].status = "ACTIVE")
        => edit[j].kind \in {"resume", "register"}]_vars
=============================================================================
