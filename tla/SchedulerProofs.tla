-------------------------- MODULE SchedulerProofs --------------------------
(***************************************************************************)
(* RunsSound of Scheduler for any jobs, ticks, period, grace and bounds.   *)
(*                                                                         *)
(* An occurrence is touched once it is claimed, recorded or handled.  The  *)
(* argument is that whatever puts a job's nextRunAt, short of the handler  *)
(* that throws, puts one from which on nothing has been touched: a claim   *)
(* and a resumed or registered job look past the present, and a stale copy *)
(* is put only for a job that is paused, which nothing claims.             *)
(***************************************************************************)
EXTENDS Scheduler, TLAPS

-----------------------------------------------------------------------------
(* The inductive invariant *)

Held(k) == tick[k].todo \cup tick[k].cur

Touched(j, s) ==
    \/ calls[<<j, s>>] # 0 \/ runs[<<j, s>>] # "NONE"
    \/ \E k \in Tick : j \in Held(k) /\ tick[k].slot[j] = s

\* A tick works on one claimed job at a time, and on none between jobs.
Shape(t) ==
    /\ \A i, j \in t.cur : i = j
    /\ t.cur \cap t.todo = {}
    /\ t.pc \in {"rest", "next"} => t.cur = {}
    /\ t.outcome # "MISSED"
    /\ t.pc = "run" => \A j \in t.cur : t.at <= t.slot[j] + Grace

FutureUntouched == \A j \in Job, s \in Slot : s > now => ~Touched(j, s)

NextUntouched == \A j \in Job, s \in Slot :
    jobs[j].there /\ jobs[j].status = "ACTIVE" /\ s >= jobs[j].next => ~Touched(j, s)

\* What tick k has claimed and not begun has no history.
Untried(k) == \A j \in Job :
    j \in tick[k].todo \/ (tick[k].pc = "new" /\ j \in tick[k].cur) =>
        calls[RunOf(k, j)] = 0 /\ runs[RunOf(k, j)] = "NONE"

NoneThrown == \A k \in Tick : tick[k].pc # "putJob"
MissedIsUntried == \A r \in Run : runs[r] = "MISSED" => calls[r] = 0
CalledOnce == \A r \in Run : calls[r] <= 1
Disjoint == \A k, l \in Tick, j \in Job :
    k # l /\ j \in Held(k) /\ j \in Held(l) => tick[k].slot[j] # tick[l].slot[j]

\* All of it holds until a handler throws.
Orderly ==
    /\ FutureUntouched /\ NextUntouched /\ \A k \in Tick : Untried(k)
    /\ NoneThrown /\ MissedIsUntried /\ CalledOnce /\ Disjoint

SchedInv == TypeOK /\ (\A k \in Tick : Shape(tick[k])) /\ (fails = 0 => Orderly)

-----------------------------------------------------------------------------
(* Facts about the data *)

LEMMA CronNextAfter == \A t \in 0..MaxTime : CronNext(t) \in Slot /\ CronNext(t) > t
  <1> SUFFICES ASSUME NEW t \in 0..MaxTime PROVE CronNext(t) \in Slot /\ CronNext(t) > t
    OBVIOUS
  <1>1. PICK q \in Nat : q = t \div Period
    BY SchedulerAssumption
  <1>2. q * Period <= t /\ t < q * Period + Period
    BY <1>1, SchedulerAssumption
  <1>3. (q + 1) * Period = q * Period + Period /\ q * Period \in Nat
    BY SchedulerAssumption
  <1> QED
    BY <1>1, <1>2, <1>3, SchedulerAssumption DEF CronNext, Slot

LEMMA NoJobType == NoJob \in JobRec /\ NoEdit \in Edit /\ ~NoJob.there
  BY SchedulerAssumption DEF NoJob, NoEdit, Edit, JobRec, Slot

LEMMA RestType == Rest \in TickState /\ Shape(Rest) /\ Rest.todo = {} /\ Rest.cur = {} /\ Rest.pc = "rest"
  BY NoJobType, SchedulerAssumption DEF Rest, TickState, RunStatus, Slot, Shape

LEMMA InitSched == Init => SchedInv
  <1> SUFFICES ASSUME Init PROVE SchedInv
    OBVIOUS
  <1>1. TypeOK
    BY NoJobType, RestType, SchedulerAssumption DEF Init, TypeOK, RunStatus
  <1>2. \A k \in Tick : Shape(tick[k]) /\ Held(k) = {} /\ tick[k].pc = "rest"
    BY RestType DEF Init, Held
  <1>3. \A j \in Job, s \in Slot : ~Touched(j, s)
    BY <1>2 DEF Touched, Init, Run
  <1>4. Orderly
    BY <1>2, <1>3 DEF Orderly, FutureUntouched, NextUntouched, Untried, NoneThrown, MissedIsUntried, CalledOnce, Disjoint,
       Init, Held
  <1> QED
    BY <1>1, <1>2, <1>4 DEF SchedInv

-----------------------------------------------------------------------------
(* Requests: register, unregister, setStatus *)

\* A request changes one job, and what it puts is paused, absent or due in the future.
LEMMA PutsKeep ==
    ASSUME SchedInv, TypeOK', UNCHANGED <<now, runs, tick, calls, fails>>, NEW j \in Job, NEW rec \in JobRec,
           jobs' = [jobs EXCEPT ![j] = rec],
           rec.there /\ rec.status = "ACTIVE" => rec.next > now
    PROVE  SchedInv'
  <1>1. \A k \in Tick : Shape(tick[k])'
    BY DEF SchedInv
  <1>2. ASSUME fails = 0 PROVE Orderly'
    <2>1. Orderly /\ TypeOK
      BY <1>2 DEF SchedInv
    <2>2. \A i \in Job, s \in Slot : Touched(i, s)' <=> Touched(i, s)
      BY DEF Touched, Held
    <2>3. NextUntouched'
      BY <2>1, <2>2 DEF NextUntouched, Orderly, FutureUntouched, TypeOK, JobRec, Slot
    <2>4. FutureUntouched'
      BY <2>1, <2>2 DEF FutureUntouched, Orderly
    <2> QED
      BY <2>1, <2>3, <2>4 DEF Orderly, Untried, NoneThrown, MissedIsUntried, CalledOnce, Disjoint, Held, RunOf
  <1> QED
    BY <1>1, <1>2 DEF SchedInv

LEMMA RequestSteps ==
    ASSUME SchedInv, NEW j \in Job,
           RegisterGet(j) \/ RegisterPut(j) \/ Unregister(j) \/ SetStatusGet(j) \/ PausePut(j) \/ ResumePut(j)
    PROVE  SchedInv'
  <1>0. TypeOK
    BY DEF SchedInv
  <1>1. ASSUME NEW kind \in {"pause", "resume", "register"}, Open(j, kind) PROVE SchedInv'
    <2>1. /\ edit' = [edit EXCEPT ![j] = [kind |-> kind, copy |-> jobs[j]]] /\ edits < MaxEdits /\ edits' = edits + 1
          /\ UNCHANGED <<now, jobs, runs, tick, calls, fails, crashes>>
      BY <1>1 DEF Open
    <2>2. [kind |-> kind, copy |-> jobs[j]] \in Edit /\ edits' \in 0..MaxEdits
      BY <1>0, <2>1, SchedulerAssumption DEF TypeOK, Edit
    <2>3. TypeOK'
      BY <1>0, <2>1, <2>2 DEF TypeOK
    <2> QED
      BY <2>1, <2>3 DEF SchedInv, Orderly, FutureUntouched, NextUntouched, Touched, Held, Untried, RunOf,
         NoneThrown, MissedIsUntried, CalledOnce, Disjoint
  <1>2. ASSUME NEW rec \in JobRec, Close(j, rec), rec.there /\ rec.status = "ACTIVE" => rec.next > now PROVE SchedInv'
    <2>1. TypeOK'
      BY <1>0, <1>2, NoJobType DEF Close, TypeOK
    <2> QED
      BY <1>2, <2>1, PutsKeep DEF Close
  <1>3. edit[j].copy \in JobRec /\ now \in 0..MaxTime
    BY <1>0 DEF TypeOK, Edit
  <1>4. CronNext(now) \in Slot /\ CronNext(now) > now
    BY <1>3, CronNextAfter
  <1>5. CASE RegisterPut(j)
    <2> DEFINE rec == [there |-> TRUE, next |-> CronNext(now), status |-> edit[j].copy.status]
    <2>1. rec \in JobRec /\ rec.next > now
      BY <1>3, <1>4 DEF JobRec
    <2>2. Close(j, rec)
      BY <1>5 DEF RegisterPut
    <2> QED
      BY <1>2, <2>1, <2>2
  <1>6. CASE PausePut(j)
    <2> DEFINE rec == [edit[j].copy EXCEPT !.status = "PAUSED"]
    <2>1. rec \in JobRec /\ rec.status = "PAUSED"
      BY <1>3 DEF JobRec
    <2>2. Close(j, rec)
      BY <1>6 DEF PausePut
    <2> QED
      BY <1>2, <2>1, <2>2
  <1>7. CASE ResumePut(j)
    <2> DEFINE rec == [edit[j].copy EXCEPT !.status = "ACTIVE", !.next = CronNext(now)]
    <2>1. rec \in JobRec /\ rec.next > now
      BY <1>3, <1>4 DEF JobRec
    <2>2. Close(j, rec)
      BY <1>7 DEF ResumePut
    <2> QED
      BY <1>2, <2>1, <2>2
  <1>8. CASE Unregister(j)
    <2>1. TypeOK'
      BY <1>0, <1>8, NoJobType, SchedulerAssumption DEF Unregister, TypeOK
    <2> QED
      BY <1>8, <2>1, NoJobType, PutsKeep DEF Unregister
  <1> QED
    BY <1>1, <1>5, <1>6, <1>7, <1>8 DEF RegisterGet, SetStatusGet

-----------------------------------------------------------------------------
(* Ticks *)

\* claimDue: what is due is claimed and moved beyond the present.
LEMMA ClaimStep == ASSUME SchedInv, NEW k \in Tick, Claim(k) PROVE SchedInv'
  <1> DEFINE due == {j \in Job : Due(j)}
             moved == [j \in Job |-> [jobs[j] EXCEPT !.next = CronNext(now)]]
             t == [Rest EXCEPT !.pc = "next", !.at = now, !.todo = due,
                               !.copy = [j \in Job |-> IF j \in due THEN moved[j] ELSE NoJob],
                               !.slot = [j \in Job |-> IF j \in due THEN jobs[j].next ELSE 0]]
  <1>0. TypeOK /\ now \in 0..MaxTime /\ CronNext(now) \in Slot /\ CronNext(now) > now
    BY CronNextAfter DEF SchedInv, TypeOK
  <1>1. /\ tick[k].pc = "rest" /\ jobs' = [j \in Job |-> IF j \in due THEN moved[j] ELSE jobs[j]]
        /\ tick' = [tick EXCEPT ![k] = t]
        /\ UNCHANGED <<now, runs, edit, calls, edits, fails, crashes>>
    BY DEF Claim
  <1>2. \A j \in Job : /\ moved[j] \in JobRec /\ moved[j].next = CronNext(now) /\ jobs[j] \in JobRec
                       /\ moved[j].status = jobs[j].status /\ moved[j].there = jobs[j].there
    BY <1>0 DEF TypeOK, JobRec
  <1> HIDE DEF moved
  <1>3. /\ t.pc = "next" /\ t.at = now /\ t.todo = due /\ t.cur = {} /\ t.outcome = "NONE"
        /\ t.copy = [j \in Job |-> IF j \in due THEN moved[j] ELSE NoJob]
        /\ t.slot = [j \in Job |-> IF j \in due THEN jobs[j].next ELSE 0]
    BY DEF Rest
  <1>4. t \in TickState
    <2>1. t.copy \in [Job -> JobRec] /\ t.slot \in [Job -> Slot]
      BY <1>2, <1>3, NoJobType, SchedulerAssumption DEF JobRec, Slot
    <2>2. due \in SUBSET Job
      OBVIOUS
    <2> DEFINE copy == t.copy  slot == t.slot
    <2>3. t = [Rest EXCEPT !.pc = "next", !.at = now, !.todo = due, !.copy = copy, !.slot = slot]
      BY <1>3
    <2> HIDE DEF copy, slot, due
    <2> QED
      BY <1>0, <2>1, <2>2, <2>3, RestType DEF TickState
  <1> HIDE DEF t
  <1>5. jobs' \in [Job -> JobRec]
    BY <1>1, <1>2
  <1>6. TypeOK'
    BY <1>0, <1>1, <1>4, <1>5 DEF TypeOK
  <1>7. tick'[k] = t /\ \A l \in Tick : l # k => tick'[l] = tick[l]
    BY <1>0, <1>1 DEF TypeOK
  <1>8. \A l \in Tick : Shape(tick[l])'
    BY <1>3, <1>7 DEF Shape, SchedInv
  <1>9. ASSUME fails' = 0 PROVE Orderly'
    <2>1. Orderly
      BY <1>1, <1>9 DEF SchedInv
    <2>2. /\ Held(k)' = due /\ \A l \in Tick : l # k => Held(l)' = Held(l)
          /\ \A j \in due : tick'[k].slot[j] = jobs[j].next
      BY <1>3, <1>7 DEF Held
    <2>3. \A j \in due : jobs[j].there /\ jobs[j].status = "ACTIVE" /\ jobs[j].next <= now /\ jobs[j].next \in Slot
      BY <1>2 DEF Due, JobRec
    <2>4. \A j \in due : ~Touched(j, jobs[j].next)
      BY <2>1, <2>3 DEF Orderly, NextUntouched, Slot
    <2>5. \A j \in Job, s \in Slot : Touched(j, s)' => Touched(j, s) \/ (j \in due /\ s = jobs[j].next)
      BY <1>1, <1>7, <2>2 DEF Touched
    <2>6. FutureUntouched'
      BY <1>0, <1>1, <2>1, <2>3, <2>5 DEF Orderly, FutureUntouched, Slot
    <2>7. NextUntouched'
      <3> SUFFICES ASSUME NEW j \in Job, NEW s \in Slot, jobs'[j].there, jobs'[j].status = "ACTIVE", s >= jobs'[j].next
                   PROVE  ~Touched(j, s)'
        BY DEF NextUntouched
      <3>1. CASE j \in due
        BY <1>0, <1>1, <1>2, <2>6, <3>1 DEF FutureUntouched, Slot
      <3>2. CASE j \notin due
        BY <1>1, <2>1, <2>5, <3>2 DEF Orderly, NextUntouched
      <3> QED
        BY <3>1, <3>2
    <2>8. \A l \in Tick : Untried(l)'
      BY <1>1, <1>3, <1>7, <2>1, <2>2, <2>4 DEF Orderly, Untried, RunOf, Touched
    <2>9. Disjoint'
      <3>1. \A l \in Tick, j \in Job : l # k /\ j \in due /\ j \in Held(l) => tick[l].slot[j] # jobs[j].next
        BY <2>4 DEF Touched
      <3> QED
        BY <1>7, <2>1, <2>2, <3>1 DEF Orderly, Disjoint
    <2>10. NoneThrown' /\ MissedIsUntried' /\ CalledOnce'
      BY <1>1, <1>3, <1>7, <2>1 DEF Orderly, NoneThrown, MissedIsUntried, CalledOnce
    <2> QED
      BY <2>6, <2>7, <2>8, <2>9, <2>10 DEF Orderly
  <1> QED
    BY <1>6, <1>8, <1>9 DEF SchedInv

\* A tick goes on with what it holds, or lets go of it, and records or handles no occurrence but those.
LEMMA HolderKeeps ==
    ASSUME SchedInv, TypeOK', NEW k \in Tick, NEW t, tick' = [tick EXCEPT ![k] = t], Shape(t),
           t.pc # "putJob", UNCHANGED <<now, jobs, fails>>,
           \A j \in t.todo \cup t.cur : j \in Held(k) /\ t.slot[j] = tick[k].slot[j],
           \A r \in Run : runs'[r] # runs[r] \/ calls'[r] # calls[r] =>
                            \E j \in tick[k].cur : r = RunOf(k, j),
           fails = 0 => Untried(k)' /\ MissedIsUntried' /\ CalledOnce'
    PROVE  SchedInv'
  <1>0. TypeOK
    BY DEF SchedInv
  <1>1. tick'[k] = t /\ \A l \in Tick : l # k => tick'[l] = tick[l]
    BY <1>0 DEF TypeOK
  <1>2. \A l \in Tick : Shape(tick[l])'
    BY <1>1 DEF Shape, SchedInv
  <1>3. ASSUME fails' = 0 PROVE Orderly'
    <2>1. Orderly
      BY <1>3 DEF SchedInv
    <2>2. \A l \in Tick, j \in Job : j \in Held(l)' => j \in Held(l) /\ tick'[l].slot[j] = tick[l].slot[j]
      BY <1>1 DEF Held
    <2>3. \A j \in Job, s \in Slot : Touched(j, s)' => Touched(j, s)
      <3> SUFFICES ASSUME NEW j \in Job, NEW s \in Slot, Touched(j, s)', ~Touched(j, s) PROVE FALSE
        OBVIOUS
      <3>1. calls'[<<j, s>>] # calls[<<j, s>>] \/ runs'[<<j, s>>] # runs[<<j, s>>]
        BY <2>2 DEF Touched
      <3>2. <<j, s>> \in Run
        BY DEF Run
      <3>3. PICK i \in tick[k].cur : <<j, s>> = RunOf(k, i)
        BY <3>1, <3>2
      <3>4. j = i /\ s = tick[k].slot[i]
        BY <3>3 DEF RunOf
      <3> QED
        BY <3>4 DEF Touched, Held
    <2>4. FutureUntouched' /\ NextUntouched'
      BY <2>1, <2>3 DEF Orderly, FutureUntouched, NextUntouched
    <2>5. Disjoint'
      BY <2>1, <2>2 DEF Orderly, Disjoint
    <2>6. ASSUME NEW l \in Tick, l # k PROVE Untried(l)'
      <3> SUFFICES ASSUME NEW j \in Job, j \in tick[l].todo \/ (tick[l].pc = "new" /\ j \in tick[l].cur)
                   PROVE  calls'[RunOf(l, j)] = 0 /\ runs'[RunOf(l, j)] = "NONE"
        BY <1>1, <2>6 DEF Untried, RunOf
      <3>1. calls[RunOf(l, j)] = 0 /\ runs[RunOf(l, j)] = "NONE" /\ j \in Held(l)
        BY <2>1 DEF Orderly, Untried, Held
      <3>2. RunOf(l, j) \in Run
        BY <1>0 DEF RunOf, Run, TypeOK, TickState
      <3>3. ASSUME NEW i \in tick[k].cur PROVE RunOf(l, j) # RunOf(k, i)
        <4>1. i \in Held(k) /\ i \in Job
          BY <1>0 DEF Held, TypeOK, TickState
        <4> QED
          BY <2>1, <2>6, <3>1, <4>1 DEF Orderly, Disjoint, RunOf
      <3> QED
        BY <3>1, <3>2, <3>3
    <2>7. NoneThrown'
      BY <1>1, <2>1 DEF Orderly, NoneThrown
    <2> QED
      BY <1>3, <2>1, <2>4, <2>5, <2>6, <2>7 DEF Orderly
  <1> QED
    BY <1>2, <1>3 DEF SchedInv

\* Onward keeps what is still to do, and nothing else.
LEMMA OnwardType ==
    ASSUME SchedInv, NEW k \in Tick
    PROVE  /\ Onward(k) \in TickState /\ Shape(Onward(k)) /\ Onward(k).cur = {} /\ Onward(k).pc # "putJob"
           /\ Onward(k).todo = tick[k].todo
           /\ Onward(k).todo # {} => Onward(k).slot = tick[k].slot
  <1>1. tick[k] \in TickState /\ Shape(tick[k])
    BY DEF SchedInv, TypeOK
  <1>2. CASE tick[k].todo = {}
    BY <1>2, RestType DEF Onward
  <1>3. CASE tick[k].todo # {}
    <2> DEFINE t == [tick[k] EXCEPT !.pc = "next", !.cur = {}, !.outcome = "NONE"]
    <2>1. t \in TickState /\ t.pc = "next" /\ t.cur = {} /\ t.outcome = "NONE" /\ t.todo = tick[k].todo /\ t.slot = tick[k].slot
      BY <1>1 DEF TickState, RunStatus
    <2>2. Onward(k) = t
      BY <1>3 DEF Onward
    <2> HIDE DEF t
    <2> QED
      BY <2>1, <2>2 DEF Shape
  <1> QED
    BY <1>2, <1>3

\* The run of a job that a tick holds.
LEMMA HeldRun ==
    ASSUME TypeOK, NEW k \in Tick, NEW j \in tick[k].todo \cup tick[k].cur PROVE j \in Job /\ RunOf(k, j) \in Run
  BY DEF TypeOK, TickState, RunOf, Run

\* A tick that goes on without touching the history.
LEMMA QuietKeeps ==
    ASSUME SchedInv, NEW k \in Tick, NEW t \in TickState, tick' = [tick EXCEPT ![k] = t], Shape(t), t.pc # "putJob",
           UNCHANGED <<now, jobs, runs, edit, calls, edits, fails, crashes>>,
           \A j \in t.todo \cup t.cur : j \in Held(k) /\ t.slot[j] = tick[k].slot[j],
           fails = 0 => Untried(k)'
    PROVE  SchedInv'
  <1>1. TypeOK'
    BY DEF SchedInv, TypeOK
  <1>2. fails = 0 => MissedIsUntried' /\ CalledOnce'
    BY DEF SchedInv, Orderly, MissedIsUntried, CalledOnce
  <1> QED
    BY <1>1, <1>2, HolderKeeps

LEMMA LookupStep == ASSUME SchedInv, NEW k \in Tick, NEW j \in Job, Lookup(k, j) PROVE SchedInv'
  <1>0. tick[k] \in TickState /\ Shape(tick[k]) /\ tick \in [Tick -> TickState]
    BY DEF SchedInv, TypeOK
  <1>1. /\ tick[k].pc = "next" /\ j \in tick[k].todo
        /\ UNCHANGED <<now, jobs, runs, edit, calls, edits, fails, crashes>>
    BY DEF Lookup
  <1>2. CASE runs[RunOf(k, j)] = "NONE"
    <2> DEFINE t == [tick[k] EXCEPT !.pc = "new", !.todo = tick[k].todo \ {j}, !.cur = {j}]
    <2>1. tick' = [tick EXCEPT ![k] = t]
      BY <1>2 DEF Lookup
    <2>2. t \in TickState /\ t.pc = "new" /\ t.todo = tick[k].todo \ {j} /\ t.cur = {j}
          /\ t.outcome = tick[k].outcome /\ t.slot = tick[k].slot
      BY <1>0, <1>1 DEF TickState
    <2> HIDE DEF t
    <2>3. Shape(t)
      BY <1>0, <2>2 DEF Shape
    <2>4. fails = 0 => Untried(k)'
      <3>1. tick'[k] = t
        BY <1>0, <2>1
      <3> QED
        BY <1>1, <2>2, <3>1 DEF SchedInv, Orderly, Untried, RunOf
    <2> QED
      BY <1>1, <2>1, <2>2, <2>3, <2>4, QuietKeeps DEF Held
  <1>3. CASE runs[RunOf(k, j)] # "NONE" /\ tick[k].todo = {j}
    <2>1. tick' = [tick EXCEPT ![k] = Rest] /\ tick'[k] = Rest
      BY <1>0, <1>3 DEF Lookup
    <2>2. fails = 0 => Untried(k)'
      BY <2>1, RestType DEF Untried
    <2> QED
      BY <1>1, <2>1, <2>2, RestType, QuietKeeps
  <1>4. CASE runs[RunOf(k, j)] # "NONE" /\ tick[k].todo # {j}
    <2> DEFINE t == [tick[k] EXCEPT !.todo = tick[k].todo \ {j}]
    <2>1. tick' = [tick EXCEPT ![k] = t]
      BY <1>4 DEF Lookup
    <2>2. t \in TickState /\ t.pc = "next" /\ t.todo = tick[k].todo \ {j} /\ t.cur = tick[k].cur
          /\ t.outcome = tick[k].outcome /\ t.slot = tick[k].slot
      BY <1>0, <1>1 DEF TickState
    <2> HIDE DEF t
    <2>3. Shape(t)
      BY <1>0, <1>1, <2>2 DEF Shape
    <2>4. fails = 0 => Untried(k)'
      <3>1. tick'[k] = t
        BY <1>0, <2>1
      <3> QED
        BY <1>1, <2>2, <3>1 DEF SchedInv, Orderly, Untried, RunOf
    <2> QED
      BY <1>1, <2>1, <2>2, <2>3, <2>4, QuietKeeps DEF Held
  <1> QED
    BY <1>2, <1>3, <1>4

\* A tick that records how the occurrence it holds has gone: MISSED for one that was never begun.
LEMMA RecordStep ==
    ASSUME SchedInv, NEW k \in Tick, NEW j \in tick[k].cur, NEW how \in RunStatus,
           runs' = [runs EXCEPT ![RunOf(k, j)] = how], tick' = [tick EXCEPT ![k] = Onward(k)],
           UNCHANGED <<now, jobs, edit, calls, edits, fails, crashes>>,
           how = "MISSED" => tick[k].pc = "new"
    PROVE  SchedInv'
  <1>0. TypeOK /\ j \in Job /\ RunOf(k, j) \in Run /\ tick'[k] = Onward(k)
    BY HeldRun DEF SchedInv, TypeOK
  <1>1. TypeOK'
    BY <1>0, OnwardType DEF TypeOK
  <1>2. ASSUME fails = 0 PROVE Untried(k)' /\ MissedIsUntried' /\ CalledOnce'
    <2>1. Orderly /\ Shape(tick[k])
      BY <1>2 DEF SchedInv
    <2>2. ASSUME NEW i \in tick[k].todo PROVE i \in Job /\ calls'[RunOf(k, i)] = 0 /\ runs'[RunOf(k, i)] = "NONE"
      <3>1. RunOf(k, i) # RunOf(k, j) /\ RunOf(k, i) \in Run /\ i \in Job
        BY <1>0, <2>1, HeldRun DEF Shape, RunOf
      <3> QED
        BY <1>0, <2>1, <3>1 DEF Orderly, Untried, TypeOK
    <2>3. Untried(k)'
      <3> SUFFICES ASSUME NEW i \in Job, i \in Onward(k).todo
                   PROVE  calls'[<<i, Onward(k).slot[i]>>] = 0 /\ runs'[<<i, Onward(k).slot[i]>>] = "NONE"
        BY <1>0, OnwardType DEF Untried, RunOf
      <3> QED
        BY <2>2, OnwardType DEF RunOf
    <2>4. MissedIsUntried'
      BY <1>0, <2>1 DEF Orderly, MissedIsUntried, Untried, TypeOK
    <2> QED
      BY <2>1, <2>3, <2>4 DEF Orderly, CalledOnce
  <1>3. \A i \in Onward(k).todo \cup Onward(k).cur : i \in Held(k) /\ Onward(k).slot[i] = tick[k].slot[i]
    BY OnwardType DEF Held
  <1>4. \A r \in Run : runs'[r] # runs[r] \/ calls'[r] # calls[r] => r = RunOf(k, j)
    BY <1>0 DEF TypeOK
  <1> QED
    BY <1>1, <1>2, <1>3, <1>4, OnwardType, HolderKeeps

LEMMA StartRunStep == ASSUME SchedInv, NEW k \in Tick, NEW j \in Job, StartRun(k, j) PROVE SchedInv'
  <1> DEFINE t == [tick[k] EXCEPT !.pc = "run"]
  <1>1. /\ tick[k].pc = "new" /\ j \in tick[k].cur /\ ~Late(k, j)
        /\ runs' = [runs EXCEPT ![RunOf(k, j)] = "RUNNING"]
        /\ calls' = [calls EXCEPT ![RunOf(k, j)] = calls[RunOf(k, j)] + 1]
        /\ tick' = [tick EXCEPT ![k] = t]
        /\ UNCHANGED <<now, jobs, edit, edits, fails, crashes>>
    BY DEF StartRun
  <1>0. TypeOK /\ RunOf(k, j) \in Run /\ tick[k] \in TickState /\ Shape(tick[k])
    BY <1>1, HeldRun DEF SchedInv, TypeOK
  <1>2. t \in TickState /\ t.pc = "run" /\ t.todo = tick[k].todo /\ t.cur = tick[k].cur
        /\ t.outcome = tick[k].outcome /\ t.slot = tick[k].slot /\ t.at = tick[k].at
    BY <1>0 DEF TickState
  <1> HIDE DEF t
  <1>3. tick'[k] = t
    BY <1>0, <1>1 DEF TypeOK
  <1>4. tick[k].at <= tick[k].slot[j] + Grace
    BY <1>0, <1>1, SchedulerAssumption DEF Late, TickState, Slot
  <1>5. Shape(t)
    BY <1>0, <1>1, <1>2, <1>4 DEF Shape
  <1>6. TypeOK'
    BY <1>0, <1>1, <1>2 DEF TypeOK, RunStatus
  <1>7. ASSUME fails = 0 PROVE Untried(k)' /\ MissedIsUntried' /\ CalledOnce'
    <2>1. Orderly /\ calls[RunOf(k, j)] = 0
      BY <1>1, <1>7 DEF SchedInv, Orderly, Untried
    <2>2. ASSUME NEW i \in tick[k].todo PROVE calls'[RunOf(k, i)] = 0 /\ runs'[RunOf(k, i)] = "NONE"
      <3>1. RunOf(k, i) # RunOf(k, j) /\ RunOf(k, i) \in Run /\ i \in Job
        BY <1>0, <1>1, HeldRun DEF Shape, RunOf
      <3> QED
        BY <1>0, <1>1, <2>1, <3>1 DEF Orderly, Untried, TypeOK
    <2>3. Untried(k)'
      BY <1>2, <1>3, <2>2 DEF Untried, RunOf
    <2>4. MissedIsUntried' /\ CalledOnce'
      BY <1>0, <1>1, <2>1 DEF Orderly, MissedIsUntried, CalledOnce, TypeOK
    <2> QED
      BY <2>3, <2>4
  <1>8. \A i \in t.todo \cup t.cur : i \in Held(k) /\ t.slot[i] = tick[k].slot[i]
    BY <1>2 DEF Held
  <1>9. \A r \in Run : runs'[r] # runs[r] \/ calls'[r] # calls[r] => r = RunOf(k, j)
    BY <1>0, <1>1 DEF TypeOK
  <1> QED
    BY <1>1, <1>2, <1>5, <1>6, <1>7, <1>8, <1>9, HolderKeeps

\* The handler returns.
LEMMA ReturnsStep == ASSUME SchedInv, NEW k \in Tick, HandlerReturns(k) PROVE SchedInv'
  <1> DEFINE t == [tick[k] EXCEPT !.pc = "close", !.outcome = "SUCCEEDED"]
  <1>1. /\ tick' = [tick EXCEPT ![k] = t]
        /\ UNCHANGED <<now, jobs, runs, edit, calls, edits, fails, crashes>>
    BY DEF HandlerReturns
  <1>0. tick[k] \in TickState /\ Shape(tick[k]) /\ tick \in [Tick -> TickState] /\ tick[k].pc = "run"
    BY DEF SchedInv, TypeOK, HandlerReturns
  <1>2. t \in TickState /\ t.pc = "close" /\ t.todo = tick[k].todo /\ t.cur = tick[k].cur
        /\ t.outcome = "SUCCEEDED" /\ t.slot = tick[k].slot
    BY <1>0 DEF TickState, RunStatus
  <1> HIDE DEF t
  <1>3. tick'[k] = t
    BY <1>0, <1>1
  <1>4. Shape(t)
    BY <1>0, <1>2 DEF Shape
  <1>5. fails = 0 => Untried(k)'
    BY <1>1, <1>2, <1>3 DEF SchedInv, Orderly, Untried, RunOf
  <1> QED
    BY <1>1, <1>2, <1>4, <1>5, QuietKeeps DEF Held

\* Once a handler has thrown, only the shape of the ticks is left to look after.
LEMMA AfterThrow ==
    ASSUME SchedInv, TypeOK', NEW k \in Tick, NEW t, tick' = [tick EXCEPT ![k] = t], Shape(t), fails' # 0
    PROVE  SchedInv'
  BY DEF SchedInv, TypeOK, Shape

LEMMA ThrowsStep == ASSUME SchedInv, NEW k \in Tick, HandlerThrows(k) PROVE SchedInv'
  <1> DEFINE t == [tick[k] EXCEPT !.pc = "putJob", !.outcome = "FAILED"]
  <1>1. /\ tick' = [tick EXCEPT ![k] = t] /\ fails < MaxFails /\ fails' = fails + 1
        /\ UNCHANGED <<now, jobs, runs, edit, calls, edits, crashes>>
    BY DEF HandlerThrows
  <1>0. TypeOK /\ tick[k] \in TickState /\ Shape(tick[k])
    BY DEF SchedInv, TypeOK
  <1>2. t \in TickState /\ t.pc = "putJob" /\ t.todo = tick[k].todo /\ t.cur = tick[k].cur /\ t.outcome = "FAILED"
    BY <1>0 DEF TickState, RunStatus
  <1> HIDE DEF t
  <1>3. Shape(t)
    BY <1>0, <1>2, HandlerThrows(k) DEF Shape, HandlerThrows
  <1>4. fails' \in 0..MaxFails /\ fails' # 0
    BY <1>0, <1>1, SchedulerAssumption DEF TypeOK
  <1>5. TypeOK'
    BY <1>0, <1>1, <1>2, <1>4 DEF TypeOK
  <1> QED
    BY <1>1, <1>3, <1>4, <1>5, AfterThrow

LEMMA PutJobStep == ASSUME SchedInv, NEW k \in Tick, NEW j \in Job, PutJob(k, j) PROVE SchedInv'
  <1> DEFINE t == [tick[k] EXCEPT !.pc = "close"]
  <1>1. /\ tick' = [tick EXCEPT ![k] = t] /\ tick[k].pc = "putJob" /\ jobs' = [jobs EXCEPT ![j] = tick[k].copy[j]]
        /\ UNCHANGED <<now, runs, edit, calls, edits, fails, crashes>>
    BY DEF PutJob
  <1>0. TypeOK /\ tick[k] \in TickState /\ Shape(tick[k])
    BY DEF SchedInv, TypeOK
  <1>2. t \in TickState /\ t.pc = "close" /\ t.todo = tick[k].todo /\ t.cur = tick[k].cur /\ t.outcome = tick[k].outcome
    BY <1>0 DEF TickState
  <1> HIDE DEF t
  <1>3. Shape(t)
    BY <1>0, <1>1, <1>2 DEF Shape
  <1>4. tick[k].copy[j] \in JobRec
    BY <1>0 DEF TickState
  <1>5. TypeOK'
    BY <1>0, <1>1, <1>2, <1>4 DEF TypeOK
  <1>6. fails' # 0
    BY <1>1 DEF SchedInv, Orderly, NoneThrown
  <1> QED
    BY <1>1, <1>3, <1>5, <1>6, AfterThrow

LEMMA TickSteps == ASSUME SchedInv, NEW k \in Tick, Work(k) PROVE SchedInv'
  <1>1. ASSUME NEW j \in Job, RecordMissed(k, j) PROVE SchedInv'
    BY <1>1, RecordStep DEF RecordMissed, RunStatus
  <1>2. ASSUME NEW j \in Job, CloseRun(k, j) PROVE SchedInv'
    <2>1. tick[k].outcome \in RunStatus /\ tick[k].outcome # "MISSED"
      BY DEF SchedInv, TypeOK, TickState, Shape
    <2> QED
      BY <1>2, <2>1, RecordStep DEF CloseRun
  <1> QED
    BY <1>1, <1>2, ClaimStep, LookupStep, StartRunStep, ReturnsStep, ThrowsStep, PutJobStep DEF Work

-----------------------------------------------------------------------------
(* The system *)

LEMMA AdvanceStep == ASSUME SchedInv, Advance PROVE SchedInv'
  <1>1. /\ now < MaxTime /\ now' = now + 1 /\ UNCHANGED <<jobs, runs, tick, edit, calls, edits, fails, crashes>>
    BY DEF Advance
  <1>2. TypeOK' /\ now \in Nat
    BY <1>1, SchedulerAssumption DEF SchedInv, TypeOK
  <1>3. \A j \in Job, s \in Slot : Touched(j, s)' <=> Touched(j, s)
    BY <1>1 DEF Touched, Held
  <1>4. ASSUME Orderly PROVE Orderly'
    <2>1. FutureUntouched'
      BY <1>1, <1>2, <1>3, <1>4 DEF Orderly, FutureUntouched, Slot
    <2>2. NextUntouched'
      BY <1>1, <1>3, <1>4 DEF Orderly, NextUntouched
    <2> QED
      BY <1>1, <1>4, <2>1, <2>2 DEF Orderly, NoneThrown, MissedIsUntried, CalledOnce, Disjoint, Untried, RunOf, Held
  <1> QED
    BY <1>1, <1>2, <1>4 DEF SchedInv

LEMMA CrashStep == ASSUME SchedInv, Crash PROVE SchedInv'
  <1>1. /\ crashes < MaxCrashes /\ crashes' = crashes + 1
        /\ tick' = [k \in Tick |-> Rest] /\ edit' = [j \in Job |-> NoEdit]
        /\ UNCHANGED <<now, jobs, runs, calls, edits, fails>>
    BY DEF Crash
  <1>2. TypeOK'
    BY <1>1, RestType, NoJobType, SchedulerAssumption DEF SchedInv, TypeOK
  <1>3. \A k \in Tick : Shape(tick[k])' /\ Held(k)' = {} /\ tick'[k].pc = "rest"
    BY <1>1, RestType DEF Held
  <1>4. \A j \in Job, s \in Slot : Touched(j, s)' => Touched(j, s)
    BY <1>1, <1>3 DEF Touched
  <1>5. ASSUME Orderly PROVE Orderly'
    <2>1. FutureUntouched' /\ NextUntouched'
      BY <1>1, <1>4, <1>5 DEF Orderly, FutureUntouched, NextUntouched
    <2>2. NoneThrown' /\ Disjoint' /\ \A k \in Tick : Untried(k)'
      BY <1>3 DEF NoneThrown, Disjoint, Untried, Held
    <2> QED
      BY <1>1, <1>5, <2>1, <2>2 DEF Orderly, MissedIsUntried, CalledOnce
  <1> QED
    BY <1>1, <1>2, <1>3, <1>5 DEF SchedInv

LEMMA NextSched == SchedInv /\ [Next]_vars => SchedInv'
  <1> SUFFICES ASSUME SchedInv, [Next]_vars PROVE SchedInv'
    OBVIOUS
  <1>1. CASE UNCHANGED vars
    <2>1. \A j \in Job, s \in Slot : Touched(j, s)' <=> Touched(j, s)
      BY <1>1 DEF vars, Touched, Held
    <2>2. Orderly => Orderly'
      BY <1>1, <2>1 DEF vars, Orderly, FutureUntouched, NextUntouched, NoneThrown, MissedIsUntried, CalledOnce,
         Disjoint, Untried, RunOf, Held
    <2> QED
      BY <1>1, <2>2 DEF vars, SchedInv, TypeOK
  <1> QED
    BY <1>1, RequestSteps, TickSteps, AdvanceStep, CrashStep DEF Next

-----------------------------------------------------------------------------

\* The inductive invariant of the scheduler.
THEOREM SchedulerInvariant == Spec => []SchedInv
  BY InitSched, NextSched, PTL DEF Spec

\* Whatever ticks overlap and whatever is paused, resumed, registered or restarted meanwhile: nothing is
\* handled after the grace, and until a handler throws an occurrence is held by one tick, handled at most
\* once, and not handled if it is MISSED.
THEOREM RunsSoundAlways == Spec => []RunsSound
  <1>1. ASSUME SchedInv PROVE RunsSound
    <2>1. NoBackfill
      <3>1. \A k \in Tick, j \in Job :
               tick[k].pc = "run" /\ j \in tick[k].cur => tick[k].at <= tick[k].slot[j] + Grace
        BY <1>1 DEF SchedInv, Shape
      <3>2. fails = 0 => MissedIsUntried
        BY <1>1 DEF SchedInv, Orderly
      <3> QED
        BY <3>1, <3>2 DEF NoBackfill, MissedIsUntried
    <2>2. RunOnce /\ ClaimsDisjoint /\ TypeOK
      BY <1>1 DEF SchedInv, Orderly, CalledOnce, Disjoint, Held, RunOnce, ClaimsDisjoint
    <2> QED
      BY <2>1, <2>2 DEF RunsSound
  <1> QED
    BY <1>1, SchedulerInvariant, PTL

=============================================================================
