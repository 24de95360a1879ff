------------------------------ MODULE ExecLock ------------------------------
(***************************************************************************)
(* ExecutionLockService of apps/datacore/src/execlock.ts, one resource:    *)
(* executors that run withLock() in any process share one row.  A lease    *)
(* is taken atomically (tryAcquire); heartbeat, requestRerun, consumeRerun *)
(* and release each GET the row and PUT a whole copy back later; a write   *)
(* of the guarded work is preceded by assertFence.                         *)
(***************************************************************************)
EXTENDS Naturals, FiniteSets

CONSTANTS
    Exec,           \* calls of withLock; each happens at most once
    Interference,   \* what may come in between, a subset of
                    \*   "stale"  others use the row between a get and its put
                    \*   "writes" others run between assertFence and the write it guards
    MaxLapses,      \* bound: how often a lease runs out under a holder that is alive
    MaxCrashes,     \* bound: how many executors die
    NoExec          \* absent value

ASSUME LockAssumption ==
    /\ NoExec \notin Exec
    /\ Interference \subseteq {"stale", "writes"}
    /\ MaxLapses \in Nat /\ MaxCrashes \in Nat

VARIABLES
    lock,       \* the row
    pc,         \* where each executor stands
    round,      \* how often it has begun fn
    fence,      \* the fence it was given
    copy,       \* the row as its get in progress has read it
    beat,       \* the row as its heartbeat in progress has read it
    last,       \* the fence of the last write that went through
    owed,       \* who has registered a rerun that no run has followed yet
    lapses,     \* leases that have run out too early
    crashes     \* executors that have died

vars == <<lock, pc, round, fence, copy, beat, last, owed, lapses, crashes>>

-----------------------------------------------------------------------------
(* Records *)

\* live: leaseUntil is in the future.  The row that has never been put has fence 0.
Lock == [holder : Exec \cup {NoExec}, fence : Nat, live : BOOLEAN, rerun : BOOLEAN]
NoLock == [holder |-> NoExec, fence |-> 0, live |-> FALSE, rerun |-> FALSE]

Pc == {"idle", "ask", "run", "checked", "ran", "consume", "release", "released", "done"}

TypeOK ==
    /\ lock \in Lock
    /\ pc \in [Exec -> Pc]
    /\ round \in [Exec -> 0..2]
    /\ fence \in [Exec -> Nat]
    /\ copy \in [Exec -> Lock]
    /\ beat \in [Exec -> Lock]
    /\ last \in Nat
    /\ owed \in [Exec -> {"none", "early", "late"}]
    /\ lapses \in 0..MaxLapses /\ crashes \in 0..MaxCrashes

Init ==
    /\ lock = NoLock
    /\ pc = [e \in Exec |-> "idle"]
    /\ round = [e \in Exec |-> 0]
    /\ fence = [e \in Exec |-> 0]
    /\ copy = [e \in Exec |-> NoLock]
    /\ beat = [e \in Exec |-> NoLock]
    /\ last = 0
    /\ owed = [e \in Exec |-> "none"]
    /\ lapses = 0 /\ crashes = 0

-----------------------------------------------------------------------------
(* Gets and puts *)

Read(e) == copy[e] # NoLock
Beating(e) == beat[e] # NoLock

\* Unless "stale", nobody uses the row between a get and its put; unless "writes", nothing
\* happens between the fence check and the write.
Undisturbed(e) ==
    /\ "stale" \in Interference \/ \A f \in Exec \ {e} : ~Read(f) /\ ~Beating(f)
    /\ "writes" \in Interference \/ \A f \in Exec \ {e} : pc[f] # "checked"

Get(e, from) ==
    /\ Undisturbed(e) /\ ("stale" \in Interference \/ ~Beating(e))
    /\ pc[e] = from /\ ~Read(e) /\ lock # NoLock

Put(e, row, next) ==
    /\ Undisturbed(e) /\ Read(e)
    /\ lock' = row
    /\ copy' = [copy EXCEPT ![e] = NoLock]
    /\ pc' = [pc EXCEPT ![e] = next]
    /\ UNCHANGED <<fence, beat, last, lapses, crashes>>

-----------------------------------------------------------------------------
(* withLock *)

\* Mutant of TryAcquire: the lease is not looked at.
TryAcquireAnyway(e) ==
    /\ Undisturbed(e) /\ pc[e] = "idle"
    /\ lock' = [holder |-> e, fence |-> lock.fence + 1, live |-> TRUE, rerun |-> FALSE]
    /\ fence' = [fence EXCEPT ![e] = lock.fence + 1]
    /\ pc' = [pc EXCEPT ![e] = "run"]
    /\ round' = [round EXCEPT ![e] = 1]
    /\ owed' = [f \in Exec |-> "none"]
    /\ UNCHANGED <<copy, beat, last, lapses, crashes>>

\* One atomic step; the run that begins serves every rerun asked for so far.
TryAcquire(e) ==
    /\ Undisturbed(e) /\ pc[e] = "idle" /\ ~lock.live
    /\ lock' = [holder |-> e, fence |-> lock.fence + 1, live |-> TRUE, rerun |-> FALSE]
    /\ fence' = [fence EXCEPT ![e] = lock.fence + 1]
    /\ pc' = [pc EXCEPT ![e] = "run"]
    /\ round' = [round EXCEPT ![e] = 1]
    /\ owed' = [f \in Exec |-> "none"]
    /\ UNCHANGED <<copy, beat, last, lapses, crashes>>

\* The lock is held: give up, or (onSkipped) ask the holder for another round.
Skip(e, onSkipped) ==
    /\ Undisturbed(e) /\ pc[e] = "idle" /\ lock.live
    /\ pc' = [pc EXCEPT ![e] = IF onSkipped THEN "ask" ELSE "done"]
    /\ UNCHANGED <<lock, round, fence, copy, beat, last, owed, lapses, crashes>>

RequestRerunGet(e) ==
    /\ Get(e, "ask")
    /\ copy' = [copy EXCEPT ![e] = lock]
    /\ UNCHANGED <<lock, pc, round, fence, beat, last, owed, lapses, crashes>>

\* The holder's first round is not over.
Early == \E f \in Exec : pc[f] \in {"run", "checked"} /\ round[f] = 1 /\ lock.holder = f

RequestRerunPut(e) ==
    /\ pc[e] = "ask"
    /\ Put(e, [copy[e] EXCEPT !.rerun = TRUE], "done")
    /\ owed' = [owed EXCEPT ![e] = IF Early THEN "early" ELSE "late"]
    /\ UNCHANGED round

\* Mutant of AssertFence: the comparison the wrong way round.
AssertFenceBackwards(e) ==
    /\ Undisturbed(e) /\ pc[e] = "run"
    /\ pc' = [pc EXCEPT ![e] = IF fence[e] > lock.fence THEN "ran" ELSE "checked"]
    /\ UNCHANGED <<lock, round, fence, copy, beat, last, owed, lapses, crashes>>

\* fn writes a result; a stale executor is refused, and its fn throws.
AssertFence(e) ==
    /\ Undisturbed(e) /\ pc[e] = "run"
    /\ pc' = [pc EXCEPT ![e] = IF fence[e] < lock.fence THEN "ran" ELSE "checked"]
    /\ UNCHANGED <<lock, round, fence, copy, beat, last, owed, lapses, crashes>>

Write(e) ==
    /\ pc[e] = "checked"
    /\ last' = fence[e]
    /\ pc' = [pc EXCEPT ![e] = "run"]
    /\ UNCHANGED <<lock, round, fence, copy, beat, owed, lapses, crashes>>

\* fn returns; after its first round the flag is looked at, then the lock is released.
Return(e) ==
    /\ pc[e] = "run"
    /\ pc' = [pc EXCEPT ![e] = IF round[e] = 1 THEN "consume" ELSE "release"]
    /\ UNCHANGED <<lock, round, fence, copy, beat, last, owed, lapses, crashes>>

\* A round that throws serves nobody: the flag is not looked at any more.
Throw(e) ==
    /\ pc[e] \in {"run", "ran"}
    /\ pc' = [pc EXCEPT ![e] = "release"]
    /\ owed' = [f \in Exec |-> IF owed[f] = "early" THEN "late" ELSE owed[f]]
    /\ UNCHANGED <<lock, round, fence, copy, beat, last, lapses, crashes>>

ConsumeRerunGet(e) ==
    /\ Get(e, "consume")
    /\ IF lock.holder = e /\ lock.rerun
       THEN copy' = [copy EXCEPT ![e] = lock] /\ UNCHANGED pc
       ELSE pc' = [pc EXCEPT ![e] = "release"] /\ UNCHANGED copy
    /\ UNCHANGED <<lock, round, fence, beat, last, owed, lapses, crashes>>

\* Mutant of ConsumeRerunPut: the flag is cleared and that is all.
ConsumeRerunPutOnly(e) ==
    /\ pc[e] = "consume"
    /\ Put(e, [copy[e] EXCEPT !.rerun = FALSE], "release")
    /\ UNCHANGED <<round, owed>>

\* The flag is cleared and fn called again, for everybody who has asked.
ConsumeRerunPut(e) ==
    /\ pc[e] = "consume"
    /\ Put(e, [copy[e] EXCEPT !.rerun = FALSE], "run")
    /\ round' = [round EXCEPT ![e] = @ + 1]
    /\ owed' = [f \in Exec |-> "none"]

\* clearInterval comes first: no heartbeat begins any more.
ReleaseGet(e) ==
    /\ Get(e, "release")
    /\ IF lock.holder = e
       THEN copy' = [copy EXCEPT ![e] = lock] /\ UNCHANGED pc
       ELSE pc' = [pc EXCEPT ![e] = "done"] /\ UNCHANGED copy
    /\ UNCHANGED <<lock, round, fence, beat, last, owed, lapses, crashes>>

\* The lease ends at once; the fence stays in the row.
ReleasePut(e) ==
    /\ pc[e] = "release" /\ Put(e, [copy[e] EXCEPT !.live = FALSE], "done")
    /\ UNCHANGED <<round, owed>>

-----------------------------------------------------------------------------
(* Heartbeats, time, death *)

\* Every third of the lease while withLock is before its finally block.
HeartbeatGet(e) ==
    /\ Undisturbed(e) /\ ("stale" \in Interference \/ ~Read(e))
    /\ pc[e] \in {"run", "checked", "ran", "consume"} /\ ~Beating(e)
    /\ lock.holder = e /\ lock.fence = fence[e]
    /\ beat' = [beat EXCEPT ![e] = lock]
    /\ UNCHANGED <<lock, pc, round, fence, copy, last, owed, lapses, crashes>>

HeartbeatPut(e) ==
    /\ Undisturbed(e) /\ Beating(e)
    /\ lock' = [beat[e] EXCEPT !.live = TRUE]
    /\ beat' = [beat EXCEPT ![e] = NoLock]
    /\ UNCHANGED <<pc, round, fence, copy, last, owed, lapses, crashes>>

\* The lease runs out: the holder is gone, or it renews too late.
Expire ==
    /\ lock.live
    /\ "stale" \in Interference \/ \A f \in Exec : ~Read(f) /\ ~Beating(f)
    /\ IF pc[lock.holder] = "done" THEN UNCHANGED lapses
       ELSE lapses < MaxLapses /\ lapses' = lapses + 1
    /\ lock' = [lock EXCEPT !.live = FALSE]
    /\ UNCHANGED <<pc, round, fence, copy, beat, last, owed, crashes>>

\* An executor dies with its process; the row stays.
Crash(e) ==
    /\ pc[e] \notin {"idle", "done"}
    /\ crashes < MaxCrashes /\ crashes' = crashes + 1
    /\ pc' = [pc EXCEPT ![e] = "done"]
    /\ copy' = [copy EXCEPT ![e] = NoLock]
    /\ beat' = [beat EXCEPT ![e] = NoLock]
    /\ UNCHANGED <<lock, round, fence, last, owed, lapses>>

-----------------------------------------------------------------------------
(* The system *)

Next ==
    \/ \E e \in Exec :
          \/ TryAcquire(e) \/ \E onSkipped \in BOOLEAN : Skip(e, onSkipped)
          \/ RequestRerunGet(e) \/ RequestRerunPut(e)
          \/ AssertFence(e) \/ Write(e) \/ Return(e) \/ Throw(e)
          \/ ConsumeRerunGet(e) \/ ConsumeRerunPut(e)
          \/ ReleaseGet(e) \/ ReleasePut(e)
          \/ HeartbeatGet(e) \/ HeartbeatPut(e) \/ Crash(e)
    \/ Expire

Spec == Init /\ [][Next]_vars

-----------------------------------------------------------------------------
(* Properties *)

Working == {e \in Exec : pc[e] \in {"run", "checked", "ran", "consume"}}

\* As long as leases are renewed in time, two executors never work on the resource
\* together, whoever asks for reruns, gives up or dies.
MutualExclusion == lapses = 0 => Cardinality(Working) <= 1

\* A fence identifies an executor: two that have been given the lock have different ones.
UniqueFence == \A e, f \in Exec : (fence[e] = fence[f] /\ fence[e] # 0) => e = f

\* The fence in the row never goes back, through takeovers, releases and heartbeats.
FenceGrows == [][lock'.fence >= lock.fence]_vars

\* An executor that came back after its lease was taken over writes nothing: the fences of
\* the writes that went through never go back.
WritesInOrder == [][last' >= last]_vars

Quiet == \A e \in Exec : pc[e] \in {"idle", "done"}

\* A rerun registered in the holder's first round, which is nothing but a flag in the row,
\* has been run when everybody is done, unless a lease lapsed or somebody died.
EarlyRerunServed == (Quiet /\ lapses + crashes = 0) => \A e \in Exec : owed[e] # "early"

-----------------------------------------------------------------------------
(* Why, as long as nobody comes between a get and its put (Interference = {}) *)

\* A get in progress has the row as it is, and nobody else is at it.
GetSound ==
    /\ \A e \in Exec : Read(e) => copy[e] = lock /\ pc[e] \in {"ask", "consume", "release"}
    /\ \A e \in Exec : Beating(e) => beat[e] = lock /\ pc[e] # "idle" /\ ~Read(e)
    /\ \A e, f \in Exec : (Read(e) \/ Beating(e)) /\ (Read(f) \/ Beating(f)) => e = f

\* The row has the largest fence ever given, and a write that has been let through has it too.
FenceSound ==
    /\ \A e \in Exec : fence[e] <= lock.fence
    /\ UniqueFence
    /\ \A e \in Exec : pc[e] = "checked" => fence[e] = lock.fence
    /\ last <= lock.fence

\* Who works on the resource, or is about to change the row as its holder, holds it.
HolderSound ==
    /\ \A e \in Exec : pc[e] = "consume" => round[e] = 1
    /\ \A e \in Exec : (Read(e) /\ pc[e] \in {"consume", "release"}) => lock.holder = e
    /\ lapses = 0 => \A e \in Working : lock.holder = e /\ lock.live

\* Somebody is still going to look at the flag.
RerunSound == lapses + crashes = 0 => \A e \in Exec : owed[e] = "early" =>
    lock.rerun /\ lock.holder \in Working /\ round[lock.holder] = 1

\* The inductive invariant: what get, put, heartbeat and release may rely on.
LockInvariant == TypeOK /\ GetSound /\ FenceSound /\ HolderSound /\ RerunSound

\* What it is for: one executor at a time, each with a fence of its own.
ExclusiveHolder == LockInvariant /\ MutualExclusion /\ UniqueFence

\* The fences of the row and those of the writes that went through never go back.
FencesInOrder == FenceGrows /\ WritesInOrder

=============================================================================
