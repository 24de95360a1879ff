--------------------------- MODULE ExecLockProofs ---------------------------
(***************************************************************************)
(* What ExecLock promises for any number of executors, lapses and deaths,  *)
(* as long as nobody uses the row between a get and its put and nobody     *)
(* runs between a fence check and the write it guards (Interference = {}). *)
(* The argument: then a get in progress has the row as it is, so that every *)
(* put keeps the row's holder and fence, and only TryAcquire changes them. *)
(***************************************************************************)
EXTENDS ExecLock, FiniteSetTheorems, TLAPS

-----------------------------------------------------------------------------
(* Rows *)

\* The row that has never been put, and the row TryAcquire puts.
LEMMA NoLockType == NoLock \in Lock
  BY DEF NoLock, Lock

LEMMA AcquiredType ==
    ASSUME NEW e \in Exec, NEW n \in Nat
    PROVE  [holder |-> e, fence |-> n + 1, live |-> TRUE, rerun |-> FALSE] \in Lock
  BY DEF Lock

\* Two naturals whose sum is 0 are 0.
LEMMA SumZero ==
    ASSUME NEW a \in Nat, NEW b \in Nat, a + b = 0
    PROVE  a = 0 /\ b = 0
  OBVIOUS

\* Without interference, whoever uses the row is alone with it.
LEMMA Alone ==
    ASSUME Interference = {}, NEW e \in Exec, Undisturbed(e)
    PROVE  /\ \A f \in Exec \ {e} : ~Read(f) /\ ~Beating(f)
           /\ \A f \in Exec \ {e} : pc[f] # "checked"
  BY DEF Undisturbed

-----------------------------------------------------------------------------
(* The inductive invariant *)

\* Nobody has done anything yet.
LEMMA InitLock == Init => LockInvariant
  <1> SUFFICES ASSUME Init PROVE LockInvariant
    OBVIOUS
  <1> USE DEF Init
  <1>1. TypeOK
    BY NoLockType, LockAssumption DEF TypeOK, Pc
  <1>2. \A e \in Exec : /\ ~Read(e) /\ ~Beating(e)
                       /\ pc[e] = "idle" /\ fence[e] = 0 /\ owed[e] = "none"
    BY DEF Read, Beating
  <1>3. lock.fence = 0
    BY DEF NoLock
  <1>4. GetSound
    BY <1>2 DEF GetSound
  <1>5. FenceSound
    BY <1>2, <1>3 DEF FenceSound, UniqueFence
  <1>6. HolderSound
    BY <1>2 DEF HolderSound, Working
  <1>7. RerunSound
    BY <1>2 DEF RerunSound
  <1> QED
    BY <1>1, <1>4, <1>5, <1>6, <1>7 DEF LockInvariant

\* A put keeps the row's holder and fence: what it puts back is the row as it is, with its
\* flag or its lease changed.
LEMMA PutKeeps ==
    ASSUME LockInvariant, NEW e \in Exec,
           RequestRerunPut(e) \/ ConsumeRerunPut(e) \/ ReleasePut(e) \/ HeartbeatPut(e)
    PROVE  lock' \in Lock /\ lock'.holder = lock.holder /\ lock'.fence = lock.fence
  <1>1. lock \in Lock /\ GetSound
    BY DEF LockInvariant, TypeOK
  <1>2. CASE RequestRerunPut(e)
    <2>1. lock' = [lock EXCEPT !.rerun = TRUE]
      BY <1>1, <1>2 DEF RequestRerunPut, Put, GetSound
    <2> QED
      BY <1>1, <2>1 DEF Lock
  <1>3. CASE ConsumeRerunPut(e)
    <2>1. lock' = [lock EXCEPT !.rerun = FALSE]
      BY <1>1, <1>3 DEF ConsumeRerunPut, Put, GetSound
    <2> QED
      BY <1>1, <2>1 DEF Lock
  <1>4. CASE ReleasePut(e)
    <2>1. lock' = [lock EXCEPT !.live = FALSE]
      BY <1>1, <1>4 DEF ReleasePut, Put, GetSound
    <2> QED
      BY <1>1, <2>1 DEF Lock
  <1>5. CASE HeartbeatPut(e)
    <2>1. lock' = [lock EXCEPT !.live = TRUE]
      BY <1>1, <1>5 DEF HeartbeatPut, GetSound
    <2> QED
      BY <1>1, <2>1 DEF Lock
  <1> QED
    BY <1>2, <1>3, <1>4, <1>5

\* What a step does to the row: it takes the lock, or it keeps its holder and its fence.
LEMMA RowStep ==
    ASSUME LockInvariant, Next
    PROVE  /\ lock' \in Lock
           /\ \/ \E e \in Exec : TryAcquire(e)
              \/ lock'.holder = lock.holder /\ lock'.fence = lock.fence
  <1>1. lock \in Lock /\ lock.fence \in Nat
    BY DEF LockInvariant, TypeOK, Lock
  <1>2. ASSUME NEW e \in Exec, TryAcquire(e) PROVE lock' \in Lock
    BY <1>1, <1>2, AcquiredType DEF TryAcquire
  <1>3. ASSUME NEW e \in Exec,
               RequestRerunPut(e) \/ ConsumeRerunPut(e) \/ ReleasePut(e) \/ HeartbeatPut(e)
        PROVE  lock' \in Lock /\ lock'.holder = lock.holder /\ lock'.fence = lock.fence
    BY <1>3, PutKeeps
  <1>4. ASSUME Expire
        PROVE  lock' \in Lock /\ lock'.holder = lock.holder /\ lock'.fence = lock.fence
    BY <1>1, <1>4 DEF Expire, Lock
  <1>5. ASSUME NEW e \in Exec,
               \/ \E onSkipped \in BOOLEAN : Skip(e, onSkipped)
               \/ RequestRerunGet(e) \/ AssertFence(e) \/ Write(e) \/ Return(e) \/ Throw(e)
               \/ ConsumeRerunGet(e) \/ ReleaseGet(e) \/ HeartbeatGet(e) \/ Crash(e)
        PROVE  lock' = lock
    BY <1>5 DEF Skip, RequestRerunGet, AssertFence, Write, Return, Throw, ConsumeRerunGet,
                ReleaseGet, HeartbeatGet, Crash
  <1> QED
    BY <1>1, <1>2, <1>3, <1>4, <1>5 DEF Next

\* Every action keeps the types; a second round is the last one.
LEMMA TypeStep ==
    ASSUME Interference = {}, LockInvariant, Next
    PROVE  TypeOK'
  <1>1. lock' \in Lock
    BY RowStep
  <1>2. TypeOK /\ lock.fence \in Nat
    BY DEF LockInvariant, TypeOK, Lock
  <1> USE LockAssumption, NoLockType DEF TypeOK, Pc
  <1>3. ASSUME NEW e \in Exec, TryAcquire(e) PROVE TypeOK'
    BY <1>1, <1>2, <1>3 DEF TryAcquire
  <1>4. ASSUME NEW e \in Exec, NEW onSkipped \in BOOLEAN, Skip(e, onSkipped) PROVE TypeOK'
    BY <1>2, <1>4 DEF Skip
  <1>5. ASSUME NEW e \in Exec, RequestRerunGet(e) PROVE TypeOK'
    BY <1>2, <1>5 DEF RequestRerunGet
  <1>6. ASSUME NEW e \in Exec, RequestRerunPut(e) PROVE TypeOK'
    BY <1>1, <1>2, <1>6 DEF RequestRerunPut, Put
  <1>7. ASSUME NEW e \in Exec, AssertFence(e) \/ Write(e) \/ Return(e) PROVE TypeOK'
    BY <1>2, <1>7 DEF AssertFence, Write, Return
  <1>8. ASSUME NEW e \in Exec, Throw(e) PROVE TypeOK'
    BY <1>2, <1>8 DEF Throw
  <1>9. ASSUME NEW e \in Exec, ConsumeRerunGet(e) \/ ReleaseGet(e) PROVE TypeOK'
    BY <1>2, <1>9 DEF ConsumeRerunGet, ReleaseGet
  <1>10. ASSUME NEW e \in Exec, ConsumeRerunPut(e) PROVE TypeOK'
    <2>1. round[e] + 1 \in 0..2
      BY <1>2, <1>10 DEF ConsumeRerunPut, LockInvariant, HolderSound
    <2> QED
      BY <1>1, <1>2, <1>10, <2>1 DEF ConsumeRerunPut, Put
  <1>11. ASSUME NEW e \in Exec, ReleasePut(e) PROVE TypeOK'
    BY <1>1, <1>2, <1>11 DEF ReleasePut, Put
  <1>12. ASSUME NEW e \in Exec, HeartbeatGet(e) \/ HeartbeatPut(e) PROVE TypeOK'
    BY <1>1, <1>2, <1>12 DEF HeartbeatGet, HeartbeatPut
  <1>13. ASSUME NEW e \in Exec, Crash(e) PROVE TypeOK'
    BY <1>2, <1>13 DEF Crash
  <1>14. ASSUME Expire PROVE TypeOK'
    BY <1>1, <1>2, <1>14 DEF Expire
  <1> QED
    BY <1>3, <1>4, <1>5, <1>6, <1>7, <1>8, <1>9, <1>10, <1>11, <1>12, <1>13, <1>14 DEF Next

\* Nobody else is at the row when a get begins, and nobody's get outlives somebody's put.
LEMMA GetStep ==
    ASSUME Interference = {}, LockInvariant, Next
    PROVE  GetSound'
  <1>1. TypeOK /\ GetSound
    BY DEF LockInvariant
  <1> USE DEF GetSound, Read, Beating, TypeOK
  <1>2. ASSUME NEW e \in Exec, TryAcquire(e) PROVE GetSound'
    <2>1. \A f \in Exec : ~Read(f) /\ ~Beating(f)
      BY <1>1, <1>2, Alone DEF TryAcquire
    <2> QED
      BY <1>2, <2>1 DEF TryAcquire
  <1>3. ASSUME NEW e \in Exec, NEW onSkipped \in BOOLEAN, Skip(e, onSkipped) PROVE GetSound'
    BY <1>1, <1>3 DEF Skip
  <1>4. ASSUME NEW e \in Exec, RequestRerunGet(e) PROVE GetSound'
    BY <1>1, <1>4, Alone DEF RequestRerunGet, Get
  <1>5. ASSUME NEW e \in Exec, RequestRerunPut(e) \/ ConsumeRerunPut(e) \/ ReleasePut(e)
        PROVE  GetSound'
    <2>1. /\ \A f \in Exec \ {e} : ~Read(f) /\ ~Beating(f)
          /\ ~Beating(e)
      BY <1>1, <1>5, Alone DEF RequestRerunPut, ConsumeRerunPut, ReleasePut, Put
    <2>2. copy' = [copy EXCEPT ![e] = NoLock] /\ UNCHANGED beat
      BY <1>5 DEF RequestRerunPut, ConsumeRerunPut, ReleasePut, Put
    <2> QED
      BY <1>1, <2>1, <2>2
  <1>6. ASSUME NEW e \in Exec, AssertFence(e) \/ Write(e) \/ Return(e) \/ Throw(e) PROVE GetSound'
    <2>1. ~Read(e) /\ UNCHANGED <<lock, copy, beat>>
      BY <1>1, <1>6 DEF AssertFence, Write, Return, Throw
    <2>2. \A f \in Exec : f # e => pc'[f] = pc[f]
      BY <1>1, <1>6 DEF AssertFence, Write, Return, Throw
    <2>3. pc'[e] # "idle"
      BY <1>1, <1>6 DEF AssertFence, Write, Return, Throw
    <2> QED
      BY <1>1, <2>1, <2>2, <2>3
  <1>7. ASSUME NEW e \in Exec, ConsumeRerunGet(e) \/ ReleaseGet(e) PROVE GetSound'
    <2>1. \A f \in Exec : ~Read(f) /\ ~Beating(f)
      BY <1>1, <1>7, Alone DEF ConsumeRerunGet, ReleaseGet, Get
    <2>2. /\ lock' = lock /\ beat' = beat
          /\ \/ copy' = copy
             \/ copy' = [copy EXCEPT ![e] = lock] /\ pc' = pc /\ pc[e] \in {"consume", "release"}
      BY <1>7 DEF ConsumeRerunGet, ReleaseGet, Get
    <2> QED
      BY <1>1, <2>1, <2>2
  <1>8. ASSUME NEW e \in Exec, HeartbeatGet(e) PROVE GetSound'
    <2>1. (\A f \in Exec : ~Read(f)) /\ \A f \in Exec : ~Beating(f)
      BY <1>1, <1>8, Alone DEF HeartbeatGet
    <2>2. UNCHANGED <<lock, copy, pc>> /\ beat' = [beat EXCEPT ![e] = lock] /\ pc[e] # "idle"
      BY <1>8 DEF HeartbeatGet
    <2> QED
      BY <1>1, <2>1, <2>2
  <1>9. ASSUME NEW e \in Exec, HeartbeatPut(e) PROVE GetSound'
    <2>1. (\A f \in Exec \ {e} : ~Beating(f)) /\ \A f \in Exec : ~Read(f)
      BY <1>1, <1>9, Alone DEF HeartbeatPut
    <2>2. UNCHANGED <<copy, pc>> /\ beat' = [beat EXCEPT ![e] = NoLock]
      BY <1>9 DEF HeartbeatPut
    <2> QED
      BY <1>1, <2>1, <2>2
  <1>10. ASSUME NEW e \in Exec, Crash(e) PROVE GetSound'
    BY <1>1, <1>10 DEF Crash
  <1>11. ASSUME Expire PROVE GetSound'
    BY <1>1, <1>11 DEF Expire
  <1> QED
    BY <1>2, <1>3, <1>4, <1>5, <1>6, <1>7, <1>8, <1>9, <1>10, <1>11 DEF Next

\* Only TryAcquire gives out a fence, the next one, and then nobody else stands between a
\* fence check and its write.
LEMMA FenceStep ==
    ASSUME Interference = {}, LockInvariant, Next
    PROVE  FenceSound'
  <1>1. TypeOK /\ FenceSound /\ lock.fence \in Nat
    BY DEF LockInvariant, TypeOK, Lock
  <1> USE DEF FenceSound, UniqueFence, TypeOK
  <1>2. ASSUME NEW e \in Exec, TryAcquire(e) PROVE FenceSound'
    <2>1. \A f \in Exec \ {e} : pc[f] # "checked"
      BY <1>2, Alone DEF TryAcquire
    <2>2. lock'.fence = lock.fence + 1 /\ last' = last
      BY <1>2 DEF TryAcquire
    <2>3. fence' = [fence EXCEPT ![e] = lock.fence + 1] /\ pc' = [pc EXCEPT ![e] = "run"]
      BY <1>2 DEF TryAcquire
    <2>4. \A f \in Exec : fence'[f] = IF f = e THEN lock.fence + 1 ELSE fence[f]
      BY <1>1, <2>3
    <2>5. \A f \in Exec : pc'[f] # "checked"
      BY <1>1, <2>1, <2>3
    <2> QED
      BY <1>1, <2>2, <2>4, <2>5
  <1>3. ASSUME lock'.fence = lock.fence, fence' = fence,
               \A f \in Exec : pc'[f] = "checked" => pc[f] = "checked" \/ fence[f] = lock.fence,
               last' = last \/ \E e \in Exec : pc[e] = "checked" /\ last' = fence[e]
        PROVE  FenceSound'
    BY <1>1, <1>3
  <1>4. ASSUME NEW e \in Exec, AssertFence(e) PROVE FenceSound'
    <2>1. pc'[e] = "checked" => fence[e] = lock.fence
      BY <1>1, <1>4 DEF AssertFence
    <2>2. UNCHANGED <<lock, fence, last>> /\ \A f \in Exec : f # e => pc'[f] = pc[f]
      BY <1>1, <1>4 DEF AssertFence
    <2> QED
      BY <1>3, <2>1, <2>2
  <1>5. ASSUME NEW e \in Exec, Write(e) PROVE FenceSound'
    BY <1>1, <1>3, <1>5 DEF Write
  <1>6. ASSUME NEW e \in Exec,
               \/ \E onSkipped \in BOOLEAN : Skip(e, onSkipped)
               \/ RequestRerunGet(e) \/ Return(e) \/ Throw(e)
               \/ ConsumeRerunGet(e) \/ ReleaseGet(e) \/ HeartbeatGet(e) \/ Crash(e)
        PROVE  FenceSound'
    <2>1. UNCHANGED <<lock, fence, last>>
      BY <1>6 DEF Skip, RequestRerunGet, Return, Throw, ConsumeRerunGet, ReleaseGet, HeartbeatGet,
                  Crash
    <2>2. \A f \in Exec : pc'[f] = "checked" => pc[f] = "checked"
      BY <1>1, <1>6 DEF Skip, RequestRerunGet, Return, Throw, ConsumeRerunGet, ReleaseGet,
                        HeartbeatGet, Crash
    <2> QED
      BY <1>3, <2>1, <2>2
  <1>7. ASSUME NEW e \in Exec,
               RequestRerunPut(e) \/ ConsumeRerunPut(e) \/ ReleasePut(e) \/ HeartbeatPut(e)
        PROVE  FenceSound'
    <2>1. UNCHANGED <<fence, last>> /\ lock'.fence = lock.fence
      BY <1>7, PutKeeps DEF RequestRerunPut, ConsumeRerunPut, ReleasePut, HeartbeatPut, Put
    <2>2. \A f \in Exec : pc'[f] = "checked" => pc[f] = "checked"
      BY <1>1, <1>7 DEF RequestRerunPut, ConsumeRerunPut, ReleasePut, HeartbeatPut, Put
    <2> QED
      BY <1>3, <2>1, <2>2
  <1>8. ASSUME Expire PROVE FenceSound'
    <2>1. UNCHANGED <<pc, fence, last>> /\ lock'.fence = lock.fence
      BY <1>1, <1>8 DEF Expire, Lock
    <2> QED
      BY <1>3, <2>1
  <1> QED
    BY <1>2, <1>4, <1>5, <1>6, <1>7, <1>8 DEF Next

\* Nobody takes a lock that is alive, and its holder gives it back before it is done.
LEMMA HolderStep ==
    ASSUME Interference = {}, LockInvariant, Next
    PROVE  HolderSound'
  <1>1. TypeOK /\ GetSound /\ HolderSound /\ lock \in Lock
    BY DEF LockInvariant, TypeOK
  <1> USE DEF HolderSound, TypeOK, Working, Read
  <1>2. ASSUME NEW e \in Exec, TryAcquire(e) PROVE HolderSound'
    <2>1. \A f \in Exec : ~Read(f)
      BY <1>1, <1>2, Alone DEF TryAcquire, GetSound
    <2>2. lapses = 0 => Working = {}
      BY <1>1, <1>2 DEF TryAcquire
    <2>3. /\ pc' = [pc EXCEPT ![e] = "run"] /\ round' = [round EXCEPT ![e] = 1]
          /\ lock'.holder = e /\ lock'.live = TRUE /\ UNCHANGED <<copy, lapses>>
      BY <1>2 DEF TryAcquire
    <2> QED
      BY <1>1, <2>1, <2>2, <2>3
  <1>3. ASSUME UNCHANGED <<lock, round, lapses>>,
               \A f \in Exec : pc'[f] = "consume" => pc[f] = "consume" \/ round[f] = 1,
               Working' \subseteq Working,
               \A f \in Exec : (Read(f)' /\ pc'[f] \in {"consume", "release"}) =>
                   (Read(f) /\ pc[f] = pc'[f]) \/ lock.holder = f
        PROVE  HolderSound'
    BY <1>1, <1>3
  <1>4. ASSUME NEW e \in Exec, \E onSkipped \in BOOLEAN : Skip(e, onSkipped) PROVE HolderSound'
    BY <1>1, <1>4 DEF Skip
  <1>5. ASSUME NEW e \in Exec, RequestRerunGet(e) PROVE HolderSound'
    BY <1>1, <1>5 DEF RequestRerunGet, Get
  <1>6. ASSUME NEW e \in Exec, AssertFence(e) \/ Write(e) PROVE HolderSound'
    BY <1>1, <1>6 DEF AssertFence, Write
  <1>7. ASSUME NEW e \in Exec, Return(e) \/ Throw(e) PROVE HolderSound'
    <2>1. ~Read(e) /\ pc[e] \in {"run", "ran"} /\ UNCHANGED <<lock, round, copy, lapses>>
      BY <1>1, <1>7 DEF Return, Throw, GetSound
    <2>2. \/ pc' = [pc EXCEPT ![e] = "release"]
          \/ pc' = [pc EXCEPT ![e] = "consume"] /\ round[e] = 1
      BY <1>7 DEF Return, Throw
    <2> QED
      BY <1>1, <2>1, <2>2
  <1>8. ASSUME NEW e \in Exec, ConsumeRerunGet(e) \/ ReleaseGet(e) PROVE HolderSound'
    <2>1. ~Read(e) /\ UNCHANGED <<lock, round, lapses>>
      BY <1>8 DEF ConsumeRerunGet, ReleaseGet, Get
    <2>2. \/ copy' = [copy EXCEPT ![e] = lock] /\ lock.holder = e /\ UNCHANGED pc
          \/ copy' = copy /\ pc' = [pc EXCEPT ![e] = "release"]
          \/ copy' = copy /\ pc' = [pc EXCEPT ![e] = "done"]
      BY <1>8 DEF ConsumeRerunGet, ReleaseGet
    <2> QED
      BY <1>1, <2>1, <2>2
  <1>9. ASSUME NEW e \in Exec, RequestRerunPut(e) \/ ConsumeRerunPut(e) PROVE HolderSound'
    <2>1. lock'.holder = lock.holder /\ lock'.live = lock.live
      BY <1>1, <1>9 DEF RequestRerunPut, ConsumeRerunPut, Put, GetSound, Lock
    <2>2. /\ pc[e] = "ask" /\ pc' = [pc EXCEPT ![e] = "done"] /\ UNCHANGED round
          \/ /\ pc[e] = "consume" /\ pc' = [pc EXCEPT ![e] = "run"]
             /\ round' = [round EXCEPT ![e] = round[e] + 1]
      BY <1>9 DEF RequestRerunPut, ConsumeRerunPut, Put
    <2>3. copy' = [copy EXCEPT ![e] = NoLock] /\ UNCHANGED lapses
      BY <1>9 DEF RequestRerunPut, ConsumeRerunPut, Put
    <2> QED
      BY <1>1, <2>1, <2>2, <2>3
  <1>10. ASSUME NEW e \in Exec, ReleasePut(e) PROVE HolderSound'
    <2>1. lock'.holder = lock.holder /\ lock.holder = e /\ pc[e] = "release"
      BY <1>1, <1>10, PutKeeps DEF ReleasePut, Put
    <2>2. lapses = 0 => Working = {}
      BY <1>1, <2>1
    <2>3. /\ pc' = [pc EXCEPT ![e] = "done"] /\ UNCHANGED <<round, lapses>>
          /\ copy' = [copy EXCEPT ![e] = NoLock]
      BY <1>10 DEF ReleasePut, Put
    <2> QED
      BY <1>1, <2>1, <2>2, <2>3
  <1>11. ASSUME NEW e \in Exec, HeartbeatGet(e) PROVE HolderSound'
    BY <1>1, <1>11 DEF HeartbeatGet
  <1>12. ASSUME NEW e \in Exec, HeartbeatPut(e) PROVE HolderSound'
    <2>1. lock'.holder = lock.holder /\ lock'.live = TRUE
      BY <1>1, <1>12 DEF HeartbeatPut, GetSound, Lock
    <2>2. UNCHANGED <<pc, round, copy, lapses>>
      BY <1>12 DEF HeartbeatPut
    <2> QED
      BY <1>1, <2>1, <2>2
  <1>13. ASSUME NEW e \in Exec, Crash(e) PROVE HolderSound'
    BY <1>1, <1>13 DEF Crash
  <1>14. ASSUME Expire PROVE HolderSound'
    <2>1. UNCHANGED <<pc, round, copy>> /\ lock'.holder = lock.holder
      BY <1>1, <1>14 DEF Expire, Lock
    <2>2. lapses' = 0 => lapses = 0 /\ pc[lock.holder] = "done"
      BY <1>1, <1>14 DEF Expire
    <2>3. lapses' = 0 => Working = {}
      BY <1>1, <2>2
    <2> QED
      BY <1>1, <2>1, <2>3
  <1> QED
    BY <1>2, <1>4, <1>5, <1>6, <1>7, <1>8, <1>9, <1>10, <1>11, <1>12, <1>13, <1>14 DEF Next

\* Whoever takes the flag down runs for everybody who has put it up.
LEMMA RerunStep ==
    ASSUME Interference = {}, LockInvariant, Next
    PROVE  RerunSound'
  <1>1. TypeOK /\ GetSound /\ HolderSound /\ RerunSound /\ lock \in Lock
    BY DEF LockInvariant, TypeOK
  <1>2. lapses \in Nat /\ crashes \in Nat
    BY <1>1, LockAssumption DEF TypeOK
  <1> USE DEF RerunSound, TypeOK, Working
  <1>3. ASSUME UNCHANGED <<round, owed, lapses, crashes>>, lock'.holder = lock.holder,
               lock'.rerun = lock.rerun, Working' = Working
        PROVE  RerunSound'
    BY <1>1, <1>3
  <1>4. ASSUME NEW e \in Exec, TryAcquire(e) \/ ConsumeRerunPut(e) PROVE RerunSound'
    BY <1>4 DEF TryAcquire, ConsumeRerunPut
  <1>5. ASSUME NEW e \in Exec,
               \/ \E onSkipped \in BOOLEAN : Skip(e, onSkipped)
               \/ RequestRerunGet(e) \/ AssertFence(e) \/ Write(e) \/ HeartbeatGet(e)
        PROVE  RerunSound'
    <2>1. Working' = Working
      BY <1>1, <1>5 DEF Skip, RequestRerunGet, Get, AssertFence, Write, HeartbeatGet
    <2>2. UNCHANGED <<lock, round, owed, lapses, crashes>>
      BY <1>5 DEF Skip, RequestRerunGet, AssertFence, Write, HeartbeatGet
    <2> QED
      BY <1>3, <2>1, <2>2
  <1>6. ASSUME NEW e \in Exec, RequestRerunPut(e) PROVE RerunSound'
    <2>1. lock'.holder = lock.holder /\ lock'.rerun = TRUE
      BY <1>1, <1>6 DEF RequestRerunPut, Put, GetSound, Lock
    <2>2. Working' = Working /\ UNCHANGED <<round, lapses, crashes>>
      BY <1>1, <1>6 DEF RequestRerunPut, Put
    <2>3. owed' = [owed EXCEPT ![e] = IF Early THEN "early" ELSE "late"]
      BY <1>6 DEF RequestRerunPut
    <2>4. Early => lock.holder \in Working /\ round[lock.holder] = 1
      BY DEF Early
    <2> QED
      BY <1>1, <2>1, <2>2, <2>3, <2>4
  <1>7. ASSUME NEW e \in Exec, Return(e) PROVE RerunSound'
    <2>1. /\ UNCHANGED <<lock, round, owed, lapses, crashes>> /\ pc[e] = "run"
          /\ pc' = [pc EXCEPT ![e] = IF round[e] = 1 THEN "consume" ELSE "release"]
      BY <1>7 DEF Return
    <2>2. lapses = 0 => lock.holder = e
      BY <1>1, <2>1 DEF HolderSound
    <2>3. CASE round[e] = 1
      BY <1>1, <2>1, <2>3
    <2>4. CASE round[e] # 1
      BY <1>1, <1>2, <2>1, <2>2, <2>4
    <2> QED
      BY <2>3, <2>4
  <1>8. ASSUME NEW e \in Exec, Throw(e) PROVE RerunSound'
    BY <1>1, <1>8 DEF Throw
  <1>9. ASSUME NEW e \in Exec, ConsumeRerunGet(e) PROVE RerunSound'
    <2>1. UNCHANGED <<lock, round, owed, lapses, crashes>> /\ pc[e] = "consume"
      BY <1>9 DEF ConsumeRerunGet, Get
    <2>2. lapses = 0 => lock.holder = e
      BY <1>1, <2>1 DEF HolderSound
    <2>3. CASE lock.holder = e /\ lock.rerun
      BY <1>1, <1>9, <2>1, <2>3 DEF ConsumeRerunGet
    <2>4. CASE ~(lock.holder = e /\ lock.rerun)
      BY <1>1, <1>2, <2>1, <2>2, <2>4
    <2> QED
      BY <2>3, <2>4
  <1>10. ASSUME NEW e \in Exec, ReleaseGet(e) PROVE RerunSound'
    <2>1. Working' = Working
      BY <1>1, <1>10 DEF ReleaseGet, Get
    <2> QED
      BY <1>3, <1>10, <2>1 DEF ReleaseGet
  <1>11. ASSUME NEW e \in Exec, ReleasePut(e) PROVE RerunSound'
    <2>1. lock.holder = e /\ pc[e] = "release" /\ UNCHANGED <<round, owed, lapses, crashes>>
      BY <1>1, <1>11 DEF ReleasePut, Put, HolderSound
    <2> QED
      BY <1>1, <2>1
  <1>12. ASSUME NEW e \in Exec, HeartbeatPut(e) PROVE RerunSound'
    <2>1. lock'.holder = lock.holder /\ lock'.rerun = lock.rerun
      BY <1>1, <1>12 DEF HeartbeatPut, GetSound, Lock
    <2> QED
      BY <1>3, <1>12, <2>1 DEF HeartbeatPut
  <1>13. ASSUME NEW e \in Exec, Crash(e) PROVE RerunSound'
    BY <1>2, <1>13 DEF Crash
  <1>14. ASSUME Expire PROVE RerunSound'
    <2>1. crashes' = crashes /\ UNCHANGED <<pc, round, owed>>
      BY <1>14 DEF Expire
    <2>2. lapses' = 0 => lapses = 0 /\ pc[lock.holder] = "done"
      BY <1>2, <1>14 DEF Expire
    <2>3. lapses' \in Nat /\ crashes' \in Nat
      BY <1>2, <1>14 DEF Expire
    <2>4. lapses' + crashes' = 0 => lapses' = 0 /\ crashes' = 0
      BY <2>3, SumZero
    <2>5. lapses' + crashes' = 0 => \A f \in Exec : owed[f] # "early"
      BY <1>1, <1>2, <2>1, <2>2, <2>4
    <2> QED
      BY <2>1, <2>5
  <1> QED
    BY <1>4, <1>5, <1>6, <1>7, <1>8, <1>9, <1>10, <1>11, <1>12, <1>13, <1>14 DEF Next

\* The invariant depends on the variables of the module only.
LEMMA StutterLock == LockInvariant /\ UNCHANGED vars => LockInvariant'
  BY DEF LockInvariant, vars, TypeOK, GetSound, FenceSound, UniqueFence, HolderSound, RerunSound,
         Read, Beating, Working

\* The invariant is inductive.
LEMMA StepLock ==
    ASSUME Interference = {}
    PROVE  LockInvariant /\ [Next]_vars => LockInvariant'
  <1>1. LockInvariant /\ Next => LockInvariant'
    BY TypeStep, GetStep, FenceStep, HolderStep, RerunStep DEF LockInvariant
  <1> QED
    BY <1>1, StutterLock

-----------------------------------------------------------------------------
(* Theorems.  Each holds for every set of executors and every bound, under  *)
(* the one assumption that nobody comes between a get and its put, or       *)
(* between a fence check and its write.                                     *)

\* The whole invariant: gets are current, fences are largest and unique, holders hold, and a
\* registered rerun still has somebody who will look at the flag.
THEOREM InvariantHolds ==
    ASSUME Interference = {}
    PROVE  Spec => []LockInvariant
  BY InitLock, StepLock, PTL DEF Spec

\* The row and every executor keep their types; no executor begins a third round.
THEOREM TypeCorrect ==
    ASSUME Interference = {}
    PROVE  Spec => []TypeOK
  <1>1. LockInvariant => TypeOK
    BY DEF LockInvariant
  <1> QED
    BY <1>1, InvariantHolds, PTL

\* Two executors that withLock has given the lock have different fences.
THEOREM UniqueFenceAlways ==
    ASSUME Interference = {}
    PROVE  Spec => []UniqueFence
  <1>1. LockInvariant => UniqueFence
    BY DEF LockInvariant, FenceSound
  <1> QED
    BY <1>1, InvariantHolds, PTL

\* As long as leases are renewed in time, two executors never work on the resource together:
\* whoever does is the row's holder.
THEOREM MutualExclusionAlways ==
    ASSUME Interference = {}
    PROVE  Spec => []MutualExclusion
  <1>1. LockInvariant => MutualExclusion
    <2> SUFFICES ASSUME LockInvariant, lapses = 0 PROVE Cardinality(Working) <= 1
      BY DEF MutualExclusion
    <2>1. Working \subseteq {lock.holder}
      BY DEF LockInvariant, HolderSound
    <2>2. IsFiniteSet({lock.holder}) /\ Cardinality({lock.holder}) = 1
      BY FS_Singleton
    <2>3. IsFiniteSet(Working) /\ Cardinality(Working) <= Cardinality({lock.holder})
      BY <2>1, <2>2, FS_Subset
    <2> QED
      BY <2>2, <2>3
  <1> QED
    BY <1>1, InvariantHolds, PTL

\* A rerun registered in the holder's first round has been run when everybody is done, unless
\* a lease lapsed or somebody died.
THEOREM EarlyRerunServedAlways ==
    ASSUME Interference = {}
    PROVE  Spec => []EarlyRerunServed
  <1>1. LockInvariant => EarlyRerunServed
    BY DEF LockInvariant, RerunSound, EarlyRerunServed, Quiet, Working
  <1> QED
    BY <1>1, InvariantHolds, PTL

\* The fence in the row never goes back: every put writes back the fence it has read, and
\* nobody has taken the lock in between.
THEOREM FenceNeverBack ==
    ASSUME Interference = {}
    PROVE  Spec => FenceGrows
  <1>1. ASSUME LockInvariant, Next PROVE lock'.fence >= lock.fence
    <2>1. lock.fence \in Nat
      BY <1>1 DEF LockInvariant, TypeOK, Lock
    <2>2. ASSUME NEW e \in Exec, TryAcquire(e) PROVE lock'.fence >= lock.fence
      BY <2>1, <2>2 DEF TryAcquire
    <2> QED
      BY <1>1, <2>1, <2>2, RowStep
  <1>2. LockInvariant /\ [Next]_vars => [lock'.fence >= lock.fence]_vars
    BY <1>1
  <1> QED
    BY <1>2, InvariantHolds, PTL DEF Spec, FenceGrows

\* A stale executor writes nothing: the fences of the writes that went through never go back,
\* because whoever has passed the check still has the row's fence, the largest of all.
THEOREM WritesStayInOrder ==
    ASSUME Interference = {}
    PROVE  Spec => WritesInOrder
  <1>1. ASSUME LockInvariant, Next PROVE last' >= last
    <2>1. last \in Nat /\ lock.fence \in Nat /\ last <= lock.fence
      BY <1>1 DEF LockInvariant, TypeOK, Lock, FenceSound
    <2>2. ASSUME NEW e \in Exec, Write(e) PROVE last' >= last
      BY <1>1, <2>1, <2>2 DEF Write, LockInvariant, FenceSound
    <2>3. ASSUME ~\E e \in Exec : Write(e) PROVE last' = last
      BY <1>1, <2>3 DEF Next, TryAcquire, Skip, RequestRerunGet, RequestRerunPut, AssertFence,
          Return, Throw, ConsumeRerunGet, ConsumeRerunPut, ReleaseGet, ReleasePut, HeartbeatGet,
          HeartbeatPut, Crash, Expire, Put
    <2> QED
      BY <2>1, <2>2, <2>3
  <1>2. LockInvariant /\ [Next]_vars => [last' >= last]_vars
    BY <1>1
  <1> QED
    BY <1>2, InvariantHolds, PTL DEF Spec, WritesInOrder

\* Executors exclude each other and are told apart by their fences.
THEOREM ExclusiveHolderAlways ==
    ASSUME Interference = {}
    PROVE  Spec => []ExclusiveHolder
  <1>1. LockInvariant /\ MutualExclusion /\ UniqueFence <=> ExclusiveHolder
    BY DEF ExclusiveHolder
  <1> QED
    BY <1>1, InvariantHolds, MutualExclusionAlways, UniqueFenceAlways, PTL

\* Neither the row nor the resource ever sees an older fence after a newer one.
THEOREM FencesStayInOrder ==
    ASSUME Interference = {}
    PROVE  Spec => FencesInOrder
  BY FenceNeverBack, WritesStayInOrder DEF FencesInOrder

=============================================================================
