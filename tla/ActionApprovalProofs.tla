------------------------ MODULE ActionApprovalProofs ------------------------
(***************************************************************************)
(* ApprovalInvariant is inductive, for any number of drafts, users, chains *)
(* and concurrent requests, with or without overlap, failed writes and     *)
(* restarts; type correctness and three safety properties follow.          *)
(*                                                                         *)
(* Where requests for one draft do not overlap and no write fails, each    *)
(* request is alone with its record (AloneInvariant): every step is one of *)
(* ActionLifecycle or none, and, if nothing is cut off by a restart, what  *)
(* a draft came to has been said (SpokenInvariant).                        *)
(***************************************************************************)
EXTENDS ActionApproval, FiniteSetTheorems, TLAPS

-----------------------------------------------------------------------------
(* What the handlers build is sound *)

\* A submitted draft is pending, with every step of the chain undecided.
LEMMA SubmittedSound ==
    ASSUME NEW rec \in Record, NEW chain \in Seq(Role)
    PROVE  /\ Submitted(rec, chain) \in Record
           /\ Sound(Submitted(rec, chain))
           /\ Submitted(rec, chain).status = "PENDING_APPROVAL"
<1> DEFINE steps == [i \in 1..Len(chain) |->
                        [role |-> chain[i], decision |-> "NONE", by |-> NoUser]]
<1>1. steps \in Seq(Step)
  BY DEF Step
<1>2. Submitted(rec, chain) = [rec EXCEPT !.status = "PENDING_APPROVAL", !.steps = steps]
  BY DEF Submitted
<1>3. DOMAIN steps = 1..Len(chain) /\ \A i \in DOMAIN steps : steps[i].decision = "NONE"
  OBVIOUS
<1> HIDE DEF steps
<1>4. Submitted(rec, chain).steps = steps /\ Submitted(rec, chain).status = "PENDING_APPROVAL"
  BY <1>2 DEF Record
<1>5. Submitted(rec, chain) \in Record
  BY <1>1, <1>2 DEF Record, Status
<1>6. Sound(Submitted(rec, chain))
  BY <1>3, <1>4 DEF Sound, Granted
<1> QED
  BY <1>4, <1>5, <1>6

\* Deciding the current step of a sound pending draft touches that step alone.
LEMMA DecidedSteps ==
    ASSUME NEW rec \in Record, NEW u \in User, NEW i \in DOMAIN rec.steps,
           NEW decision \in {"APPROVE", "REJECT"}
    PROVE  LET after == Decided(rec, i, u, decision) IN
           /\ after \in Record
           /\ after.status = rec.status
           /\ after.origin = rec.origin
           /\ DOMAIN after.steps = DOMAIN rec.steps
           /\ \A j \in DOMAIN rec.steps : after.steps[j].role = rec.steps[j].role
           /\ \A j \in DOMAIN rec.steps \ {i} : after.steps[j] = rec.steps[j]
           /\ after.steps[i].decision = decision
           /\ after.steps[i].by = u
<1> DEFINE step == [rec.steps[i] EXCEPT !.decision = decision, !.by = u]
           steps == [rec.steps EXCEPT ![i] = step]
<1>1. rec.steps \in Seq(Step) /\ rec.steps[i] \in Step
  BY DEF Record
<1>2. step \in Step /\ step.decision = decision /\ step.by = u /\ step.role = rec.steps[i].role
  BY <1>1 DEF Step
<1>3. Decided(rec, i, u, decision) = [rec EXCEPT !.steps = steps]
  BY <1>1 DEF Decided, Record
<1> HIDE DEF step
<1>4. /\ steps \in Seq(Step)
      /\ DOMAIN steps = DOMAIN rec.steps
      /\ steps[i] = step
      /\ \A j \in DOMAIN rec.steps \ {i} : steps[j] = rec.steps[j]
  BY <1>1, <1>2
<1> HIDE DEF steps
<1>5. /\ Decided(rec, i, u, decision) \in Record
      /\ Decided(rec, i, u, decision).steps = steps
      /\ Decided(rec, i, u, decision).status = rec.status
      /\ Decided(rec, i, u, decision).origin = rec.origin
  BY <1>3, <1>4 DEF Record
<1> QED
  BY <1>2, <1>4, <1>5

\* The part of Sound that does not look at the status survives a decision of the
\* current step by somebody entitled to it.
LEMMA DecidedSound ==
    ASSUME NEW rec \in Record, Sound(rec), NEW u \in User, NEW i \in DOMAIN rec.steps,
           MayDecide(u, rec, i), NEW decision \in {"APPROVE", "REJECT"},
           decision = "APPROVE" => u # rec.origin,
           NEW after, after = Decided(rec, i, u, decision)
    PROVE  /\ \A j \in DOMAIN after.steps :
                 after.steps[j].decision = "APPROVE" => Vouched(after, j)
           /\ \A j, k \in DOMAIN after.steps :
                 (j < k /\ after.steps[k].decision # "NONE") => after.steps[j].decision = "APPROVE"
           /\ \A j \in DOMAIN after.steps : j # i => after.steps[j].decision # "REJECT"
<1>1. /\ after.origin = rec.origin
      /\ DOMAIN after.steps = DOMAIN rec.steps
      /\ \A j \in DOMAIN rec.steps : after.steps[j].role = rec.steps[j].role
      /\ \A j \in DOMAIN rec.steps \ {i} : after.steps[j] = rec.steps[j]
      /\ after.steps[i].decision = decision
      /\ after.steps[i].by = u
  BY DecidedSteps
<1>2. DOMAIN rec.steps \subseteq Nat
  BY DEF Record
<1>3. rec.status = "PENDING_APPROVAL" /\ Holds(u, rec.steps[i].role)
  BY DEF MayDecide
<1>4. rec.steps[i].decision = "NONE" /\ \A j \in DOMAIN rec.steps : j < i => rec.steps[j].decision # "NONE"
  BY <1>2 DEF MayDecide, IsCurrent, Undecided
<1>5. \A j \in DOMAIN rec.steps : j < i => rec.steps[j].decision = "APPROVE"
  <2> SUFFICES ASSUME NEW j \in DOMAIN rec.steps, j < i PROVE rec.steps[j].decision = "APPROVE"
    OBVIOUS
  <2>1. rec.steps[j] \in Step
    BY DEF Record
  <2>2. rec.steps[j].decision # "REJECT"
    BY <1>3 DEF Sound
  <2> QED
    BY <1>4, <2>1, <2>2 DEF Step
<1>6. \A k \in DOMAIN rec.steps : i < k => rec.steps[k].decision = "NONE"
  BY <1>4 DEF Sound
<1>7. \A j \in DOMAIN after.steps : after.steps[j].decision = "APPROVE" => Vouched(after, j)
  <2> SUFFICES ASSUME NEW j \in DOMAIN rec.steps, after.steps[j].decision = "APPROVE"
               PROVE  Vouched(after, j)
    BY <1>1
  <2>1. CASE j = i
    BY <1>1, <1>3, <2>1 DEF Vouched
  <2>2. CASE j # i
    BY <1>1, <2>2 DEF Sound, Vouched
  <2> QED
    BY <2>1, <2>2
<1>8. ASSUME NEW j \in DOMAIN rec.steps, NEW k \in DOMAIN rec.steps,
             j < k, after.steps[k].decision # "NONE"
      PROVE  after.steps[j].decision = "APPROVE"
  <2>1. CASE k = i
    BY <1>1, <1>2, <1>5, <1>8, <2>1
  <2>2. CASE k # i
    <3>1. rec.steps[k].decision # "NONE"
      BY <1>1, <1>8, <2>2
    <3>2. rec.steps[j].decision = "APPROVE"
      BY <1>8, <3>1 DEF Sound
    <3>3. j # i
      BY <1>4, <3>2
    <3> QED
      BY <1>1, <3>2, <3>3
  <2> QED
    BY <2>1, <2>2
<1>9. \A j \in DOMAIN after.steps : j # i => after.steps[j].decision # "REJECT"
  BY <1>1, <1>3 DEF Sound
<1> QED
  BY <1>1, <1>7, <1>8, <1>9

\* An approval leaves a sound draft: pending while a step is open, otherwise approved.
LEMMA ApprovalSound ==
    ASSUME NEW rec \in Record, Sound(rec), NEW u \in User, NEW i \in DOMAIN rec.steps,
           MayDecide(u, rec, i), u # rec.origin
    PROVE  /\ AfterApproval(rec, i, u) \in Record
           /\ Sound(AfterApproval(rec, i, u))
           /\ AfterApproval(rec, i, u).status \in {"PENDING_APPROVAL", "APPROVED"}
<1> DEFINE after == Decided(rec, i, u, "APPROVE")
<1>1. /\ after \in Record
      /\ after.status = "PENDING_APPROVAL"
      /\ DOMAIN after.steps = DOMAIN rec.steps
      /\ after.steps[i].decision = "APPROVE"
  BY DecidedSteps DEF MayDecide
<1>2. /\ \A j \in DOMAIN after.steps :
            after.steps[j].decision = "APPROVE" => Vouched(after, j)
      /\ \A j, k \in DOMAIN after.steps :
            (j < k /\ after.steps[k].decision # "NONE") => after.steps[j].decision = "APPROVE"
      /\ \A j \in DOMAIN after.steps : j # i => after.steps[j].decision # "REJECT"
  BY DecidedSound
<1> HIDE DEF after
<1>3. AfterApproval(rec, i, u) =
          IF Undecided(after) = {} THEN [after EXCEPT !.status = "APPROVED"] ELSE after
  BY DEF AfterApproval, after
<1>4. CASE Undecided(after) = {}
  <2> DEFINE final == [after EXCEPT !.status = "APPROVED"]
  <2>1. /\ final \in Record
        /\ final.steps = after.steps
        /\ final.origin = after.origin
        /\ final.status = "APPROVED"
    BY <1>1 DEF Record, Status
  <2>2. \A j \in DOMAIN after.steps : after.steps[j].decision = "APPROVE"
    <3> SUFFICES ASSUME NEW j \in DOMAIN after.steps PROVE after.steps[j].decision = "APPROVE"
      OBVIOUS
    <3>0. after.steps \in Seq(Step)
      BY <1>1 DEF Record
    <3>1. after.steps[j].decision \in {"NONE", "APPROVE", "REJECT"}
      <4>1. after.steps[j] \in Step
        BY <3>0
      <4> QED
        BY <4>1 DEF Step
    <3>2. after.steps[j].decision # "NONE"
      BY <1>4 DEF Undecided
    <3> QED
      BY <1>1, <1>2, <3>1, <3>2
  <2>3. after.steps # <<>>
    BY <1>1
  <2> HIDE DEF final
  <2>4. \A j \in DOMAIN final.steps : Vouched(final, j)
    BY <1>2, <2>1, <2>2 DEF Vouched
  <2>5. Sound(final)
    BY <2>1, <2>2, <2>3, <2>4 DEF Sound
  <2> QED
    BY <1>3, <1>4, <2>1, <2>5 DEF final
<1>5. CASE Undecided(after) # {}
  <2>1. Sound(after)
    BY <1>1, <1>2 DEF Sound, Granted
  <2> QED
    BY <1>1, <1>3, <1>5, <2>1
<1> QED
  BY <1>4, <1>5

\* A rejection leaves a sound draft.
LEMMA RejectionSound ==
    ASSUME NEW rec \in Record, Sound(rec), NEW u \in User, NEW i \in DOMAIN rec.steps,
           MayDecide(u, rec, i),
           NEW after, after = [Decided(rec, i, u, "REJECT") EXCEPT !.status = "REJECTED"]
    PROVE  after \in Record /\ Sound(after) /\ after.status = "REJECTED"
<1> DEFINE decided == Decided(rec, i, u, "REJECT")
<1>1. decided \in Record
  BY DecidedSteps
<1>2. /\ \A j \in DOMAIN decided.steps :
            decided.steps[j].decision = "APPROVE" => Vouched(decided, j)
      /\ \A j, k \in DOMAIN decided.steps :
            (j < k /\ decided.steps[k].decision # "NONE") => decided.steps[j].decision = "APPROVE"
  BY DecidedSound
<1> HIDE DEF decided
<1>3. /\ after \in Record
      /\ after.steps = decided.steps
      /\ after.origin = decided.origin
      /\ after.status = "REJECTED"
  BY <1>1 DEF decided, Record, Status
<1> QED
  BY <1>2, <1>3 DEF Sound, Vouched, Granted

\* A change of status keeps a record sound, unless it grants what was not granted or
\* reopens what was rejected.
LEMMA RestatusSound ==
    ASSUME NEW rec \in Record, Sound(rec), NEW s \in Status,
           s # "PENDING_APPROVAL", s \in Granted => rec.status \in Granted
    PROVE  /\ [rec EXCEPT !.status = s] \in Record
           /\ Sound([rec EXCEPT !.status = s])
           /\ [rec EXCEPT !.status = s].status = s
<1> DEFINE after == [rec EXCEPT !.status = s]
<1>1. /\ after \in Record
      /\ after.steps = rec.steps
      /\ after.origin = rec.origin
      /\ after.status = s
  BY DEF Record
<1> HIDE DEF after
<1>2. Sound(after)
  BY <1>1 DEF Sound, Vouched
<1> QED
  BY <1>1, <1>2 DEF after

\* The records nothing has happened to.
LEMMA AbsentSound ==
    /\ Absent \in Record /\ Sound(Absent)
    /\ Idle \in Request /\ RequestOK(Idle) /\ Idle.pc = "idle"
<1>1. Absent \in Record /\ Absent.steps = <<>> /\ Absent.status = "ABSENT"
  BY DEF Absent, Record, Status
<1>2. Sound(Absent)
  BY <1>1 DEF Sound, Granted
<1>3. Idle \in Request /\ Idle.copy = Absent /\ Idle.pc = "idle"
  BY <1>1, BoundAssumption DEF Idle, Request, Pc
<1> QED
  BY <1>1, <1>2, <1>3 DEF RequestOK, StatusAt, Announced

-----------------------------------------------------------------------------
(* One request moves *)

\* The invariant survives a step of request r to the standing q, when q is sound and
\* the shared state the step leaves is sound.
LEMMA RequestMoves ==
    ASSUME ApprovalInvariant, NEW r \in Req, NEW q \in Request,
           req' = [req EXCEPT ![r] = q],
           q.pc # "idle" => q.draft \in Draft,
           Sound(q.copy),
           q.copy.status \in StatusAt(q.pc),
           Announced(q) => HasEvent(q.draft, "APPROVED")',
           store' \in [Draft -> Record],
           \A d \in Draft : Sound(store'[d]),
           events' \in [Draft -> Seq(Event)],
           \A d \in Draft : HasEvent(d, "APPROVED") => HasEvent(d, "APPROVED")',
           inbox' \subseteq Notice,
           applied' \in [Draft -> Nat],
           \A d \in Draft : applied'[d] > 0 => HasEvent(d, "APPROVED")',
           faults' \in 0..MaxFaults,
           crashes' \in 0..MaxCrashes
    PROVE  ApprovalInvariant'
<1>1. req \in [Req -> Request] /\ \A p \in Req : req[p].pc # "idle" => req[p].draft \in Draft
  BY DEF ApprovalInvariant, TypeOK
<1>2. req' \in [Req -> Request] /\ req'[r] = q /\ \A p \in Req \ {r} : req'[p] = req[p]
  BY <1>1
<1>3. TypeOK'
  BY <1>1, <1>2 DEF TypeOK
<1>4. \A p \in Req : RequestOK(req[p])'
  <2> SUFFICES ASSUME NEW p \in Req PROVE RequestOK(req[p])'
    OBVIOUS
  <2>1. CASE p = r
    BY <1>2, <2>1 DEF RequestOK
  <2>2. CASE p # r
    <3>1. RequestOK(req[p]) /\ req'[p] = req[p]
      BY <1>2, <2>2 DEF ApprovalInvariant
    <3>2. Announced(req[p]) => req[p].draft \in Draft
      BY <1>1 DEF Announced
    <3> QED
      BY <3>1, <3>2 DEF RequestOK
  <2> QED
    BY <2>1, <2>2
<1> QED
  BY <1>3, <1>4 DEF ApprovalInvariant

\* A request that only reads: the shared state is as it was.
LEMMA RequestReads ==
    ASSUME ApprovalInvariant, NEW r \in Req, NEW q \in Request,
           req' = [req EXCEPT ![r] = q],
           q.pc # "idle" => q.draft \in Draft,
           RequestOK(q),
           UNCHANGED <<store, events, applied, crashes>>,
           inbox' \subseteq Notice,
           faults' \in 0..MaxFaults
    PROVE  ApprovalInvariant'
<1>1. /\ store' \in [Draft -> Record]
      /\ events' \in [Draft -> Seq(Event)]
      /\ applied' \in [Draft -> Nat]
      /\ crashes' \in 0..MaxCrashes
      /\ \A d \in Draft : Sound(store'[d])
  BY DEF ApprovalInvariant, TypeOK
<1>2. \A d \in Draft \cup {q.draft} : HasEvent(d, "APPROVED") => HasEvent(d, "APPROVED")'
  BY DEF HasEvent
<1>3. \A d \in Draft : applied'[d] > 0 => HasEvent(d, "APPROVED")'
  BY <1>2 DEF ApprovalInvariant
<1>4. Sound(q.copy) /\ q.copy.status \in StatusAt(q.pc)
      /\ (Announced(q) => HasEvent(q.draft, "APPROVED")')
  BY <1>2 DEF RequestOK
<1> QED
  BY <1>1, <1>2, <1>3, <1>4, RequestMoves

\* A request ends: it threw, or it was done.
LEMMA RequestEnds ==
    ASSUME ApprovalInvariant, NEW r \in Req,
           req' = Finished(r),
           UNCHANGED <<store, events, applied, crashes>>,
           inbox' \subseteq Notice,
           faults' \in 0..MaxFaults
    PROVE  ApprovalInvariant'
  BY RequestReads, AbsentSound DEF Finished

\* A request that passed its checks holds the copy it is about to put.
LEMMA RequestHolds ==
    ASSUME ApprovalInvariant, NEW r \in Req, NEW d \in Draft,
           NEW copy \in Record, Sound(copy),
           copy.status \in {"PENDING_APPROVAL", "APPROVED", "REJECTED", "CANCELLED"},
           req' = [req EXCEPT ![r] = Holding(d, copy)],
           UNCHANGED <<store, events, inbox, applied, faults, crashes>>
    PROVE  ApprovalInvariant'
<1>1. /\ Holding(d, copy) \in Request
      /\ Holding(d, copy).pc = "put"
      /\ Holding(d, copy).draft = d
      /\ Holding(d, copy).copy = copy
  BY BoundAssumption DEF Holding, Request, Pc
<1>2. RequestOK(Holding(d, copy))
  BY <1>1 DEF RequestOK, StatusAt, Announced
<1>3. inbox' \subseteq Notice /\ faults' \in 0..MaxFaults
  BY DEF ApprovalInvariant, TypeOK
<1> QED
  BY <1>1, <1>2, <1>3, RequestReads

-----------------------------------------------------------------------------
(* put and emit *)

\* What the invariant says of one request in flight.
LEMMA RequestFacts ==
    ASSUME ApprovalInvariant, NEW r \in Req
    PROVE  /\ req[r] \in Request
           /\ req[r].copy \in Record
           /\ req[r].tries \in 0..MaxAttempts
           /\ Sound(req[r].copy)
           /\ req[r].copy.status \in StatusAt(req[r].pc)
           /\ Announced(req[r]) => HasEvent(req[r].draft, "APPROVED")
           /\ req[r].pc # "idle" => req[r].draft \in Draft
  BY DEF ApprovalInvariant, TypeOK, RequestOK, Request

\* Moving the program counter of a request leaves the rest of it alone.
LEMMA AtMoves ==
    ASSUME ApprovalInvariant, NEW r \in Req, NEW pc \in Pc
    PROVE  LET q == [req[r] EXCEPT !.pc = pc] IN
           /\ At(r, pc) = [req EXCEPT ![r] = q]
           /\ q \in Request
           /\ q.pc = pc /\ q.draft = req[r].draft /\ q.copy = req[r].copy
<1>1. req[r] \in Request
  BY RequestFacts
<1> QED
  BY <1>1 DEF At, Request

\* Every put of a handler stores the copy the handler holds.
LEMMA PutPreserves ==
    ASSUME ApprovalInvariant, NEW r \in Req, NEW pc, NEW next,
           <<pc, next>> \in {<<"put", "emit">>, <<"execPut", "call">>,
                             <<"donePut", "doneEmit">>, <<"failPut", "failEmit">>},
           PutCopy(r, pc, next)
    PROVE  ApprovalInvariant'
<1> PICK q : q = [req[r] EXCEPT !.pc = next]
  OBVIOUS
<1>1. next \in Pc
  BY DEF Pc
<1>2. /\ req' = [req EXCEPT ![r] = q]
      /\ q \in Request
      /\ q.pc = next /\ q.draft = req[r].draft /\ q.copy = req[r].copy
  BY <1>1, AtMoves DEF PutCopy
<1>3. /\ req[r].copy \in Record /\ Sound(req[r].copy)
      /\ req[r].copy.status \in StatusAt(pc)
      /\ Announced(req[r]) => HasEvent(req[r].draft, "APPROVED")
      /\ req[r].draft \in Draft
  BY RequestFacts DEF PutCopy
<1>4. q.copy.status \in StatusAt(next)
  BY <1>2, <1>3 DEF StatusAt
<1>5. Announced(q) => Announced(req[r])
  BY <1>2 DEF Announced, PutCopy
<1>6. /\ events' \in [Draft -> Seq(Event)]
      /\ \A d \in Draft : HasEvent(d, "APPROVED") => HasEvent(d, "APPROVED")'
      /\ inbox' \subseteq Notice
      /\ applied' \in [Draft -> Nat]
      /\ \A d \in Draft : applied'[d] > 0 => HasEvent(d, "APPROVED")'
      /\ faults' \in 0..MaxFaults /\ crashes' \in 0..MaxCrashes
  BY DEF ApprovalInvariant, TypeOK, PutCopy, HasEvent
<1>7. store' \in [Draft -> Record] /\ \A d \in Draft : Sound(store'[d])
  BY <1>3 DEF ApprovalInvariant, TypeOK, PutCopy
<1>8. Announced(q) => HasEvent(q.draft, "APPROVED")'
  BY <1>2, <1>3, <1>5, <1>6
<1> QED
  BY <1>2, <1>3, <1>4, <1>6, <1>7, <1>8, RequestMoves

\* Every emit appends the status the copy has, and ends the request or lets it notify.
LEMMA EmitPreserves ==
    ASSUME ApprovalInvariant, NEW r \in Req, NEW pc \in {"emit", "doneEmit", "failEmit"},
           NEW after, EmitStatus(r, pc, after),
           \/ after = Finished(r)
           \/ pc = "emit" /\ after = At(r, "notify")
    PROVE  ApprovalInvariant'
<1> PICK d : d = req[r].draft
  OBVIOUS
<1> PICK e : e = req[r].copy.status
  OBVIOUS
<1>1. /\ req[r].copy \in Record /\ Sound(req[r].copy)
      /\ e \in StatusAt(pc)
      /\ d \in Draft
  BY RequestFacts DEF EmitStatus
<1>2. e \in Event
  BY <1>1 DEF StatusAt, Event, Status
<1>3. /\ events \in [Draft -> Seq(Event)]
      /\ events' = [events EXCEPT ![d] = Append(@, e)]
  BY DEF ApprovalInvariant, TypeOK, EmitStatus
<1>4. /\ store' \in [Draft -> Record] /\ \A x \in Draft : Sound(store'[x])
      /\ inbox' \subseteq Notice
      /\ applied' \in [Draft -> Nat] /\ applied' = applied
      /\ faults' \in 0..MaxFaults /\ crashes' \in 0..MaxCrashes
  BY DEF ApprovalInvariant, TypeOK, EmitStatus
<1>5. events' \in [Draft -> Seq(Event)]
  BY <1>1, <1>2, <1>3
<1>6. ASSUME NEW x \in Draft, HasEvent(x, "APPROVED")
      PROVE  HasEvent(x, "APPROVED")'
  <2>1. PICK i \in DOMAIN events[x] : events[x][i] = "APPROVED"
    BY <1>6 DEF HasEvent
  <2>2. events[x] \in Seq(Event) /\ (events'[x] = events[x] \/ events'[x] = Append(events[x], e))
    BY <1>3
  <2>3. i \in DOMAIN events'[x] /\ events'[x][i] = events[x][i]
    BY <2>1, <2>2, <1>2
  <2> QED
    BY <2>1, <2>3 DEF HasEvent
<1>7. e = "APPROVED" => HasEvent(d, "APPROVED")'
  <2>1. events[d] \in Seq(Event) /\ events'[d] = Append(events[d], e)
    BY <1>1, <1>3
  <2>2. Len(events[d]) + 1 \in DOMAIN events'[d] /\ events'[d][Len(events[d]) + 1] = e
    BY <2>1, <1>2
  <2> QED
    BY <2>2 DEF HasEvent
<1>8. \A x \in Draft : applied'[x] > 0 => HasEvent(x, "APPROVED")'
  BY <1>4, <1>6 DEF ApprovalInvariant
<1>9. CASE after = Finished(r)
  <2>1. req' = [req EXCEPT ![r] = Idle]
    BY <1>9 DEF EmitStatus, Finished
  <2>2. Sound(Idle.copy) /\ Idle.copy.status \in StatusAt(Idle.pc) /\ ~Announced(Idle)
    BY AbsentSound DEF RequestOK, Announced
  <2> QED
    BY <1>4, <1>5, <1>6, <1>8, <2>1, <2>2, AbsentSound, RequestMoves
<1>10. CASE pc = "emit" /\ after = At(r, "notify")
  <2> PICK q : q = [req[r] EXCEPT !.pc = "notify"]
    OBVIOUS
  <2>1. /\ req' = [req EXCEPT ![r] = q]
        /\ q \in Request
        /\ q.pc = "notify" /\ q.draft = d /\ q.copy = req[r].copy
    BY <1>10, AtMoves DEF EmitStatus, Pc
  <2>2. q.copy.status \in StatusAt(q.pc)
    BY <1>1, <1>10, <2>1 DEF StatusAt
  <2>3. Announced(q) => HasEvent(q.draft, "APPROVED")'
    BY <1>7, <2>1 DEF Announced
  <2> QED
    BY <1>1, <1>4, <1>5, <1>6, <1>8, <2>1, <2>2, <2>3, RequestMoves
<1> QED
  BY <1>9, <1>10

-----------------------------------------------------------------------------
(* Every action preserves the invariant *)

LEMMA InitEstablishes == Init => ApprovalInvariant
<1> SUFFICES ASSUME Init PROVE ApprovalInvariant
  OBVIOUS
<1>1. TypeOK
  BY AbsentSound, BoundAssumption DEF Init, TypeOK
<1> QED
  BY <1>1, AbsentSound DEF Init, ApprovalInvariant

LEMMA CreatePreserves ==
    ASSUME ApprovalInvariant, NEW r \in Req, NEW u \in User, NEW d \in Draft,
           NEW submitNow \in BOOLEAN, Create(r, u, d, submitNow)
    PROVE  ApprovalInvariant'
<1> PICK draft : draft = [Absent EXCEPT !.status = "DRAFT", !.origin = u]
  OBVIOUS
<1>1. draft \in Record /\ draft.steps = <<>> /\ draft.status = "DRAFT"
  <2>1. Absent \in Record /\ Absent.steps = <<>>
    BY AbsentSound DEF Absent
  <2> QED
    BY <2>1 DEF Record, Status
<1>2. Sound(draft)
  BY <1>1 DEF Sound, Granted
<1>3. store' \in [Draft -> Record] /\ \A x \in Draft : Sound(store'[x])
  BY <1>1, <1>2 DEF Create, ApprovalInvariant, TypeOK
<1> PICK q : q = IF submitNow THEN [Idle EXCEPT !.pc = "submit", !.draft = d] ELSE req[r]
  OBVIOUS
<1>4. /\ q \in Request
      /\ q.pc # "idle" => q.draft \in Draft
      /\ RequestOK(q)
      /\ req' = [req EXCEPT ![r] = q]
  <2>1. CASE submitNow
    <3>1. /\ q \in Request /\ q.pc = "submit" /\ q.draft = d /\ q.copy = Absent
      BY <2>1, AbsentSound DEF Idle, Request, Pc
    <3>2. RequestOK(q)
      BY <3>1, AbsentSound DEF RequestOK, StatusAt, Announced, Absent
    <3> QED
      BY <2>1, <3>1, <3>2 DEF Create
  <2>2. CASE ~submitNow
    <3>1. req \in [Req -> Request] /\ req' = req
      BY <2>2 DEF ApprovalInvariant, TypeOK, Create
    <3> QED
      BY <2>2, <3>1, RequestFacts DEF ApprovalInvariant
  <2> QED
    BY <2>1, <2>2
<1>5. Sound(q.copy) /\ q.copy.status \in StatusAt(q.pc)
      /\ (Announced(q) => HasEvent(q.draft, "APPROVED")')
  BY <1>4 DEF RequestOK, Create, HasEvent
<1>6. /\ events' \in [Draft -> Seq(Event)]
      /\ \A x \in Draft : HasEvent(x, "APPROVED") => HasEvent(x, "APPROVED")'
      /\ inbox' \subseteq Notice
      /\ applied' \in [Draft -> Nat]
      /\ \A x \in Draft : applied'[x] > 0 => HasEvent(x, "APPROVED")'
      /\ faults' \in 0..MaxFaults /\ crashes' \in 0..MaxCrashes
  BY DEF ApprovalInvariant, TypeOK, Create, HasEvent
<1> QED
  BY <1>3, <1>4, <1>5, <1>6, RequestMoves

LEMMA StoreFacts ==
    ASSUME ApprovalInvariant, NEW d \in Draft
    PROVE  store[d] \in Record /\ Sound(store[d])
  BY DEF ApprovalInvariant, TypeOK

LEMMA SubmitPreserves ==
    ASSUME ApprovalInvariant, NEW r \in Req, NEW d \in Draft,
           NEW chain \in Chains \cup {<<Admin>>}, Submit(r, d, chain)
    PROVE  ApprovalInvariant'
<1>1. chain \in Seq(Role)
  <2>1. CASE chain \in Chains
    BY <2>1, ChainAssumption
  <2>2. CASE chain = <<Admin>>
    BY <2>2, RoleAssumption
  <2> QED
    BY <2>1, <2>2
<1> QED
  BY <1>1, StoreFacts, SubmittedSound, RequestHolds DEF Submit

LEMMA ApprovePreserves ==
    ASSUME ApprovalInvariant, NEW r \in Req, NEW u \in User, NEW d \in Draft, Approve(r, u, d)
    PROVE  ApprovalInvariant'
<1>1. PICK i \in DOMAIN store[d].steps :
          /\ MayDecide(u, store[d], i)
          /\ u # store[d].origin
          /\ req' = [req EXCEPT ![r] = Holding(d, AfterApproval(store[d], i, u))]
  BY DEF Approve
<1>2. /\ AfterApproval(store[d], i, u) \in Record
      /\ Sound(AfterApproval(store[d], i, u))
      /\ AfterApproval(store[d], i, u).status \in {"PENDING_APPROVAL", "APPROVED"}
  BY <1>1, StoreFacts, ApprovalSound
<1> QED
  BY <1>1, <1>2, RequestHolds DEF Approve

LEMMA RejectPreserves ==
    ASSUME ApprovalInvariant, NEW r \in Req, NEW u \in User, NEW d \in Draft, Reject(r, u, d)
    PROVE  ApprovalInvariant'
<1>1. PICK i \in DOMAIN store[d].steps :
          /\ MayDecide(u, store[d], i)
          /\ req' = [req EXCEPT ![r] =
                Holding(d, [Decided(store[d], i, u, "REJECT") EXCEPT !.status = "REJECTED"])]
  BY DEF Reject
<1> PICK after : after = [Decided(store[d], i, u, "REJECT") EXCEPT !.status = "REJECTED"]
  OBVIOUS
<1>2. after \in Record /\ Sound(after) /\ after.status = "REJECTED"
  BY <1>1, StoreFacts, RejectionSound
<1> QED
  BY <1>1, <1>2, RequestHolds DEF Reject

LEMMA CancelPreserves ==
    ASSUME ApprovalInvariant, NEW r \in Req, NEW u \in User, NEW d \in Draft, Cancel(r, u, d)
    PROVE  ApprovalInvariant'
<1> PICK after : after = [store[d] EXCEPT !.status = "CANCELLED"]
  OBVIOUS
<1>1. after \in Record /\ Sound(after) /\ after.status = "CANCELLED"
  BY StoreFacts, RestatusSound DEF Status, Granted
<1> QED
  BY <1>1, RequestHolds DEF Cancel

LEMMA NotifyPreserves ==
    ASSUME ApprovalInvariant, NEW r \in Req, Notify(r)
    PROVE  ApprovalInvariant'
<1>1. /\ req[r].copy \in Record
      /\ req[r].copy.status \in StatusAt("notify")
      /\ req[r].draft \in Draft
      /\ RequestOK(req[r])
  BY RequestFacts DEF Notify, ApprovalInvariant
<1>2. req[r].copy.status \in Event
  BY <1>1 DEF StatusAt, Event, Status
<1>3. Recipients(req[r].copy) \subseteq User
  BY <1>1 DEF Recipients, Notified, Eligible, Record
<1>4. inbox' \subseteq Notice /\ faults' \in 0..MaxFaults
  BY <1>1, <1>2, <1>3 DEF Notify, Notice, ApprovalInvariant, TypeOK
<1>5. CASE req[r].copy.status = "APPROVED"
  <2> PICK q : q = [req[r] EXCEPT !.pc = "execGet"]
    OBVIOUS
  <2>1. /\ req' = [req EXCEPT ![r] = q]
        /\ q \in Request
        /\ q.pc = "execGet" /\ q.draft = req[r].draft /\ q.copy = req[r].copy
    BY <1>5, AtMoves DEF Notify, Pc
  <2>2. RequestOK(q)
    BY <1>1, <1>5, <2>1 DEF RequestOK, StatusAt, Announced, Notify
  <2> QED
    BY <1>1, <1>4, <2>1, <2>2, RequestReads DEF Notify
<1>6. CASE req[r].copy.status # "APPROVED"
  BY <1>4, <1>6, RequestEnds DEF Notify
<1> QED
  BY <1>5, <1>6

LEMMA ExecuteGetPreserves ==
    ASSUME ApprovalInvariant, NEW r \in Req, ExecuteGet(r)
    PROVE  ApprovalInvariant'
<1>1. /\ req[r] \in Request
      /\ req[r].draft \in Draft
      /\ HasEvent(req[r].draft, "APPROVED")
  BY RequestFacts DEF ExecuteGet, Announced
<1>2. inbox' \subseteq Notice /\ faults' \in 0..MaxFaults
  BY DEF ExecuteGet, ApprovalInvariant, TypeOK
<1> PICK rec : rec = store[req[r].draft]
  OBVIOUS
<1>3. CASE rec.status = "APPROVED"
  <2> PICK copy : copy = [rec EXCEPT !.status = "EXECUTING"]
    OBVIOUS
  <2> PICK q : q = [req[r] EXCEPT !.pc = "execPut", !.copy = copy]
    OBVIOUS
  <2>1. copy \in Record /\ Sound(copy) /\ copy.status = "EXECUTING"
    <3>1. rec \in Record /\ Sound(rec) /\ rec.status \in Granted
      BY <1>1, <1>3, StoreFacts DEF Granted
    <3>2. "EXECUTING" \in Status
      BY DEF Status
    <3> QED
      BY <3>1, <3>2, RestatusSound
  <2>2. /\ q \in Request
        /\ q.pc = "execPut" /\ q.draft = req[r].draft /\ q.copy = copy
    BY <1>1, <2>1 DEF Request, Pc
  <2>3. RequestOK(q)
    <3>1. "EXECUTING" \in StatusAt("execPut")
      BY DEF StatusAt
    <3> QED
      BY <1>1, <2>1, <2>2, <3>1 DEF RequestOK
  <2>4. req' = [req EXCEPT ![r] = q]
    BY <1>3 DEF ExecuteGet
  <2> QED
    BY <1>1, <1>2, <2>2, <2>3, <2>4, RequestReads DEF ExecuteGet
<1>4. CASE rec.status # "APPROVED"
  BY <1>2, <1>4, RequestEnds DEF ExecuteGet
<1> QED
  BY <1>3, <1>4

LEMMA CallSucceedsPreserves ==
    ASSUME ApprovalInvariant, NEW r \in Req, CallSucceeds(r)
    PROVE  ApprovalInvariant'
<1>1. /\ req[r] \in Request
      /\ req[r].tries \in 0..MaxAttempts /\ req[r].tries < MaxAttempts
      /\ req[r].draft \in Draft
      /\ req[r].copy \in Record /\ Sound(req[r].copy)
      /\ req[r].copy.status \in StatusAt("call")
      /\ HasEvent(req[r].draft, "APPROVED")
  BY RequestFacts DEF CallSucceeds, Announced
<1> PICK copy : copy = [req[r].copy EXCEPT !.status = "EXECUTED"]
  OBVIOUS
<1>2. copy \in Record /\ Sound(copy) /\ copy.status = "EXECUTED"
  <2>1. req[r].copy.status \in Granted /\ "EXECUTED" \in Status
    BY <1>1 DEF StatusAt, Granted, Status
  <2> QED
    BY <1>1, <2>1, RestatusSound
<1> PICK q : q = [req[r] EXCEPT !.pc = "donePut", !.tries = @ + 1, !.copy = copy]
  OBVIOUS
<1>3. /\ q \in Request
      /\ q.pc = "donePut" /\ q.draft = req[r].draft /\ q.copy = copy
  <2>1. req[r].tries + 1 \in 0..MaxAttempts
    BY <1>1, BoundAssumption
  <2> QED
    BY <1>1, <1>2, <2>1 DEF Request, Pc
<1>4. req' = [req EXCEPT ![r] = q]
  BY <1>1 DEF CallSucceeds, Request
<1>5. "EXECUTED" \in StatusAt("donePut")
  BY DEF StatusAt
<1>6. /\ store' \in [Draft -> Record] /\ \A x \in Draft : Sound(store'[x])
      /\ events' \in [Draft -> Seq(Event)]
      /\ \A x \in Draft : HasEvent(x, "APPROVED") => HasEvent(x, "APPROVED")'
      /\ inbox' \subseteq Notice
      /\ faults' \in 0..MaxFaults /\ crashes' \in 0..MaxCrashes
  BY DEF CallSucceeds, ApprovalInvariant, TypeOK, HasEvent
<1>7. /\ applied' \in [Draft -> Nat]
      /\ \A x \in Draft : applied'[x] > 0 => HasEvent(x, "APPROVED")'
  <2>1. /\ applied \in [Draft -> Nat]
        /\ applied' = [applied EXCEPT ![req[r].draft] = @ + 1]
        /\ \A x \in Draft : applied[x] > 0 => HasEvent(x, "APPROVED")
    BY DEF CallSucceeds, ApprovalInvariant, TypeOK
  <2> QED
    BY <1>1, <1>6, <2>1
<1>8. HasEvent(q.draft, "APPROVED")'
  BY <1>1, <1>3, <1>6
<1>9. q.draft \in Draft /\ Sound(q.copy) /\ q.copy.status \in StatusAt(q.pc)
  BY <1>1, <1>2, <1>3, <1>5
<1> QED
  BY <1>3, <1>4, <1>6, <1>7, <1>8, <1>9, RequestMoves

\* Where a failed attempt leaves the request: at the next attempt or giving up.
LEMMA AfterFailure ==
    ASSUME ApprovalInvariant, NEW r \in Req,
           req[r].pc \in {"call", "donePut", "doneEmit"},
           NEW n \in 0..MaxAttempts,
           NEW q, \/ q = [req[r] EXCEPT !.pc = "call", !.tries = n]
                  \/ q = [req[r] EXCEPT !.pc = "failPut", !.tries = n,
                                        !.copy = [req[r].copy EXCEPT !.status = "EXECUTION_FAILED"]]
    PROVE  /\ q \in Request
           /\ q.draft = req[r].draft /\ q.draft \in Draft
           /\ q.pc # "idle"
           /\ RequestOK(q)
<1>1. /\ req[r] \in Request
      /\ req[r].draft \in Draft
      /\ req[r].copy \in Record /\ Sound(req[r].copy)
      /\ req[r].copy.status \in StatusAt(req[r].pc)
      /\ HasEvent(req[r].draft, "APPROVED")
  BY RequestFacts DEF Announced
<1>2. req[r].copy.status \in {"EXECUTING", "EXECUTED"}
  BY <1>1 DEF StatusAt
<1>3. CASE q = [req[r] EXCEPT !.pc = "call", !.tries = n]
  <2>1. /\ q \in Request
        /\ q.pc = "call" /\ q.draft = req[r].draft /\ q.copy = req[r].copy
    BY <1>1, <1>3 DEF Request, Pc
  <2>2. StatusAt("call") = {"EXECUTING", "EXECUTED"}
    BY DEF StatusAt
  <2> QED
    BY <1>1, <1>2, <2>1, <2>2 DEF RequestOK
<1>4. CASE q = [req[r] EXCEPT !.pc = "failPut", !.tries = n,
                              !.copy = [req[r].copy EXCEPT !.status = "EXECUTION_FAILED"]]
  <2> PICK copy : copy = [req[r].copy EXCEPT !.status = "EXECUTION_FAILED"]
    OBVIOUS
  <2>1. copy \in Record /\ Sound(copy) /\ copy.status = "EXECUTION_FAILED"
    <3>1. req[r].copy.status \in Granted /\ "EXECUTION_FAILED" \in Status
      BY <1>2 DEF Granted, Status
    <3> QED
      BY <1>1, <3>1, RestatusSound
  <2>2. /\ q \in Request
        /\ q.pc = "failPut" /\ q.draft = req[r].draft /\ q.copy = copy
    BY <1>1, <1>4, <2>1 DEF Request, Pc
  <2>3. "EXECUTION_FAILED" \in StatusAt("failPut")
    BY DEF StatusAt
  <2> QED
    BY <1>1, <2>1, <2>2, <2>3 DEF RequestOK
<1> QED
  BY <1>3, <1>4

LEMMA CallFailsPreserves ==
    ASSUME ApprovalInvariant, NEW r \in Req, NEW wrote \in BOOLEAN, CallFails(r, wrote)
    PROVE  ApprovalInvariant'
<1>1. /\ req[r] \in Request
      /\ req[r].pc = "call"
      /\ req[r].tries \in 0..MaxAttempts /\ req[r].tries < MaxAttempts
      /\ req[r].draft \in Draft
      /\ HasEvent(req[r].draft, "APPROVED")
  BY RequestFacts DEF CallFails, Announced
<1>2. req[r].tries + 1 \in 0..MaxAttempts
  BY <1>1, BoundAssumption
<1>3. PICK q :
        /\ req' = [req EXCEPT ![r] = q]
        /\ \/ q = [req[r] EXCEPT !.pc = "call", !.tries = req[r].tries + 1]
           \/ q = [req[r] EXCEPT !.pc = "failPut", !.tries = req[r].tries + 1,
                                 !.copy = [req[r].copy EXCEPT !.status = "EXECUTION_FAILED"]]
  <2>1. CASE req[r].tries + 1 < MaxAttempts
    <3>1. req' = [req EXCEPT ![r] = [req[r] EXCEPT !.pc = "call", !.tries = req[r].tries + 1]]
      BY <1>1, <2>1 DEF CallFails, Request
    <3> QED
      BY <3>1
  <2>2. CASE ~(req[r].tries + 1 < MaxAttempts)
    <3>1. req' = [req EXCEPT ![r] =
                    [req[r] EXCEPT !.pc = "failPut", !.tries = req[r].tries + 1,
                                   !.copy = [req[r].copy EXCEPT !.status = "EXECUTION_FAILED"]]]
      BY <1>1, <2>2 DEF CallFails, Request
    <3> QED
      BY <3>1
  <2> QED
    BY <2>1, <2>2
<1>4. /\ q \in Request
      /\ q.draft = req[r].draft /\ q.draft \in Draft
      /\ q.pc # "idle"
      /\ RequestOK(q)
  BY <1>1, <1>2, <1>3, AfterFailure
<1>5. /\ store' \in [Draft -> Record] /\ \A x \in Draft : Sound(store'[x])
      /\ events' \in [Draft -> Seq(Event)]
      /\ \A x \in Draft : HasEvent(x, "APPROVED") => HasEvent(x, "APPROVED")'
      /\ inbox' \subseteq Notice
      /\ faults' \in 0..MaxFaults /\ crashes' \in 0..MaxCrashes
  BY DEF CallFails, ApprovalInvariant, TypeOK, HasEvent
<1>6. /\ applied' \in [Draft -> Nat]
      /\ \A x \in Draft : applied'[x] > 0 => HasEvent(x, "APPROVED")'
  <2>1. /\ applied \in [Draft -> Nat]
        /\ applied' = [applied EXCEPT ![req[r].draft] = @ + 1] \/ applied' = applied
        /\ \A x \in Draft : applied[x] > 0 => HasEvent(x, "APPROVED")
    BY DEF CallFails, ApprovalInvariant, TypeOK
  <2>2. applied' \in [Draft -> Nat] /\ \A x \in Draft \ {req[r].draft} : applied'[x] = applied[x]
    BY <1>1, <2>1
  <2> QED
    BY <1>1, <1>5, <2>1, <2>2
<1>7. HasEvent(q.draft, "APPROVED")'
  BY <1>1, <1>4, <1>5
<1> QED
  BY <1>3, <1>4, <1>5, <1>6, <1>7, RequestMoves DEF RequestOK

LEMMA WriteFailsPreserves ==
    ASSUME ApprovalInvariant, NEW r \in Req, WriteFails(r)
    PROVE  ApprovalInvariant'
<1>1. inbox' \subseteq Notice /\ faults' \in 0..MaxFaults
  BY BoundAssumption DEF WriteFails, ApprovalInvariant, TypeOK
<1>2. req[r] \in Request /\ req[r].tries \in 0..MaxAttempts
  BY RequestFacts
<1>3. CASE req[r].pc \in {"donePut", "doneEmit"}
  <2>1. PICK q :
          /\ req' = [req EXCEPT ![r] = q]
          /\ \/ q = [req[r] EXCEPT !.pc = "call", !.tries = req[r].tries]
             \/ q = [req[r] EXCEPT !.pc = "failPut", !.tries = req[r].tries,
                                   !.copy = [req[r].copy EXCEPT !.status = "EXECUTION_FAILED"]]
    <3>1. CASE req[r].tries < MaxAttempts
      <4>1. req' = [req EXCEPT ![r] = [req[r] EXCEPT !.pc = "call", !.tries = req[r].tries]]
        BY <1>2, <1>3, <3>1 DEF WriteFails, NextAttempt, At, Request
      <4> QED
        BY <4>1
    <3>2. CASE ~(req[r].tries < MaxAttempts)
      <4>1. req' = [req EXCEPT ![r] =
                      [req[r] EXCEPT !.pc = "failPut", !.tries = req[r].tries,
                                     !.copy = [req[r].copy EXCEPT !.status = "EXECUTION_FAILED"]]]
        BY <1>2, <1>3, <3>2 DEF WriteFails, NextAttempt, Request
      <4> QED
        BY <4>1
    <3> QED
      BY <3>1, <3>2
  <2>2. /\ q \in Request
        /\ q.draft \in Draft
        /\ RequestOK(q)
    BY <1>2, <1>3, <2>1, AfterFailure
  <2> QED
    BY <1>1, <2>1, <2>2, RequestReads DEF WriteFails
<1>4. CASE req[r].pc \notin {"donePut", "doneEmit"}
  BY <1>1, <1>4, RequestEnds DEF WriteFails
<1> QED
  BY <1>3, <1>4

LEMMA CrashPreserves ==
    ASSUME ApprovalInvariant, Crash
    PROVE  ApprovalInvariant'
<1>1. req' \in [Req -> Request] /\ \A r \in Req : req'[r] = Idle
  BY AbsentSound DEF Crash
<1>2. TypeOK'
  BY <1>1, AbsentSound, BoundAssumption DEF Crash, ApprovalInvariant, TypeOK
<1>3. \A r \in Req : RequestOK(req[r])'
  <2>1. Sound(Idle.copy) /\ Idle.copy.status \in StatusAt(Idle.pc) /\ ~Announced(Idle)
    BY AbsentSound DEF RequestOK, Announced
  <2> QED
    BY <1>1, <2>1 DEF RequestOK
<1>4. \A d \in Draft : (applied[d] > 0 => HasEvent(d, "APPROVED"))'
  BY DEF Crash, ApprovalInvariant, HasEvent
<1> QED
  BY <1>2, <1>3, <1>4 DEF Crash, ApprovalInvariant

-----------------------------------------------------------------------------
(* The theorems *)

LEMMA NextPreserves ==
    ApprovalInvariant /\ [Next]_vars => ApprovalInvariant'
<1> SUFFICES ASSUME ApprovalInvariant, [Next]_vars
             PROVE  ApprovalInvariant'
  OBVIOUS
<1>1. ASSUME NEW r \in Req, Arrive(r)
      PROVE  ApprovalInvariant'
  <2>1. ASSUME NEW d \in Draft, NEW chain \in Chains \cup {<<Admin>>}, Submit(r, d, chain)
        PROVE  ApprovalInvariant'
    BY <2>1, SubmitPreserves
  <2>2. ASSUME NEW d \in Draft, NEW u \in User, NEW submitNow \in BOOLEAN,
               Create(r, u, d, submitNow)
        PROVE  ApprovalInvariant'
    BY <2>2, CreatePreserves
  <2>3. ASSUME NEW d \in Draft, NEW u \in User, Approve(r, u, d)
        PROVE  ApprovalInvariant'
    BY <2>3, ApprovePreserves
  <2>4. ASSUME NEW d \in Draft, NEW u \in User, Reject(r, u, d)
        PROVE  ApprovalInvariant'
    BY <2>4, RejectPreserves
  <2>5. ASSUME NEW d \in Draft, NEW u \in User, Cancel(r, u, d)
        PROVE  ApprovalInvariant'
    BY <2>5, CancelPreserves
  <2> QED
    BY <1>1, <2>1, <2>2, <2>3, <2>4, <2>5 DEF Arrive
<1>2. ASSUME NEW r \in Req, Continue(r)
      PROVE  ApprovalInvariant'
  <2>0. inbox \subseteq Notice /\ faults \in 0..MaxFaults
    BY DEF ApprovalInvariant, TypeOK
  <2>1. CASE SubmitRefused(r)
    BY <2>0, <2>1, RequestEnds DEF SubmitRefused
  <2>2. CASE Put(r) \/ ExecutePut(r) \/ DonePut(r) \/ FailPut(r)
    BY <2>2, PutPreserves DEF Put, ExecutePut, DonePut, FailPut
  <2>3. CASE Emit(r)
    BY <2>3, EmitPreserves DEF Emit
  <2>4. CASE DoneEmit(r) \/ FailEmit(r)
    BY <2>4, EmitPreserves DEF DoneEmit, FailEmit
  <2>5. CASE Notify(r)
    BY <2>5, NotifyPreserves
  <2>6. CASE ExecuteGet(r)
    BY <2>6, ExecuteGetPreserves
  <2>7. CASE CallSucceeds(r)
    BY <2>7, CallSucceedsPreserves
  <2>8. ASSUME NEW wrote \in BOOLEAN, CallFails(r, wrote)
        PROVE  ApprovalInvariant'
    BY <2>8, CallFailsPreserves
  <2> QED
    BY <1>2, <2>1, <2>2, <2>3, <2>4, <2>5, <2>6, <2>7, <2>8 DEF Continue
<1>3. ASSUME NEW r \in Req, WriteFails(r)
      PROVE  ApprovalInvariant'
  BY <1>3, WriteFailsPreserves
<1>4. CASE Crash
  BY <1>4, CrashPreserves
<1>5. CASE UNCHANGED vars
  BY <1>5 DEF vars, ApprovalInvariant, TypeOK, RequestOK, HasEvent
<1> QED
  BY <1>1, <1>2, <1>3, <1>4, <1>5 DEF Next

\* Every reachable state satisfies the inductive invariant.
THEOREM InvariantHolds == Spec => []ApprovalInvariant
<1>1. Init => ApprovalInvariant
  BY InitEstablishes
<1>2. ApprovalInvariant /\ [Next]_vars => ApprovalInvariant'
  BY NextPreserves
<1> QED
  BY <1>1, <1>2, PTL DEF Spec

\* Drafts, requests, events and notifications keep their shapes in every interleaving.
THEOREM TypeCorrect == Spec => []TypeOK
<1>1. ApprovalInvariant => TypeOK
  BY DEF ApprovalInvariant
<1> QED
  BY <1>1, InvariantHolds, PTL

\* No draft gets to execution without an approval of every step by somebody entitled to
\* give it, however the requests of actions.ts interleave, fail or are cut off.
THEOREM AuthorisedAlways == Spec => []Authorised
<1>1. ApprovalInvariant => Authorised
  BY DEF ApprovalInvariant, Authorised, Sound, FullyApproved
<1> QED
  BY <1>1, InvariantHolds, PTL

\* No lost update ever puts a decided step behind an undecided one.
THEOREM SequentialAlways == Spec => []SequentialApproval
<1>1. ApprovalInvariant => SequentialApproval
  BY DEF ApprovalInvariant, SequentialApproval, Sound
<1> QED
  BY <1>1, InvariantHolds, PTL

\* Both, with the invariant they rest on.
THEOREM ApprovalsSoundAlways == Spec => []ApprovalsSound
<1>1. ApprovalInvariant /\ Authorised /\ SequentialApproval <=> ApprovalsSound
  BY DEF ApprovalsSound
<1> QED
  BY <1>1, InvariantHolds, AuthorisedAlways, SequentialAlways, PTL

\* approve() emits action.approved before execute() reaches the adapter, so a target that
\* was written has an approval on the audit trail, whatever fails in between.
THEOREM AuditBeforeWriteBackAlways == Spec => []AuditBeforeWriteBack
<1>1. ApprovalInvariant => AuditBeforeWriteBack
  BY DEF ApprovalInvariant, AuditBeforeWriteBack
<1> QED
  BY <1>1, InvariantHolds, PTL

-----------------------------------------------------------------------------
(* Requests for one draft that do not overlap, and no failed writes: the     *)
(* request at work is alone with its record, so what it holds follows from   *)
(* what is stored.                                                           *)

\* What a handler that has passed its checks may be about to put.
Outcome(rec, copy) ==
    \/ /\ rec.status = "DRAFT"
       /\ \E chain \in Chains \cup {<<Admin>>} : copy = Submitted(rec, chain)
    \/ /\ rec.status = "PENDING_APPROVAL"
       /\ \E i \in DOMAIN rec.steps, u \in User :
             /\ IsCurrent(rec, i)
             /\ \/ copy = AfterApproval(rec, i, u)
                \/ copy = [Decided(rec, i, u, "REJECT") EXCEPT !.status = "REJECTED"]
    \/ /\ rec.status \in {"DRAFT", "PENDING_APPROVAL", "APPROVED"}
       /\ copy = [rec EXCEPT !.status = "CANCELLED"]

\* Where request q stands, told by the stored record of its draft.
Standing(q, rec) ==
    CASE q.pc = "submit"  -> rec.status = "DRAFT"
      [] q.pc = "put"     -> Outcome(rec, q.copy)
      [] q.pc = "execPut" -> rec.status = "APPROVED" /\ q.copy = [rec EXCEPT !.status = "EXECUTING"]
      [] q.pc = "call"    -> rec.status = "EXECUTING" /\ q.copy = rec
      [] q.pc = "donePut" -> rec.status = "EXECUTING" /\ q.copy = [rec EXCEPT !.status = "EXECUTED"]
      [] q.pc = "failPut" -> rec.status = "EXECUTING" /\ q.copy = [rec EXCEPT !.status = "EXECUTION_FAILED"]
      [] OTHER            -> q.copy = rec

AloneInvariant ==
    /\ ApprovalInvariant
    /\ \A d \in Draft : store[d].status = "ABSENT" => store[d] = Absent
    /\ \A r \in Req : req[r].pc = "idle" => req[r] = Idle
    /\ \A r, p \in Req : (req[r].pc # "idle" /\ req[p].draft = req[r].draft) => p = r
    /\ \A r \in Req : req[r].pc # "idle" => Standing(req[r], store[req[r].draft])
    /\ \A r \in Req : req[r].pc = "donePut" => applied[req[r].draft] > 0

\* Request r becomes q and alone touches draft d and its record.
AloneMove(r, d, q) ==
    /\ req' = [req EXCEPT ![r] = q]
    /\ \A p \in Req \ {r} : req[p].draft # d
    /\ \/ q = Idle
       \/ q.pc # "idle" /\ q.draft = d /\ Standing(q, store'[d])
    /\ q.pc = "donePut" => applied'[d] > 0
    /\ \A x \in Draft \ {d} : store'[x] = store[x] /\ applied'[x] = applied[x]
    /\ store'[d].status = "ABSENT" => store'[d] = Absent

\* The invariant survives such a move.
LEMMA AloneMoves ==
    ASSUME AloneInvariant, ApprovalInvariant', NEW r \in Req, NEW d \in Draft, NEW q, AloneMove(r, d, q)
    PROVE  AloneInvariant'
<1> USE DEF AloneMove
<1>1. req \in [Req -> Request] /\ \A p \in Req : req[p].pc # "idle" => req[p].draft \in Draft
  BY DEF AloneInvariant, ApprovalInvariant, TypeOK
<1>2. req'[r] = q /\ \A p \in Req \ {r} : req'[p] = req[p]
  BY <1>1
<1>3. Idle.pc = "idle" /\ Idle.draft = NoDraft /\ NoDraft \notin Draft
  BY RoleAssumption DEF Idle
<1>4. \A x \in Draft : store'[x].status = "ABSENT" => store'[x] = Absent
  BY DEF AloneInvariant
<1>5. \A p \in Req : req'[p].pc = "idle" => req'[p] = Idle
  BY <1>2 DEF AloneInvariant
<1>6. ASSUME NEW p \in Req, NEW o \in Req, req'[p].pc # "idle", req'[o].draft = req'[p].draft
      PROVE  o = p
  <2>1. CASE p = r
    BY <1>2, <1>3, <1>6, <2>1
  <2>2. CASE p # r /\ o = r
    <3>1. req[p].draft \in Draft /\ req[p].draft # d
      BY <1>1, <1>2, <1>6, <2>2
    <3> QED
      BY <1>2, <1>3, <1>6, <2>2, <3>1
  <2>3. CASE p # r /\ o # r
    BY <1>2, <1>6, <2>3 DEF AloneInvariant
  <2> QED
    BY <2>1, <2>2, <2>3
<1>7. ASSUME NEW p \in Req, req'[p].pc # "idle"
      PROVE  /\ Standing(req'[p], store'[req'[p].draft])
             /\ req'[p].pc = "donePut" => applied'[req'[p].draft] > 0
  <2>1. CASE p = r
    BY <1>2, <1>3, <1>7, <2>1
  <2>2. CASE p # r
    <3>1. req[p].draft \in Draft \ {d} /\ req'[p] = req[p]
      BY <1>1, <1>2, <1>7, <2>2
    <3>2. store'[req[p].draft] = store[req[p].draft] /\ applied'[req[p].draft] = applied[req[p].draft]
      BY <3>1
    <3>3. /\ Standing(req[p], store[req[p].draft])
          /\ req[p].pc = "donePut" => applied[req[p].draft] > 0
      BY <1>7, <3>1 DEF AloneInvariant
    <3> QED
      BY <3>1, <3>2, <3>3
  <2> QED
    BY <2>1, <2>2
<1>8. \A p \in Req : req'[p].pc = "donePut" => req'[p].pc # "idle"
  OBVIOUS
<1> QED
  BY <1>4, <1>5, <1>6, <1>7, <1>8 DEF AloneInvariant

\* A request in flight has a draft nobody else works on, and stands where its copy says.
LEMMA AloneFacts ==
    ASSUME AloneInvariant, NEW r \in Req, req[r].pc # "idle"
    PROVE  /\ req[r] \in Request /\ req[r].copy \in Record
           /\ req[r].draft \in Draft
           /\ store[req[r].draft] \in Record
           /\ \A p \in Req \ {r} : req[p].draft # req[r].draft
           /\ Standing(req[r], store[req[r].draft])
           /\ req[r].copy.status \in StatusAt(req[r].pc)
           /\ store[req[r].draft].status = "ABSENT" => store[req[r].draft] = Absent
  BY RequestFacts DEF AloneInvariant, ApprovalInvariant, TypeOK

\* A request that may start finds nobody at work on the draft.
LEMMA StartsAlone ==
    ASSUME AloneInvariant, ~Overlap, NEW r \in Req, NEW d \in Draft,
           MayStart(r, d) \/ (req[r].pc = "submit" /\ req[r].draft = d)
    PROVE  \A p \in Req \ {r} : req[p].draft # d
  BY DEF AloneInvariant, MayStart

\* Passing the checks leaves the request with one of the outcomes of its record.
LEMMA AloneHolds ==
    ASSUME AloneInvariant, ApprovalInvariant', ~Overlap, NEW r \in Req, NEW d \in Draft,
           MayStart(r, d) \/ (req[r].pc = "submit" /\ req[r].draft = d),
           NEW copy, Outcome(store[d], copy),
           req' = [req EXCEPT ![r] = Holding(d, copy)],
           UNCHANGED <<store, events, inbox, applied, faults, crashes>>
    PROVE  AloneInvariant'
<1>1. \A p \in Req \ {r} : req[p].draft # d
  BY StartsAlone
<1>2. Holding(d, copy).pc = "put" /\ Holding(d, copy).draft = d /\ Holding(d, copy).copy = copy
  BY DEF Holding
<1>3. Standing(Holding(d, copy), store'[d])
  BY <1>2 DEF Standing
<1>4. store'[d].status = "ABSENT" => store'[d] = Absent
  BY DEF AloneInvariant
<1> PICK q : q = Holding(d, copy)
  OBVIOUS
<1>5. AloneMove(r, d, q)
  BY <1>1, <1>2, <1>3, <1>4 DEF AloneMove
<1> QED
  BY <1>5, AloneMoves

LEMMA AloneCreate ==
    ASSUME AloneInvariant, ApprovalInvariant', ~Overlap, NEW r \in Req, NEW u \in User,
           NEW d \in Draft, NEW submitNow \in BOOLEAN, Create(r, u, d, submitNow)
    PROVE  AloneInvariant'
<1>1. /\ store \in [Draft -> Record] /\ req \in [Req -> Request]
      /\ MayStart(r, d) /\ req[r] = Idle /\ req[r].pc = "idle"
  BY DEF AloneInvariant, ApprovalInvariant, TypeOK, MayStart, Create
<1> PICK draft : draft = [Absent EXCEPT !.status = "DRAFT", !.origin = u]
  OBVIOUS
<1>2. store'[d] = draft /\ draft.status = "DRAFT" /\ \A x \in Draft \ {d} : store'[x] = store[x]
  BY <1>1 DEF Create, Absent
<1> PICK q : q = IF submitNow THEN [Idle EXCEPT !.pc = "submit", !.draft = d] ELSE Idle
  OBVIOUS
<1>3. req' = [req EXCEPT ![r] = q]
  BY <1>1 DEF Create
<1>4. submitNow => q.pc = "submit" /\ q.draft = d
  BY DEF Idle
<1>5. q = Idle \/ (q.pc # "idle" /\ q.draft = d /\ Standing(q, store'[d]))
  BY <1>2, <1>4 DEF Standing
<1>6. q.pc # "donePut"
  BY <1>4 DEF Idle
<1>7. \A p \in Req \ {r} : req[p].draft # d
  BY <1>1, StartsAlone
<1>8. \A x \in Draft \ {d} : store'[x] = store[x] /\ applied'[x] = applied[x]
  BY <1>2 DEF Create
<1>9. store'[d].status # "ABSENT"
  BY <1>2
<1>10. AloneMove(r, d, q)
  BY ONLY <1>3, <1>5, <1>6, <1>7, <1>8, <1>9 DEF AloneMove
<1> QED
  BY <1>10, AloneMoves

\* The puts store the copy, and the request goes on with it.
LEMMA AlonePut ==
    ASSUME AloneInvariant, ApprovalInvariant', NEW r \in Req, NEW pc, NEW next,
           <<pc, next>> \in {<<"put", "emit">>, <<"execPut", "call">>,
                             <<"donePut", "doneEmit">>, <<"failPut", "failEmit">>},
           PutCopy(r, pc, next)
    PROVE  AloneInvariant'
<1> PICK q : q = [req[r] EXCEPT !.pc = next]
  OBVIOUS
<1> PICK d : d = req[r].draft
  OBVIOUS
<1>1. /\ d \in Draft
      /\ \A p \in Req \ {r} : req[p].draft # d
      /\ req[r].copy.status \in StatusAt(pc)
  BY AloneFacts DEF PutCopy
<1>2. /\ req' = [req EXCEPT ![r] = q]
      /\ q.pc = next /\ q.draft = d /\ q.copy = req[r].copy
  <2>1. next \in Pc /\ ApprovalInvariant
    BY DEF Pc, AloneInvariant
  <2> QED
    BY <2>1, AtMoves DEF PutCopy
<1>3. store'[d] = q.copy /\ \A x \in Draft \ {d} : store'[x] = store[x]
  BY <1>1, <1>2 DEF PutCopy, AloneInvariant, ApprovalInvariant, TypeOK
<1>4. q.copy.status # "ABSENT" /\ (next = "call" => q.copy.status = "EXECUTING")
  BY <1>1, <1>2 DEF StatusAt
<1>5. Standing(q, store'[d])
  BY <1>2, <1>3, <1>4 DEF Standing
<1>6. q.pc # "donePut" /\ q.pc # "idle"
  BY <1>2
<1>7. \A x \in Draft \ {d} : store'[x] = store[x] /\ applied'[x] = applied[x]
  BY <1>3 DEF PutCopy
<1>8. store'[d].status # "ABSENT"
  BY <1>3, <1>4
<1>9. AloneMove(r, d, q)
  BY ONLY <1>1, <1>2, <1>5, <1>6, <1>7, <1>8 DEF AloneMove
<1> QED
  BY <1>1, <1>9, AloneMoves

\* A request that leaves the records alone and ends, or moves on with the stored copy.
LEMMA AloneReads ==
    ASSUME AloneInvariant, ApprovalInvariant', NEW r \in Req, NEW q,
           req[r].pc # "idle",
           req' = [req EXCEPT ![r] = q],
           q = Idle \/ (q.pc # "idle" /\ q.draft = req[r].draft
                          /\ Standing(q, store[req[r].draft])),
           UNCHANGED store,
           \A x \in Draft \ {req[r].draft} : applied'[x] = applied[x],
           q.pc = "donePut" => applied'[req[r].draft] > 0
    PROVE  AloneInvariant'
<1> PICK d : d = req[r].draft
  OBVIOUS
<1>1. d \in Draft /\ \A p \in Req \ {r} : req[p].draft # d
  BY AloneFacts
<1>2. store'[d].status = "ABSENT" => store'[d] = Absent
  BY <1>1 DEF AloneInvariant
<1>3. \A x \in Draft \ {d} : store'[x] = store[x] /\ applied'[x] = applied[x]
  OBVIOUS
<1>4. q = Idle \/ (q.pc # "idle" /\ q.draft = d /\ Standing(q, store'[d]))
  OBVIOUS
<1>5. q.pc = "donePut" => applied'[d] > 0
  OBVIOUS
<1>6. AloneMove(r, d, q)
  BY <1>1, <1>2, <1>3, <1>4, <1>5 DEF AloneMove
<1> QED
  BY <1>1, <1>6, AloneMoves

LEMMA AloneEnds ==
    ASSUME AloneInvariant, ApprovalInvariant', NEW r \in Req,
           req[r].pc # "idle", req' = Finished(r), UNCHANGED <<store, applied>>
    PROVE  AloneInvariant'
<1>1. req' = [req EXCEPT ![r] = Idle] /\ Idle.pc # "donePut"
  BY DEF Finished, Idle
<1> QED
  BY <1>1, AloneReads

\* From emit to notify, from notify to execute(): the copy is what is stored.
LEMMA AloneGoesOn ==
    ASSUME AloneInvariant, ApprovalInvariant', NEW r \in Req, NEW pc \in {"notify", "execGet"},
           req[r].pc \in {"emit", "notify"}, req' = At(r, pc), UNCHANGED <<store, applied>>
    PROVE  AloneInvariant'
<1> PICK q : q = [req[r] EXCEPT !.pc = pc]
  OBVIOUS
<1>1. /\ req' = [req EXCEPT ![r] = q]
      /\ q.pc = pc /\ q.draft = req[r].draft /\ q.copy = req[r].copy
  <2>1. ApprovalInvariant /\ pc \in Pc
    BY DEF AloneInvariant, Pc
  <2> QED
    BY <2>1, AtMoves
<1>2. req[r].copy = store[req[r].draft]
  BY AloneFacts DEF Standing
<1>3. Standing(q, store[req[r].draft])
  BY <1>1, <1>2 DEF Standing
<1> QED
  BY <1>1, <1>3, AloneReads

LEMMA AloneExecuteGet ==
    ASSUME AloneInvariant, ApprovalInvariant', NEW r \in Req, ExecuteGet(r)
    PROVE  AloneInvariant'
<1> PICK rec : rec = store[req[r].draft]
  OBVIOUS
<1>1. req[r].pc = "execGet" /\ req \in [Req -> Request] /\ UNCHANGED <<store, applied>>
  BY DEF ExecuteGet, AloneInvariant, ApprovalInvariant, TypeOK
<1>2. CASE rec.status = "APPROVED"
  <2> PICK q : q = [req[r] EXCEPT !.pc = "execPut", !.copy = [rec EXCEPT !.status = "EXECUTING"]]
    OBVIOUS
  <2>1. req' = [req EXCEPT ![r] = q]
    BY <1>1, <1>2 DEF ExecuteGet, Request
  <2>2. q.pc = "execPut" /\ q.draft = req[r].draft /\ q.copy = [rec EXCEPT !.status = "EXECUTING"]
    BY <1>1 DEF Request
  <2>3. Standing(q, rec)
    BY <1>2, <2>2 DEF Standing
  <2> QED
    BY <1>1, <2>1, <2>2, <2>3, AloneReads
<1>3. CASE rec.status # "APPROVED"
  BY <1>1, <1>3, AloneEnds DEF ExecuteGet
<1> QED
  BY <1>2, <1>3

LEMMA AloneCallSucceeds ==
    ASSUME AloneInvariant, ApprovalInvariant', NEW r \in Req, CallSucceeds(r)
    PROVE  AloneInvariant'
<1> PICK d : d = req[r].draft
  OBVIOUS
<1>1. /\ req[r].pc = "call" /\ req \in [Req -> Request] /\ req[r] \in Request
      /\ applied \in [Draft -> Nat]
      /\ applied' = [applied EXCEPT ![d] = @ + 1]
      /\ UNCHANGED store
  BY DEF CallSucceeds, AloneInvariant, ApprovalInvariant, TypeOK
<1>2. /\ d \in Draft /\ req[r].copy \in Record
      /\ store[d].status = "EXECUTING" /\ req[r].copy = store[d]
  BY <1>1, AloneFacts DEF Standing
<1> PICK q : q = [req[r] EXCEPT !.pc = "donePut", !.tries = @ + 1,
                                !.copy = [req[r].copy EXCEPT !.status = "EXECUTED"]]
  OBVIOUS
<1>3. req' = [req EXCEPT ![r] = q]
  BY <1>1 DEF CallSucceeds, Request
<1>4. q.pc = "donePut" /\ q.draft = d /\ q.copy = [store[d] EXCEPT !.status = "EXECUTED"]
  BY <1>1, <1>2 DEF Request
<1>5. Standing(q, store[d])
  BY <1>2, <1>4 DEF Standing
<1>6. applied'[d] > 0 /\ \A x \in Draft \ {d} : applied'[x] = applied[x]
  BY <1>1, <1>2
<1> QED
  BY <1>1, <1>3, <1>4, <1>5, <1>6, AloneReads

LEMMA AloneCallFails ==
    ASSUME AloneInvariant, ApprovalInvariant', NEW r \in Req, NEW wrote \in BOOLEAN,
           CallFails(r, wrote)
    PROVE  AloneInvariant'
<1> PICK d : d = req[r].draft
  OBVIOUS
<1>1. /\ req[r].pc = "call" /\ req \in [Req -> Request] /\ req[r] \in Request
      /\ applied \in [Draft -> Nat]
      /\ applied' = [applied EXCEPT ![d] = @ + 1] \/ applied' = applied
      /\ UNCHANGED store
  BY DEF CallFails, AloneInvariant, ApprovalInvariant, TypeOK
<1>2. /\ d \in Draft /\ req[r].copy \in Record
      /\ store[d].status = "EXECUTING" /\ req[r].copy = store[d]
  BY <1>1, AloneFacts DEF Standing
<1>3. \A x \in Draft \ {d} : applied'[x] = applied[x]
  BY <1>1, <1>2
<1>4. CASE req[r].tries + 1 < MaxAttempts
  <2> PICK q : q = [req[r] EXCEPT !.tries = @ + 1]
    OBVIOUS
  <2>1. /\ req' = [req EXCEPT ![r] = q]
        /\ q.pc = "call" /\ q.draft = d /\ q.copy = store[d]
    BY <1>1, <1>2, <1>4 DEF CallFails, Request
  <2>2. Standing(q, store[d])
    BY <1>2, <2>1 DEF Standing
  <2> QED
    BY <1>1, <1>3, <2>1, <2>2, AloneReads
<1>5. CASE ~(req[r].tries + 1 < MaxAttempts)
  <2> PICK q : q = [req[r] EXCEPT !.tries = @ + 1, !.pc = "failPut",
                                  !.copy = [req[r].copy EXCEPT !.status = "EXECUTION_FAILED"]]
    OBVIOUS
  <2>1. req' = [req EXCEPT ![r] = q]
    BY <1>1, <1>5 DEF CallFails, Request
  <2>2. /\ q.pc = "failPut" /\ q.draft = d
        /\ q.copy = [store[d] EXCEPT !.status = "EXECUTION_FAILED"]
    BY <1>1, <1>2 DEF Request
  <2>3. Standing(q, store[d])
    BY <1>2, <2>2 DEF Standing
  <2> QED
    BY <1>1, <1>3, <2>1, <2>2, <2>3, AloneReads
<1> QED
  BY <1>4, <1>5

LEMMA AloneCrash ==
    ASSUME AloneInvariant, ApprovalInvariant', Crash
    PROVE  AloneInvariant'
<1>1. \A r \in Req : req'[r] = Idle
  BY DEF Crash
<1>2. Idle.pc = "idle"
  BY DEF Idle
<1> QED
  BY <1>1, <1>2 DEF Crash, AloneInvariant

\* Without failed writes, every step of requests that do not overlap preserves it.
LEMMA AlonePreserved ==
    ASSUME AloneInvariant, ~Overlap, MaxFaults = 0, [Next]_vars
    PROVE  AloneInvariant'
<1>0. ApprovalInvariant'
  BY NextPreserves DEF AloneInvariant
<1>1. ASSUME NEW r \in Req, Arrive(r)
      PROVE  AloneInvariant'
  <2>1. ASSUME NEW d \in Draft, NEW chain \in Chains \cup {<<Admin>>}, Submit(r, d, chain)
        PROVE  AloneInvariant'
    <3>1. Outcome(store[d], Submitted(store[d], chain))
      BY <2>1 DEF Submit, Outcome
    <3> QED
      BY <1>0, <2>1, <3>1, AloneHolds DEF Submit
  <2>2. ASSUME NEW d \in Draft, NEW u \in User, NEW submitNow \in BOOLEAN,
               Create(r, u, d, submitNow)
        PROVE  AloneInvariant'
    BY <1>0, <2>2, AloneCreate
  <2>3. ASSUME NEW d \in Draft, NEW u \in User, Approve(r, u, d)
        PROVE  AloneInvariant'
    <3>1. PICK i \in DOMAIN store[d].steps :
            /\ MayDecide(u, store[d], i)
            /\ req' = [req EXCEPT ![r] = Holding(d, AfterApproval(store[d], i, u))]
      BY <2>3 DEF Approve
    <3>2. Outcome(store[d], AfterApproval(store[d], i, u))
      BY <3>1 DEF Outcome, MayDecide
    <3> QED
      BY <1>0, <2>3, <3>1, <3>2, AloneHolds DEF Approve
  <2>4. ASSUME NEW d \in Draft, NEW u \in User, Reject(r, u, d)
        PROVE  AloneInvariant'
    <3>1. PICK i \in DOMAIN store[d].steps :
            /\ MayDecide(u, store[d], i)
            /\ req' = [req EXCEPT ![r] =
                  Holding(d, [Decided(store[d], i, u, "REJECT") EXCEPT !.status = "REJECTED"])]
      BY <2>4 DEF Reject
    <3>2. Outcome(store[d], [Decided(store[d], i, u, "REJECT") EXCEPT !.status = "REJECTED"])
      BY <3>1 DEF Outcome, MayDecide
    <3> QED
      BY <1>0, <2>4, <3>1, <3>2, AloneHolds DEF Reject
  <2>5. ASSUME NEW d \in Draft, NEW u \in User, Cancel(r, u, d)
        PROVE  AloneInvariant'
    <3>1. Outcome(store[d], [store[d] EXCEPT !.status = "CANCELLED"])
      BY <2>5 DEF Cancel, Outcome
    <3> QED
      BY <1>0, <2>5, <3>1, AloneHolds DEF Cancel
  <2> QED
    BY <1>1, <2>1, <2>2, <2>3, <2>4, <2>5 DEF Arrive
<1>2. ASSUME NEW r \in Req, Continue(r)
      PROVE  AloneInvariant'
  <2>1. CASE SubmitRefused(r)
    BY <1>0, <2>1, AloneEnds DEF SubmitRefused
  <2>2. CASE Put(r) \/ ExecutePut(r) \/ DonePut(r) \/ FailPut(r)
    BY <1>0, <2>2, AlonePut DEF Put, ExecutePut, DonePut, FailPut
  <2>3. CASE Emit(r)
    <3>1. req' = Finished(r) \/ req' = At(r, "notify")
      BY <2>3 DEF Emit, EmitStatus
    <3> QED
      BY <1>0, <2>3, <3>1, AloneEnds, AloneGoesOn DEF Emit, EmitStatus
  <2>4. CASE DoneEmit(r) \/ FailEmit(r)
    BY <1>0, <2>4, AloneEnds DEF DoneEmit, FailEmit, EmitStatus
  <2>5. CASE Notify(r)
    <3>1. req' = Finished(r) \/ req' = At(r, "execGet")
      BY <2>5 DEF Notify
    <3> QED
      BY <1>0, <2>5, <3>1, AloneEnds, AloneGoesOn DEF Notify
  <2>6. CASE ExecuteGet(r)
    BY <1>0, <2>6, AloneExecuteGet
  <2>7. CASE CallSucceeds(r)
    BY <1>0, <2>7, AloneCallSucceeds
  <2>8. ASSUME NEW wrote \in BOOLEAN, CallFails(r, wrote)
        PROVE  AloneInvariant'
    BY <1>0, <2>8, AloneCallFails
  <2> QED
    BY <1>2, <2>1, <2>2, <2>3, <2>4, <2>5, <2>6, <2>7, <2>8 DEF Continue
<1>3. ASSUME NEW r \in Req, WriteFails(r)
      PROVE  FALSE
  BY <1>3 DEF WriteFails, AloneInvariant, ApprovalInvariant, TypeOK
<1>4. CASE Crash
  BY <1>0, <1>4, AloneCrash
<1>5. CASE UNCHANGED vars
  BY <1>0, <1>5 DEF vars, AloneInvariant
<1> QED
  BY <1>1, <1>2, <1>3, <1>4, <1>5 DEF Next

LEMMA AloneInit == Init => AloneInvariant
<1> SUFFICES ASSUME Init PROVE AloneInvariant
  OBVIOUS
<1>1. ApprovalInvariant
  BY InitEstablishes
<1>2. \A r \in Req : req[r] = Idle /\ req[r].pc = "idle"
  BY DEF Init, Idle
<1>3. \A d \in Draft : store[d] = Absent
  BY DEF Init
<1> QED
  BY <1>1, <1>2, <1>3 DEF AloneInvariant

-----------------------------------------------------------------------------
(* Every step of an unshared draft is a step of the lifecycle, or none       *)

\* The steps of a record are finitely many.
LEMMA UndecidedFinite ==
    ASSUME NEW rec \in Record
    PROVE  IsFiniteSet(Undecided(rec)) /\ Cardinality(Undecided(rec)) \in Nat
<1>1. rec.steps \in Seq(Step)
  BY DEF Record
<1>2. DOMAIN rec.steps = 1..Len(rec.steps) /\ Len(rec.steps) \in Nat
  BY <1>1
<1>3. IsFiniteSet(1..Len(rec.steps))
  BY <1>2, FS_Interval
<1>4. Undecided(rec) \in SUBSET (1..Len(rec.steps))
  BY <1>2 DEF Undecided
<1>5. IsFiniteSet(Undecided(rec))
  BY <1>3, <1>4, FS_Subset
<1> QED
  BY <1>5, FS_CardinalityType

\* A submitted draft has the one to three steps of its chain open.
LEMMA SubmittedLeft ==
    ASSUME NEW rec \in Record, NEW chain \in Chains \cup {<<Admin>>}
    PROVE  Cardinality(Undecided(Submitted(rec, chain))) \in 1..3
<1>1. chain \in Seq(Role) /\ Len(chain) \in 1..3
  <2>1. CASE chain \in Chains
    BY <2>1, ChainAssumption
  <2>2. CASE chain = <<Admin>>
    <3>1. Admin \in Role
      BY RoleAssumption
    <3> QED
      BY <2>2, <3>1
  <2> QED
    BY <2>1, <2>2
<1> PICK n : n = Len(chain)
  OBVIOUS
<1> DEFINE steps == [i \in 1..n |-> [role |-> chain[i], decision |-> "NONE", by |-> NoUser]]
<1>2. Submitted(rec, chain).steps = steps
  BY DEF Submitted, Record
<1>3. Undecided(Submitted(rec, chain)) = 1..n
  BY <1>2 DEF Undecided
<1>4. Cardinality(1..n) = n
  <2>1. 1 \in Int /\ n \in Int /\ 1 <= n /\ n - 1 + 1 = n
    BY <1>1
  <2>2. Cardinality(1..n) = IF 1 > n THEN 0 ELSE n - 1 + 1
    BY <2>1, FS_Interval
  <2> QED
    BY <2>1, <2>2
<1> QED
  BY <1>1, <1>3, <1>4

\* A decision of the current step leaves one open step less.
LEMMA DecidedLeft ==
    ASSUME NEW rec \in Record, NEW u \in User, NEW i \in DOMAIN rec.steps, IsCurrent(rec, i),
           NEW decision \in {"APPROVE", "REJECT"},
           NEW after, after.steps = Decided(rec, i, u, decision).steps
    PROVE  /\ Undecided(after) = Undecided(rec) \ {i}
           /\ Cardinality(Undecided(rec)) \in Nat \ {0}
           /\ Cardinality(Undecided(after)) = Cardinality(Undecided(rec)) - 1
<1>1. /\ DOMAIN after.steps = DOMAIN rec.steps
      /\ \A j \in DOMAIN rec.steps \ {i} : after.steps[j] = rec.steps[j]
      /\ after.steps[i].decision = decision
  BY DecidedSteps
<1>2. Undecided(after) = Undecided(rec) \ {i}
  BY <1>1 DEF Undecided
<1>3. IsFiniteSet(Undecided(rec)) /\ Cardinality(Undecided(rec)) \in Nat
  BY UndecidedFinite
<1>4. i \in Undecided(rec)
  BY DEF IsCurrent
<1>5. Cardinality(Undecided(rec)) # 0
  BY <1>3, <1>4, FS_EmptySet
<1> QED
  BY <1>2, <1>3, <1>4, <1>5, FS_RemoveElement

\* What a change of one record does to the facts the lifecycle speaks of.
LEMMA OneRecord ==
    ASSUME store \in [Draft -> Record], NEW d \in Draft,
           \A x \in Draft \ {d} : store'[x] = store[x]
    PROVE  /\ [x \in Draft |-> store'[x].status]
                 = [[x \in Draft |-> store[x].status] EXCEPT ![d] = store'[d].status]
           /\ [x \in Draft |-> Cardinality(Undecided(store'[x]))]
                 = [[x \in Draft |-> Cardinality(Undecided(store[x]))] EXCEPT
                       ![d] = Cardinality(Undecided(store'[d]))]
  OBVIOUS

\* put(): the draft is submitted, a step of it is approved or rejected, or it is cancelled.
LEMMA PutImplements ==
    ASSUME AloneInvariant, NEW r \in Req, Put(r)
    PROVE  Lifecycle!LifecycleNext
<1> PICK d : d = req[r].draft
  OBVIOUS
<1> PICK rec : rec = store[d]
  OBVIOUS
<1>1. /\ d \in Draft /\ rec \in Record
      /\ Outcome(rec, req[r].copy)
  BY AloneFacts DEF Put, PutCopy, Standing
<1>2. /\ store \in [Draft -> Record] /\ store' = [store EXCEPT ![d] = req[r].copy]
      /\ UNCHANGED applied
  BY DEF Put, PutCopy, AloneInvariant, ApprovalInvariant, TypeOK
<1>3. store'[d] = req[r].copy /\ \A x \in Draft \ {d} : store'[x] = store[x]
  BY <1>1, <1>2
<1> DEFINE status == [x \in Draft |-> store[x].status]
           left == [x \in Draft |-> Cardinality(Undecided(store[x]))]
<1>4. /\ [x \in Draft |-> store'[x].status] = [status EXCEPT ![d] = store'[d].status]
      /\ [x \in Draft |-> Cardinality(Undecided(store'[x]))]
            = [left EXCEPT ![d] = Cardinality(Undecided(store'[d]))]
  BY <1>1, <1>2, <1>3, OneRecord
<1>5. /\ status[d] = rec.status /\ left[d] = Cardinality(Undecided(rec))
      /\ [x \in Draft |-> applied'[x] > 0] = [x \in Draft |-> applied[x] > 0]
  BY <1>1, <1>2
<1>6. ASSUME rec.status = "DRAFT", NEW chain \in Chains \cup {<<Admin>>},
             store'[d] = Submitted(rec, chain)
      PROVE  Lifecycle!SubmitDraft(d)
  <2>1. store'[d].status = "PENDING_APPROVAL"
    BY <1>6 DEF Submitted, Record
  <2>2. Cardinality(Undecided(store'[d])) \in 1..3
    BY <1>1, <1>6, SubmittedLeft
  <2> QED
    BY <1>4, <1>5, <1>6, <2>1, <2>2 DEF Lifecycle!SubmitDraft, Lifecycle!Move
<1>7. ASSUME rec.status = "PENDING_APPROVAL", NEW i \in DOMAIN rec.steps, NEW u \in User,
             IsCurrent(rec, i), store'[d] = AfterApproval(rec, i, u)
      PROVE  Lifecycle!ApproveStep(d)
  <2> DEFINE after == Decided(rec, i, u, "APPROVE")
  <2>1. after \in Record /\ after.status = "PENDING_APPROVAL"
    BY <1>1, <1>7, DecidedSteps
  <2> HIDE DEF after
  <2>2. /\ store'[d].steps = after.steps
        /\ store'[d].status = IF Undecided(after) = {} THEN "APPROVED" ELSE "PENDING_APPROVAL"
    BY <1>7, <2>1 DEF AfterApproval, after, Record
  <2>3. /\ Undecided(after) = Undecided(rec) \ {i}
        /\ Cardinality(Undecided(rec)) \in Nat \ {0}
        /\ Cardinality(Undecided(after)) = Cardinality(Undecided(rec)) - 1
    BY <1>1, <1>7, DecidedLeft DEF after
  <2>4. Undecided(store'[d]) = Undecided(after)
    BY <2>2 DEF Undecided
  <2>5. Undecided(after) = {} <=> Cardinality(Undecided(rec)) = 1
    <3>1. IsFiniteSet(Undecided(after))
      BY <2>1, UndecidedFinite
    <3>2. Undecided(after) = {} <=> Cardinality(Undecided(after)) = 0
      BY <3>1, FS_EmptySet
    <3> QED
      BY <2>3, <3>2
  <2>6. /\ left[d] > 0
        /\ [left EXCEPT ![d] = Cardinality(Undecided(store'[d]))] = [left EXCEPT ![d] = @ - 1]
    <3>1. left[d] > 0 /\ Cardinality(Undecided(store'[d])) = left[d] - 1
      BY <1>5, <2>3, <2>4
    <3> HIDE DEF left
    <3> QED
      BY <3>1
  <2>7. store'[d].status = IF left[d] = 1 THEN "APPROVED" ELSE "PENDING_APPROVAL"
    BY <1>5, <2>2, <2>5
  <2> QED
    BY <1>4, <1>5, <1>7, <2>6, <2>7 DEF Lifecycle!ApproveStep, Lifecycle!Move
<1>8. ASSUME rec.status = "PENDING_APPROVAL", NEW i \in DOMAIN rec.steps, NEW u \in User,
             IsCurrent(rec, i),
             store'[d] = [Decided(rec, i, u, "REJECT") EXCEPT !.status = "REJECTED"]
      PROVE  Lifecycle!RejectStep(d)
  <2> DEFINE after == Decided(rec, i, u, "REJECT")
  <2>1. after \in Record
    BY <1>1, DecidedSteps
  <2> HIDE DEF after
  <2>2. store'[d].steps = after.steps /\ store'[d].status = "REJECTED"
    BY <1>8, <2>1 DEF after, Record
  <2>3. /\ Cardinality(Undecided(rec)) \in Nat \ {0}
        /\ Cardinality(Undecided(store'[d])) = Cardinality(Undecided(rec)) - 1
    <3>1. /\ Cardinality(Undecided(rec)) \in Nat \ {0}
          /\ Cardinality(Undecided(after)) = Cardinality(Undecided(rec)) - 1
      BY <1>1, <1>8, DecidedLeft DEF after
    <3>2. Undecided(store'[d]) = Undecided(after)
      BY <2>2 DEF Undecided
    <3> QED
      BY <3>1, <3>2
  <2>4. /\ left[d] > 0
        /\ [left EXCEPT ![d] = Cardinality(Undecided(store'[d]))] = [left EXCEPT ![d] = @ - 1]
    <3>1. left[d] > 0 /\ Cardinality(Undecided(store'[d])) = left[d] - 1
      BY <1>5, <2>3
    <3> HIDE DEF left
    <3> QED
      BY <3>1
  <2> QED
    BY <1>4, <1>5, <1>8, <2>2, <2>4 DEF Lifecycle!RejectStep, Lifecycle!Move
<1>9. ASSUME rec.status \in {"DRAFT", "PENDING_APPROVAL", "APPROVED"},
             store'[d] = [rec EXCEPT !.status = "CANCELLED"]
      PROVE  Lifecycle!CancelDraft(d)
  <2>1. store'[d].steps = rec.steps /\ store'[d].status = "CANCELLED"
    BY <1>1, <1>9 DEF Record
  <2>2. [left EXCEPT ![d] = Cardinality(Undecided(store'[d]))] = left
    <3>1. Undecided(store'[d]) = Undecided(rec)
      BY <2>1 DEF Undecided
    <3>2. Cardinality(Undecided(store'[d])) = left[d] /\ left = [x \in Draft |-> left[x]]
      BY <1>5, <3>1
    <3> HIDE DEF left
    <3> QED
      BY <3>2
  <2> QED
    BY <1>4, <1>5, <1>9, <2>1, <2>2 DEF Lifecycle!CancelDraft, Lifecycle!Move
<1>10. \/ Lifecycle!SubmitDraft(d) \/ Lifecycle!ApproveStep(d)
       \/ Lifecycle!RejectStep(d) \/ Lifecycle!CancelDraft(d)
  <2>1. CASE /\ rec.status = "DRAFT"
             /\ \E chain \in Chains \cup {<<Admin>>} : req[r].copy = Submitted(rec, chain)
    BY <1>3, <1>6, <2>1
  <2>2. ASSUME rec.status = "PENDING_APPROVAL", NEW i \in DOMAIN rec.steps, NEW u \in User,
               IsCurrent(rec, i),
               \/ req[r].copy = AfterApproval(rec, i, u)
               \/ req[r].copy = [Decided(rec, i, u, "REJECT") EXCEPT !.status = "REJECTED"]
        PROVE  Lifecycle!ApproveStep(d) \/ Lifecycle!RejectStep(d)
    BY <1>3, <1>7, <1>8, <2>2
  <2>3. CASE /\ rec.status \in {"DRAFT", "PENDING_APPROVAL", "APPROVED"}
             /\ req[r].copy = [rec EXCEPT !.status = "CANCELLED"]
    BY <1>3, <1>9, <2>3
  <2> QED
    BY <1>1, <2>1, <2>2, <2>3 DEF Outcome
<1> QED
  BY <1>1, <1>10 DEF Lifecycle!LifecycleNext

\* The puts of execute() start the execution and end it.
LEMMA ExecutionImplements ==
    ASSUME AloneInvariant, NEW r \in Req, ExecutePut(r) \/ DonePut(r) \/ FailPut(r)
    PROVE  Lifecycle!LifecycleNext
<1> PICK d : d = req[r].draft
  OBVIOUS
<1> PICK rec : rec = store[d]
  OBVIOUS
<1>1. d \in Draft /\ rec \in Record /\ Standing(req[r], rec)
  BY AloneFacts DEF ExecutePut, DonePut, FailPut, PutCopy
<1>2. /\ store \in [Draft -> Record] /\ store' = [store EXCEPT ![d] = req[r].copy]
      /\ UNCHANGED applied
  BY DEF ExecutePut, DonePut, FailPut, PutCopy, AloneInvariant, ApprovalInvariant, TypeOK
<1>3. store'[d] = req[r].copy /\ \A x \in Draft \ {d} : store'[x] = store[x]
  BY <1>1, <1>2
<1> DEFINE status == [x \in Draft |-> store[x].status]
           left == [x \in Draft |-> Cardinality(Undecided(store[x]))]
           written == [x \in Draft |-> applied[x] > 0]
<1>4. /\ [x \in Draft |-> store'[x].status] = [status EXCEPT ![d] = store'[d].status]
      /\ [x \in Draft |-> Cardinality(Undecided(store'[x]))]
            = [left EXCEPT ![d] = Cardinality(Undecided(store'[d]))]
  BY <1>1, <1>2, <1>3, OneRecord
<1>5. ASSUME NEW s, req[r].copy = [rec EXCEPT !.status = s]
      PROVE  /\ store'[d].status = s
             /\ [x \in Draft |-> Cardinality(Undecided(store'[x]))] = left
  <2>1. store'[d].status = s /\ store'[d].steps = rec.steps
    BY <1>1, <1>3, <1>5 DEF Record
  <2>2. Undecided(store'[d]) = Undecided(rec)
    BY <2>1 DEF Undecided
  <2>3. [left EXCEPT ![d] = Cardinality(Undecided(store'[d]))] = left
    BY <1>1, <2>2
  <2> QED
    BY <1>4, <2>1, <2>3
<1>6. status[d] = rec.status /\ [x \in Draft |-> applied'[x] > 0] = written
  BY <1>1, <1>2
<1>7. CASE ExecutePut(r)
  <2>1. rec.status = "APPROVED" /\ req[r].copy = [rec EXCEPT !.status = "EXECUTING"]
    BY <1>1, <1>7 DEF ExecutePut, PutCopy, Standing
  <2>2. Lifecycle!StartExecution(d)
    BY <1>4, <1>5, <1>6, <2>1 DEF Lifecycle!StartExecution, Lifecycle!Move
  <2> QED
    BY <1>1, <2>2 DEF Lifecycle!LifecycleNext
<1>8. CASE DonePut(r)
  <2>1. rec.status = "EXECUTING" /\ req[r].copy = [rec EXCEPT !.status = "EXECUTED"]
    BY <1>1, <1>8 DEF DonePut, PutCopy, Standing
  <2>2. written[d]
    BY <1>1, <1>8 DEF DonePut, PutCopy, AloneInvariant
  <2>3. Lifecycle!Succeed(d)
    BY <1>4, <1>5, <1>6, <2>1, <2>2 DEF Lifecycle!Succeed, Lifecycle!Move
  <2> QED
    BY <1>1, <2>3 DEF Lifecycle!LifecycleNext
<1>9. CASE FailPut(r)
  <2>1. rec.status = "EXECUTING" /\ req[r].copy = [rec EXCEPT !.status = "EXECUTION_FAILED"]
    BY <1>1, <1>9 DEF FailPut, PutCopy, Standing
  <2>2. Lifecycle!GiveUp(d)
    BY <1>4, <1>5, <1>6, <2>1 DEF Lifecycle!GiveUp, Lifecycle!Move
  <2> QED
    BY <1>1, <2>2 DEF Lifecycle!LifecycleNext
<1> QED
  BY <1>7, <1>8, <1>9

\* create() puts a DRAFT without steps.
LEMMA CreateImplements ==
    ASSUME AloneInvariant, NEW r \in Req, NEW u \in User, NEW d \in Draft,
           NEW submitNow \in BOOLEAN, Create(r, u, d, submitNow)
    PROVE  Lifecycle!LifecycleNext
<1>1. /\ store \in [Draft -> Record]
      /\ store' = [store EXCEPT ![d] = [Absent EXCEPT !.status = "DRAFT", !.origin = u]]
      /\ store[d].status = "ABSENT" /\ store[d] = Absent
      /\ UNCHANGED applied
  BY DEF Create, AloneInvariant, ApprovalInvariant, TypeOK
<1>2. /\ store'[d].status = "DRAFT" /\ store'[d].steps = store[d].steps
      /\ \A x \in Draft \ {d} : store'[x] = store[x]
  BY <1>1 DEF Absent
<1> DEFINE status == [x \in Draft |-> store[x].status]
           left == [x \in Draft |-> Cardinality(Undecided(store[x]))]
<1>3. /\ [x \in Draft |-> store'[x].status] = [status EXCEPT ![d] = "DRAFT"]
      /\ [x \in Draft |-> Cardinality(Undecided(store'[x]))]
            = [left EXCEPT ![d] = Cardinality(Undecided(store'[d]))]
  BY <1>1, <1>2, OneRecord
<1>4. [left EXCEPT ![d] = Cardinality(Undecided(store'[d]))] = left
  BY <1>2 DEF Undecided
<1>5. status[d] = "ABSENT" /\ [x \in Draft |-> applied'[x] > 0] = [x \in Draft |-> applied[x] > 0]
  BY <1>1
<1>6. Lifecycle!CreateDraft(d)
  BY <1>3, <1>4, <1>5 DEF Lifecycle!CreateDraft, Lifecycle!Move
<1> QED
  BY <1>6 DEF Lifecycle!LifecycleNext

\* A call of the adapter that writes is the write-back of an executing draft.
LEMMA CallImplements ==
    ASSUME AloneInvariant, NEW r \in Req, req[r].pc = "call", UNCHANGED store,
           \/ applied' = [applied EXCEPT ![req[r].draft] = @ + 1]
           \/ applied' = applied
    PROVE  Lifecycle!LifecycleNext \/ UNCHANGED Lifecycle!lifecycleVars
<1> PICK d : d = req[r].draft
  OBVIOUS
<1>1. d \in Draft /\ store[d].status = "EXECUTING"
  BY AloneFacts DEF Standing
<1>2. CASE applied' = [applied EXCEPT ![d] = @ + 1]
  <2>1. applied \in [Draft -> Nat]
    BY DEF AloneInvariant, ApprovalInvariant, TypeOK
  <2>2. [x \in Draft |-> applied'[x] > 0] = [[x \in Draft |-> applied[x] > 0] EXCEPT ![d] = TRUE]
    <3>1. applied'[d] > 0 /\ \A x \in Draft \ {d} : applied'[x] = applied[x]
      BY <1>1, <1>2, <2>1
    <3> DEFINE written == [x \in Draft |-> applied[x] > 0]
    <3>2. \A x \in Draft : (applied'[x] > 0) = [written EXCEPT ![d] = TRUE][x]
      BY <3>1
    <3> QED
      BY <3>2
  <2>3. Lifecycle!WriteBack(d)
    BY <1>1, <2>2 DEF Lifecycle!WriteBack
  <2> QED
    BY <1>1, <2>3 DEF Lifecycle!LifecycleNext
<1>3. CASE applied' = applied
  BY <1>3 DEF Lifecycle!lifecycleVars
<1> QED
  BY <1>2, <1>3

LEMMA StepImplements ==
    ASSUME AloneInvariant, MaxFaults = 0, [Next]_vars
    PROVE  Lifecycle!LifecycleNext \/ UNCHANGED Lifecycle!lifecycleVars
<1>1. ASSUME UNCHANGED <<store, applied>>
      PROVE  UNCHANGED Lifecycle!lifecycleVars
  BY <1>1 DEF Lifecycle!lifecycleVars
<1>2. ASSUME NEW r \in Req, Arrive(r)
      PROVE  Lifecycle!LifecycleNext \/ UNCHANGED <<store, applied>>
  <2>1. ASSUME NEW d \in Draft, NEW u \in User, NEW submitNow \in BOOLEAN,
               Create(r, u, d, submitNow)
        PROVE  Lifecycle!LifecycleNext
    BY <2>1, CreateImplements
  <2> QED
    BY <1>2, <2>1 DEF Arrive, Submit, Approve, Reject, Cancel
<1>3. ASSUME NEW r \in Req, Continue(r)
      PROVE  Lifecycle!LifecycleNext \/ UNCHANGED Lifecycle!lifecycleVars
  <2>1. CASE Put(r)
    BY <2>1, PutImplements
  <2>2. CASE ExecutePut(r) \/ DonePut(r) \/ FailPut(r)
    BY <2>2, ExecutionImplements
  <2>3. CASE CallSucceeds(r)
    BY <2>3, CallImplements DEF CallSucceeds
  <2>4. ASSUME NEW wrote \in BOOLEAN, CallFails(r, wrote)
        PROVE  Lifecycle!LifecycleNext \/ UNCHANGED Lifecycle!lifecycleVars
    BY <2>4, CallImplements DEF CallFails
  <2>5. CASE \/ SubmitRefused(r) \/ Emit(r) \/ Notify(r) \/ ExecuteGet(r)
             \/ DoneEmit(r) \/ FailEmit(r)
    BY <1>1, <2>5 DEF SubmitRefused, Emit, Notify, ExecuteGet, DoneEmit, FailEmit, EmitStatus
  <2> QED
    BY <1>3, <2>1, <2>2, <2>3, <2>4, <2>5 DEF Continue
<1>4. ASSUME NEW r \in Req, WriteFails(r)
      PROVE  FALSE
  BY <1>4 DEF WriteFails, AloneInvariant, ApprovalInvariant, TypeOK
<1>5. CASE Crash \/ UNCHANGED vars
  BY <1>1, <1>5 DEF Crash, vars
<1> QED
  BY <1>1, <1>2, <1>3, <1>4, <1>5 DEF Next

\* However often the process restarts, a draft that requests do not share goes through the
\* documented lifecycle step by step: what actions.ts does to its record, its approval steps and
\* the target is a step of ActionLifecycle or no change of them at all.
THEOREM ImplementsLifecycleSafety ==
    ASSUME ~Overlap, MaxFaults = 0
    PROVE  Spec => Lifecycle!LifecycleSafety
<1>1. Init => Lifecycle!LifecycleInit
  <2> SUFFICES ASSUME Init PROVE Lifecycle!LifecycleInit
    OBVIOUS
  <2>1. \A d \in Draft : /\ store[d].status = "ABSENT"
                         /\ Undecided(store[d]) = {}
                         /\ ~(applied[d] > 0)
    BY DEF Init, Absent, Undecided
  <2>2. \A d \in Draft : Cardinality(Undecided(store[d])) = 0
    BY <2>1, FS_EmptySet
  <2>3. [d \in Draft |-> store[d].status] = [d \in Draft |-> "ABSENT"]
    BY <2>1
  <2>4. [d \in Draft |-> Cardinality(Undecided(store[d]))] = [d \in Draft |-> 0]
    BY <2>2
  <2>5. [d \in Draft |-> applied[d] > 0] = [d \in Draft |-> FALSE]
    <3>1. \A d \in Draft : applied[d] = 0
      BY DEF Init
    <3>2. \A d \in Draft : (applied[d] > 0) = FALSE
      BY <3>1
    <3> QED
      BY <3>2, Zenon
  <2> QED
    BY <2>3, <2>4, <2>5 DEF Lifecycle!LifecycleInit
<1>2. AloneInvariant /\ [Next]_vars => AloneInvariant'
  BY AlonePreserved
<1>3. AloneInvariant /\ [Next]_vars => [Lifecycle!LifecycleNext]_(Lifecycle!lifecycleVars)
  BY StepImplements
<1> QED
  BY <1>1, <1>2, <1>3, AloneInit, PTL DEF Spec, Lifecycle!LifecycleSafety

\* The lifecycle never leaves a terminal status.
LEMMA TerminalStays ==
    ASSUME Lifecycle!LifecycleNext \/ UNCHANGED Lifecycle!lifecycleVars,
           NEW d \in Draft,
           store[d].status \in {"REJECTED", "CANCELLED", "EXECUTED", "EXECUTION_FAILED"}
    PROVE  store'[d].status = store[d].status
<1> DEFINE status == [x \in Draft |-> store[x].status]
           after == [x \in Draft |-> store'[x].status]
<1>1. CASE UNCHANGED Lifecycle!lifecycleVars
  <2>1. after = status
    BY <1>1 DEF Lifecycle!lifecycleVars
  <2>2. after[d] = store'[d].status /\ status[d] = store[d].status
    OBVIOUS
  <2> QED
    BY <2>1, <2>2
<1>2. CASE Lifecycle!LifecycleNext
  <2>1. PICK x \in Draft :
          \/ after = status
          \/ /\ status[x] \in {"ABSENT", "DRAFT", "PENDING_APPROVAL", "APPROVED", "EXECUTING"}
             /\ \A y \in Draft \ {x} : after[y] = status[y]
    BY <1>2 DEF Lifecycle!LifecycleNext, Lifecycle!CreateDraft, Lifecycle!SubmitDraft,
                Lifecycle!ApproveStep, Lifecycle!RejectStep, Lifecycle!CancelDraft,
                Lifecycle!StartExecution, Lifecycle!WriteBack, Lifecycle!Succeed,
                Lifecycle!GiveUp, Lifecycle!Move
  <2>2. status[d] = store[d].status /\ after[d] = store'[d].status
    OBVIOUS
  <2> HIDE DEF status, after
  <2>3. after[d] = status[d]
    BY <2>1, <2>2
  <2> QED
    BY <2>2, <2>3
<1> QED
  BY <1>1, <1>2

\* A rejected, cancelled, executed or failed draft stays what it is, as long as no write fails
\* and no two requests work on it at once.
THEOREM TerminalIsFinalAlways ==
    ASSUME ~Overlap, MaxFaults = 0
    PROVE  Spec => TerminalIsFinal
<1>1. AloneInvariant /\ [Next]_vars => AloneInvariant'
  BY AlonePreserved
<1>2. AloneInvariant /\ [Next]_vars =>
        [\A d \in Draft : store[d].status \in {"REJECTED", "CANCELLED", "EXECUTED", "EXECUTION_FAILED"}
              => store'[d].status = store[d].status]_vars
  BY StepImplements, TerminalStays
<1> QED
  BY <1>1, <1>2, AloneInit, PTL DEF Spec, TerminalIsFinal

-----------------------------------------------------------------------------
(* Nobody is left out, as long as nothing is cut off                         *)

EndsWith(d, e) == events[d] # <<>> /\ events[d][Len(events[d])] = e

\* No request for d stands at one of pcs.
Past(d, pcs) == \A r \in Req : req[r].draft = d => req[r].pc \notin pcs

\* Everybody active who may decide the step that waits has the notice.
Told(d) ==
    \A i \in DOMAIN store[d].steps :
        (store[d].status = "PENDING_APPROVAL" /\ IsCurrent(store[d], i)) =>
            \A u \in Notified(store[d].steps[i].role, store[d].origin) :
                [to |-> u, about |-> "PENDING_APPROVAL", draft |-> d] \in inbox

\* A change of a record is announced and notified before its request ends.
SaidSo(d) ==
    /\ (store[d].status \in Event /\ Past(d, {"emit", "doneEmit", "failEmit"}))
           => EndsWith(d, store[d].status)
    /\ Past(d, {"emit", "notify"}) => Told(d)

SpokenInvariant == AloneInvariant /\ \A d \in Draft : SaidSo(d)

\* A draft whose record, events and requests a step leaves alone still has all said.
LEMMA OthersSaidSo ==
    ASSUME SpokenInvariant, NEW d \in Draft,
           store'[d] = store[d], events'[d] = events[d], inbox \subseteq inbox',
           \A p \in Req : req[p].draft = d => req'[p] = req[p]
    PROVE  SaidSo(d)'
<1>1. Past(d, {"emit", "doneEmit", "failEmit"})' => Past(d, {"emit", "doneEmit", "failEmit"})
  BY DEF Past
<1>2. Past(d, {"emit", "notify"})' => Past(d, {"emit", "notify"})
  BY DEF Past
<1>3. SaidSo(d)
  BY DEF SpokenInvariant
<1>4. Told(d) => Told(d)'
  BY DEF Told
<1>5. EndsWith(d, store[d].status) => EndsWith(d, store[d].status)'
  BY DEF EndsWith
<1> QED
  BY <1>1, <1>2, <1>3, <1>4, <1>5 DEF SaidSo

\* So the draft that counts is the one whose request moved.
LEMMA SpokenMoves ==
    ASSUME SpokenInvariant, AloneInvariant', NEW r \in Req, NEW d \in Draft, NEW q,
           req' = [req EXCEPT ![r] = q],
           req[r].pc = "idle" \/ req[r].draft = d,
           \A x \in Draft \ {d} : store'[x] = store[x] /\ events'[x] = events[x],
           inbox \subseteq inbox',
           SaidSo(d)'
    PROVE  SpokenInvariant'
<1>1. req \in [Req -> Request] /\ (req[r].pc = "idle" => req[r].draft = NoDraft)
  BY DEF SpokenInvariant, AloneInvariant, ApprovalInvariant, TypeOK, Idle
<1>2. \A p \in Req \ {r} : req'[p] = req[p]
  BY <1>1
<1>3. ASSUME NEW x \in Draft \ {d}
      PROVE  SaidSo(x)'
  <2>1. req[r].draft # x
    BY <1>1, RoleAssumption
  <2> QED
    BY <1>2, <2>1, OthersSaidSo
<1> QED
  BY <1>3 DEF SpokenInvariant

\* A request stands at the emission or the notification it owes.
LEMMA StillToSay ==
    ASSUME NEW d \in Draft, NEW r \in Req, NEW q, req[r] = q, q.draft = d
    PROVE  /\ q.pc \in {"emit", "doneEmit", "failEmit"} => ~Past(d, {"emit", "doneEmit", "failEmit"})
           /\ q.pc \in {"emit", "notify"} => ~Past(d, {"emit", "notify"})
  BY DEF Past

\* Requests that only read change nothing that was to be said.
LEMMA SpokenReads ==
    ASSUME SpokenInvariant, AloneInvariant', NEW r \in Req, NEW d \in Draft, NEW q,
           req' = [req EXCEPT ![r] = q],
           req[r].pc = "idle" \/ req[r].draft = d,
           req[r].pc \notin {"emit", "notify", "doneEmit", "failEmit"},
           UNCHANGED <<store, events, inbox>>
    PROVE  SpokenInvariant'
<1>1. req \in [Req -> Request] /\ (req[r].pc = "idle" => req[r].draft = NoDraft)
  BY DEF SpokenInvariant, AloneInvariant, ApprovalInvariant, TypeOK, Idle
<1>2. \A p \in Req \ {r} : req'[p] = req[p]
  BY <1>1
<1>3. Past(d, {"emit", "doneEmit", "failEmit"})' => Past(d, {"emit", "doneEmit", "failEmit"})
  BY <1>2 DEF Past
<1>4. Past(d, {"emit", "notify"})' => Past(d, {"emit", "notify"})
  BY <1>2 DEF Past
<1>5. SaidSo(d)
  BY DEF SpokenInvariant
<1>6. SaidSo(d)'
  BY <1>3, <1>4, <1>5 DEF SaidSo, Told, EndsWith
<1> QED
  BY <1>6, SpokenMoves

LEMMA SpokenCreate ==
    ASSUME SpokenInvariant, AloneInvariant', NEW r \in Req, NEW u \in User, NEW d \in Draft,
           NEW submitNow \in BOOLEAN, Create(r, u, d, submitNow)
    PROVE  SpokenInvariant'
<1>1. /\ store \in [Draft -> Record] /\ req \in [Req -> Request]
      /\ req[r] = Idle /\ req[r].pc = "idle"
  BY DEF SpokenInvariant, AloneInvariant, ApprovalInvariant, TypeOK, MayStart, Create
<1> PICK q : q = IF submitNow THEN [Idle EXCEPT !.pc = "submit", !.draft = d] ELSE Idle
  OBVIOUS
<1>2. req' = [req EXCEPT ![r] = q]
  BY <1>1 DEF Create
<1>3. store'[d].status = "DRAFT" /\ \A x \in Draft \ {d} : store'[x] = store[x]
  BY <1>1 DEF Create, Absent
<1>4. SaidSo(d)'
  BY <1>3 DEF SaidSo, Told, Event
<1> QED
  BY <1>1, <1>2, <1>3, <1>4, SpokenMoves DEF Create

\* A put owes the event it goes on to emit; an executing draft owes none.
LEMMA SpokenPut ==
    ASSUME SpokenInvariant, AloneInvariant', NEW r \in Req, NEW pc, NEW next,
           <<pc, next>> \in {<<"put", "emit">>, <<"execPut", "call">>,
                             <<"donePut", "doneEmit">>, <<"failPut", "failEmit">>},
           PutCopy(r, pc, next)
    PROVE  SpokenInvariant'
<1> PICK q : q = [req[r] EXCEPT !.pc = next]
  OBVIOUS
<1> PICK d : d = req[r].draft
  OBVIOUS
<1>1. AloneInvariant /\ ApprovalInvariant
  BY DEF SpokenInvariant, AloneInvariant
<1>2. /\ d \in Draft
      /\ req[r].copy.status \in StatusAt(pc)
      /\ store \in [Draft -> Record] /\ req \in [Req -> Request]
  BY <1>1, AloneFacts DEF PutCopy, ApprovalInvariant, TypeOK
<1>3. /\ req' = [req EXCEPT ![r] = q]
      /\ q.pc = next /\ q.draft = d
  <2>1. next \in Pc
    BY DEF Pc
  <2> QED
    BY <1>1, <2>1, AtMoves DEF PutCopy
<1>4. store'[d].status \in StatusAt(pc) /\ \A x \in Draft \ {d} : store'[x] = store[x]
  BY <1>2 DEF PutCopy
<1>5. req'[r] = q
  BY <1>2, <1>3
<1>6. CASE next = "call"
  <2>1. store'[d].status = "EXECUTING"
    BY <1>4, <1>6 DEF StatusAt
  <2>2. SaidSo(d)'
    BY <2>1 DEF SaidSo, Told, Event
  <2>3. events' = events /\ inbox' = inbox
    BY DEF PutCopy
  <2> QED
    BY <1>2, <1>3, <1>4, <2>2, <2>3, SpokenMoves
<1>7. CASE next # "call"
  <2>1. ~Past(d, {"emit", "doneEmit", "failEmit"})'
    BY <1>3, <1>5, <1>7 DEF Past
  <2>2. Told(d)' \/ ~Past(d, {"emit", "notify"})'
    <3>1. CASE next = "emit"
      BY <1>3, <1>5, <3>1 DEF Past
    <3>2. CASE next # "emit"
      <4>1. store'[d].status # "PENDING_APPROVAL"
        BY <1>4, <1>7, <3>2 DEF StatusAt
      <4> QED
        BY <4>1 DEF Told
    <3> QED
      BY <3>1, <3>2
  <2>3. SaidSo(d)'
    BY <2>1, <2>2 DEF SaidSo
  <2> QED
    BY <1>2, <1>3, <1>4, <2>3, SpokenMoves DEF PutCopy
<1> QED
  BY <1>6, <1>7

\* An emission ends the trail of its draft with the status that is stored.
LEMMA SpokenEmit ==
    ASSUME SpokenInvariant, AloneInvariant', NEW r \in Req,
           NEW pc \in {"emit", "doneEmit", "failEmit"},
           NEW after, EmitStatus(r, pc, after),
           \/ after = Finished(r) /\ (pc = "emit" => req[r].copy.status = "CANCELLED")
           \/ pc = "emit" /\ after = At(r, "notify")
    PROVE  SpokenInvariant'
<1> PICK d : d = req[r].draft
  OBVIOUS
<1> PICK e : e = req[r].copy.status
  OBVIOUS
<1>1. AloneInvariant /\ ApprovalInvariant
  BY DEF SpokenInvariant, AloneInvariant
<1>2. /\ d \in Draft /\ store[d] = req[r].copy /\ e \in StatusAt(pc)
      /\ events \in [Draft -> Seq(Event)] /\ req \in [Req -> Request]
      /\ events' = [events EXCEPT ![d] = Append(@, e)]
      /\ UNCHANGED <<store, inbox>>
  BY <1>1, AloneFacts DEF EmitStatus, Standing, ApprovalInvariant, TypeOK
<1>3. e \in Event /\ (pc # "emit" => e # "PENDING_APPROVAL")
  BY <1>2 DEF StatusAt, Event, Status
<1>4. EndsWith(d, store[d].status)'
  <2>1. events[d] \in Seq(Event) /\ events'[d] = Append(events[d], e)
    BY <1>2
  <2>2. /\ Append(events[d], e) # <<>>
        /\ Append(events[d], e)[Len(Append(events[d], e))] = e
    BY <1>3, <2>1
  <2> QED
    BY <1>2, <2>1, <2>2 DEF EndsWith
<1>5. \A x \in Draft \ {d} : store'[x] = store[x] /\ events'[x] = events[x]
  BY <1>2
<1>6. CASE after = Finished(r) /\ (pc = "emit" => e = "CANCELLED")
  <2>1. Told(d)'
    BY <1>2, <1>3, <1>6 DEF Told
  <2>2. req' = [req EXCEPT ![r] = Idle]
    BY <1>6 DEF EmitStatus, Finished
  <2> QED
    BY <1>2, <1>4, <1>5, <2>1, <2>2, SpokenMoves DEF SaidSo
<1>7. CASE pc = "emit" /\ after = At(r, "notify")
  <2> PICK q : q = [req[r] EXCEPT !.pc = "notify"]
    OBVIOUS
  <2>1. req' = [req EXCEPT ![r] = q] /\ q.pc = "notify" /\ q.draft = d
    BY <1>1, <1>7, AtMoves DEF EmitStatus, Pc
  <2>2. ~Past(d, {"emit", "notify"})'
    BY <1>2, <2>1 DEF Past
  <2> QED
    BY <1>2, <1>4, <1>5, <2>1, <2>2, SpokenMoves DEF SaidSo
<1> QED
  BY <1>6, <1>7

\* notifyRole writes to every active holder of the role that waits but the originator.
LEMMA SpokenNotify ==
    ASSUME SpokenInvariant, AloneInvariant', NEW r \in Req, Notify(r)
    PROVE  SpokenInvariant'
<1> PICK d : d = req[r].draft
  OBVIOUS
<1>1. AloneInvariant /\ ApprovalInvariant
  BY DEF SpokenInvariant, AloneInvariant
<1>2. /\ d \in Draft /\ store[d] = req[r].copy
      /\ req \in [Req -> Request]
      /\ UNCHANGED <<store, events>> /\ inbox \subseteq inbox'
      /\ req[r].pc = "notify"
      /\ \A p \in Req \ {r} : req[p].draft # d
  BY <1>1, AloneFacts DEF Notify, Standing, ApprovalInvariant, TypeOK
<1>3. Told(d)'
  <2> SUFFICES ASSUME NEW i \in DOMAIN store[d].steps, store[d].status = "PENDING_APPROVAL",
                      IsCurrent(store[d], i),
                      NEW u \in Notified(store[d].steps[i].role, store[d].origin)
               PROVE  [to |-> u, about |-> "PENDING_APPROVAL", draft |-> d] \in inbox'
    BY <1>2 DEF Told
  <2>1. u \in Recipients(store[d])
    BY DEF Recipients
  <2> QED
    BY <1>2, <2>1 DEF Notify
<1>4. Past(d, {"emit", "doneEmit", "failEmit"})
  BY <1>2 DEF Past
<1>5. store[d].status \in Event => EndsWith(d, store[d].status)'
  BY <1>2, <1>4 DEF SpokenInvariant, SaidSo, EndsWith
<1>6. SaidSo(d)'
  BY <1>2, <1>3, <1>5 DEF SaidSo
<1>7. PICK q : req' = [req EXCEPT ![r] = q]
  BY DEF Notify, At, Finished
<1> QED
  BY <1>2, <1>6, <1>7, SpokenMoves

\* Without failed writes and restarts, every step of requests that do not overlap preserves it.
LEMMA SpokenPreserved ==
    ASSUME SpokenInvariant, ~Overlap, MaxFaults = 0, MaxCrashes = 0, [Next]_vars
    PROVE  SpokenInvariant'
<1>0. AloneInvariant'
  BY AlonePreserved DEF SpokenInvariant
<1>00. req \in [Req -> Request] /\ \A r \in Req : req[r].pc # "idle" => req[r].draft \in Draft
  BY DEF SpokenInvariant, AloneInvariant, ApprovalInvariant, TypeOK
<1>1. ASSUME NEW r \in Req, Arrive(r)
      PROVE  SpokenInvariant'
  <2>1. ASSUME NEW d \in Draft, NEW chain \in Chains \cup {<<Admin>>}, Submit(r, d, chain)
        PROVE  SpokenInvariant'
    <3>1. PICK q : req' = [req EXCEPT ![r] = q]
      BY <2>1 DEF Submit
    <3> QED
      BY <1>0, <2>1, <3>1, SpokenReads DEF Submit, MayStart
  <2>2. ASSUME NEW d \in Draft, NEW u \in User, NEW submitNow \in BOOLEAN,
               Create(r, u, d, submitNow)
        PROVE  SpokenInvariant'
    BY <1>0, <2>2, SpokenCreate
  <2>3. ASSUME NEW d \in Draft, NEW u \in User, Approve(r, u, d) \/ Reject(r, u, d) \/ Cancel(r, u, d)
        PROVE  SpokenInvariant'
    <3>1. /\ req[r].pc = "idle" /\ UNCHANGED <<store, events, inbox>>
          /\ \E q : req' = [req EXCEPT ![r] = q]
      BY <2>3 DEF Approve, Reject, Cancel, MayStart
    <3> QED
      BY <1>0, <3>1, SpokenReads
  <2> QED
    BY <1>1, <2>1, <2>2, <2>3 DEF Arrive
<1>2. ASSUME NEW r \in Req, Continue(r)
      PROVE  SpokenInvariant'
  <2>1. CASE SubmitRefused(r) \/ ExecuteGet(r) \/ CallSucceeds(r) \/ \E wrote \in BOOLEAN : CallFails(r, wrote)
    <3>1. /\ req[r].pc \in {"submit", "execGet", "call"}
          /\ UNCHANGED <<store, events, inbox>>
      BY <2>1 DEF SubmitRefused, ExecuteGet, CallSucceeds, CallFails
    <3>2. \E q : req' = [req EXCEPT ![r] = q]
      BY <2>1 DEF SubmitRefused, ExecuteGet, CallSucceeds, CallFails, Finished
    <3> QED
      BY <1>0, <1>00, <3>1, <3>2, SpokenReads
  <2>2. CASE Put(r) \/ ExecutePut(r) \/ DonePut(r) \/ FailPut(r)
    BY <1>0, <2>2, SpokenPut DEF Put, ExecutePut, DonePut, FailPut
  <2>3. CASE Emit(r)
    <3> PICK after : after = IF req[r].copy.status = "CANCELLED" THEN Finished(r) ELSE At(r, "notify")
      OBVIOUS
    <3>1. EmitStatus(r, "emit", after)
      BY <2>3 DEF Emit
    <3> QED
      BY <1>0, <3>1, SpokenEmit
  <2>4. CASE DoneEmit(r) \/ FailEmit(r)
    BY <1>0, <2>4, SpokenEmit DEF DoneEmit, FailEmit
  <2>5. CASE Notify(r)
    BY <1>0, <2>5, SpokenNotify
  <2> QED
    BY <1>2, <2>1, <2>2, <2>3, <2>4, <2>5 DEF Continue
<1>3. ASSUME NEW r \in Req, WriteFails(r)
      PROVE  FALSE
  BY <1>3 DEF WriteFails, SpokenInvariant, AloneInvariant, ApprovalInvariant, TypeOK
<1>4. ~Crash
  BY DEF Crash, SpokenInvariant, AloneInvariant, ApprovalInvariant, TypeOK
<1>5. CASE UNCHANGED vars
  BY <1>0, <1>5 DEF vars, SpokenInvariant, SaidSo, Past, Told, EndsWith
<1> QED
  BY <1>1, <1>2, <1>3, <1>4, <1>5 DEF Next

LEMMA SpokenInit == Init => SpokenInvariant
  BY AloneInit DEF Init, SpokenInvariant, SaidSo, Told, Absent, Event

\* A registered type with only active accounts: every step of a chain has an approver.
Answerable(rec) == \A i \in DOMAIN rec.steps : Eligible(rec.steps[i].role, rec.origin) # {}

AllAnswerable ==
    /\ \A d \in Draft : Answerable(store[d])
    /\ \A r \in Req : Answerable(req[r].copy)

\* No decision changes the roles of a chain or the originator.
LEMMA DecisionAnswerable ==
    ASSUME NEW rec \in Record, Answerable(rec), NEW u \in User, NEW i \in DOMAIN rec.steps,
           NEW decision \in {"APPROVE", "REJECT"}, NEW after,
           after.steps = Decided(rec, i, u, decision).steps,
           after.origin = Decided(rec, i, u, decision).origin
    PROVE  Answerable(after)
<1>1. /\ after.origin = rec.origin
      /\ DOMAIN after.steps = DOMAIN rec.steps
      /\ \A j \in DOMAIN rec.steps : after.steps[j].role = rec.steps[j].role
  BY DecidedSteps
<1> QED
  BY <1>1 DEF Answerable

\* submit() checks that every role of a registered chain has somebody but the originator.
LEMMA SubmitAnswerable ==
    ASSUME NEW rec \in Record, ~Unregistered, NEW chain, ChainAllowed(chain, rec.origin)
    PROVE  Answerable(Submitted(rec, chain))
<1>1. \A i \in DOMAIN chain : Eligible(chain[i], rec.origin) # {}
  BY DEF ChainAllowed
<1>2. chain \in Seq(Role)
  BY ChainAssumption DEF ChainAllowed
<1>3. /\ Submitted(rec, chain).origin = rec.origin
      /\ Submitted(rec, chain).steps = [i \in 1..Len(chain) |->
            [role |-> chain[i], decision |-> "NONE", by |-> NoUser]]
  BY DEF Submitted, Record
<1> QED
  BY <1>1, <1>2, <1>3 DEF Answerable

LEMMA AnswerablePreserved ==
    ASSUME ApprovalInvariant, AllAnswerable, ~Unregistered, [Next]_vars
    PROVE  AllAnswerable'
<1>1. /\ store \in [Draft -> Record] /\ req \in [Req -> Request]
      /\ \A r \in Req : req[r].pc # "idle" => req[r].draft \in Draft
  BY DEF ApprovalInvariant, TypeOK
<1>2. Answerable(Absent) /\ Idle.copy = Absent
  BY DEF Answerable, Absent, Idle
<1>3. ASSUME NEW d \in Draft, NEW s
      PROVE  /\ [store[d] EXCEPT !.status = s].steps = store[d].steps
             /\ [store[d] EXCEPT !.status = s].origin = store[d].origin
             /\ Answerable([store[d] EXCEPT !.status = s])
  BY <1>1 DEF AllAnswerable, Answerable, Record
<1>4. ASSUME NEW r \in Req, NEW q, req' = [req EXCEPT ![r] = q], Answerable(q.copy), UNCHANGED store
      PROVE  AllAnswerable'
  BY <1>1, <1>4 DEF AllAnswerable
<1>5. ASSUME NEW r \in Req, NEW d, NEW copy, req' = [req EXCEPT ![r] = Holding(d, copy)],
             Answerable(copy), UNCHANGED store
      PROVE  AllAnswerable'
  <2>1. Holding(d, copy).copy = copy
    BY DEF Holding
  <2> QED
    BY <1>4, <1>5, <2>1
<1>6. ASSUME NEW r \in Req, NEW pc, NEW next, PutCopy(r, pc, next), pc # "idle"
      PROVE  AllAnswerable'
  <2>1. /\ req' = [req EXCEPT ![r].pc = next]
        /\ \A p \in Req : req'[p].copy = req[p].copy
    BY <1>1, <1>6 DEF PutCopy, At, Request
  <2> QED
    BY <1>1, <1>6, <2>1 DEF PutCopy, AllAnswerable
<1>7. ASSUME UNCHANGED store, \A p \in Req : req'[p].copy = req[p].copy \/ req'[p].copy = Absent
                \/ \E s : req'[p].copy = [req[p].copy EXCEPT !.status = s]
      PROVE  AllAnswerable'
  <2>1. \A p \in Req : req[p].copy \in Record
    BY <1>1 DEF Request
  <2>2. \A p \in Req : \A s : Answerable([req[p].copy EXCEPT !.status = s])
    BY <2>1 DEF AllAnswerable, Answerable, Record
  <2>3. ASSUME NEW p \in Req
        PROVE  Answerable(req'[p].copy)
    <3>1. CASE req'[p].copy = req[p].copy \/ req'[p].copy = Absent
      BY <1>2, <3>1 DEF AllAnswerable
    <3>2. ASSUME NEW s, req'[p].copy = [req[p].copy EXCEPT !.status = s]
          PROVE  Answerable(req'[p].copy)
      BY <2>2, <3>2
    <3> QED
      BY <1>7, <3>1, <3>2
  <2>4. \A d \in Draft : Answerable(store'[d])
    BY <1>7 DEF AllAnswerable
  <2> QED
    BY <2>3, <2>4 DEF AllAnswerable
<1>8. \A r \in Req : Finished(r) = [req EXCEPT ![r] = Idle]
  BY DEF Finished
<1>9. ASSUME NEW r \in Req, Arrive(r)
      PROVE  AllAnswerable'
  <2>1. ASSUME NEW d \in Draft, NEW chain \in Chains \cup {<<Admin>>}, Submit(r, d, chain)
        PROVE  AllAnswerable'
    <3>1. store[d] \in Record /\ ChainAllowed(chain, store[d].origin)
      BY <1>1, <2>1 DEF Submit
    <3>2. Answerable(Submitted(store[d], chain))
      BY <3>1, SubmitAnswerable
    <3> QED
      BY <1>5, <2>1, <3>2 DEF Submit
  <2>2. ASSUME NEW d \in Draft, NEW u \in User, NEW submitNow \in BOOLEAN,
               Create(r, u, d, submitNow)
        PROVE  AllAnswerable'
    <3>1. Answerable([Absent EXCEPT !.status = "DRAFT", !.origin = u])
      BY DEF Answerable, Absent
    <3>2. \A p \in Req : req'[p].copy = req[p].copy \/ req'[p].copy = Absent
      BY <1>1, <1>2, <2>2 DEF Create, Idle
    <3> QED
      BY <1>1, <1>2, <2>2, <3>1, <3>2 DEF Create, AllAnswerable
  <2>3. ASSUME NEW d \in Draft, NEW u \in User, Approve(r, u, d)
        PROVE  AllAnswerable'
    <3>1. PICK i \in DOMAIN store[d].steps :
            req' = [req EXCEPT ![r] = Holding(d, AfterApproval(store[d], i, u))]
      BY <2>3 DEF Approve
    <3>2. Decided(store[d], i, u, "APPROVE") \in Record
      BY <1>1, DecidedSteps
    <3>3. /\ AfterApproval(store[d], i, u).steps = Decided(store[d], i, u, "APPROVE").steps
          /\ AfterApproval(store[d], i, u).origin = Decided(store[d], i, u, "APPROVE").origin
      BY <3>2 DEF AfterApproval, Record
    <3>4. Answerable(AfterApproval(store[d], i, u))
      BY <1>1, <3>3, DecisionAnswerable DEF AllAnswerable
    <3> QED
      BY <1>5, <2>3, <3>1, <3>4 DEF Approve
  <2>4. ASSUME NEW d \in Draft, NEW u \in User, Reject(r, u, d)
        PROVE  AllAnswerable'
    <3>1. PICK i \in DOMAIN store[d].steps :
            req' = [req EXCEPT ![r] =
                Holding(d, [Decided(store[d], i, u, "REJECT") EXCEPT !.status = "REJECTED"])]
      BY <2>4 DEF Reject
    <3> PICK after : after = [Decided(store[d], i, u, "REJECT") EXCEPT !.status = "REJECTED"]
      OBVIOUS
    <3>2. Decided(store[d], i, u, "REJECT") \in Record
      BY <1>1, DecidedSteps
    <3>3. /\ after.steps = Decided(store[d], i, u, "REJECT").steps
          /\ after.origin = Decided(store[d], i, u, "REJECT").origin
      BY <3>2 DEF Record
    <3>4. Answerable(after)
      BY <1>1, <3>3, DecisionAnswerable DEF AllAnswerable
    <3> QED
      BY <1>5, <2>4, <3>1, <3>4 DEF Reject
  <2>5. ASSUME NEW d \in Draft, NEW u \in User, Cancel(r, u, d)
        PROVE  AllAnswerable'
    BY <1>3, <1>5, <2>5 DEF Cancel
  <2> QED
    BY <1>9, <2>1, <2>2, <2>3, <2>4, <2>5 DEF Arrive
<1>10. ASSUME NEW r \in Req, Continue(r)
       PROVE  AllAnswerable'
  <2>1. CASE Put(r) \/ ExecutePut(r) \/ DonePut(r) \/ FailPut(r)
    BY <1>6, <2>1 DEF Put, ExecutePut, DonePut, FailPut
  <2>2. CASE SubmitRefused(r) \/ DoneEmit(r) \/ FailEmit(r)
    BY <1>2, <1>4, <1>8, <2>2 DEF SubmitRefused, DoneEmit, FailEmit, EmitStatus
  <2>3. CASE Emit(r) \/ Notify(r)
    <3>1. UNCHANGED store /\ \E pc : req' = Finished(r) \/ req' = [req EXCEPT ![r].pc = pc]
      BY <2>3 DEF Emit, EmitStatus, Notify, At
    <3>2. \A p \in Req : req'[p].copy = req[p].copy \/ req'[p].copy = Absent
      BY <1>1, <1>2, <1>8, <3>1 DEF Request
    <3> QED
      BY <1>7, <3>1, <3>2
  <2>4. CASE ExecuteGet(r)
    <3>1. CASE store[req[r].draft].status = "APPROVED"
      <4> PICK copy : copy = [store[req[r].draft] EXCEPT !.status = "EXECUTING"]
        OBVIOUS
      <4>1. Answerable(copy)
        BY <1>1, <1>3, <2>4 DEF ExecuteGet
      <4>2. UNCHANGED store /\ \A p \in Req : req'[p].copy = req[p].copy \/ (p = r /\ req'[p].copy = copy)
        BY <1>1, <2>4, <3>1 DEF ExecuteGet, Request
      <4> QED
        BY <4>1, <4>2 DEF AllAnswerable
    <3>2. CASE store[req[r].draft].status # "APPROVED"
      BY <1>2, <1>4, <1>8, <2>4, <3>2 DEF ExecuteGet
    <3> QED
      BY <3>1, <3>2
  <2>5. CASE CallSucceeds(r) \/ \E wrote \in BOOLEAN : CallFails(r, wrote)
    <3>1. UNCHANGED store
      BY <2>5 DEF CallSucceeds, CallFails
    <3>2. \A p \in Req : \/ req'[p].copy = req[p].copy
                         \/ \E s : req'[p].copy = [req[p].copy EXCEPT !.status = s]
      BY <1>1, <2>5 DEF CallSucceeds, CallFails, Request
    <3> QED
      BY <1>7, <3>1, <3>2
  <2> QED
    BY <1>10, <2>1, <2>2, <2>3, <2>4, <2>5 DEF Continue
<1>11. ASSUME NEW r \in Req, WriteFails(r)
       PROVE  AllAnswerable'
  <2>1. \A p \in Req : \/ req'[p].copy = req[p].copy \/ req'[p].copy = Absent
                       \/ \E s : req'[p].copy = [req[p].copy EXCEPT !.status = s]
    BY <1>1, <1>2, <1>8, <1>11 DEF WriteFails, NextAttempt, At, Request
  <2> QED
    BY <1>7, <1>11, <2>1 DEF WriteFails
<1>12. CASE Crash
  BY <1>2, <1>7, <1>12 DEF Crash
<1>13. CASE UNCHANGED vars
  BY <1>7, <1>13 DEF vars
<1> QED
  BY <1>9, <1>10, <1>11, <1>12, <1>13 DEF Next

\* However requests overlap, fail or are cut off, a draft of a registered type that waits has
\* somebody who can log in and decide, and is not its originator, while no account is disabled.
THEOREM ApproverExistsAlways ==
    ASSUME ~Unregistered, Disabled = {}
    PROVE  Spec => []ApproverExists
<1>1. Init => AllAnswerable
  BY DEF Init, AllAnswerable, Answerable, Absent, Idle
<1>2. ApprovalInvariant /\ AllAnswerable /\ [Next]_vars => AllAnswerable'
  BY AnswerablePreserved
<1>3. AllAnswerable => ApproverExists
  <2> SUFFICES ASSUME AllAnswerable, NEW d \in Draft, NEW i \in DOMAIN store[d].steps,
                      store[d].status = "PENDING_APPROVAL", IsCurrent(store[d], i)
               PROVE  \E u \in User : MayDecide(u, store[d], i) /\ u # store[d].origin
    BY DEF ApproverExists
  <2>1. PICK u \in User : u # store[d].origin /\ Holds(u, store[d].steps[i].role)
    BY DEF AllAnswerable, Answerable, Eligible
  <2> QED
    BY <2>1 DEF MayDecide
<1> QED
  BY <1>1, <1>2, <1>3, InvariantHolds, PTL DEF Spec

\* Once nobody works on a draft, the trail of its events ends with its status and all who may
\* decide the step that waits have been told, when requests for one draft do not overlap, no
\* write fails and the process does not restart; and such an approver exists.
THEOREM NobodyLeftOutAlways ==
    ASSUME ~Overlap, MaxFaults = 0, MaxCrashes = 0, ~Unregistered, Disabled = {}
    PROVE  Spec => []NobodyLeftOut
<1>1. SpokenInvariant /\ [Next]_vars => SpokenInvariant'
  BY SpokenPreserved
<1>2. SpokenInvariant => AuditTrailComplete /\ ApproverTold
  <2> SUFFICES ASSUME SpokenInvariant PROVE AuditTrailComplete /\ ApproverTold
    OBVIOUS
  <2>1. \A d \in Draft : Quiet(d) =>
            Past(d, {"emit", "doneEmit", "failEmit"}) /\ Past(d, {"emit", "notify"})
    BY DEF Quiet, Past
  <2>2. AuditTrailComplete
    BY <2>1 DEF SpokenInvariant, SaidSo, EndsWith, AuditTrailComplete
  <2>3. ASSUME NEW d \in Draft, NEW i \in DOMAIN store[d].steps, NEW u \in User,
               MayDecide(u, store[d], i), u # store[d].origin
        PROVE  u \in Notified(store[d].steps[i].role, store[d].origin)
    BY <2>3 DEF MayDecide, Notified, Eligible
  <2>4. ApproverTold
    BY <2>1, <2>3 DEF SpokenInvariant, SaidSo, Told, ApproverTold
  <2> QED
    BY <2>2, <2>4
<1>3. AuditTrailComplete /\ ApproverTold /\ ApproverExists <=> NobodyLeftOut
  BY DEF NobodyLeftOut
<1> QED
  BY <1>1, <1>2, <1>3, SpokenInit, ApproverExistsAlways, PTL DEF Spec

=============================================================================
