------------------------------- MODULE Outbox -------------------------------
(***************************************************************************)
(* OutboxService of apps/datacore/src/outbox.ts.  emit() appends an event  *)
(* to its aggregate; every five seconds a pass lists the PENDING rows and  *)
(* POSTs the head of every aggregate to the webhooks, then writes the      *)
(* outcome over the row it had listed.  A pass is not awaited, so a slow   *)
(* webhook lets passes overlap.                                            *)
(***************************************************************************)
EXTENDS Naturals, Sequences, FiniteSets

CONSTANTS
    Event,          \* events that may be emitted
    Aggregate,      \* aggregate keys
    AggOf,          \* the key emit() is given for each event, or the event's own id
    Hook,           \* ACTIVE webhooks
    Wants,          \* the hooks whose filter lets each event through
    Pass,           \* passes that may be under way at once
    Tiers,          \* BACKOFF_MS.length
    EmitOverlap,    \* TRUE: two emits for one aggregate may overlap
    MaxRedeliveries,\* bound: manual redeliveries
    MaxCrashes      \* bound: restarts

ASSUME OutboxAssumption ==
    /\ IsFiniteSet(Event)
    /\ AggOf \in [Event -> Aggregate]
    /\ Wants \in [Event -> SUBSET Hook]
    /\ Tiers \in Nat
    /\ EmitOverlap \in BOOLEAN
    /\ MaxRedeliveries \in Nat
    /\ MaxCrashes \in Nat

VARIABLES
    row,        \* repos.outboxEvents
    emitting,   \* {seq} for an emit between list and put, else {}
    pass,       \* what each pass has listed and where it stands
    redo,       \* redeliver requests between get and put
    got,        \* what each hook has received, first receipts in order
    acked,      \* <<e, h>>: h has answered 2xx for e
    buried,     \* history: events that have been DEAD
    redeliveries, crashes

vars == <<row, emitting, pass, redo, got, acked, buried, redeliveries, crashes>>

-----------------------------------------------------------------------------
(* Records *)

\* due: nextAttemptAt is not in the future; created orders rows as createdAt does.
Row == [status : {"ABSENT", "PENDING", "DELIVERED", "DEAD"}, seq : Nat,
        attempts : 0..Tiers + 1, due : BOOLEAN, created : Nat]
NoRow == [status |-> "ABSENT", seq |-> 0, attempts |-> 0, due |-> FALSE, created |-> 0]

\* todo: heads still to deliver; cur: the one being delivered; left: hooks still to
\* call for it; allOk: no call has failed; copy: the heads as they were listed.
PassState == [todo : SUBSET Event, cur : SUBSET Event, left : SUBSET Hook,
              allOk : BOOLEAN, copy : [Event -> Row]]
Resting == [todo |-> {}, cur |-> {}, left |-> {}, allOk |-> TRUE,
            copy |-> [e \in Event |-> NoRow]]

TypeOK ==
    /\ row \in [Event -> Row]
    /\ emitting \in [Event -> SUBSET Nat]
    /\ pass \in [Pass -> PassState]
    /\ redo \subseteq Event
    /\ got \in [Hook -> Seq(Event)]
    /\ acked \subseteq Event \X Hook
    /\ buried \subseteq Event
    /\ redeliveries \in 0..MaxRedeliveries /\ crashes \in 0..MaxCrashes

Init ==
    /\ row = [e \in Event |-> NoRow]
    /\ emitting = [e \in Event |-> {}]
    /\ pass = [p \in Pass |-> Resting]
    /\ redo = {} /\ acked = {} /\ buried = {}
    /\ got = [h \in Hook |-> <<>>]
    /\ redeliveries = 0 /\ crashes = 0

-----------------------------------------------------------------------------
(* emit *)

Stored(e) == row[e].status # "ABSENT"
Siblings(e) == {f \in Event : Stored(f) /\ AggOf[f] = AggOf[e]}

\* One more than the largest seq of the aggregate.
IsNextSeq(e, n) ==
    /\ \A f \in Siblings(e) : row[f].seq < n
    /\ n = 0 \/ \E f \in Siblings(e) : row[f].seq + 1 = n

EmitList(e, n) ==
    /\ row[e].status = "ABSENT" /\ emitting[e] = {}
    /\ EmitOverlap \/ \A f \in Event : AggOf[f] = AggOf[e] => emitting[f] = {}
    /\ IsNextSeq(e, n)
    /\ emitting' = [emitting EXCEPT ![e] = {n}]
    /\ UNCHANGED <<row, pass, redo, got, acked, buried, redeliveries, crashes>>

EmitPut(e) ==
    /\ \E n \in emitting[e] :
          row' = [row EXCEPT ![e] = [status |-> "PENDING", seq |-> n, attempts |-> 0, due |-> TRUE,
                                     created |-> Cardinality({f \in Event : Stored(f)})]]
    /\ emitting' = [emitting EXCEPT ![e] = {}]
    /\ UNCHANGED <<pass, redo, got, acked, buried, redeliveries, crashes>>

-----------------------------------------------------------------------------
(* processOnce and deliver *)

Pending == {e \in Event : row[e].status = "PENDING"}

\* Mutant of IsHeads: the aggregate's events are taken in no particular order.
IsHeadsUnsorted(H) ==
    /\ H \subseteq Pending
    /\ \A e \in Pending : \E f \in H : AggOf[f] = AggOf[e]
    /\ \A e, f \in H : AggOf[f] = AggOf[e] => f = e

\* One event of lowest seq per aggregate.
IsHeads(H) ==
    /\ H \subseteq Pending
    /\ \A e \in Pending : \E f \in H : AggOf[f] = AggOf[e]
    /\ \A e \in H : \A f \in Pending :
          AggOf[f] = AggOf[e] => row[e].seq <= row[f].seq /\ (f \in H => f = e)

Listed(H) == [Resting EXCEPT !.todo = H,
    !.copy = [e \in Event |-> IF e \in H THEN row[e] ELSE NoRow]]

\* Mutants of StartPass: events that are not due are left out before the heads are chosen;
\* an event that has failed is not listed again.
StartPassDueFirst(p) ==
    /\ pass[p] = Resting
    /\ \E H \in SUBSET {e \in Pending : row[e].due} :
          /\ H # {}
          /\ \A e, f \in H : AggOf[f] = AggOf[e] => f = e
          /\ \A e \in H, f \in Pending :
                (row[f].due /\ AggOf[f] = AggOf[e]) => row[e].seq <= row[f].seq
          /\ pass' = [pass EXCEPT ![p] = Listed(H)]
    /\ UNCHANGED <<row, emitting, redo, got, acked, buried, redeliveries, crashes>>

StartPassFirstTime(p) ==
    /\ pass[p] = Resting
    /\ \E H \in SUBSET Pending :
          LET heads == {e \in H : row[e].due /\ row[e].attempts = 0} IN
          /\ IsHeads(H) /\ heads # {}
          /\ pass' = [pass EXCEPT ![p] = Listed(heads)]
    /\ UNCHANGED <<row, emitting, redo, got, acked, buried, redeliveries, crashes>>

\* A head that is not due holds its whole aggregate back.
StartPass(p) ==
    /\ pass[p] = Resting
    /\ \E H \in SUBSET Pending :
          LET heads == {e \in H : row[e].due} IN
          /\ IsHeads(H) /\ heads # {}
          /\ pass' = [pass EXCEPT ![p] = Listed(heads)]
    /\ UNCHANGED <<row, emitting, redo, got, acked, buried, redeliveries, crashes>>

NextHead(p, e) ==
    /\ pass[p].cur = {} /\ e \in pass[p].todo
    /\ pass' = [pass EXCEPT ![p] = [pass[p] EXCEPT !.todo = @ \ {e}, !.cur = {e},
                                             !.left = Wants[e], !.allOk = TRUE]]
    /\ UNCHANGED <<row, emitting, redo, got, acked, buried, redeliveries, crashes>>

Received(h, e) == \E i \in DOMAIN got[h] : got[h][i] = e

\* Mutant of Post: the last answer decides.
PostLastWins(p, e, h, received, ok) ==
    /\ e \in pass[p].cur /\ h \in pass[p].left
    /\ ok => received
    /\ got' = IF received /\ ~Received(h, e) THEN [got EXCEPT ![h] = Append(@, e)] ELSE got
    /\ acked' = IF ok THEN acked \cup {<<e, h>>} ELSE acked
    /\ pass' = [pass EXCEPT ![p] = [pass[p] EXCEPT !.left = @ \ {h}, !.allOk = ok]]
    /\ UNCHANGED <<row, emitting, redo, buried, redeliveries, crashes>>

\* A hook receives the event or not, and answers 2xx only if it has.
Post(p, e, h, received, ok) ==
    /\ e \in pass[p].cur /\ h \in pass[p].left
    /\ ok => received
    /\ got' = IF received /\ ~Received(h, e) THEN [got EXCEPT ![h] = Append(@, e)] ELSE got
    /\ acked' = IF ok THEN acked \cup {<<e, h>>} ELSE acked
    /\ pass' = [pass EXCEPT ![p] = [pass[p] EXCEPT !.left = @ \ {h}, !.allOk = @ /\ ok]]
    /\ UNCHANGED <<row, emitting, redo, buried, redeliveries, crashes>>

Outcome(p, e, next) ==
    /\ e \in pass[p].cur /\ pass[p].left = {}
    /\ row' = [row EXCEPT ![e] = next]
    /\ pass' = [pass EXCEPT ![p] =
          IF pass[p].todo = {} THEN Resting ELSE [@ EXCEPT !.cur = {}, !.copy[e] = NoRow]]
    /\ UNCHANGED <<emitting, redo, got, acked, redeliveries, crashes>>

\* With no hook to call the attempt is not counted.
PutDelivered(p, e) ==
    LET copy == pass[p].copy[e] IN
    /\ pass[p].allOk
    /\ Outcome(p, e, [copy EXCEPT !.status = "DELIVERED",
                                  !.attempts = IF Wants[e] = {} THEN @ ELSE @ + 1])
    /\ UNCHANGED buried

PutFailed(p, e) ==
    LET copy == pass[p].copy[e]
        dead == copy.attempts + 1 > Tiers
    IN
    /\ ~pass[p].allOk
    /\ Outcome(p, e, [copy EXCEPT !.attempts = @ + 1,
                                  !.status = IF dead THEN "DEAD" ELSE "PENDING",
                                  !.due = dead /\ @])
    /\ buried' = IF dead THEN buried \cup {e} ELSE buried

\* The backoff of an event is over.
Elapse(e) ==
    /\ row[e].status = "PENDING" /\ ~row[e].due
    /\ row' = [row EXCEPT ![e].due = TRUE]
    /\ UNCHANGED <<emitting, pass, redo, got, acked, buried, redeliveries, crashes>>

-----------------------------------------------------------------------------
(* redeliver, restart *)

RedeliverGet(e) ==
    /\ row[e].status = "DEAD" /\ e \notin redo
    /\ redeliveries < MaxRedeliveries /\ redeliveries' = redeliveries + 1
    /\ redo' = redo \cup {e}
    /\ UNCHANGED <<row, emitting, pass, got, acked, buried, crashes>>

\* The row it has read was DEAD; seq and id stay.
RedeliverPut(e) ==
    /\ e \in redo
    /\ row' = [row EXCEPT ![e] = [@ EXCEPT !.status = "PENDING", !.attempts = 0, !.due = TRUE]]
    /\ redo' = redo \ {e}
    /\ UNCHANGED <<emitting, pass, got, acked, buried, redeliveries, crashes>>

Crash ==
    /\ crashes < MaxCrashes /\ crashes' = crashes + 1
    /\ emitting' = [e \in Event |-> {}]
    /\ pass' = [p \in Pass |-> Resting]
    /\ redo' = {}
    /\ UNCHANGED <<row, got, acked, buried, redeliveries>>

-----------------------------------------------------------------------------
(* The system *)

PassStep(p) ==
    \/ StartPass(p)
    \/ \E e \in Event : NextHead(p, e) \/ PutDelivered(p, e) \/ PutFailed(p, e)
    \/ \E e \in Event, h \in Hook, received, ok \in BOOLEAN : Post(p, e, h, received, ok)

Next ==
    \/ \E e \in Event :
          \/ \E n \in 0..Cardinality(Event) : EmitList(e, n)
          \/ EmitPut(e) \/ Elapse(e) \/ RedeliverGet(e) \/ RedeliverPut(e)
    \/ \E p \in Pass : PassStep(p)
    \/ Crash

Spec == Init /\ [][Next]_vars

\* The interval timer starts passes, every call is answered or fails in the end, time passes.
FairSpec ==
    /\ Spec
    /\ \A p \in Pass : WF_vars(PassStep(p))
    /\ \A e \in Event : WF_vars(Elapse(e))

-----------------------------------------------------------------------------
(* Properties *)

\* At least once: a row marked DELIVERED has been acknowledged by every webhook that
\* wanted it, however passes, redeliveries and restarts interleave.
AtLeastOnce == \A e \in Event :
    row[e].status = "DELIVERED" => \A h \in Wants[e] : <<e, h>> \in acked

\* Within an aggregate a webhook first sees the events by seq: it has not seen a later one
\* before an earlier one it wants, except where the earlier one has been a dead letter.
InOrder == \A h \in Hook : \A j \in DOMAIN got[h] : \A e \in Siblings(got[h][j]) :
    (/\ row[e].seq < row[got[h][j]].seq
     /\ h \in Wants[e] /\ e \notin buried) => \E i \in 1..j-1 : got[h][i] = e

\* Every emitted event is delivered or becomes a dead letter; none stays PENDING.
Settles == \A e \in Event :
    (row[e].status = "PENDING") ~> (row[e].status \in {"DELIVERED", "DEAD"})

\* An event once marked DELIVERED is not put back to PENDING by a pass that was late.
DeliveredStays == [][\A e \in Event :
    row[e].status = "DELIVERED" => row'[e].status = "DELIVERED"]_vars

-----------------------------------------------------------------------------
(* Why: the inductive invariant *)

Settled(e, h) == e \in buried \/ Received(h, e)

RowSound == \A e \in Event :
    /\ row[e].status = "PENDING" => row[e].attempts <= Tiers
    /\ row[e].status = "DELIVERED" => \A h \in Wants[e] : <<e, h>> \in acked
    /\ row[e].status = "DEAD" => e \in buried
    /\ e \in redo => Stored(e) /\ e \in buried
    /\ emitting[e] # {} => ~Stored(e)

\* Only what a webhook has received is acknowledged, only what is stored is received.
ReceiptSound == \A e \in Event, h \in Hook :
    /\ <<e, h>> \in acked => Received(h, e)
    /\ Received(h, e) => Stored(e)

\* A pass holds PENDING copies of stored rows, and one event at a time; while no call has
\* failed, every webhook called has acknowledged it.
PassSound == \A p \in Pass :
    /\ \A e \in pass[p].todo \cup pass[p].cur :
          /\ Stored(e)
          /\ pass[p].copy[e].status = "PENDING"
          /\ pass[p].copy[e].attempts <= Tiers
          /\ pass[p].copy[e].seq = row[e].seq
    /\ \A e, f \in pass[p].cur : e = f /\ e \notin pass[p].todo
    /\ \A e \in pass[p].cur :
          pass[p].allOk => \A h \in Wants[e] \ pass[p].left : <<e, h>> \in acked

DeliveryInvariant == TypeOK /\ RowSound /\ ReceiptSound /\ PassSound

\* Emits of one aggregate come one by one, each with a seq above those that are stored.
EmitSound ==
    /\ \A e, f \in Event :
          (emitting[e] # {} /\ emitting[f] # {} /\ AggOf[e] = AggOf[f]) => e = f
    /\ \A e, f \in Event : \A n \in emitting[e] :
          (Stored(f) /\ AggOf[f] = AggOf[e]) => row[f].seq < n

\* What a pass holds has nothing unsettled before it.
PassOrdered == \A p \in Pass : \A e \in pass[p].todo \cup pass[p].cur :
    \A f \in Siblings(e) : row[f].seq < row[e].seq => \A h \in Wants[f] : Settled(f, h)

OrderInvariant == EmitSound /\ PassOrdered /\ InOrder

OutboxInvariant == DeliveryInvariant /\ OrderInvariant

-----------------------------------------------------------------------------
(* The abstract promise *)

Promise == INSTANCE OutboxPromise WITH
    state <- [e \in Event |-> row[e].status],
    pos <- [e \in Event |-> row[e].seq],
    seen <- {x \in Event \X Hook : Received(x[2], x[1])},
    lost <- buried

\* With one pass at a time the outbox implements its promise.
KeepsPromise == Promise!PromiseSafety
=============================================================================
