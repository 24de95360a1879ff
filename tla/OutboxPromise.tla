--------------------------- MODULE OutboxPromise ---------------------------
(***************************************************************************)
(* What the outbox promises its consumers (section 2 of                    *)
(* docs/PRD-addendum-execution-semantics.md): every event reaches every    *)
(* subscriber at least once or ends up among the dead letters, and within  *)
(* an aggregate nothing is sent while an earlier event is undecided.       *)
(***************************************************************************)
EXTENDS Naturals

CONSTANTS Event, Hook, AggOf, Wants

VARIABLES
    state,  \* what has become of each event
    pos,    \* its place in its aggregate
    seen,   \* <<e, h>>: h has received e
    lost    \* events that have been among the dead letters
promiseVars == <<state, pos, seen, lost>>

PromiseInit ==
    /\ state = [e \in Event |-> "ABSENT"]
    /\ pos = [e \in Event |-> 0]
    /\ seen = {} /\ lost = {}

Present == {e \in Event : state[e] # "ABSENT"}
Before(e) == {f \in Present : AggOf[f] = AggOf[e] /\ pos[f] < pos[e]}

Become(e, from, to) == state[e] = from /\ state' = [state EXCEPT ![e] = to]

\* Emitted events queue up behind the others of their aggregate.
Enqueue(e) ==
    /\ Become(e, "ABSENT", "PENDING")
    /\ pos' \in [Event -> Nat]
    /\ \A f \in Event \ {e} : pos'[f] = pos[f]
    /\ \A f \in Present : AggOf[f] = AggOf[e] => pos[f] < pos'[e]
    /\ UNCHANGED <<seen, lost>>

\* The head of an aggregate is sent to a subscriber; a revived dead letter does not hold
\* up what is under way.
Receive(e, h) ==
    /\ state[e] = "PENDING" /\ h \in Wants[e]
    /\ \A f \in Before(e) : state[f] # "PENDING" \/ f \in lost
    /\ seen' = seen \cup {<<e, h>>}
    /\ UNCHANGED <<state, pos, lost>>

Deliver(e) ==
    /\ Become(e, "PENDING", "DELIVERED")
    /\ \A h \in Wants[e] : <<e, h>> \in seen
    /\ UNCHANGED <<pos, seen, lost>>

Bury(e) ==
    /\ Become(e, "PENDING", "DEAD")
    /\ lost' = lost \cup {e}
    /\ UNCHANGED <<pos, seen>>

Revive(e) == Become(e, "DEAD", "PENDING") /\ UNCHANGED <<pos, seen, lost>>

PromiseNext == \E e \in Event :
    \/ Enqueue(e)
    \/ \E h \in Hook : Receive(e, h)
    \/ Deliver(e) \/ Bury(e) \/ Revive(e)

PromiseSafety == PromiseInit /\ [][PromiseNext]_promiseVars
=============================================================================
