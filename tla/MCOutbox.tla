------------------------------ MODULE MCOutbox ------------------------------
(* Small instances of Outbox for TLC. *)
EXTENDS Outbox

CONSTANTS e1, e2, e3, a, b, c, h1, h2

\* Two events of one aggregate, the third of another.
Shared == [e \in Event |-> IF e = e3 THEN b ELSE a]

\* No aggregateKey given: every event is an aggregate of its own.
Alone == [e \in Event |-> CASE e = e1 -> a [] e = e2 -> b [] OTHER -> c]

\* Every webhook takes every event; or one of them filters the second, and nobody wants
\* the third.
WantsAll == [e \in Event |-> Hook]
WantsSome == [e \in Event |-> CASE e = e1 -> Hook [] e = e2 -> {h1} [] OTHER -> {}]

-----------------------------------------------------------------------------
(* What the documents say and the code does not keep; the README tells which *)
(* constants make TLC show it.                                               *)

\* Events about one draft reach a webhook in the order they were emitted.
DraftInOrder == \A h \in Hook : \A j \in DOMAIN got[h] : \A e \in Event :
    (/\ Stored(e) /\ row[e].created < row[got[h][j]].created
     /\ h \in Wants[e] /\ e \notin buried) => \E i \in 1..j-1 : got[h][i] = e

\* (aggregateKey, seq) identifies an event.
UniqueSeq == \A e, f \in Event :
    (e # f /\ f \in Siblings(e) /\ Stored(e)) => row[e].seq # row[f].seq
=============================================================================
