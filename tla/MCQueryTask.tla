----------------------------- MODULE MCQueryTask -----------------------------
(* Small instances of QueryTask for TLC. *)
EXTENDS QueryTask

CONSTANTS t1, t2, t3, k1, c1

\* Submissions of one user: under the same key, in the same conversation, or both.
SameKey == [t \in Task |-> k1]
NoKeys == [t \in Task |-> NoKey]
SameConv == [t \in Task |-> c1]
NoConvs == [t \in Task |-> NoConv]

-----------------------------------------------------------------------------
(* Bounds on the interference explored *)

\* Only one of cancellers, repliers, timers and sweepers is between its steps at a time (the
\* pipelines and the submissions still overlap with it and with each other); streams with two
\* terminal events and a second old task are not followed further.
Calm ==
    /\ \A t \in Task : Len(events[t]) <= 1
    /\ Cardinality({x \in Task \X Actor : job[x[1]][x[2]] # NoJob}) <= 1
    /\ Cardinality(old) <= 1

-----------------------------------------------------------------------------
(* What the documents say and the code does not keep; the README tells which *)
(* constants make TLC show it.                                               *)

\* A task that has ended stays as it ended, as the terminal states of the orchestration
\* PRD's table have no way out.
EndedStays == [][\A t \in Task : status[t] \in Terminal => status'[t] = status[t]]_vars

\* A task that waits for a reply does not wait for ever, even if there is a restart.
WaitingEnds == \A t \in Task :
    (status[t] = "AWAITING_CLARIFICATION") ~> (status[t] # "AWAITING_CLARIFICATION")

\* A user's unfinished tasks never exceed the limit.
ActiveWithinLimit == Cardinality(ActiveTasks) <= ActiveLimit

\* Supersession cancels for the sake of a newer task, so it never cancels every task of
\* a conversation.
SomeTaskSurvives == \A c \in Conv :
    LET tasks == {t \in Task : ConvOf[t] = c /\ status[t] # "ABSENT"} IN
    tasks # {} => \E t \in tasks : t \notin cancelled

=============================================================================
