--------------------------- MODULE QueryLifecycle ---------------------------
(***************************************************************************)
(* What a query task promises whoever watches its event stream: statuses   *)
(* advance as docs/PRD-query-orchestration-service.md sections 5.1 and 8.2 *)
(* say, a task ends once, and its stream is closed by the one terminal     *)
(* event that tells how it ended.                                          *)
(***************************************************************************)
EXTENDS Naturals

CONSTANTS
    Task,       \* the tasks
    MaxRounds   \* how often a task may ask back

VARIABLES status, rounds, verdict
queryVars == <<status, rounds, verdict>>

Ended == {"COMPLETED", "FAILED", "CANCELLED"}
Executing == {"EXECUTING_WORKFLOW", "EXECUTING_AGENT"}

QueryInit ==
    /\ status = [t \in Task |-> "ABSENT"]
    /\ rounds = [t \in Task |-> 0]
    /\ verdict = [t \in Task |-> "OPEN"]    \* what the stream has said in the end

To(t, from, to) ==
    /\ status[t] \in from
    /\ status' = [status EXCEPT ![t] = to]

Accept(t) == To(t, {"ABSENT"}, "ROUTING") /\ UNCHANGED <<rounds, verdict>>

AskBack(t) ==
    /\ rounds[t] < MaxRounds
    /\ rounds' = [rounds EXCEPT ![t] = @ + 1]
    /\ To(t, {"ROUTING"}, "AWAITING_CLARIFICATION")
    /\ UNCHANGED verdict

Answered(t) == To(t, {"AWAITING_CLARIFICATION"}, "ROUTING") /\ UNCHANGED <<rounds, verdict>>

Begin(t) ==
    /\ \E kind \in Executing : To(t, {"ROUTING"}, kind)
    /\ UNCHANGED <<rounds, verdict>>

End(t) ==
    /\ \E how \in Ended : To(t, {"ROUTING", "AWAITING_CLARIFICATION"} \cup Executing, how)
    /\ UNCHANGED <<rounds, verdict>>

\* The terminal event says how the task ended, and is sent once.
Announce(t) ==
    /\ verdict[t] = "OPEN"
    /\ status[t] \in Ended
    /\ verdict' = [verdict EXCEPT ![t] = status[t]]
    /\ UNCHANGED <<status, rounds>>

QueryNext == \E t \in Task :
    Accept(t) \/ AskBack(t) \/ Answered(t) \/ Begin(t) \/ End(t) \/ Announce(t)

QuerySafety == QueryInit /\ [][QueryNext]_queryVars
=============================================================================
