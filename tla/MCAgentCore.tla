----------------------------- MODULE MCAgentCore -----------------------------
(***************************************************************************)
(* The parts of AgentCore that share no state with each other, explored by *)
(* one run as a disjoint sum: part says which of them moves, the others    *)
(* stay in their initial states.                                           *)
(***************************************************************************)
EXTENDS AgentRun, AgentContext, CircuitBreaker, EventStream, McpRuntime

VARIABLE part

partVars == <<part, agentVars, contextVars, breakerVars, streamVars, mcpVars>>

\* Every kind of step: w1 goes back into a1, w2 into a2, and so on until nesting is refused.
MCStep(type, agent, skip) == [type |-> type, agent |-> agent, skip |-> skip]
MCSteps ==
    [w1 |-> <<MCStep("tool", "a1", TRUE), MCStep("agent", "a1", FALSE), MCStep("render", "a1", FALSE)>>,
     w2 |-> <<MCStep("mcp", "a1", FALSE), MCStep("rules", "a1", FALSE), MCStep("compose", "a1", FALSE),
              MCStep("agent", "a2", FALSE)>>]
MCTurns == {<<"read", "read">>, <<"write", "read">>, <<"final">>}
MCRounds == {<<"read", "read", "read">>, <<"solver", "skill">>, <<"w1">>, <<"w2">>}

Init ==
    /\ part \in {"agent", "context", "breaker", "stream", "mcp"}
    /\ AgentInit /\ ContextInit /\ BreakerInit /\ StreamInit /\ McpInit
    /\ part # "context" => cxDialect = "openai"

Moves(p, A) == part = p /\ A /\ part' = part

AgentMoves(A) == Moves("agent", A) /\ UNCHANGED <<contextVars, breakerVars, streamVars, mcpVars>>
ContextMoves(A) == Moves("context", A) /\ UNCHANGED <<agentVars, breakerVars, streamVars, mcpVars>>
BreakerMoves(A) == Moves("breaker", A) /\ UNCHANGED <<agentVars, contextVars, streamVars, mcpVars>>
StreamMoves(A) == Moves("stream", A) /\ UNCHANGED <<agentVars, contextVars, breakerVars, mcpVars>>
McpMoves(A) == Moves("mcp", A) /\ UNCHANGED <<agentVars, contextVars, breakerVars, streamVars>>

Next ==
    \/ AgentMoves(AgentNext) \/ ContextMoves(ContextNext) \/ BreakerMoves(BreakerNext)
    \/ StreamMoves(StreamNext) \/ McpMoves(McpNext)

\* The fairness of each part's own specification; as part never changes, fairness to a
\* disjunction of actions of different parts is fairness to each.
Spec ==
    /\ Init /\ [][Next]_partVars
    /\ WF_partVars(AgentMoves(AgentProgress) \/ BreakerMoves(WindowSlides)
                    \/ StreamMoves(StreamProgress) \/ McpMoves(ServerReturns))
    /\ \A c \in Callers : WF_partVars(BreakerMoves(CallEnds(c)))
    /\ \A c \in McpCallers : WF_partVars(McpMoves(Marking(c)))
    /\ \A p \in McpProbes : WF_partVars(McpMoves(Probing(p)))

-----------------------------------------------------------------------------
(* Properties *)

\* The part that moves keeps its shape.
PartTypeOK ==
    CASE part = "agent" -> AgentTypeOK
      [] part = "context" -> ContextTypeOK
      [] part = "breaker" -> BreakerTypeOK
      [] part = "stream" -> StreamTypeOK
      [] part = "mcp" -> McpTypeOK

\* An agent's run keeps to its budget, whatever it nests, without a cycle and not too deep; after the
\* reminder that the context is full it asks once; and what it sends to a model is complete.
RunSound ==
    /\ part = "agent" => BudgetKept /\ NestingSound /\ OneLastChance
    /\ part = "context" => RequestsSound

\* Nothing hangs: an agent's run ends, a half-open breaker is decided, the browser learns how a task
\* ended and a server in ERROR recovers.
NothingHangs == RunEnds /\ ProbeDecides /\ EndIsSeen /\ McpRecovers

=============================================================================
