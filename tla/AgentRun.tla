------------------------------ MODULE AgentRun ------------------------------
(***************************************************************************)
(* One run of the agent loop of agentcore (agent/loop.ts) with everything  *)
(* it nests: the guarded tool executor and the shared budget               *)
(* (tools/executor.ts, tools/budget.ts), workflows exposed as tools and    *)
(* agents invoked by workflow steps (engine.ts, workflow/executor.ts) and  *)
(* the nesting limits (runtime.ts).                                        *)
(*                                                                         *)
(* Nested invocations are awaited, so the loops in progress form a stack;  *)
(* only the reads of a parallel round are under way at the same time.      *)
(* What the model and the tools answer is chosen freely.                   *)
(***************************************************************************)
EXTENDS Naturals, FiniteSets, Sequences, SequencesExt

CONSTANTS
    Agents, Workflows,  \* what may be invoked
    Steps,              \* WorkflowDefinition.steps: [Workflows -> Seq(Step)]
    Rounds,             \* what a turn of the model may ask for: sequences of Block
    MaxIterations, MaxToolCalls, MaxSolverCalls,  \* AgentBudget
    ParallelReads       \* PARALLEL_READ_CONCURRENCY

ASSUME AgentRunAssumption ==
    {MaxIterations, MaxToolCalls, MaxSolverCalls, ParallelReads} \subseteq Nat

VARIABLES
    runStack,     \* the invocations in progress, outermost first
    budget,       \* BudgetTracker, one for the whole run
    ledger,       \* calls that passed the guards: agents' calls, their solver calls, nested workflows' calls
    runCancelled, \* the task is in the orchestrator's cancelled set
    runOutcome    \* how the run as a whole ended

agentVars == <<runStack, budget, ledger, runCancelled, runOutcome>>

-----------------------------------------------------------------------------
(* Blocks, steps and frames *)

\* A tool_use block: a builtin that reads, one that does not or an MCP tool, the expensive
\* invoke_solver, load_skill, or a workflow exposed as a tool.
Tools == {"read", "call", "solver"}
Block == Tools \cup {"skill"} \cup Workflows
IsRead(b) == b \in {"read", "skill"}

\* A workflow step: a tool through the executor (rules: evaluate_rules; mcp: invoke_mcp_tool),
\* a model call, an agent, or the answer.
Step == [type : {"tool", "rules", "mcp", "compose", "agent", "render"}, agent : Agents, skip : BOOLEAN]

\* No workflow is called like a tool.
ASSUME AgentRunInputs ==
    /\ Rounds \subseteq Seq(Block) /\ Steps \in [Workflows -> Seq(Step)]
    /\ Workflows \cap (Tools \cup {"skill"}) = {}

Progress == {"todo", "sent", "ok", "denied", "other"}
Frame == [kind : {"agent", "workflow"}, id : Agents \cup Workflows,
          pc : {"top", "ask", "round", "step", "end", "threw"},
          round : Seq(Block), did : Seq(Progress), paid : Seq({"later", "yes", "no"}),
          denies : Nat, warned : BOOLEAN, lastChance : BOOLEAN, asksLeft : 0..1, at : Nat]
NewFrame(kind, id) ==
    [kind |-> kind, id |-> id, pc |-> IF kind = "agent" THEN "top" ELSE "step",
     round |-> <<>>, did |-> <<>>, paid |-> <<>>, denies |-> 0, warned |-> FALSE,
     lastChance |-> FALSE, asksLeft |-> 1, at |-> 1]

AgentTypeOK ==
    /\ runStack \in Seq(Frame)
    /\ budget \in [iterations : Nat, toolCalls : Nat, solverCalls : Nat, expired : BOOLEAN]
    /\ ledger \in [calls : Nat, solver : Nat, nested : Nat]
    /\ runCancelled \in BOOLEAN
    /\ runOutcome \in {"NONE", "RETURNED", "THREW"}

AgentInit ==
    /\ runStack = <<>>
    /\ budget = [iterations |-> 0, toolCalls |-> 0, solverCalls |-> 0, expired |-> FALSE]
    /\ ledger = [calls |-> 0, solver |-> 0, nested |-> 0]
    /\ runCancelled = FALSE
    /\ runOutcome = "NONE"

Depth == Len(runStack)
Inner == runStack[Depth]
SetInner(f) == runStack' = [runStack EXCEPT ![Depth] = f]

\* The run is at the given point of an agent's loop, or of a workflow.
AgentAt(p) == runStack # <<>> /\ Inner.kind = "agent" /\ Inner.pc = p
WorkflowAt(p) == runStack # <<>> /\ Inner.kind = "workflow" /\ Inner.pc = p

-----------------------------------------------------------------------------
(* Budget and nesting *)

\* BudgetTracker.tryConsume for block b, with so many calls counted already.
MayConsume(b, tools, solvers) ==
    /\ ~budget.expired
    /\ tools < MaxToolCalls
    /\ b = "solver" => solvers < MaxSolverCalls

Consume(n, solvers) == budget' = [budget EXCEPT !.toolCalls = @ + n, !.solverCalls = @ + solvers]

MaxDepth == 3

\* callChain: the nested invocations; the top-level one is not in it.
CallChain == [i \in 1..Depth - 1 |-> <<runStack[i + 1].kind, runStack[i + 1].id>>]

\* enterNesting refuses a cycle and a fourth level.
MayEnter(kind, id) ==
    /\ <<kind, id>> \notin ToSet(CallChain)
    /\ Len(CallChain) + 1 <= MaxDepth

-----------------------------------------------------------------------------
(* The loop (runAgentLoop) *)

\* The orchestrator runs the agent or the workflow that the task was routed to.
RunStarts ==
    /\ runStack = <<>> /\ runOutcome = "NONE"
    /\ \/ \E a \in Agents : runStack' = <<NewFrame("agent", a)>>
       \/ \E w \in Workflows : runStack' = <<NewFrame("workflow", w)>>
    /\ UNCHANGED <<budget, ledger, runCancelled, runOutcome>>

\* The head of the loop: out of iterations, cancelled (only the outermost loop is given
\* isCancelled), out of time; otherwise an iteration is counted and the context is measured.
\* A context that folding and compaction leave too full brings the reminder: the last chance.
LoopTop ==
    /\ AgentAt("top")
    /\ IF budget.iterations >= MaxIterations \/ (runCancelled /\ Depth = 1) \/ budget.expired
       THEN SetInner([Inner EXCEPT !.pc = "end"]) /\ UNCHANGED budget
       ELSE /\ budget' = [budget EXCEPT !.iterations = @ + 1]
            /\ \E full \in BOOLEAN :
                 SetInner([Inner EXCEPT !.pc = "ask", !.lastChance = @ \/ full])
    /\ UNCHANGED <<ledger, runCancelled, runOutcome>>

\* The answer to the question asked on the last chance is spent.
Asked == [Inner EXCEPT !.asksLeft = IF Inner.lastChance THEN 0 ELSE @]

\* The model refuses: the context is exceeded (once: fold, remind, go on), or another error,
\* which leaves the loop as an exception.
AskFails ==
    /\ AgentAt("ask")
    /\ \/ ~Inner.lastChance /\ SetInner([Inner EXCEPT !.pc = "top", !.lastChance = TRUE])
       \/ Inner.lastChance /\ SetInner([Asked EXCEPT !.pc = "end"])
       \/ SetInner([Asked EXCEPT !.pc = "threw"])
    /\ UNCHANGED <<budget, ledger, runCancelled, runOutcome>>

\* The model answers in text, or with a final_answer that is accepted.
AskAnswered ==
    /\ AgentAt("ask")
    /\ SetInner([Asked EXCEPT !.pc = "end"])
    /\ UNCHANGED <<budget, ledger, runCancelled, runOutcome>>

\* A final_answer that fails validation: told so and asked again, unless it was the last chance.
AskInvalid ==
    /\ AgentAt("ask")
    /\ SetInner([Asked EXCEPT !.pc = IF Inner.lastChance THEN "end" ELSE "top"])
    /\ UNCHANGED <<budget, ledger, runCancelled, runOutcome>>

\* The decisions of a parallel round, taken in order before anything is sent: which of the
\* blocks of r the budget pays for (load_skill costs nothing).
Paying(r) == {i \in DOMAIN r : r[i] # "skill"}
Decisions(r) ==
    [i \in DOMAIN r |->
        LET before == budget.toolCalls + Cardinality({j \in Paying(r) : j < i}) IN
        IF r[i] = "skill" THEN "later" ELSE IF MayConsume(r[i], before, budget.solverCalls)
                                            THEN "yes" ELSE "no"]

\* The model asks for tools.  On the last chance that ends the loop; a round of reads only is
\* counted in advance and then sent in parallel.
AskRound ==
    /\ AgentAt("ask")
    /\ \E r \in Rounds :
        IF Inner.lastChance
        THEN SetInner([Asked EXCEPT !.pc = "end"]) /\ UNCHANGED budget
        ELSE LET parallel == Len(r) > 1 /\ \A i \in DOMAIN r : IsRead(r[i])
                 paid == IF parallel THEN Decisions(r) ELSE [i \in DOMAIN r |-> "later"]
             IN
             /\ SetInner([Inner EXCEPT !.pc = "round", !.round = r,
                                       !.did = [i \in DOMAIN r |-> "todo"], !.paid = paid])
             /\ Consume(Cardinality({i \in DOMAIN r : paid[i] = "yes"}), 0)
    /\ UNCHANGED <<ledger, runCancelled, runOutcome>>

-----------------------------------------------------------------------------
(* The blocks of a round *)

InFlight == Cardinality({i \in DOMAIN Inner.did : Inner.did[i] = "sent"})
Parallel == Len(Inner.round) > 1 /\ \A i \in DOMAIN Inner.round : IsRead(Inner.round[i])

\* mapLimit and the serial loop: block i is the next one to start.
NextBlock(i) ==
    /\ AgentAt("round")
    /\ i \in DOMAIN Inner.did /\ Inner.did[i] = "todo"
    /\ \A j \in 1..i - 1 : Inner.did[j] # "todo"
    /\ InFlight < IF Parallel THEN ParallelReads ELSE 1

Settle(i, how) == SetInner([Inner EXCEPT !.did[i] = how])

\* Scope, expiring token or IAM refuse block i, or IAM cannot be reached; nothing is counted.
BlockRefused(i) ==
    /\ NextBlock(i) /\ Inner.round[i] # "skill"
    /\ \E how \in {"denied", "other"} : Settle(i, how)
    /\ UNCHANGED <<budget, ledger, runCancelled, runOutcome>>

\* The budget does not allow block i.
BlockUnpaid(i) ==
    /\ NextBlock(i) /\ Inner.round[i] \in Tools
    /\ \/ Inner.paid[i] = "no"
       \/ /\ Inner.paid[i] = "later"
          /\ ~MayConsume(Inner.round[i], budget.toolCalls, budget.solverCalls)
    /\ Settle(i, "other")
    /\ UNCHANGED <<budget, ledger, runCancelled, runOutcome>>

\* Block i passes the guards and is sent (or served from the read cache, at the same price).
BlockSent(i) ==
    /\ NextBlock(i) /\ Inner.round[i] \in Tools
    /\ LET solver == IF Inner.round[i] = "solver" THEN 1 ELSE 0 IN
       /\ \/ Inner.paid[i] = "yes" /\ UNCHANGED budget
          \/ /\ Inner.paid[i] = "later"
             /\ MayConsume(Inner.round[i], budget.toolCalls, budget.solverCalls)
             /\ Consume(1, solver)
       /\ ledger' = [ledger EXCEPT !.calls = @ + 1, !.solver = @ + solver]
    /\ Settle(i, "sent")
    /\ UNCHANGED <<runCancelled, runOutcome>>

\* The tool answers, or the call fails; either way the call has its audit row.
BlockAnswered(i) ==
    /\ AgentAt("round")
    /\ i \in DOMAIN Inner.did /\ Inner.did[i] = "sent"
    /\ \E how \in {"ok", "other"} : Settle(i, how)
    /\ UNCHANGED <<budget, ledger, runCancelled, runOutcome>>

\* load_skill: found or not.
BlockSkill(i) ==
    /\ NextBlock(i) /\ Inner.round[i] = "skill"
    /\ \E how \in {"ok", "other"} : Settle(i, how)
    /\ UNCHANGED <<budget, ledger, runCancelled, runOutcome>>

\* runWorkflowAsTool: the workflow runs inside this block, unless nesting forbids it.
BlockWorkflow(i) ==
    /\ NextBlock(i) /\ Inner.round[i] \in Workflows
    /\ IF MayEnter("workflow", Inner.round[i])
       THEN runStack' = Append([runStack EXCEPT ![Depth].did[i] = "sent"],
                               NewFrame("workflow", Inner.round[i]))
       ELSE Settle(i, "other")
    /\ UNCHANGED <<budget, ledger, runCancelled, runOutcome>>

DenyLimit == 3

\* consecutiveDenies over the blocks in the order of the round.
DeniesAfter(denies, did) ==
    FoldLeft(LAMBDA n, how : IF how = "denied" THEN n + 1 ELSE IF how = "ok" THEN 0 ELSE n,
             denies, did)

\* All results are in: three denials in a row bring a warning, and end the loop if it was given.
RoundEnds ==
    /\ AgentAt("round")
    /\ \A i \in DOMAIN Inner.did : Inner.did[i] \notin {"todo", "sent"}
    /\ LET denies == DeniesAfter(Inner.denies, Inner.did)
           many == denies >= DenyLimit IN
       SetInner([Inner EXCEPT !.pc = IF many /\ Inner.warned THEN "end" ELSE "top",
                              !.warned = @ \/ many, !.denies = denies,
                              !.round = <<>>, !.did = <<>>, !.paid = <<>>])
    /\ UNCHANGED <<budget, ledger, runCancelled, runOutcome>>

-----------------------------------------------------------------------------
(* Workflow steps (runWorkflow) *)

StepNow == Steps[Inner.id][Inner.at]
StepIs(types) == WorkflowAt("step") /\ Inner.at <= Len(Steps[Inner.id]) /\ StepNow.type \in types
NextStep == [Inner EXCEPT !.at = @ + 1]

\* A template that cannot be resolved fails the workflow at any step.
StepUnresolved ==
    /\ WorkflowAt("step") /\ Inner.at <= Len(Steps[Inner.id])
    /\ SetInner([Inner EXCEPT !.pc = "threw"])
    /\ UNCHANGED <<budget, ledger, runCancelled, runOutcome>>

\* A tool step the executor denies completes the workflow, but fails it for an MCP tool.
StepDenied ==
    /\ StepIs({"tool", "rules", "mcp"})
    /\ SetInner([Inner EXCEPT !.pc = IF StepNow.type = "mcp" THEN "threw" ELSE "end"])
    /\ UNCHANGED <<budget, ledger, runCancelled, runOutcome>>

\* A tool step whose call is made, with an executor that has no budget: on to the next step; a
\* blocking rule completes the workflow, an error fails it unless the step says SKIP.
StepTool ==
    /\ StepIs({"tool", "rules", "mcp"})
    /\ \/ SetInner(NextStep)
       \/ StepNow.type = "rules" /\ SetInner([Inner EXCEPT !.pc = "end"])
       \/ (~StepNow.skip \/ StepNow.type = "mcp") /\ SetInner([Inner EXCEPT !.pc = "threw"])
    /\ ledger' = [ledger EXCEPT !.nested = IF Depth > 1 THEN @ + 1 ELSE @]
    /\ UNCHANGED <<budget, runCancelled, runOutcome>>

\* llm_compose: text, or the workflow fails.
StepCompose ==
    /\ StepIs({"compose"})
    /\ SetInner(NextStep) \/ SetInner([Inner EXCEPT !.pc = "threw"])
    /\ UNCHANGED <<budget, ledger, runCancelled, runOutcome>>

\* invoke_agent: the agent runs inside this step; nesting errors, or an agent that cannot be
\* resolved, fail the workflow.
StepAgent ==
    /\ StepIs({"agent"})
    /\ \/ /\ MayEnter("agent", StepNow.agent)
          /\ runStack' = Append(runStack, NewFrame("agent", StepNow.agent))
       \/ SetInner([Inner EXCEPT !.pc = "threw"])
    /\ UNCHANGED <<budget, ledger, runCancelled, runOutcome>>

\* render_answer, or no step is left.
StepsDone ==
    /\ WorkflowAt("step")
    /\ IF Inner.at <= Len(Steps[Inner.id]) THEN StepNow.type = "render" ELSE TRUE
    /\ SetInner([Inner EXCEPT !.pc = "end"])
    /\ UNCHANGED <<budget, ledger, runCancelled, runOutcome>>

-----------------------------------------------------------------------------
(* Returning *)

\* What the caller makes of a nested invocation that has ended as p: an agent notes the result
\* of the block, a workflow goes on or fails.
Resume(caller, p) ==
    IF caller.kind = "agent"
    THEN [caller EXCEPT !.did = [i \in DOMAIN caller.did |->
            IF caller.did[i] = "sent" THEN (IF p = "end" THEN "ok" ELSE "other")
                                      ELSE caller.did[i]]]
    ELSE IF p = "end" THEN [caller EXCEPT !.at = @ + 1] ELSE [caller EXCEPT !.pc = "threw"]

\* The innermost invocation returns or throws to its caller, the outermost to the orchestrator.
Return ==
    /\ runStack # <<>> /\ Inner.pc \in {"end", "threw"}
    /\ IF Depth = 1
       THEN /\ runStack' = <<>>
            /\ runOutcome' = IF Inner.pc = "end" THEN "RETURNED" ELSE "THREW"
       ELSE /\ runStack' = [i \in 1..Depth - 1 |->
                    IF i = Depth - 1 THEN Resume(runStack[i], Inner.pc) ELSE runStack[i]]
            /\ UNCHANGED runOutcome
    /\ UNCHANGED <<budget, ledger, runCancelled>>

-----------------------------------------------------------------------------
(* The surroundings *)

\* maxDurationMs has passed since the run began.
TimeIsUp ==
    /\ runStack # <<>> /\ ~budget.expired
    /\ budget' = [budget EXCEPT !.expired = TRUE]
    /\ UNCHANGED <<runStack, ledger, runCancelled, runOutcome>>

\* The user cancels the task.
CancelRun ==
    /\ runStack # <<>> /\ ~runCancelled
    /\ runCancelled' = TRUE
    /\ UNCHANGED <<runStack, budget, ledger, runOutcome>>

AgentProgress ==
    \/ LoopTop \/ AskFails \/ AskAnswered \/ AskInvalid \/ AskRound \/ RoundEnds
    \/ \E i \in 1..(IF runStack = <<>> THEN 0 ELSE Len(Inner.did)) :
        \/ BlockRefused(i) \/ BlockUnpaid(i) \/ BlockSent(i) \/ BlockAnswered(i)
        \/ BlockSkill(i) \/ BlockWorkflow(i)
    \/ StepUnresolved \/ StepDenied \/ StepTool \/ StepCompose \/ StepAgent \/ StepsDone \/ Return

AgentNext == RunStarts \/ AgentProgress \/ TimeIsUp \/ CancelRun

\* A run goes on as long as its calls are answered; the clock and the user need not act.
AgentSpec == AgentInit /\ [][AgentNext]_agentVars /\ WF_agentVars(AgentProgress)

-----------------------------------------------------------------------------
(* Properties *)

\* One budget bounds the whole run: the calls that agents made, however deep they are nested
\* and whichever rounds went out in parallel, stay within the limits of the task.
BudgetKept ==
    /\ ledger.calls <= budget.toolCalls /\ budget.toolCalls <= MaxToolCalls
    /\ ledger.solver <= budget.solverCalls /\ budget.solverCalls <= MaxSolverCalls
    /\ budget.iterations <= MaxIterations

\* An agent or a workflow that is nested does not run inside itself, and at most three are
\* nested, whatever agents and workflows call each other.
NestingSound == IsInjective(CallChain) /\ Len(CallChain) <= MaxDepth

\* After the reminder that the context is full the model has one answer and no more.
OneLastChance == \A i \in 1..Depth : runStack[i].pc = "ask" => runStack[i].asksLeft = 1

\* A run ends, whatever the model asks for and however its workflows and agents call each
\* other.
RunEnds == runStack # <<>> ~> runStack = <<>>

\* The comments of budget.ts and engine.ts: workflows nested in an agent's run consume the same
\* counters.
NestedCallsCounted == ledger.calls + ledger.nested <= budget.toolCalls

=============================================================================
