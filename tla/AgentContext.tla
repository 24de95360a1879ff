---------------------------- MODULE AgentContext ----------------------------
(***************************************************************************)
(* The conversation an agent's run builds up and sends to a model          *)
(* (agent/loop.ts): assistant turns with tool calls, the messages that     *)
(* answer them, the folding of old results (agent/context.ts), the         *)
(* server's compaction, the reminders, and what the adapters make of it    *)
(* (llm-adapters anthropic.ts, openai.ts).                                 *)
(*                                                                         *)
(* A message is what it answers or calls; its size is not modelled: a      *)
(* measurement may find the conversation below the soft limit, above it or *)
(* at the hard limit.  Budgets and nesting are those of AgentRun.          *)
(***************************************************************************)
EXTENDS Naturals, FiniteSets, Sequences, SequencesExt

CONSTANTS
    Turns,            \* what an assistant turn may call: sequences of "read", "write" and "final"
    MaxRequests,      \* budget.maxIterations
    ReadsAtOnce,      \* PARALLEL_READ_CONCURRENCY
    FallbackCrosses   \* whether a request may be answered by a provider of the other dialect

ASSUME AgentContextAssumption ==
    /\ MaxRequests \in Nat /\ ReadsAtOnce \in Nat \ {0}
    /\ FallbackCrosses \in BOOLEAN
    /\ Turns \subseteq Seq({"read", "write", "final"})

VARIABLES
    cxDialect,   \* the adapter of the model: "anthropic" (which can compact) or "openai"
    cxMessages,  \* messages
    cxFrames,    \* frames: rounds of tools whose results are in messages
    cxNotes,     \* rollingNotes, by the iteration they are about
    cxSummary,   \* the notes summaryCache was made of; summaryLen is their number
    cxLoop,      \* where the loop is, and its flags
    cxRound      \* outcomes: what has come back of the round in progress

contextVars == <<cxDialect, cxMessages, cxFrames, cxNotes, cxSummary, cxLoop, cxRound>>

-----------------------------------------------------------------------------
(* Messages *)

Dialects == {"anthropic", "openai"}

\* calls: the tool_use blocks of an assistant turn; answers: the tool_result blocks of a user message.
\* A block is known by the iteration of its turn and its place there.  raw: whose verbatim message
\* goes with an assistant turn.
Message(role, text, calls, answers, raw) ==
    [role |-> role, text |-> text, calls |-> calls, answers |-> answers, raw |-> raw, folded |-> FALSE]

UserText(text) == Message("user", text, <<>>, <<>>, "none")
Answers(blocks) == Message("user", "none", <<>>, blocks, "none")
Calls(i, turn) == [k \in DOMAIN turn |-> <<i, k>>]

RoundFrame == [iteration : 1..MaxRequests, index : Nat, folded : BOOLEAN]

ContextTypeOK ==
    /\ cxDialect \in Dialects
    /\ \A k \in DOMAIN cxMessages : cxMessages[k].role \in {"user", "assistant"}
    /\ \A k \in DOMAIN cxFrames : cxFrames[k] \in RoundFrame
    /\ cxNotes \in Seq(1..MaxRequests)
    /\ cxSummary \in Seq(1..MaxRequests)
    /\ cxLoop.at \in {"top", "asked", "tools", "ended"}
    /\ cxLoop.iteration \in 0..MaxRequests
    /\ {cxLoop.edits, cxLoop.finalize, cxLoop.told} \subseteq BOOLEAN
    /\ cxLoop.denies \in Nat

\* finalizeUsed and finalizePending are set together and never reset: finalize stands for both.
ContextInit ==
    /\ cxDialect \in Dialects
    /\ cxMessages = <<UserText("task")>>
    /\ cxFrames = <<>>
    /\ cxNotes = <<>>
    /\ cxSummary = <<>>
    /\ cxLoop = [at |-> "top", iteration |-> 0, edits |-> FALSE, finalize |-> FALSE,
                 denies |-> 0, told |-> FALSE, outcome |-> "none"]
    /\ cxRound = <<>>

Ended(outcome) == [cxLoop EXCEPT !.at = "ended", !.outcome = outcome]

-----------------------------------------------------------------------------
(* Folding and summing up *)

Unfolded == FlattenSeq([k \in DOMAIN cxFrames |-> IF cxFrames[k].folded THEN <<>> ELSE <<cxFrames[k]>>])

\* The two latest rounds are never folded.
Foldable == IF Len(Unfolded) <= 2 THEN 0 ELSE Len(Unfolded) - 2

\* foldOldestFrame, n times: the frame says which message is folded, and the round goes to the notes.
Fold(n) == {k \in DOMAIN cxFrames : \E j \in 1..n : cxFrames[k] = Unfolded[j]}

FoldedMessages(n) ==
    [m \in DOMAIN cxMessages |->
        IF \E k \in Fold(n) : cxFrames[k].index = m
            THEN [cxMessages[m] EXCEPT !.folded = TRUE] ELSE cxMessages[m]]

FoldedFrames(n) ==
    [k \in DOMAIN cxFrames |-> IF k \in Fold(n) THEN [cxFrames[k] EXCEPT !.folded = TRUE] ELSE cxFrames[k]]

FoldedNotes(n) == cxNotes \o [j \in 1..n |-> Unfolded[j].iteration]

\* effectiveSystem: the summary is made anew when the number of notes is another one.
Summary(notes) == IF Len(notes) \in {0, Len(cxSummary)} THEN cxSummary ELSE notes

-----------------------------------------------------------------------------
(* The loop *)

\* Iterations or time are used up, or the task has been cancelled.
LoopStops ==
    /\ cxLoop.at = "top"
    /\ \/ cxLoop' = Ended("BUDGET_EXHAUSTED")
       \/ cxLoop.iteration < MaxRequests /\ cxLoop' = Ended("FAILED")
    /\ UNCHANGED <<cxDialect, cxMessages, cxFrames, cxNotes, cxSummary, cxRound>>

\* The three cuts: n rounds are folded, all that may be if that does not bring the size below the
\* soft limit; then the server is asked to compact, and at the hard limit the reminder is added.
Ask ==
    /\ cxLoop.at = "top" /\ cxLoop.iteration < MaxRequests
    /\ \E n \in 0..Foldable, size \in {"fine", "soft", "hard"} :
          /\ size = "fine" \/ n = Foldable
          /\ LET reminds == size = "hard" /\ ~cxLoop.finalize
             IN /\ cxMessages' = FoldedMessages(n) \o (IF reminds THEN <<UserText("reminder")>> ELSE <<>>)
                /\ cxLoop' = [cxLoop EXCEPT !.at = "asked", !.iteration = @ + 1,
                                            !.edits = size # "fine" /\ cxDialect = "anthropic",
                                            !.finalize = @ \/ reminds]
          /\ cxFrames' = FoldedFrames(n)
          /\ cxNotes' = FoldedNotes(n)
          /\ cxSummary' = Summary(FoldedNotes(n))
    /\ UNCHANGED <<cxDialect, cxRound>>

\* The provider finds the conversation too long: everything that may be is folded, once.
AskTooLong ==
    /\ cxLoop.at = "asked"
    /\ IF cxLoop.finalize
          THEN /\ cxLoop' = Ended("BUDGET_EXHAUSTED")
               /\ UNCHANGED <<cxMessages, cxFrames, cxNotes>>
          ELSE /\ cxMessages' = Append(FoldedMessages(Foldable), UserText("reminder"))
               /\ cxFrames' = FoldedFrames(Foldable)
               /\ cxNotes' = FoldedNotes(Foldable)
               /\ cxLoop' = [cxLoop EXCEPT !.at = "top", !.finalize = TRUE]
    /\ UNCHANGED <<cxDialect, cxSummary, cxRound>>

\* Any other failure is thrown.
AskThrows ==
    /\ cxLoop.at = "asked"
    /\ cxLoop' = Ended("THROWN")
    /\ UNCHANGED <<cxDialect, cxMessages, cxFrames, cxNotes, cxSummary, cxRound>>

\* An assistant turn arrives.  If it carries a compaction, only the task stays before it.
Compaction(turn, raw, compacted) ==
    LET kept == IF compacted THEN <<Head(cxMessages)>> ELSE cxMessages
    IN Append(kept, Message("assistant", "none", Calls(cxLoop.iteration, turn), <<>>, raw))

ForgetNothing(compacted) == UNCHANGED <<cxFrames, cxNotes>>
ForgetRounds(compacted) ==
    /\ cxFrames' = IF compacted THEN <<>> ELSE cxFrames
    /\ cxNotes' = IF compacted THEN <<>> ELSE cxNotes

FinalOf(turn) == SelectInSeq(turn, LAMBDA tool : tool = "final")

Answered(turn, raw, compacted) ==
    LET heard == Compaction(turn, raw, compacted)
        final == FinalOf(turn)
    IN \* no tool, or an answer that is accepted
       \/ /\ turn = <<>> \/ final > 0
          /\ cxMessages' = heard
          /\ cxLoop' = Ended("ANSWERED")
          /\ cxRound' = <<>>
       \* the last chance is used up
       \/ /\ turn # <<>> /\ cxLoop.finalize
          /\ cxMessages' = heard
          /\ cxLoop' = Ended("BUDGET_EXHAUSTED")
          /\ cxRound' = <<>>
       \* a final_answer that is not valid is answered itself, the other calls of the turn are not
       \/ /\ final > 0 /\ ~cxLoop.finalize
          /\ cxMessages' = Append(heard, Answers(<<Calls(cxLoop.iteration, turn)[final]>>))
          /\ cxLoop' = [cxLoop EXCEPT !.at = "top"]
          /\ cxRound' = <<>>
       \* tools are called
       \/ /\ turn # <<>> /\ final = 0 /\ ~cxLoop.finalize
          /\ cxMessages' = heard
          /\ cxLoop' = [cxLoop EXCEPT !.at = "tools"]
          /\ cxRound' = [k \in DOMAIN turn |-> [tool |-> turn[k], call |-> 0, did |-> "none"]]

TurnArrives ==
    /\ cxLoop.at = "asked"
    /\ \E turn \in Turns \cup {<<>>}, compacted \in BOOLEAN,
          raw \in (IF FallbackCrosses THEN Dialects ELSE {cxDialect}) :
          /\ compacted => cxLoop.edits
          /\ Answered(turn, raw, compacted)
          /\ ForgetRounds(compacted)
    /\ UNCHANGED <<cxDialect, cxSummary>>

-----------------------------------------------------------------------------
(* A round of tools *)

Running == IF \A k \in DOMAIN cxRound : cxRound[k].tool = "read" THEN ReadsAtOnce ELSE 1

CallsOut == {k \in DOMAIN cxRound : cxRound[k].did = "none"}

\* mapLimit puts an outcome where its call stands, whenever it comes.
Place(k) == k

\* The calls are begun in order, as many at once as may run, and end in any order.
Returned == {k \in DOMAIN cxRound : \E j \in DOMAIN cxRound : cxRound[j].call = k}
ToolReturns ==
    /\ cxLoop.at = "tools" /\ CallsOut # {}
    /\ \E k \in DOMAIN cxRound \ Returned, did \in {"ok", "error", "deny"} :
          /\ Cardinality({j \in 1..(k - 1) : j \notin Returned}) < Running
          /\ cxRound' = [cxRound EXCEPT ![Place(k)].call = k, ![Place(k)].did = did]
    /\ UNCHANGED <<cxDialect, cxMessages, cxFrames, cxNotes, cxSummary, cxLoop>>

\* A success resets the count of denials, an error leaves it.
Denies ==
    FoldLeft(LAMBDA n, o : IF o.did = "deny" THEN n + 1 ELSE IF o.did = "ok" THEN 0 ELSE n, cxLoop.denies, cxRound)

RoundAnswered ==
    /\ cxLoop.at = "tools" /\ CallsOut = {}
    /\ LET results == Answers([k \in DOMAIN cxRound |-> <<cxLoop.iteration, cxRound[k].call>>])
           tells == Denies >= 3 /\ ~cxLoop.told
       IN /\ cxMessages' = cxMessages \o <<results>> \o (IF tells THEN <<UserText("denials")>> ELSE <<>>)
          /\ cxFrames' = Append(cxFrames, [iteration |-> cxLoop.iteration,
                                           index |-> Len(cxMessages) + 1, folded |-> FALSE])
          /\ cxLoop' = IF Denies >= 3 /\ cxLoop.told
                          THEN Ended("ANSWERED")
                          ELSE [cxLoop EXCEPT !.at = "top", !.denies = Denies, !.told = @ \/ tells]
    /\ cxRound' = <<>>
    /\ UNCHANGED <<cxDialect, cxNotes, cxSummary>>

ContextNext ==
    \/ LoopStops \/ Ask \/ AskTooLong \/ AskThrows \/ TurnArrives \/ ToolReturns \/ RoundAnswered

ContextSpec == ContextInit /\ [][ContextNext]_contextVars

-----------------------------------------------------------------------------
(* What is sent *)

\* toAnthropicMessage: one message each; an assistant turn goes out as it came in, and one of the
\* other dialect is no content this API knows.
AnthropicMessage(m) ==
    [role |-> m.role, answers |-> m.answers,
     calls |-> IF m.raw = "openai" THEN <<>> ELSE m.calls]

\* toOpenAiMessages: every answer is a message of its own.
OpenAiMessages(m) ==
    IF m.answers = <<>>
        THEN <<[role |-> m.role, answers |-> <<>>, calls |-> m.calls]>>
        ELSE [k \in DOMAIN m.answers |-> [role |-> "tool", answers |-> <<m.answers[k]>>, calls |-> <<>>]]

Wire ==
    IF cxDialect = "anthropic"
        THEN [k \in DOMAIN cxMessages |-> AnthropicMessage(cxMessages[k])]
        ELSE FlattenSeq([k \in DOMAIN cxMessages |-> OpenAiMessages(cxMessages[k])])

\* The answers that follow the message k of w at once.
AnswersTo(w, k) ==
    LET last == CHOOSE n \in k..Len(w) :
                    /\ \A j \in (k + 1)..n : w[j].answers # <<>>
                    /\ n = Len(w) \/ w[n + 1].answers = <<>>
    IN FlattenSeq([j \in 1..last - k |-> w[k + j].answers])

-----------------------------------------------------------------------------
(* Properties *)

\* Both interfaces refuse a conversation in which a call is not answered at once, by one answer
\* each, in the order of the calls, or in which something is answered that was not called.
EveryCallAnswered(w) ==
    /\ w[1].answers = <<>>
    /\ \A k \in DOMAIN w :
          /\ w[k].role = "assistant" => k < Len(w)
          /\ w[k].answers = <<>> => AnswersTo(w, k) = w[k].calls

\* Nothing the agent has found out is lost while it is still at work: the results of each round
\* since the latest compaction are in the conversation or, for all but the latest two, in the notes.
NothingForgotten ==
    LET rounds == {m \in DOMAIN cxMessages : \E k \in DOMAIN cxFrames : cxFrames[k].index = m}
        folded == FlattenSeq([k \in DOMAIN cxFrames |->
                                IF cxFrames[k].folded THEN <<cxFrames[k].iteration>> ELSE <<>>])
    IN /\ \A k \in DOMAIN cxFrames :
             LET f == cxFrames[k]
             IN /\ cxMessages[f.index].answers # <<>>
                /\ cxMessages[f.index].answers[1][1] = f.iteration
                /\ cxMessages[f.index].folded = f.folded
                /\ f.folded => k + 2 <= Len(cxFrames)
       /\ \A m \in DOMAIN cxMessages \ rounds : ~cxMessages[m].folded
       /\ cxNotes = folded

\* Every request begins with the task, is well formed for the interface it goes to, and has what
\* the rounds so far have found, in full or summed up; and once the model has been told to finish,
\* that is the last thing it reads.
RequestsSound ==
    /\ cxLoop.at = "asked" =>
          /\ cxMessages[1].text = "task"
          /\ EveryCallAnswered(Wire)
          /\ cxLoop.finalize = (Last(cxMessages).text = "reminder")
          /\ (cxDialect = "openai" /\ cxNotes # <<>>) => cxSummary = cxNotes
    /\ cxLoop.at # "ended" => NothingForgotten

\* Not kept: a compaction empties the notes but not the cache of the summary, which is recognised
\* by the number of notes alone; as many notes later, the summary is that of the old ones.
SummaryIsRecent == cxLoop.at = "asked" /\ cxNotes # <<>> => cxSummary = cxNotes

=============================================================================
