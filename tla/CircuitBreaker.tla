--------------------------- MODULE CircuitBreaker ---------------------------
(***************************************************************************)
(* The circuit breaker of one LLM provider (llm/breaker.ts) and the calls  *)
(* that go through it (ProviderRoutedClient.withFallback).  Calls overlap: *)
(* one that started while the breaker was CLOSED may report after it has   *)
(* opened, or while a probe is under way, and record does not ask whose    *)
(* report it is.                                                           *)
(*                                                                         *)
(* `probing' of the code is true exactly in HALF_OPEN and is left out.     *)
(***************************************************************************)
EXTENDS Naturals, Sequences, FiniteSets

CONSTANTS
    Callers,        \* calls that may overlap
    MinSamples,     \* samples needed before the breaker may open
    MaxWindow,      \* bound: reports in the rolling window
    ProbeRejections \* whether the call that probes may fail in a way that is not reported

ASSUME BreakerAssumption ==
    /\ MinSamples \in Nat \ {0} /\ MaxWindow \in Nat /\ MinSamples <= MaxWindow
    /\ ProbeRejections \in BOOLEAN

VARIABLES
    brState,  \* CLOSED, OPEN or HALF_OPEN
    brWindow, \* events: the reports of the last minute, oldest first
    brDue,    \* 30 s have passed since openedAt
    brCalls   \* per caller: idle, at the primary or at the fallback; admitted since the last opening?

breakerVars == <<brState, brWindow, brDue, brCalls>>

Call == [at : {"idle", "primary", "fallback"}, stale : BOOLEAN]
IdleCall == [at |-> "idle", stale |-> FALSE]

BreakerTypeOK ==
    /\ brState \in {"CLOSED", "OPEN", "HALF_OPEN"}
    /\ brWindow \in Seq(BOOLEAN)
    /\ brDue \in BOOLEAN
    /\ brCalls \in [Callers -> Call]

BreakerInit ==
    /\ brState = "CLOSED" /\ brWindow = <<>> /\ brDue = FALSE
    /\ brCalls = [c \in Callers |-> IdleCall]

\* The calls at the primary that were admitted since the breaker last opened.
Admitted == {c \in Callers : brCalls[c].at = "primary" /\ ~brCalls[c].stale}

-----------------------------------------------------------------------------
(* canAttempt *)

\* Mutant of Probe: the state is not changed, so every call after 30 s is a probe.
ProbeKeepsOpen(c) ==
    /\ brCalls[c].at = "idle" /\ brState = "OPEN" /\ brDue
    /\ brCalls' = [brCalls EXCEPT ![c] = [at |-> "primary", stale |-> FALSE]]
    /\ UNCHANGED <<brState, brWindow, brDue>>

\* The first call after 30 s is let through as the probe.
Probe(c) ==
    /\ brCalls[c].at = "idle" /\ brState = "OPEN" /\ brDue
    /\ brState' = "HALF_OPEN"
    /\ brCalls' = [brCalls EXCEPT ![c] = [at |-> "primary", stale |-> FALSE]]
    /\ UNCHANGED <<brWindow, brDue>>

\* CLOSED: the call goes to the primary.
Attempt(c) ==
    /\ brCalls[c].at = "idle" /\ brState = "CLOSED"
    /\ brCalls' = [brCalls EXCEPT ![c] = [at |-> "primary", stale |-> FALSE]]
    /\ UNCHANGED <<brState, brWindow, brDue>>

\* The breaker is open, or a probe is under way: straight to the fallback.
Divert(c) ==
    /\ brCalls[c].at = "idle"
    /\ brState = "HALF_OPEN" \/ (brState = "OPEN" /\ ~brDue)
    /\ brCalls' = [brCalls EXCEPT ![c].at = "fallback"]
    /\ UNCHANGED <<brState, brWindow, brDue>>

-----------------------------------------------------------------------------
(* record *)

Failures(w) == Len(SelectSeq(w, LAMBDA ok : ~ok))
Trips(w) == Len(w) >= MinSamples /\ 2 * Failures(w) > Len(w)

\* The calls after caller c has left the primary for `to'; an opening makes the others stale.
CallsAfter(c, to, opens) ==
    [d \in Callers |->
        IF d = c THEN [at |-> to, stale |-> FALSE]
        ELSE [brCalls[d] EXCEPT !.stale = @ \/ (opens /\ brCalls[d].at = "primary")]]

\* record(ok): in HALF_OPEN any report decides; otherwise it is counted, and too many failures
\* open the breaker, or move openedAt if it is open.
Record(c, ok, to) ==
    IF brState = "HALF_OPEN"
    THEN /\ brState' = IF ok THEN "CLOSED" ELSE "OPEN"
         /\ brWindow' = IF ok THEN <<>> ELSE brWindow
         /\ brDue' = FALSE
         /\ brCalls' = CallsAfter(c, to, ~ok)
    ELSE LET w == Append(brWindow, ok) IN
         /\ brWindow' = w
         /\ brState' = IF Trips(w) THEN "OPEN" ELSE brState
         /\ brDue' = IF Trips(w) THEN FALSE ELSE brDue
         /\ brCalls' = CallsAfter(c, to, Trips(w))

\* The primary answers.
PrimaryAnswers(c) ==
    /\ brCalls[c].at = "primary" /\ Len(brWindow) < MaxWindow
    /\ Record(c, TRUE, "idle")

\* A timeout, 5xx or 429: reported, and on to the fallback.
PrimaryFails(c) ==
    /\ brCalls[c].at = "primary" /\ Len(brWindow) < MaxWindow
    /\ Record(c, FALSE, "fallback")

\* Another 4xx or a parse rejection: thrown to the caller, nothing reported.
PrimaryRejects(c) ==
    /\ brCalls[c].at = "primary"
    /\ ~ProbeRejections => brState # "HALF_OPEN" \/ brCalls[c].stale
    /\ brCalls' = [brCalls EXCEPT ![c] = IdleCall]
    /\ UNCHANGED <<brState, brWindow, brDue>>

\* The fallback answers or fails, or there is none: there is no second level.
FallbackEnds(c) ==
    /\ brCalls[c].at = "fallback"
    /\ brCalls' = [brCalls EXCEPT ![c] = IdleCall]
    /\ UNCHANGED <<brState, brWindow, brDue>>

-----------------------------------------------------------------------------
(* Time *)

\* The oldest report leaves the window.
WindowSlides ==
    /\ brWindow # <<>>
    /\ brWindow' = Tail(brWindow)
    /\ UNCHANGED <<brState, brDue, brCalls>>

\* 30 s have passed since the breaker opened.
HalfOpenDue ==
    /\ brState = "OPEN" /\ ~brDue
    /\ brDue' = TRUE
    /\ UNCHANGED <<brState, brWindow, brCalls>>

CallEnds(c) == PrimaryAnswers(c) \/ PrimaryFails(c) \/ PrimaryRejects(c)

BreakerNext ==
    \/ \E c \in Callers : Probe(c) \/ Attempt(c) \/ Divert(c) \/ CallEnds(c) \/ FallbackEnds(c)
    \/ WindowSlides
    \/ HalfOpenDue

\* A call to the primary ends (the SDK's timeout sees to it) and the window moves with time;
\* nobody has to make another call.
BreakerProgress == WindowSlides \/ \E c \in Callers : CallEnds(c)

BreakerSpec ==
    /\ BreakerInit /\ [][BreakerNext]_breakerVars
    /\ WF_breakerVars(WindowSlides) /\ \A c \in Callers : WF_breakerVars(CallEnds(c))

-----------------------------------------------------------------------------
(* Properties *)

\* The provider is spared: while the breaker is open no call that was admitted since is at the
\* primary, and while it is half open exactly one is, whatever older calls report meanwhile.
OneProbe ==
    /\ brState = "OPEN" => Admitted = {}
    /\ brState = "HALF_OPEN" => \E c \in Callers : Admitted = {c}

\* breaker.ts:9: the probe's success closes the breaker and its failure opens it again; so a
\* half-open breaker does not stay so.
ProbeDecides == brState = "HALF_OPEN" ~> brState # "HALF_OPEN"

=============================================================================
