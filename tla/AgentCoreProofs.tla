-------------------------- MODULE AgentCoreProofs --------------------------
(***************************************************************************)
(* What the circuit breaker of a provider and the recovery of an MCP       *)
(* server promise for any number of overlapping calls and probes, any      *)
(* thresholds and any pool.  Neither looks at whose report it handles: the *)
(* arguments are about which calls and probes may be where.                *)
(*                                                                         *)
(* The stream of events: what is in the log, read, buffered, on the wire   *)
(* and applied are ranges of the same numbers that overlap or touch.       *)
(*                                                                         *)
(* An agent's run: what a round has paid for in advance and not yet used   *)
(* counts as spent.  What it sends: a turn is followed by its answers, and *)
(* the rounds that are folded are the first ones, which are the notes.     *)
(***************************************************************************)
EXTENDS MCAgentCore, FiniteSetTheorems, SequenceTheorems,
        WellFoundedInduction, TLAPS

-----------------------------------------------------------------------------
(* The circuit breaker *)

BreakerInv == BreakerTypeOK /\ OneProbe

LEMMA IdleIsCall == IdleCall \in Call /\ \A at \in {"idle", "primary", "fallback"}, s \in BOOLEAN :
                        [at |-> at, stale |-> s] \in Call
  BY DEF IdleCall, Call

LEMMA InitBreaker == BreakerInit => BreakerInv
  <1> SUFFICES ASSUME BreakerInit PROVE BreakerInv
    OBVIOUS
  <1>1. brCalls \in [Callers -> Call] /\ <<>> \in Seq(BOOLEAN)
    BY IdleIsCall DEF BreakerInit
  <1>2. BreakerTypeOK
    BY <1>1 DEF BreakerInit, BreakerTypeOK
  <1>3. OneProbe
    BY DEF BreakerInit, OneProbe
  <1> QED
    BY <1>2, <1>3 DEF BreakerInv

\* A report moves its caller away from the primary and, when it opens the breaker, makes all others stale.
LEMMA CallsAfterEffect ==
    ASSUME BreakerTypeOK, NEW c \in Callers, NEW to \in {"idle", "fallback"}, NEW opens \in BOOLEAN,
           brCalls' = CallsAfter(c, to, opens)
    PROVE  /\ brCalls' \in [Callers -> Call]
           /\ Admitted' \subseteq Admitted
           /\ opens => Admitted' = {}
  <1>1. brCalls'[c] = [at |-> to, stale |-> FALSE]
    BY DEF CallsAfter
  <1>2. ASSUME NEW d \in Callers, d # c
        PROVE  /\ brCalls'[d] = [brCalls[d] EXCEPT !.stale = brCalls[d].stale \/ (opens /\ brCalls[d].at = "primary")]
               /\ brCalls[d] \in Call
    BY <1>2 DEF CallsAfter, BreakerTypeOK
  <1>3. ASSUME NEW d \in Callers, d # c
        PROVE  /\ brCalls'[d] \in Call
               /\ brCalls'[d].at = brCalls[d].at
               /\ ~brCalls'[d].stale => ~brCalls[d].stale
               /\ opens /\ brCalls[d].at = "primary" => brCalls'[d].stale
    BY <1>2, <1>3 DEF Call
  <1>4. brCalls'[c] \in Call /\ brCalls'[c].at # "primary"
    <2>1. [at |-> to, stale |-> FALSE] \in Call
      BY IdleIsCall
    <2>2. [at |-> to, stale |-> FALSE].at # "primary"
      OBVIOUS
    <2> QED
      BY <1>1, <2>1, <2>2
  <1>5. brCalls' = [d \in Callers |-> brCalls'[d]]
    BY DEF CallsAfter
  <1>6. brCalls' \in [Callers -> Call]
    BY <1>3, <1>4, <1>5
  <1> QED
    BY <1>3, <1>4, <1>6 DEF Admitted

\* A report, of whichever call.
LEMMA RecordKeeps ==
    ASSUME BreakerInv, NEW c \in Callers, NEW ok \in BOOLEAN, NEW to \in {"idle", "fallback"}, Record(c, ok, to)
    PROVE  BreakerInv'
  <1>1. CASE brState = "HALF_OPEN"
    <2>1. /\ brState' = IF ok THEN "CLOSED" ELSE "OPEN"
          /\ brWindow' = IF ok THEN <<>> ELSE brWindow
          /\ brDue' = FALSE /\ brCalls' = CallsAfter(c, to, ~ok)
      BY <1>1 DEF Record
    <2>2. brCalls' \in [Callers -> Call] /\ (~ok => Admitted' = {})
      BY <2>1, CallsAfterEffect DEF BreakerInv
    <2>3. brWindow' \in Seq(BOOLEAN)
      <3>1. brWindow \in Seq(BOOLEAN) /\ <<>> \in Seq(BOOLEAN)
        BY DEF BreakerInv, BreakerTypeOK
      <3> QED
        BY <3>1, <2>1
    <2>4. BreakerTypeOK'
      BY <2>1, <2>2, <2>3 DEF BreakerTypeOK
    <2>5. OneProbe'
      BY <2>1, <2>2 DEF OneProbe
    <2> QED
      BY <2>4, <2>5 DEF BreakerInv
  <1>2. CASE brState # "HALF_OPEN"
    <2> DEFINE trips == Trips(Append(brWindow, ok))
    <2>1. /\ brWindow' = Append(brWindow, ok)
          /\ brState' = IF trips THEN "OPEN" ELSE brState
          /\ brDue' = IF trips THEN FALSE ELSE brDue
          /\ brCalls' = CallsAfter(c, to, trips)
      BY <1>2 DEF Record
    <2>2. trips \in BOOLEAN
      BY DEF Trips
    <2> HIDE DEF trips
    <2>3. brCalls' \in [Callers -> Call] /\ Admitted' \subseteq Admitted /\ (trips => Admitted' = {})
      BY <2>1, <2>2, CallsAfterEffect DEF BreakerInv
    <2>4. BreakerTypeOK'
      <3>1. brWindow' \in Seq(BOOLEAN)
        <4>1. brWindow \in Seq(BOOLEAN)
          BY DEF BreakerInv, BreakerTypeOK
        <4> QED
          BY <4>1, <2>1
      <3>2. brDue' \in BOOLEAN
        BY <2>1 DEF BreakerInv, BreakerTypeOK
      <3>3. brState' \in {"CLOSED", "OPEN", "HALF_OPEN"}
        BY <2>1 DEF BreakerInv, BreakerTypeOK
      <3> QED
        BY <2>3, <3>1, <3>2, <3>3 DEF BreakerTypeOK
    <2>5. OneProbe'
      BY <1>2, <2>1, <2>3 DEF BreakerInv, BreakerTypeOK, OneProbe
    <2> QED
      BY <2>4, <2>5 DEF BreakerInv
  <1> QED
    BY <1>1, <1>2

LEMMA NextBreaker ==
    ASSUME ~ProbeRejections, BreakerInv, [BreakerNext]_breakerVars PROVE BreakerInv'
  <1>1. CASE UNCHANGED breakerVars
    BY <1>1 DEF breakerVars, BreakerInv, BreakerTypeOK, OneProbe, Admitted
  <1>2. ASSUME NEW c \in Callers, Probe(c) PROVE BreakerInv'
    <2>1. /\ brCalls' = [brCalls EXCEPT ![c] = [at |-> "primary", stale |-> FALSE]]
          /\ Admitted = {} /\ brState' = "HALF_OPEN" /\ UNCHANGED <<brWindow, brDue>>
      BY <1>2 DEF Probe, BreakerInv, OneProbe
    <2>2. BreakerTypeOK'
      BY <2>1, IdleIsCall DEF BreakerInv, BreakerTypeOK
    <2>3. Admitted' = {c}
      BY <2>1 DEF Admitted, BreakerInv, BreakerTypeOK
    <2> QED
      BY <2>1, <2>2, <2>3 DEF BreakerInv, OneProbe
  <1>3. ASSUME NEW c \in Callers, Attempt(c) PROVE BreakerInv'
    <2>1. /\ brCalls' = [brCalls EXCEPT ![c] = [at |-> "primary", stale |-> FALSE]]
          /\ brState' = "CLOSED" /\ UNCHANGED <<brWindow, brDue>>
      BY <1>3 DEF Attempt
    <2> QED
      BY <2>1, IdleIsCall DEF BreakerInv, BreakerTypeOK, OneProbe
  <1>4. ASSUME NEW c \in Callers, Divert(c) PROVE BreakerInv'
    <2>1. /\ brCalls' = [brCalls EXCEPT ![c].at = "fallback"] /\ brCalls[c].at = "idle"
          /\ UNCHANGED <<brState, brWindow, brDue>>
      BY <1>4 DEF Divert
    <2>2. brCalls'[c] \in Call /\ brCalls'[c].at = "fallback" /\ brCalls' \in [Callers -> Call]
      BY <2>1 DEF BreakerInv, BreakerTypeOK, Call
    <2>3. Admitted' = Admitted
      BY <2>1, <2>2 DEF Admitted, BreakerInv, BreakerTypeOK
    <2> QED
      BY <2>1, <2>2, <2>3 DEF BreakerInv, BreakerTypeOK, OneProbe
  <1>5. ASSUME NEW c \in Callers, PrimaryAnswers(c) PROVE BreakerInv'
    BY <1>5, RecordKeeps DEF PrimaryAnswers
  <1>6. ASSUME NEW c \in Callers, PrimaryFails(c) PROVE BreakerInv'
    BY <1>6, RecordKeeps DEF PrimaryFails
  <1>7. ASSUME NEW c \in Callers, brCalls' = [brCalls EXCEPT ![c] = IdleCall],
               UNCHANGED <<brState, brWindow, brDue>>, brState = "HALF_OPEN" => c \notin Admitted
        PROVE  BreakerInv'
    <2>1. brCalls' \in [Callers -> Call]
      BY <1>7, IdleIsCall DEF BreakerInv, BreakerTypeOK
    <2>2. Admitted' = Admitted \ {c}
      BY <1>7 DEF Admitted, BreakerInv, BreakerTypeOK, IdleCall
    <2> QED
      BY <1>7, <2>1, <2>2 DEF BreakerInv, BreakerTypeOK, OneProbe
  <1>8. ASSUME NEW c \in Callers, PrimaryRejects(c) PROVE BreakerInv'
    BY <1>7, <1>8 DEF PrimaryRejects, Admitted
  <1>9. ASSUME NEW c \in Callers, FallbackEnds(c) PROVE BreakerInv'
    BY <1>7, <1>9 DEF FallbackEnds, Admitted
  <1>10. CASE WindowSlides
    <2>1. brWindow' \in Seq(BOOLEAN) /\ UNCHANGED <<brState, brDue, brCalls>>
      BY <1>10 DEF WindowSlides, BreakerInv, BreakerTypeOK
    <2> QED
      BY <2>1 DEF BreakerInv, BreakerTypeOK, OneProbe, Admitted
  <1>11. CASE HalfOpenDue
    BY <1>11 DEF HalfOpenDue, BreakerInv, BreakerTypeOK, OneProbe, Admitted
  <1> QED
    BY <1>1, <1>2, <1>3, <1>4, <1>5, <1>6, <1>8, <1>9, <1>10, <1>11 DEF BreakerNext, CallEnds

\* While the breaker is open nothing admitted since is at the primary, while it is half open exactly one
\* probe is, whatever older calls report; provided that a probe always reports.
THEOREM OneProbeAlways == ASSUME ~ProbeRejections PROVE BreakerSpec => []OneProbe
  <1>1. BreakerInv /\ [BreakerNext]_breakerVars => BreakerInv'
    BY NextBreaker
  <1>2. BreakerInv => OneProbe
    BY DEF BreakerInv
  <1> QED
    BY <1>1, <1>2, InitBreaker, PTL DEF BreakerSpec

-----------------------------------------------------------------------------
(* The MCP runtime *)

\* A timer is counted for as long as it is set; a call that is about to ask for a probe is on its way.
McpInv ==
    /\ McpTypeOK
    /\ mcTimerSet => mcTimers > 0
    /\ ErrorIsProbed

LEMMA CallPlaces ==
    /\ Resting \in McpCall
    /\ \A pc \in {"idle", "connecting", "calling", "mark", "markWrite", "markProbe"} :
           [Resting EXCEPT !.pc = pc] \in McpCall /\ [Resting EXCEPT !.pc = pc].pc = pc
  BY McpAssumption DEF Resting, McpCall

\* A call goes somewhere, and no other does.
LEMMA GoesEffect ==
    ASSUME McpTypeOK, NEW c \in McpCallers,
           NEW pc \in {"idle", "connecting", "calling", "mark", "markWrite", "markProbe"}, Goes(c, pc)
    PROVE  /\ mcCalls' \in [McpCallers -> McpCall]
           /\ \A d \in McpCallers : CallAt(d, "markProbe")' <=> IF d = c THEN pc = "markProbe" ELSE CallAt(d, "markProbe")
  BY CallPlaces DEF McpTypeOK, Goes, CallAt

LEMMA InitMcp == McpInit => McpInv
  <1> SUFFICES ASSUME McpInit PROVE McpInv
    OBVIOUS
  <1>1. 0 \in 0..FailureThreshold /\ 0 \in 0..MaxPool /\ 0 \in 0..MaxFaults
    BY McpAssumption
  <1>2. mcCalls \in [McpCallers -> McpCall]
    BY CallPlaces DEF McpInit
  <1>3. mcProbing \in [McpProbes -> {"idle", "connecting", "put"}]
    BY DEF McpInit
  <1>4. McpTypeOK
    BY <1>1, <1>2, <1>3 DEF McpInit, McpTypeOK
  <1> QED
    BY <1>4 DEF McpInit, McpInv, ErrorIsProbed

\* A step that leaves the status, the probes and the timers alone, and no call about to ask for a probe.
LEMMA CallsKeep ==
    ASSUME McpInv, UNCHANGED <<mcStatus, mcTimers, mcTimerSet, mcProbing>>,
           mcFails' \in 0..FailureThreshold, mcPool' \in 0..MaxPool, mcCalls' \in [McpCallers -> McpCall],
           mcUp' \in BOOLEAN, mcFaults' \in 0..MaxFaults,
           \A c \in McpCallers : CallAt(c, "markProbe") => CallAt(c, "markProbe")'
    PROVE  McpInv'
  BY DEF McpInv, McpTypeOK, ErrorIsProbed

\* A call that goes somewhere and was not about to ask for a probe.
LEMMA GoingKeeps ==
    ASSUME McpInv, NEW c \in McpCallers, ~CallAt(c, "markProbe"),
           NEW pc \in {"idle", "connecting", "calling", "mark", "markWrite", "markProbe"}, Goes(c, pc),
           UNCHANGED <<mcStatus, mcTimers, mcTimerSet, mcProbing, mcUp>>,
           mcFails' \in 0..FailureThreshold, mcPool' \in 0..MaxPool, mcFaults' \in 0..MaxFaults
    PROVE  McpInv'
  <1>1. mcCalls' \in [McpCallers -> McpCall]
        /\ \A d \in McpCallers : CallAt(d, "markProbe") => CallAt(d, "markProbe")'
    BY GoesEffect DEF McpInv
  <1>2. mcUp' \in BOOLEAN
    BY DEF McpInv, McpTypeOK
  <1> QED
    BY <1>1, <1>2, CallsKeep

\* Counters that step stay in their ranges.
LEMMA CountersStep ==
    ASSUME McpTypeOK
    PROVE  /\ OneMore \in 0..FailureThreshold /\ 0 \in 0..FailureThreshold
           /\ mcFails \in 0..FailureThreshold /\ mcPool \in 0..MaxPool /\ mcFaults \in 0..MaxFaults
           /\ mcPool > 0 => mcPool - 1 \in 0..MaxPool
           /\ Release => mcPool' \in 0..MaxPool
           /\ mcFaults < MaxFaults => mcFaults + 1 \in 0..MaxFaults
  BY McpAssumption DEF McpTypeOK, OneMore, Release

LEMMA CallSteps ==
    ASSUME McpInv, NEW c \in McpCallers,
           CallBegins(c) \/ CallConnects(c) \/ ConnectFails(c) \/ CallAnswered(c) \/ CallFails(c) \/ CallTimesOut(c)
    PROVE  McpInv'
  <1> USE CountersStep DEF probeVars, serverVars
  <1>0. McpTypeOK
    BY DEF McpInv
  <1>1. CASE CallBegins(c)
    BY <1>0, <1>1, GoingKeeps DEF CallBegins, CallAt
  <1>2. CASE CallConnects(c)
    BY <1>0, <1>2, GoingKeeps DEF CallConnects, CallAt
  <1>3. CASE ConnectFails(c)
    <2>1. CASE OneMore = FailureThreshold
      BY <1>0, <1>3, <2>1, GoingKeeps DEF ConnectFails, CallAt
    <2>2. CASE OneMore # FailureThreshold /\ mcCalls[c].tries < ConnectRetries
      <3>1. /\ mcCalls' = [mcCalls EXCEPT ![c].tries = mcCalls[c].tries + 1] /\ mcFails' = OneMore
            /\ UNCHANGED <<mcStatus, mcPool, mcTimers, mcTimerSet, mcProbing, mcUp, mcFaults>>
        BY <1>3, <2>2 DEF ConnectFails
      <3>2. mcCalls[c] \in McpCall /\ mcCalls \in [McpCallers -> McpCall]
        BY <1>0 DEF McpTypeOK
      <3>3. mcCalls[c].tries + 1 \in 0..ConnectRetries
        BY <2>2, <3>2, McpAssumption DEF McpCall
      <3>4. mcCalls' \in [McpCallers -> McpCall] /\ \A d \in McpCallers : mcCalls'[d].pc = mcCalls[d].pc
        BY <3>1, <3>2, <3>3 DEF McpCall
      <3> QED
        BY <1>0, <3>1, <3>4, CallsKeep DEF CallAt, McpTypeOK
    <2>3. CASE OneMore # FailureThreshold /\ ~(mcCalls[c].tries < ConnectRetries)
      BY <1>0, <1>3, <2>3, GoingKeeps DEF ConnectFails, CallAt
    <2> QED
      BY <2>1, <2>2, <2>3
  <1>4. CASE CallAnswered(c)
    BY <1>0, <1>4, GoingKeeps DEF CallAnswered, CallAt
  <1>5. CASE CallFails(c)
    BY <1>0, <1>5, GoingKeeps DEF CallFails, CallAt
  <1>6. CASE CallTimesOut(c)
    BY <1>0, <1>6, GoingKeeps DEF CallTimesOut, CallAt
  <1> QED
    BY <1>1, <1>2, <1>3, <1>4, <1>5, <1>6

LEMMA MarkSteps ==
    ASSUME McpInv, NEW c \in McpCallers, Marking(c) PROVE McpInv'
  <1> USE CountersStep DEF probeVars, serverVars
  <1>0. McpTypeOK
    BY DEF McpInv
  <1>1. CASE MarkReads(c)
    BY <1>0, <1>1, GoingKeeps DEF MarkReads, CallAt
  <1>2. CASE MarkWrites(c)
    <2>1. /\ mcStatus' = "ERROR" /\ Goes(c, "markProbe")
          /\ UNCHANGED <<mcFails, mcPool, mcTimers, mcTimerSet, mcProbing, mcUp, mcFaults>>
      BY <1>2 DEF MarkWrites
    <2>2. mcCalls' \in [McpCallers -> McpCall] /\ CallAt(c, "markProbe")'
      BY <1>0, <2>1, GoesEffect
    <2> QED
      BY <2>1, <2>2 DEF McpInv, McpTypeOK, ErrorIsProbed
  <1>3. CASE MarkProbes(c)
    <2>1. /\ IF mcTimerSet THEN UNCHANGED <<mcTimers, mcTimerSet>> ELSE mcTimers' = mcTimers + 1 /\ mcTimerSet' = TRUE
          /\ Goes(c, "idle") /\ UNCHANGED <<mcStatus, mcFails, mcPool, mcProbing, mcUp, mcFaults>>
      BY <1>3 DEF MarkProbes
    <2>2. mcCalls' \in [McpCallers -> McpCall]
      BY <1>0, <2>1, GoesEffect
    <2>3. mcTimers' \in Nat /\ mcTimers' > 0 /\ mcTimerSet' \in BOOLEAN
      <3>1. CASE mcTimerSet
        BY <2>1, <3>1 DEF McpInv, McpTypeOK
      <3>2. CASE ~mcTimerSet
        BY <2>1, <3>2 DEF McpInv, McpTypeOK
      <3> QED
        BY <3>1, <3>2
    <2> QED
      BY <2>1, <2>2, <2>3 DEF McpInv, McpTypeOK, ErrorIsProbed
  <1> QED
    BY <1>1, <1>2, <1>3 DEF Marking

LEMMA ProbeSteps ==
    ASSUME McpInv, NEW p \in McpProbes, Probing(p) PROVE McpInv'
  <1> USE CountersStep DEF serverVars
  <1>0. McpTypeOK /\ mcTimers \in Nat
    BY DEF McpInv, McpTypeOK
  <1>1. CASE ProbeFires(p)
    <2>1. /\ mcTimers > 0 /\ mcTimers' = mcTimers - 1 /\ mcTimerSet' = FALSE
          /\ mcProbing' = [mcProbing EXCEPT ![p] = IF mcStatus = "ERROR" THEN "connecting" ELSE "idle"]
          /\ UNCHANGED <<mcStatus, mcFails, mcPool, mcCalls, mcUp, mcFaults>>
      BY <1>1 DEF ProbeFires
    <2>2. mcTimers' \in Nat
      BY <1>0, <2>1
    <2>3. mcProbing' \in [McpProbes -> {"idle", "connecting", "put"}] /\ (mcStatus = "ERROR" => mcProbing'[p] = "connecting")
      BY <1>0, <2>1 DEF McpTypeOK
    <2> QED
      BY <2>1, <2>2, <2>3 DEF McpInv, McpTypeOK, ErrorIsProbed
  <1>2. CASE ProbeFails(p)
    BY <1>0, <1>2 DEF ProbeFails, McpInv, McpTypeOK, ErrorIsProbed
  <1>3. CASE ProbeAnswered(p)
    <2>1. /\ mcFails' = 0 /\ mcPool' \in 0..MaxPool /\ mcProbing' = [mcProbing EXCEPT ![p] = "put"]
          /\ UNCHANGED <<mcStatus, mcCalls, mcTimers, mcTimerSet, mcUp, mcFaults>>
      BY <1>0, <1>3 DEF ProbeAnswered
    <2>2. mcProbing' \in [McpProbes -> {"idle", "connecting", "put"}] /\ mcProbing'[p] # "idle"
      BY <1>0, <2>1 DEF McpTypeOK
    <2> QED
      BY <1>0, <2>1, <2>2 DEF McpInv, McpTypeOK, ErrorIsProbed
  <1>4. CASE ProbePuts(p)
    BY <1>0, <1>4 DEF ProbePuts, McpInv, McpTypeOK, ErrorIsProbed
  <1> QED
    BY <1>1, <1>2, <1>3, <1>4 DEF Probing

LEMMA NextMcp == McpInv /\ [McpNext]_mcpVars => McpInv'
  <1> SUFFICES ASSUME McpInv, [McpNext]_mcpVars PROVE McpInv'
    OBVIOUS
  <1>0. McpTypeOK
    BY DEF McpInv
  <1>1. CASE UNCHANGED mcpVars
    BY <1>1 DEF mcpVars, McpInv, McpTypeOK, ErrorIsProbed, CallAt
  <1>2. CASE IdleCloses
    BY <1>0, <1>2, CountersStep DEF IdleCloses, probeVars, serverVars, McpInv, McpTypeOK, ErrorIsProbed, CallAt
  <1>3. CASE StatusPut
    BY <1>0, <1>3, CountersStep DEF StatusPut, probeVars, McpInv, McpTypeOK, ErrorIsProbed, CallAt
  <1>4. CASE ServerFails
    BY <1>0, <1>4, CountersStep DEF ServerFails, probeVars, McpInv, McpTypeOK, ErrorIsProbed, CallAt
  <1>5. CASE ServerReturns
    BY <1>0, <1>5 DEF ServerReturns, probeVars, McpInv, McpTypeOK, ErrorIsProbed, CallAt
  <1> QED
    BY <1>1, <1>2, <1>3, <1>4, <1>5, CallSteps, MarkSteps, ProbeSteps DEF McpNext

\* A server in ERROR always has a probe waiting, under way or about to be asked for, whatever calls fail
\* meanwhile and whatever the administrator puts.
THEOREM ErrorIsProbedAlways == McpSpec => []ErrorIsProbed
  <1>1. McpInv => ErrorIsProbed
    BY DEF McpInv
  <1> QED
    BY <1>1, InitMcp, NextMcp, PTL DEF McpSpec

-----------------------------------------------------------------------------
(* Folding a sequence from the left *)

LEMMA LeastNumber ==
    ASSUME NEW S \in SUBSET Nat, S # {}
    PROVE  \E m \in S : \A n \in S : m <= n
  <1> DEFINE R == {p \in Nat \X Nat : p[1] < p[2]}
  <1>1. IsWellFoundedOn(R, Nat)
    BY NatLessThanWellFounded DEF OpToRel
  <1>2. PICK m \in S : \A n \in S : ~(<<n, m>> \in R)
    <2> HIDE DEF R
    <2> QED
      BY <1>1, WFMin
  <1>3. \A n \in S : ~(n < m)
    BY <1>2
  <1> QED
    BY <1>3

LEMMA MaxOfSome ==
    ASSUME NEW k \in Nat, NEW s \in SUBSET (1..k), s # {}
    PROVE  Max(s) \in s /\ \A i \in s : i <= Max(s)
  <1> DEFINE U == {n \in Nat : \A i \in s : i <= n}
  <1>1. U \in SUBSET Nat /\ U # {}
    <2>1. k \in U
      OBVIOUS
    <2> QED
      BY <2>1
  <1>2. PICK m \in U : \A n \in U : m <= n
    <2> HIDE DEF U
    <2> QED
      BY <1>1, LeastNumber
  <1>3. m \in s
    <2>1. SUFFICES ASSUME m \notin s PROVE FALSE
      OBVIOUS
    <2>2. m # 0
      <3>1. PICK i \in s : TRUE
        OBVIOUS
      <3>2. i \in 1..k /\ i <= m /\ m \in Nat
        BY <3>1, <1>2
      <3> QED
        BY <3>2
    <2>3. m - 1 \in U
      <3>1. ASSUME NEW i \in s PROVE i <= m - 1
        <4>1. i <= m /\ i # m /\ i \in 1..k /\ m \in Nat
          BY <1>2, <2>1
        <4> QED
          BY <4>1
      <3>2. m - 1 \in Nat
        BY <1>2, <2>2
      <3> QED
        BY <3>1, <3>2
    <2> HIDE DEF U
    <2>4. m <= m - 1 /\ m \in Nat
      BY <1>1, <1>2, <2>3
    <2> QED
      BY <2>4
  <1>4. \E x \in s : \A i \in s : x >= i
    <2>1. \A i \in s : m >= i
      BY <1>2
    <2> QED
      BY <1>3, <2>1
  <1>5. Max(s) \in s /\ \A i \in s : Max(s) >= i
    BY <1>4 DEF Max
  <1>6. \A i \in s : i \in 1..k
    OBVIOUS
  <1> QED
    BY <1>5, <1>6

\* Without its greatest number a set of the first k + 1 numbers is one of the first k.
LEMMA WithoutMax ==
    ASSUME NEW k \in Nat, NEW s \in SUBSET (1..k + 1), s # {}
    PROVE  Max(s) \in 1..k + 1 /\ s \ {Max(s)} \in SUBSET (1..k)
  <1>1. Max(s) \in s /\ \A i \in s : i <= Max(s)
    BY MaxOfSome
  <1>2. ASSUME NEW i \in s, i # Max(s) PROVE i \in 1..k
    <2>1. i \in 1..k + 1 /\ Max(s) \in 1..k + 1 /\ i <= Max(s)
      BY <1>1
    <2> QED
      BY <1>2, <2>1
  <1> QED
    BY <1>1, <1>2

\* The function by which a fold goes from left to right over n places exists.
FoldsTo(F, k, base, G) ==
    F = [s \in SUBSET (1..k) |-> IF s = {} THEN base ELSE G[<<F[s \ {Max(s)}], Max(s)>>]]

LEMMA FoldExists ==
    ASSUME NEW n \in Nat, NEW W, NEW base \in W, NEW G \in [W \X (1..n) -> W]
    PROVE  \E F \in [SUBSET (1..n) -> W] : FoldsTo(F, n, base, G)
  <1> DEFINE Has(k) == \E F \in [SUBSET (1..k) -> W] : FoldsTo(F, k, base, G)
             Lacking == {k \in 0..n : ~Has(k)}
  <1>1. Has(0)
    <2> DEFINE F0 == [s \in SUBSET (1..0) |-> base]
    <2>1. \A s \in SUBSET (1..0) : s = {}
      OBVIOUS
    <2>2. F0 \in [SUBSET (1..0) -> W] /\ FoldsTo(F0, 0, base, G)
      BY <2>1 DEF FoldsTo
    <2> QED
      BY <2>2
  <1>2. ASSUME NEW k \in Nat, k + 1 <= n, Has(k) PROVE Has(k + 1)
    <2>1. PICK F \in [SUBSET (1..k) -> W] : FoldsTo(F, k, base, G)
      BY <1>2
    <2> DEFINE H == [s \in SUBSET (1..k + 1) |-> IF s = {} THEN base ELSE G[<<F[s \ {Max(s)}], Max(s)>>]]
    <2>2. ASSUME NEW s \in SUBSET (1..k + 1), s # {}
          PROVE  /\ s \ {Max(s)} \in SUBSET (1..k) /\ Max(s) \in 1..n
                 /\ F[s \ {Max(s)}] \in W
      <3>1. Max(s) \in 1..k + 1 /\ s \ {Max(s)} \in SUBSET (1..k)
        BY <2>2, WithoutMax
      <3>2. \A i \in 1..k + 1 : i \in 1..n
        BY <1>2
      <3> QED
        BY <3>1, <3>2
    <2>3. H \in [SUBSET (1..k + 1) -> W]
      BY <2>2
    <2>4. ASSUME NEW s \in SUBSET (1..k) PROVE H[s] = F[s]
      <3>1. s \in SUBSET (1..k + 1)
        OBVIOUS
      <3>2. F[s] = IF s = {} THEN base ELSE G[<<F[s \ {Max(s)}], Max(s)>>]
        BY <2>1 DEF FoldsTo
      <3> QED
        BY <3>1, <3>2
    <2>5. \A s \in SUBSET (1..k + 1) : H[s] = IF s = {} THEN base ELSE G[<<H[s \ {Max(s)}], Max(s)>>]
      BY <2>2, <2>4
    <2>6. FoldsTo(H, k + 1, base, G)
      <3> HIDE DEF H
      <3> QED
        BY <2>3, <2>5 DEF FoldsTo
    <2> QED
      BY <2>3, <2>6
  <1> HIDE DEF Has
  <1>3. SUFFICES ASSUME ~Has(n) PROVE FALSE
    BY DEF Has
  <1>4. Lacking \in SUBSET Nat /\ Lacking # {}
    BY <1>3
  <1>5. PICK m \in Lacking : \A k \in Lacking : m <= k
    <2> HIDE DEF Lacking
    <2> QED
      BY <1>4, LeastNumber
  <1>6. m \in 0..n /\ m # 0 /\ ~Has(m)
    BY <1>1, <1>5
  <1>7. m - 1 \in Nat /\ m - 1 \notin Lacking /\ (m - 1) + 1 = m /\ m - 1 \in 0..n
    BY <1>5, <1>6
  <1> QED
    BY <1>2, <1>6, <1>7

\* The greatest of the first k + 1 numbers is k + 1; without it they are the first k.
LEMMA LastPlace ==
    ASSUME NEW k \in Nat
    PROVE  1..k + 1 # {} /\ Max(1..k + 1) = k + 1 /\ (1..k + 1) \ {k + 1} = 1..k
  <1>1. 1..k + 1 \in SUBSET (1..k + 1) /\ 1..k + 1 # {} /\ k + 1 \in Nat
    OBVIOUS
  <1>2. Max(1..k + 1) \in 1..k + 1 /\ \A i \in 1..k + 1 : i <= Max(1..k + 1)
    BY <1>1, MaxOfSome
  <1> QED
    BY <1>1, <1>2

-----------------------------------------------------------------------------
(* The event stream: what writeEvent writes *)

\* The ids after a, up to b.
Ids(a, b) == [i \in 1..b - a |-> a + i]

LEMMA IdsAre ==
    ASSUME NEW a \in Nat, NEW b \in Nat, a <= b
    PROVE  /\ Ids(a, b) \in Seq(Nat) /\ Len(Ids(a, b)) = b - a
           /\ \A i \in 1..b - a : Ids(a, b)[i] = a + i
           /\ Append(Ids(a, b), b + 1) = Ids(a, b + 1)
           /\ Last(<<a>> \o Ids(a, b)) = b
  <1>1. Ids(a, b) \in Seq(Nat) /\ Len(Ids(a, b)) = b - a /\ b - a \in Nat
    BY DEF Ids
  <1>2. \A i \in 1..b - a : Ids(a, b)[i] = a + i
    BY DEF Ids
  <1>3. Append(Ids(a, b), b + 1) = Ids(a, b + 1)
    <2>1. Append(Ids(a, b), b + 1) = [i \in 1..b - a + 1 |-> IF i = b - a + 1 THEN b + 1 ELSE Ids(a, b)[i]]
      BY <1>1
    <2>2. b + 1 - a = b - a + 1 /\ \A i \in 1..b - a + 1 : (IF i = b - a + 1 THEN b + 1 ELSE Ids(a, b)[i]) = a + i
      BY <1>2
    <2> QED
      BY <2>1, <2>2 DEF Ids
  <1>4. Last(<<a>> \o Ids(a, b)) = b
    <2>1. <<a>> \in Seq(Nat) /\ Len(<<a>>) = 1 /\ <<a>>[1] = a
      OBVIOUS
    <2>2. Len(<<a>> \o Ids(a, b)) = 1 + (b - a)
      BY <1>1, <2>1
    <2>3. (<<a>> \o Ids(a, b))[1 + (b - a)] = IF b = a THEN a ELSE Ids(a, b)[b - a]
      BY <1>1, <2>1
    <2>4. b # a => Ids(a, b)[b - a] = b
      BY <1>2
    <2> QED
      BY <2>2, <2>3, <2>4 DEF Last
  <1> QED
    BY <1>1, <1>2, <1>3, <1>4

\* Rows none of which leaves one out are written up to the latest of them, each once.  high[k] is
\* the latest among the first k of them and last.
LEMMA FresherIs ==
    ASSUME NEW last \in Nat, NEW rows \in Seq(Nat), NEW high \in [0..Len(rows) -> Nat], high[0] = last,
           \A k \in 1..Len(rows) : /\ rows[k] <= high[k - 1] + 1
                                   /\ high[k] = IF rows[k] <= high[k - 1] THEN high[k - 1] ELSE high[k - 1] + 1
    PROVE  high[Len(rows)] >= last /\ Fresher(last, rows) = Ids(last, high[Len(rows)])
  <1> DEFINE n == Len(rows)
             W == Seq(Nat)
             G == [p \in W \X (1..n) |->
                     IF rows[p[2]] <= Last(<<last>> \o p[1]) THEN p[1] ELSE Append(p[1], rows[p[2]])]
             Folds(F) == F = [s \in SUBSET (1..n) |->
                           IF s = {} THEN <<>>
                           ELSE IF rows[Max(s)] <= Last(<<last>> \o F[s \ {Max(s)}])
                                THEN F[s \ {Max(s)}] ELSE Append(F[s \ {Max(s)}], rows[Max(s)])]
  <1>1. n \in Nat /\ DOMAIN rows = 1..n /\ \A k \in 1..n : rows[k] \in Nat
    OBVIOUS
  <1>2. \E F : Folds(F)
    <2>1. <<>> \in W /\ G \in [W \X (1..n) -> W]
      <3>1. ASSUME NEW p \in W \X (1..n) PROVE G[p] \in W
        <4>1. p[1] \in Seq(Nat) /\ rows[p[2]] \in Nat
          BY <1>1
        <4>2. Append(p[1], rows[p[2]]) \in Seq(Nat)
          BY <4>1
        <4> QED
          BY <4>1, <4>2
      <3> QED
        BY <3>1
    <2> HIDE DEF W, n
    <2>2. PICK F \in [SUBSET (1..n) -> W] : FoldsTo(F, n, <<>>, G)
      <3> HIDE DEF G
      <3> QED
        BY <1>1, <2>1, FoldExists
    <2>3. ASSUME NEW s \in SUBSET (1..n), s # {}
          PROVE  G[<<F[s \ {Max(s)}], Max(s)>>]
                   = IF rows[Max(s)] <= Last(<<last>> \o F[s \ {Max(s)}])
                     THEN F[s \ {Max(s)}] ELSE Append(F[s \ {Max(s)}], rows[Max(s)])
      <3>1. Max(s) \in s
        BY <1>1, <2>3, MaxOfSome
      <3>2. <<F[s \ {Max(s)}], Max(s)>> \in W \X (1..n)
        BY <2>2, <3>1
      <3> QED
        BY <3>2
    <2>4. Folds(F)
      <3> HIDE DEF G
      <3> QED
        BY <2>2, <2>3 DEF FoldsTo
    <2> QED
      BY <2>4
  <1> DEFINE C == CHOOSE F : Folds(F)
  <1>3. Folds(C)
    BY <1>2
  <1>4. Fresher(last, rows) = C[1..n]
    BY <1>1 DEF Fresher, FoldLeft, MapThenFoldSet
  <1> HIDE DEF C
  <1>5. ASSUME NEW s \in SUBSET (1..n)
        PROVE  C[s] = IF s = {} THEN <<>>
                      ELSE IF rows[Max(s)] <= Last(<<last>> \o C[s \ {Max(s)}])
                           THEN C[s \ {Max(s)}] ELSE Append(C[s \ {Max(s)}], rows[Max(s)])
    BY <1>3
  <1> HIDE DEF Folds, G, W
  <1> DEFINE Right(k) == high[k] >= last /\ C[1..k] = Ids(last, high[k])
             Wrong == {k \in 0..n : ~Right(k)}
  <1>6. Right(0)
    <2>1. (1..0) = {} /\ {} \in SUBSET (1..n)
      OBVIOUS
    <2>2. Ids(last, last) = <<>>
      BY DEF Ids
    <2>3. C[1..0] = <<>>
      BY <1>5, <2>1
    <2>4. high[0] = last /\ last >= last
      OBVIOUS
    <2> HIDE DEF n
    <2> QED
      BY <2>2, <2>3, <2>4
  <1>7. ASSUME NEW k \in Nat, k + 1 <= n, Right(k) PROVE Right(k + 1)
    <2>1. /\ 1..k + 1 \in SUBSET (1..n) /\ 1..k + 1 # {} /\ k \in 0..n /\ k + 1 \in 1..n
          /\ Max(1..k + 1) = k + 1 /\ (1..k + 1) \ {k + 1} = 1..k
      <3>1. 1..k + 1 \in SUBSET (1..n) /\ k \in 0..n /\ k + 1 \in 1..n
        <4> HIDE DEF n
        <4> QED
          BY <1>1, <1>7
      <3> QED
        BY <3>1, LastPlace
    <2>2. C[1..k + 1] = IF rows[k + 1] <= Last(<<last>> \o C[1..k]) THEN C[1..k] ELSE Append(C[1..k], rows[k + 1])
      BY <1>5, <2>1
    <2>3. PICK h \in Nat : h = high[k] /\ h >= last
      BY <1>7, <2>1
    <2>4. PICK r \in Nat : r = rows[k + 1]
      BY <1>1, <2>1
    <2>5. r <= h + 1 /\ high[k + 1] = IF r <= h THEN h ELSE h + 1
      <3>1. k + 1 - 1 = k
        OBVIOUS
      <3> QED
        BY <2>1, <2>3, <2>4, <3>1
    <2>6. /\ Last(<<last>> \o Ids(last, h)) = h
          /\ Append(Ids(last, h), h + 1) = Ids(last, h + 1)
      BY <2>3, IdsAre
    <2>7. CASE r <= h
      BY <1>7, <2>2, <2>3, <2>4, <2>5, <2>6, <2>7
    <2>8. CASE ~(r <= h)
      <3>1. r = h + 1 /\ high[k + 1] = h + 1 /\ h + 1 >= last
        BY <2>3, <2>5, <2>8
      <3> QED
        BY <1>7, <2>2, <2>3, <2>4, <2>6, <2>8, <3>1
    <2> QED
      BY <2>7, <2>8
  <1> HIDE DEF Right, n
  <1>8. Right(n)
    <2>1. SUFFICES ASSUME ~Right(n) PROVE FALSE
      OBVIOUS
    <2>2. Wrong \in SUBSET Nat /\ Wrong # {}
      BY <1>1, <2>1
    <2>3. PICK m \in Wrong : \A k \in Wrong : m <= k
      <3> HIDE DEF Wrong
      <3> QED
        BY <2>2, LeastNumber
    <2>4. m \in 0..n /\ m # 0 /\ ~Right(m)
      BY <1>6, <2>3
    <2>5. m - 1 \in Nat /\ m - 1 \notin Wrong /\ (m - 1) + 1 = m /\ m - 1 \in 0..n
      BY <1>1, <2>3, <2>4
    <2> QED
      BY <1>1, <1>7, <2>4, <2>5
  <1> QED
    BY <1>4, <1>8 DEF Right, n

\* Rows are told in order: those up to t have been.  What is on the wire goes on where the browser
\* is and ends where the server is; history and buffer, one after the other, leave no row out.
StreamAt(t) ==
    /\ t \in 0..Len(esRows) /\ esUntold = t + 1..Len(esRows)
    /\ esClient.events = Ids(0, esClient.lastEventId) /\ esClient.lastEventId <= Len(esRows)
    /\ esServer.phase = "none" => esWire = <<>>
    /\ esServer.phase # "none" =>
          /\ esClient.lastEventId <= esServer.lastSent /\ esServer.lastSent <= Len(esRows)
          /\ esWire = Ids(esClient.lastEventId, esServer.lastSent)
    /\ esServer.phase = "subscribed" =>
          esServer.lastSent = esServer.after /\ \E b \in 0..t : esServer.buffer = Ids(b, t)
    /\ esServer.phase = "read" =>
          /\ esServer.lastSent = esServer.after
          /\ \E b \in 0..t, h \in 0..Len(esRows) :
                /\ esServer.after <= h /\ b <= h
                /\ esServer.history = Ids(esServer.after, h) /\ esServer.buffer = Ids(b, t)
    /\ esServer.phase = "live" => t <= esServer.lastSent

StreamInv == StreamTypeOK /\ \E t \in Nat : StreamAt(t)

LEMMA StreamNumbers ==
    ASSUME StreamTypeOK
    PROVE  /\ MaxRows \in Nat /\ MaxDrops \in Nat /\ RowIds \subseteq Nat
           /\ Len(esRows) \in Nat /\ Len(esRows) <= MaxRows /\ DOMAIN esRows = 1..Len(esRows)
           /\ esServer.after \in Nat /\ esServer.lastSent \in Nat /\ esClient.lastEventId \in Nat
           /\ esServer.phase \in {"none", "subscribed", "read", "live", "closed"} /\ esDrops \in 0..MaxDrops
           /\ esServer.history \in Seq(RowIds) /\ esServer.buffer \in Seq(RowIds)
           /\ esWire \in Seq(RowIds) /\ esClient.events \in Seq(RowIds)
  <1>1. MaxRows \in Nat /\ MaxDrops \in Nat
    BY StreamAssumption
  <1>2. RowIds \subseteq Nat
    BY <1>1 DEF RowIds
  <1>3. \A n \in 0..MaxRows : n \in Nat
    BY <1>1
  <1>4. Len(esRows) \in Nat /\ Len(esRows) <= MaxRows /\ DOMAIN esRows = 1..Len(esRows)
    BY DEF StreamTypeOK
  <1> QED
    BY <1>1, <1>2, <1>3, <1>4 DEF StreamTypeOK

LEMMA IdsAreRows ==
    ASSUME NEW a \in Nat, NEW b \in Nat, b <= MaxRows, MaxRows \in Nat
    PROVE  Ids(a, b) \in Seq(RowIds)
  <1>1. \A i \in 1..b - a : a + i \in RowIds
    BY DEF RowIds
  <1>2. CASE a <= b
    <2>1. b - a \in Nat
      BY <1>2
    <2> QED
      BY <1>1, <2>1 DEF Ids
  <1>3. CASE ~(a <= b)
    <2>1. 1..b - a = {} /\ (1..0) = {}
      BY <1>3
    <2>2. Ids(a, b) = <<>>
      BY <2>1 DEF Ids
    <2>3. <<>> \in Seq(RowIds)
      OBVIOUS
    <2> QED
      BY <2>2, <2>3
  <1> QED
    BY <1>2, <1>3

LEMMA IdsGoOn ==
    ASSUME NEW a \in Nat, NEW b \in Nat, NEW c \in Nat, a <= b, b <= c
    PROVE  Ids(a, b) \o Ids(b, c) = Ids(a, c)
  <1>1. /\ Ids(a, b) \in Seq(Nat) /\ Len(Ids(a, b)) = b - a
        /\ Ids(b, c) \in Seq(Nat) /\ Len(Ids(b, c)) = c - b
        /\ \A i \in 1..b - a : Ids(a, b)[i] = a + i
        /\ \A i \in 1..c - b : Ids(b, c)[i] = b + i
    BY IdsAre
  <1>2. Ids(a, b) \o Ids(b, c) = [i \in 1..(b - a) + (c - b) |-> IF i <= b - a THEN Ids(a, b)[i] ELSE Ids(b, c)[i - (b - a)]]
    <2>1. PICK s \in Seq(Nat), u \in Seq(Nat) : s = Ids(a, b) /\ u = Ids(b, c)
      BY <1>1
    <2>2. s \o u = [i \in 1..Len(s) + Len(u) |-> IF i <= Len(s) THEN s[i] ELSE u[i - Len(s)]]
      <3>1. PICK v \in Seq(Nat) : v = s \o u
        BY ConcatProperties
      <3>2. Len(v) = Len(s) + Len(u) /\ \A i \in 1..Len(s) + Len(u) : v[i] = IF i <= Len(s) THEN s[i] ELSE u[i - Len(s)]
        BY <3>1, ConcatProperties
      <3>3. v = [i \in 1..Len(v) |-> v[i]]
        OBVIOUS
      <3>4. Len(v) = Len(s) + Len(u)
        BY <3>2
      <3>5. v = [i \in 1..Len(s) + Len(u) |-> v[i]]
        BY <3>3, <3>4
      <3> QED
        BY <3>1, <3>2, <3>5
    <2>3. Len(s) = b - a /\ Len(u) = c - b
      BY <1>1, <2>1
    <2> HIDE DEF Ids
    <2> QED
      BY <2>1, <2>2, <2>3
  <1>3. (b - a) + (c - b) = c - a
    OBVIOUS
  <1>4. ASSUME NEW i \in 1..c - a
        PROVE  (IF i <= b - a THEN Ids(a, b)[i] ELSE Ids(b, c)[i - (b - a)]) = a + i
    <2>1. CASE i <= b - a
      <3>1. i \in 1..b - a
        BY <2>1
      <3> QED
        BY <1>1, <2>1, <3>1
    <2>2. CASE ~(i <= b - a)
      <3>1. i - (b - a) \in 1..c - b /\ b + (i - (b - a)) = a + i
        BY <2>2
      <3> QED
        BY <1>1, <2>2, <3>1
    <2> QED
      BY <2>1, <2>2
  <1> QED
    BY <1>2, <1>3, <1>4 DEF Ids

\* What is written ends up on the wire, up to the row m.
LEMMA WritesUpTo ==
    ASSUME StreamTypeOK, NEW t \in Nat, StreamAt(t), esServer.phase # "none",
           NEW rows, NEW m \in Nat, esServer.lastSent <= m, m <= Len(esRows),
           Fresher(esServer.lastSent, rows) = Ids(esServer.lastSent, m), Writes(rows, "live")
    PROVE  /\ esServer' \in [phase : {"none", "subscribed", "read", "live", "closed"}, after : 0..MaxRows,
                             lastSent : 0..MaxRows, history : Seq(RowIds), buffer : Seq(RowIds)]
           /\ esServer'.phase \in {"live", "closed"} /\ esServer'.lastSent = m
           /\ esWire' = Ids(esClient.lastEventId, m) /\ esWire' \in Seq(RowIds)
  <1> DEFINE w == Ids(esServer.lastSent, m)
             phase == IF \E i \in DOMAIN w : IsTerminal(w[i]) THEN "closed" ELSE "live"
  <1>1. PICK sent \in Nat, last \in Nat : sent = esServer.lastSent /\ last = esClient.lastEventId /\ last <= sent
                                          /\ esWire = Ids(last, sent)
    BY StreamNumbers DEF StreamAt
  <1>2. MaxRows \in Nat /\ m <= MaxRows /\ m \in 0..MaxRows
    <2>1. MaxRows \in Nat /\ Len(esRows) \in Nat /\ Len(esRows) <= MaxRows
      BY StreamNumbers
    <2> QED
      BY <2>1
  <1>3. esServer' = [esServer EXCEPT !.lastSent = Last(<<esServer.lastSent>> \o w), !.history = <<>>, !.buffer = <<>>,
                                     !.phase = phase]
        /\ esWire' = esWire \o w
    BY DEF Writes
  <1>4. Last(<<esServer.lastSent>> \o w) = m
    BY <1>1, IdsAre
  <1> HIDE DEF w
  <1>5. phase \in {"live", "closed"}
    OBVIOUS
  <1> HIDE DEF phase
  <1>6. <<>> \in Seq(RowIds)
    OBVIOUS
  <1>7. /\ esServer' \in [phase : {"none", "subscribed", "read", "live", "closed"}, after : 0..MaxRows,
                          lastSent : 0..MaxRows, history : Seq(RowIds), buffer : Seq(RowIds)]
        /\ esServer'.phase \in {"live", "closed"} /\ esServer'.lastSent = m
    BY <1>2, <1>3, <1>4, <1>5, <1>6 DEF StreamTypeOK
  <1>8. esWire' = Ids(last, m)
    BY <1>1, <1>3, IdsGoOn DEF w
  <1>9. Ids(last, m) \in Seq(RowIds)
    BY <1>2, IdsAreRows
  <1> QED
    BY <1>1, <1>7, <1>8, <1>9

LEMMA StreamStarts == StreamInit => StreamInv
  <1> SUFFICES ASSUME StreamInit PROVE StreamInv
    OBVIOUS
  <1>0. MaxRows \in Nat /\ MaxDrops \in Nat
    BY StreamAssumption
  <1>1. <<>> \in Seq(RowIds) /\ 0 \in 0..MaxRows /\ 0 \in 0..MaxDrops
    BY <1>0
  <1>2. StreamTypeOK
    <2>1. esRows = <<>> /\ <<>> \in Seq({"event", "terminal"}) /\ Len(<<>>) = 0 /\ DOMAIN <<>> = {}
      BY DEF StreamInit
    <2> QED
      BY <1>0, <1>1, <2>1 DEF StreamInit, StreamTypeOK, NoRequest
  <1>3. StreamAt(0)
    <2>1. Ids(0, 0) = <<>>
      BY DEF Ids
    <2>2. Len(esRows) = 0 /\ 0 + 1..0 = {} /\ 0 \in 0..0
      BY DEF StreamInit
    <2> QED
      BY <2>1, <2>2 DEF StreamInit, StreamAt, NoRequest
  <1> QED
    BY <1>2, <1>3 DEF StreamInv

LEMMA RowAppendedKeeps ==
    ASSUME StreamInv, RowAppended
    PROVE  StreamInv'
  <1>1. StreamTypeOK
    BY DEF StreamInv
  <1>2. PICK t \in Nat : StreamAt(t)
    BY DEF StreamInv
  <1>3. UNCHANGED <<esServer, esWire, esClient, esDrops>> /\ Len(esRows) < MaxRows
    BY DEF RowAppended
  <1>4. PICK kind \in {"event", "terminal"} : esRows' = Append(esRows, kind)
    BY DEF RowAppended
  <1>5. PICK l \in Nat : l = Len(esRows) /\ l < MaxRows
    BY <1>1, <1>3, StreamNumbers
  <1>6. esRows' \in Seq({"event", "terminal"}) /\ Len(esRows') = l + 1 /\ DOMAIN esRows' = 1..l + 1
    BY <1>1, <1>4, <1>5 DEF StreamTypeOK
  <1>7. t \in 0..l /\ esUntold' = t + 1..l + 1
    <2>1. t \in 0..l /\ esUntold = t + 1..l
      BY <1>2, <1>5 DEF StreamAt
    <2>2. esUntold' = esUntold \cup {l + 1}
      BY <1>5 DEF RowAppended
    <2> QED
      BY <2>1, <2>2
  <1>8. StreamTypeOK'
    <2>1. l + 1 <= MaxRows
      BY <1>1, <1>5, StreamNumbers
    <2>2. esUntold' \subseteq DOMAIN esRows'
      BY <1>6, <1>7
    <2> QED
      BY <1>1, <1>3, <1>6, <2>1, <2>2 DEF StreamTypeOK
  <1>9. \A n \in Nat : n <= l => n <= l + 1
    BY <1>5
  <1>10. \A n \in 0..l : n \in 0..l + 1
    BY <1>5
  <1>11. StreamAt(t)'
    <2>1. esClient.lastEventId \in Nat /\ esServer.lastSent \in Nat
      BY <1>1, StreamNumbers
    <2>2. /\ t \in 0..Len(esRows') /\ esUntold' = t + 1..Len(esRows')
          /\ esClient.lastEventId <= Len(esRows')
          /\ esServer.phase # "none" => esServer.lastSent <= Len(esRows')
          /\ \A h \in 0..Len(esRows) : h \in 0..Len(esRows')
      BY <1>2, <1>5, <1>6, <1>7, <1>9, <1>10, <2>1 DEF StreamAt
    <2> QED
      BY <1>2, <1>3, <2>2 DEF StreamAt
  <1> QED
    BY <1>8, <1>11 DEF StreamInv

\* The next row is told.
LEMMA RowToldKeeps ==
    ASSUME StreamInv, TellInOrder, NEW n \in esUntold, RowTold(n)
    PROVE  StreamInv'
  <1>1. StreamTypeOK
    BY DEF StreamInv
  <1>2. PICK t \in Nat : StreamAt(t)
    BY DEF StreamInv
  <1>3. PICK l \in Nat, r \in Nat : l = Len(esRows) /\ r = MaxRows /\ l <= r
    BY <1>1, StreamNumbers
  <1>4. n = t + 1 /\ t + 1 <= l /\ esUntold' = t + 2..l
    <2>1. esUntold = t + 1..l /\ t \in 0..l
      BY <1>2, <1>3 DEF StreamAt
    <2>2. \A m \in esUntold : n <= m
      BY DEF RowTold
    <2>3. n \in t + 1..l
      BY <2>1
    <2>4. t + 1 \in esUntold
      BY <2>1, <2>3
    <2>5. n = t + 1
      BY <2>2, <2>3, <2>4
    <2>6. esUntold' = esUntold \ {t + 1}
      BY <2>5 DEF RowTold
    <2> QED
      BY <2>1, <2>3, <2>5, <2>6
  <1>5. UNCHANGED <<esRows, esClient, esDrops>>
    BY DEF RowTold
  <1>6. /\ t + 1 \in 0..Len(esRows') /\ esUntold' = (t + 1) + 1..Len(esRows') /\ t + 1 \in Nat
        /\ esUntold' \subseteq DOMAIN esRows'
    <2>1. t + 2..l = (t + 1) + 1..l /\ t + 2..l \subseteq 1..l /\ t + 1 \in 0..l
      BY <1>4
    <2>2. DOMAIN esRows = 1..l
      BY <1>1, <1>3, StreamNumbers
    <2> QED
      BY <1>3, <1>4, <1>5, <2>1, <2>2
  <1>7. CASE esServer.phase \in {"subscribed", "read"}
    <2> DEFINE buffer == Append(esServer.buffer, n)
    <2>1. esServer' = [esServer EXCEPT !.buffer = buffer] /\ UNCHANGED esWire
      BY <1>7 DEF RowTold
    <2>2. buffer \in Seq(RowIds)
      <3>1. n \in RowIds /\ esServer.buffer \in Seq(RowIds)
        BY <1>1, <1>3, <1>4, StreamNumbers DEF RowIds
      <3> QED
        BY <3>1
    <2>3. ASSUME NEW b \in 0..t, esServer.buffer = Ids(b, t) PROVE b \in 0..t + 1 /\ buffer = Ids(b, t + 1)
      <3>1. b \in Nat /\ b <= t
        OBVIOUS
      <3>2. Append(Ids(b, t), t + 1) = Ids(b, t + 1)
        BY <3>1, IdsAre
      <3> QED
        BY <1>4, <2>3, <3>1, <3>2
    <2> HIDE DEF buffer
    <2>4. /\ esServer'.phase = esServer.phase /\ esServer'.after = esServer.after /\ esServer'.buffer = buffer
          /\ esServer'.lastSent = esServer.lastSent /\ esServer'.history = esServer.history
          /\ esServer' \in [phase : {"none", "subscribed", "read", "live", "closed"}, after : 0..MaxRows,
                            lastSent : 0..MaxRows, history : Seq(RowIds), buffer : Seq(RowIds)]
      BY <1>1, <2>1, <2>2 DEF StreamTypeOK
    <2>5. StreamTypeOK'
      BY <1>1, <1>5, <1>6, <2>1, <2>4 DEF StreamTypeOK
    <2>6. CASE esServer.phase = "subscribed"
      <3>1. PICK b \in 0..t : esServer.buffer = Ids(b, t)
        BY <1>2, <2>6 DEF StreamAt
      <3>2. b \in 0..t + 1 /\ buffer = Ids(b, t + 1)
        BY <2>3, <3>1
      <3>3. StreamAt(t + 1)'
        BY <1>2, <1>5, <1>6, <2>1, <2>4, <2>6, <3>2 DEF StreamAt
      <3> QED
        BY <1>6, <2>5, <3>3 DEF StreamInv
    <2>7. CASE esServer.phase = "read"
      <3>1. PICK b \in 0..t, h \in 0..Len(esRows) :
                /\ esServer.after <= h /\ b <= h
                /\ esServer.history = Ids(esServer.after, h) /\ esServer.buffer = Ids(b, t)
        BY <1>2, <2>7 DEF StreamAt
      <3>2. b \in 0..t + 1 /\ buffer = Ids(b, t + 1)
        BY <2>3, <3>1
      <3>3. StreamAt(t + 1)'
        BY <1>2, <1>5, <1>6, <2>1, <2>4, <2>7, <3>1, <3>2 DEF StreamAt
      <3> QED
        BY <1>6, <2>5, <3>3 DEF StreamInv
    <2> QED
      BY <1>7, <2>6, <2>7
  <1>8. CASE esServer.phase = "live"
    <2>1. PICK sent \in Nat : sent = esServer.lastSent /\ t <= sent /\ sent <= l
      BY <1>1, <1>2, <1>3, <1>8, StreamNumbers DEF StreamAt
    <2>2. PICK m \in Nat : m = (IF t + 1 <= sent THEN sent ELSE sent + 1) /\ sent <= m /\ m <= l /\ t + 1 <= m
      BY <1>4, <2>1
    <2>3. Fresher(sent, <<n>>) = Ids(sent, m)
      <3> DEFINE high == [k \in 0..1 |-> IF k = 0 THEN sent ELSE m]
      <3>1. high \in [0..1 -> Nat] /\ high[0] = sent /\ high[1] = m
        OBVIOUS
      <3> HIDE DEF high
      <3>2. <<n>> \in Seq(Nat) /\ Len(<<n>>) = 1 /\ <<n>>[1] = t + 1
        BY <1>4
      <3>3. \A k \in 1..1 : /\ <<n>>[k] <= high[k - 1] + 1
                            /\ high[k] = IF <<n>>[k] <= high[k - 1] THEN high[k - 1] ELSE high[k - 1] + 1
        <4>1. SUFFICES /\ t + 1 <= high[0] + 1
                       /\ high[1] = IF t + 1 <= high[0] THEN high[0] ELSE high[0] + 1
          BY <3>2
        <4> QED
          BY <2>1, <2>2, <3>1
      <3> QED
        BY <3>1, <3>2, <3>3, FresherIs
    <2>4. Writes(<<n>>, "live")
      BY <1>8 DEF RowTold
    <2>5. /\ esServer' \in [phase : {"none", "subscribed", "read", "live", "closed"}, after : 0..MaxRows,
                             lastSent : 0..MaxRows, history : Seq(RowIds), buffer : Seq(RowIds)]
          /\ esServer'.phase \in {"live", "closed"} /\ esServer'.lastSent = m
          /\ esWire' = Ids(esClient.lastEventId, m) /\ esWire' \in Seq(RowIds)
      BY <1>1, <1>2, <1>3, <1>8, <2>1, <2>2, <2>3, <2>4, WritesUpTo
    <2>6. StreamTypeOK'
      BY <1>1, <1>5, <1>6, <2>5 DEF StreamTypeOK
    <2>7. esClient.lastEventId <= m
      <3>1. esClient.lastEventId \in Nat /\ esClient.lastEventId <= sent
        BY <1>1, <1>2, <1>8, <2>1, StreamNumbers DEF StreamAt
      <3> QED
        BY <2>2, <3>1
    <2>8. StreamAt(t + 1)'
      BY <1>2, <1>3, <1>5, <1>6, <2>2, <2>5, <2>7 DEF StreamAt
    <2> QED
      BY <1>6, <2>6, <2>8 DEF StreamInv
  <1>9. CASE esServer.phase \in {"none", "closed"}
    <2>1. UNCHANGED <<esServer, esWire>>
      BY <1>9 DEF RowTold
    <2>2. StreamTypeOK'
      BY <1>1, <1>5, <1>6, <2>1 DEF StreamTypeOK
    <2>3. StreamAt(t + 1)'
      BY <1>2, <1>5, <1>6, <1>9, <2>1 DEF StreamAt
    <2> QED
      BY <1>6, <2>2, <2>3 DEF StreamInv
  <1> QED
    BY <1>1, <1>7, <1>8, <1>9, StreamNumbers

LEMMA HistoryReadKeeps ==
    ASSUME StreamInv, HistoryRead
    PROVE  StreamInv'
  <1>1. StreamTypeOK
    BY DEF StreamInv
  <1>2. PICK t \in Nat : StreamAt(t)
    BY DEF StreamInv
  <1>3. PICK l \in Nat, after \in Nat : l = Len(esRows) /\ after = esServer.after /\ l <= MaxRows /\ MaxRows \in Nat
    BY <1>1, StreamNumbers
  <1>4. /\ esServer.phase = "subscribed" /\ UNCHANGED <<esRows, esUntold, esWire, esClient, esDrops>>
        /\ esServer' = [esServer EXCEPT !.phase = "read", !.history = Ids(after, l)]
    BY <1>3 DEF HistoryRead, Ids
  <1>5. Ids(after, l) \in Seq(RowIds)
    BY <1>3, IdsAreRows
  <1>6. /\ esServer'.phase = "read" /\ esServer'.after = after /\ esServer'.buffer = esServer.buffer
        /\ esServer'.lastSent = esServer.lastSent /\ esServer'.history = Ids(after, l)
        /\ esServer' \in [phase : {"none", "subscribed", "read", "live", "closed"}, after : 0..MaxRows,
                          lastSent : 0..MaxRows, history : Seq(RowIds), buffer : Seq(RowIds)]
    BY <1>1, <1>3, <1>4, <1>5 DEF StreamTypeOK
  <1>7. StreamTypeOK'
    BY <1>1, <1>4, <1>6 DEF StreamTypeOK
  <1>8. PICK b \in 0..t : esServer.buffer = Ids(b, t)
    BY <1>2, <1>4 DEF StreamAt
  <1>9. after <= l /\ b <= l /\ l \in 0..Len(esRows) /\ t \in 0..l
    <2>1. t \in 0..l /\ esServer.lastSent = after /\ esServer.lastSent <= l
      BY <1>2, <1>3, <1>4 DEF StreamAt
    <2> QED
      BY <1>3, <1>8, <2>1
  <1>10. StreamAt(t)'
    BY <1>2, <1>3, <1>4, <1>6, <1>8, <1>9 DEF StreamAt
  <1> QED
    BY <1>7, <1>10 DEF StreamInv

\* History and buffer, each without a gap and the second beginning in the first or at its end.
LEMMA ReplayIs ==
    ASSUME NEW after \in Nat, NEW h \in Nat, NEW b \in Nat, NEW t \in Nat, after <= h, b <= h, b <= t
    PROVE  Fresher(after, Ids(after, h) \o Ids(b, t)) = Ids(after, IF h <= t THEN t ELSE h)
  <1> DEFINE H == h - after
             n == H + (t - b)
             rows == Ids(after, h) \o Ids(b, t)
             high == [k \in 0..n |-> IF k <= H THEN after + k ELSE IF h <= b + (k - H) THEN b + (k - H) ELSE h]
  <1>1. H \in Nat /\ n \in Nat /\ H <= n /\ after + H = h
    OBVIOUS
  <1>2. /\ Ids(after, h) \in Seq(Nat) /\ Len(Ids(after, h)) = H
        /\ Ids(b, t) \in Seq(Nat) /\ Len(Ids(b, t)) = t - b
        /\ \A i \in 1..H : Ids(after, h)[i] = after + i
        /\ \A i \in 1..t - b : Ids(b, t)[i] = b + i
    BY IdsAre
  <1>3. /\ rows \in Seq(Nat) /\ Len(rows) = n
        /\ \A k \in 1..n : rows[k] = IF k <= H THEN Ids(after, h)[k] ELSE Ids(b, t)[k - H]
    <2>1. /\ rows \in Seq(Nat) /\ Len(rows) = Len(Ids(after, h)) + Len(Ids(b, t))
          /\ \A k \in 1..Len(Ids(after, h)) + Len(Ids(b, t)) :
                rows[k] = IF k <= Len(Ids(after, h)) THEN Ids(after, h)[k] ELSE Ids(b, t)[k - Len(Ids(after, h))]
      BY <1>2, ConcatProperties
    <2> HIDE DEF rows
    <2> QED
      BY <1>2, <2>1
  <1> HIDE DEF rows
  <1>4. ASSUME NEW k \in 1..n PROVE rows[k] = IF k <= H THEN after + k ELSE b + (k - H)
    <2>1. CASE k <= H
      <3>1. k \in 1..H
        BY <2>1
      <3> QED
        BY <1>2, <1>3, <2>1, <3>1
    <2>2. CASE ~(k <= H)
      <3>1. k - H \in 1..t - b
        BY <2>2
      <3> QED
        BY <1>2, <1>3, <2>2, <3>1
    <2> QED
      BY <2>1, <2>2
  <1>5. high \in [0..n -> Nat]
    <2>1. ASSUME NEW k \in 0..n
          PROVE  (IF k <= H THEN after + k ELSE IF h <= b + (k - H) THEN b + (k - H) ELSE h) \in Nat
      OBVIOUS
    <2> QED
      BY <2>1
  <1>6. high[0] = after
    BY <1>1
  <1>7. ASSUME NEW k \in 1..n
        PROVE  /\ rows[k] <= high[k - 1] + 1
               /\ high[k] = IF rows[k] <= high[k - 1] THEN high[k - 1] ELSE high[k - 1] + 1
    <2>1. k \in 0..n /\ k - 1 \in 0..n /\ k \in Nat /\ k >= 1
      OBVIOUS
    <2>2. high[k] = IF k <= H THEN after + k ELSE IF h <= b + (k - H) THEN b + (k - H) ELSE h
      BY <2>1
    <2>3. high[k - 1] = IF k - 1 <= H THEN after + (k - 1) ELSE IF h <= b + (k - 1 - H) THEN b + (k - 1 - H) ELSE h
      BY <2>1
    <2> HIDE DEF high
    <2>4. CASE k <= H
      <3>1. rows[k] = after + k /\ high[k] = after + k /\ high[k - 1] = after + (k - 1)
        BY <1>4, <2>2, <2>3, <2>4
      <3> QED
        BY <2>1, <3>1
    <2>5. CASE k = H + 1
      <3>1. rows[k] = b + 1 /\ high[k - 1] = h /\ high[k] = IF h <= b + 1 THEN b + 1 ELSE h
        BY <1>4, <2>2, <2>3, <2>5
      <3> QED
        BY <3>1
    <2>6. CASE k > H + 1
      <3>1. PICK d \in Nat : d = k - H /\ d > 1
        BY <2>6
      <3>2. /\ rows[k] = b + d /\ high[k] = IF h <= b + d THEN b + d ELSE h
            /\ high[k - 1] = IF h <= b + (d - 1) THEN b + (d - 1) ELSE h
        BY <1>4, <2>2, <2>3, <2>6, <3>1
      <3> QED
        BY <3>1, <3>2
    <2> QED
      BY <2>4, <2>5, <2>6
  <1>8. high[n] = IF h <= t THEN t ELSE h
    <2>1. n \in 0..n /\ (n <= H <=> t = b) /\ (n <= H => after + n = h) /\ b + (n - H) = t
      OBVIOUS
    <2>2. high[n] = IF n <= H THEN after + n ELSE IF h <= b + (n - H) THEN b + (n - H) ELSE h
      BY <2>1
    <2> HIDE DEF high, n, H
    <2> QED
      BY <2>1, <2>2
  <1> HIDE DEF high, n, H
  <1>9. Fresher(after, rows) = Ids(after, high[Len(rows)])
    BY <1>3, <1>5, <1>6, <1>7, FresherIs
  <1> QED
    BY <1>3, <1>8, <1>9 DEF rows

LEMMA ReplayedKeeps ==
    ASSUME StreamInv, Replayed
    PROVE  StreamInv'
  <1>1. StreamTypeOK
    BY DEF StreamInv
  <1>2. PICK t \in Nat : StreamAt(t)
    BY DEF StreamInv
  <1>3. esServer.phase = "read" /\ Writes(esServer.history \o esServer.buffer, "live")
        /\ UNCHANGED <<esRows, esUntold, esClient, esDrops>>
    BY DEF Replayed
  <1>4. PICK l \in Nat, after \in Nat : l = Len(esRows) /\ after = esServer.after /\ esServer.lastSent = after
    BY <1>1, <1>2, <1>3, StreamNumbers DEF StreamAt
  <1>5. PICK b \in 0..t, h \in 0..l :
            /\ after <= h /\ b <= h
            /\ esServer.history = Ids(after, h) /\ esServer.buffer = Ids(b, t)
    BY <1>2, <1>3, <1>4 DEF StreamAt
  <1>6. PICK m \in Nat : m = (IF h <= t THEN t ELSE h) /\ after <= m /\ m <= l /\ t <= m
    <2>1. t \in 0..l
      BY <1>2, <1>4 DEF StreamAt
    <2> QED
      BY <1>5, <2>1
  <1>7. Fresher(after, esServer.history \o esServer.buffer) = Ids(after, m)
    BY <1>5, <1>6, ReplayIs
  <1>8. /\ esServer' \in [phase : {"none", "subscribed", "read", "live", "closed"}, after : 0..MaxRows,
                          lastSent : 0..MaxRows, history : Seq(RowIds), buffer : Seq(RowIds)]
        /\ esServer'.phase \in {"live", "closed"} /\ esServer'.lastSent = m
        /\ esWire' = Ids(esClient.lastEventId, m) /\ esWire' \in Seq(RowIds)
    BY <1>1, <1>2, <1>3, <1>4, <1>6, <1>7, WritesUpTo
  <1>9. StreamTypeOK'
    BY <1>1, <1>3, <1>8 DEF StreamTypeOK
  <1>10. esClient.lastEventId <= m
    <2>1. esClient.lastEventId \in Nat /\ esClient.lastEventId <= after
      BY <1>1, <1>2, <1>3, <1>4, StreamNumbers DEF StreamAt
    <2> QED
      BY <1>6, <2>1
  <1>11. StreamAt(t)'
    BY <1>2, <1>3, <1>4, <1>6, <1>8, <1>10 DEF StreamAt
  <1> QED
    BY <1>9, <1>11 DEF StreamInv

LEMMA ConnectsKeeps ==
    ASSUME StreamInv, Connects
    PROVE  StreamInv'
  <1>1. StreamTypeOK
    BY DEF StreamInv
  <1>2. PICK t \in Nat : StreamAt(t)
    BY DEF StreamInv
  <1>3. PICK e \in 0..MaxRows : e = esClient.lastEventId /\ e \in Nat
    BY <1>1, StreamNumbers DEF StreamTypeOK
  <1>4. /\ esServer.phase = "none" /\ UNCHANGED <<esRows, esUntold, esWire, esClient, esDrops>>
        /\ esServer' = [phase |-> "subscribed", after |-> e, lastSent |-> e, history |-> <<>>, buffer |-> <<>>]
    BY <1>3 DEF Connects, NoRequest
  <1>5. <<>> \in Seq(RowIds)
    OBVIOUS
  <1>6. StreamTypeOK'
    BY <1>1, <1>3, <1>4, <1>5 DEF StreamTypeOK
  <1>7. Ids(e, e) = <<>> /\ Ids(t, t) = <<>> /\ t \in 0..t /\ e <= e
    BY <1>3 DEF Ids
  <1>8. StreamAt(t)'
    BY <1>2, <1>3, <1>4, <1>7 DEF StreamAt
  <1> QED
    BY <1>6, <1>8 DEF StreamInv

LEMMA FrameHandledKeeps ==
    ASSUME StreamInv, FrameHandled
    PROVE  StreamInv'
  <1>1. StreamTypeOK
    BY DEF StreamInv
  <1>2. PICK t \in Nat : StreamAt(t)
    BY DEF StreamInv
  <1>3. esWire # <<>> /\ esServer.phase # "none" /\ UNCHANGED <<esRows, esUntold, esServer, esDrops>>
    BY <1>2 DEF FrameHandled, StreamAt
  <1>4. PICK e \in Nat, s \in Nat : /\ e = esClient.lastEventId /\ s = esServer.lastSent /\ e <= s
                                    /\ s <= Len(esRows) /\ esWire = Ids(e, s)
    BY <1>1, <1>2, <1>3, StreamNumbers DEF StreamAt
  <1>5. e + 1 <= s
    <2>1. e # s
      BY <1>3, <1>4 DEF Ids
    <2> QED
      BY <1>4, <2>1
  <1>6. Head(esWire) = e + 1 /\ Tail(esWire) = Ids(e + 1, s)
    <2>1. /\ Ids(e, s) \in Seq(Nat) /\ Len(Ids(e, s)) = s - e /\ \A i \in 1..s - e : Ids(e, s)[i] = e + i
      BY <1>4, IdsAre
    <2>2. 1 \in 1..s - e /\ s - e \in Nat /\ s - (e + 1) = (s - e) - 1
      BY <1>5
    <2>3. Head(Ids(e, s)) = Ids(e, s)[1]
      BY <2>1, <2>2
    <2>4. Tail(Ids(e, s)) = [i \in 1..(s - e) - 1 |-> Ids(e, s)[i + 1]]
      <3>1. PICK v \in Seq(Nat) : v = Ids(e, s) /\ v # <<>>
        BY <1>3, <1>4, <2>1
      <3>2. Tail(v) \in Seq(Nat) /\ Len(Tail(v)) = Len(v) - 1 /\ \A i \in 1..Len(Tail(v)) : Tail(v)[i] = v[i + 1]
        BY <3>1, HeadTailProperties
      <3>3. PICK u \in Seq(Nat) : u = Tail(v) /\ Len(u) = Len(v) - 1 /\ \A i \in 1..Len(v) - 1 : u[i] = v[i + 1]
        BY <3>2
      <3>4. Len(v) - 1 = (s - e) - 1
        BY <2>1, <3>1
      <3>5. u = [i \in 1..Len(u) |-> u[i]]
        OBVIOUS
      <3>6. u = [i \in 1..Len(v) - 1 |-> v[i + 1]]
        BY <3>3, <3>5
      <3> HIDE DEF Ids
      <3> QED
        BY <3>1, <3>3, <3>4, <3>6
    <2>5. ASSUME NEW i \in 1..s - (e + 1) PROVE Ids(e, s)[i + 1] = (e + 1) + i
      <3>1. i + 1 \in 1..s - e /\ e + (i + 1) = (e + 1) + i
        OBVIOUS
      <3> QED
        BY <2>1, <3>1
    <2>6. [i \in 1..(s - e) - 1 |-> Ids(e, s)[i + 1]] = Ids(e + 1, s)
      BY <2>2, <2>5 DEF Ids
    <2> HIDE DEF Ids
    <2>7. Ids(e, s)[1] = e + 1
      BY <2>1, <2>2
    <2> QED
      BY <1>4, <2>3, <2>4, <2>6, <2>7
  <1>7. esClient.events = Ids(0, e)
    BY <1>2, <1>4 DEF StreamAt
  <1>8. /\ Ids(0, e) \in Seq(Nat) /\ Len(Ids(0, e)) = e /\ \A i \in 1..e : Ids(0, e)[i] = i
        /\ Append(Ids(0, e), e + 1) = Ids(0, e + 1)
    <2>1. 0 <= e /\ e - 0 = e /\ 0 \in Nat
      OBVIOUS
    <2>2. /\ Ids(0, e) \in Seq(Nat) /\ Len(Ids(0, e)) = e - 0 /\ \A i \in 1..e - 0 : Ids(0, e)[i] = 0 + i
          /\ Append(Ids(0, e), e + 1) = Ids(0, e + 1)
      BY <2>1, IdsAre
    <2> HIDE DEF Ids
    <2> QED
      BY <2>1, <2>2
  <1>9. e + 1 \notin ToSet(esClient.events)
    <2>1. SUFFICES ASSUME NEW i \in DOMAIN Ids(0, e), Ids(0, e)[i] = e + 1 PROVE FALSE
      BY <1>7 DEF ToSet
    <2>2. i \in 1..e /\ Ids(0, e)[i] = i
      BY <1>8
    <2> QED
      BY <2>1, <2>2
  <1>10. /\ esClient' = [lastEventId |-> e + 1, terminated |-> IsTerminal(e + 1), events |-> Ids(0, e + 1)]
         /\ esWire' = Ids(e + 1, s)
    BY <1>6, <1>7, <1>8, <1>9 DEF FrameHandled
  <1>11. PICK r \in Nat : r = MaxRows /\ s <= r
    <2>1. MaxRows \in Nat /\ Len(esRows) \in Nat /\ Len(esRows) <= MaxRows
      BY <1>1, StreamNumbers
    <2> QED
      BY <1>4, <2>1
  <1>12. e + 1 \in 0..MaxRows /\ e + 1 <= MaxRows /\ s <= MaxRows
    BY <1>5, <1>11
  <1>13. Ids(0, e + 1) \in Seq(RowIds) /\ Ids(e + 1, s) \in Seq(RowIds)
    BY <1>11, <1>12, IdsAreRows
  <1>14. StreamTypeOK'
    <2>1. esClient' \in [lastEventId : 0..MaxRows, terminated : BOOLEAN, events : Seq(RowIds)]
      BY <1>10, <1>12, <1>13 DEF IsTerminal
    <2> QED
      BY <1>1, <1>3, <1>10, <1>13, <2>1 DEF StreamTypeOK
  <1>15. e + 1 <= Len(esRows)
    <2>1. Len(esRows) \in Nat
      BY <1>1, StreamNumbers
    <2> QED
      BY <1>4, <1>5, <2>1
  <1>16. StreamAt(t)'
    <2>1. esClient'.lastEventId = e + 1 /\ esClient'.events = Ids(0, e + 1)
      BY <1>10
    <2> QED
      BY <1>2, <1>3, <1>4, <1>5, <1>10, <1>15, <2>1 DEF StreamAt
  <1> QED
    BY <1>14, <1>16 DEF StreamInv

LEMMA ConnectionLostKeeps ==
    ASSUME StreamInv, ConnectionLost
    PROVE  StreamInv'
  <1>1. StreamTypeOK
    BY DEF StreamInv
  <1>2. PICK t \in Nat : StreamAt(t)
    BY DEF StreamInv
  <1>3. /\ esServer' = NoRequest /\ esWire' = <<>> /\ UNCHANGED <<esRows, esUntold, esClient>>
        /\ esDrops' \in 0..MaxDrops
    <2>1. esDrops < MaxDrops /\ esDrops' = esDrops + 1 /\ esDrops \in 0..MaxDrops /\ MaxDrops \in Nat
      BY <1>1, StreamNumbers DEF ConnectionLost
    <2>2. esDrops' \in 0..MaxDrops
      BY <2>1
    <2> QED
      BY <2>2 DEF ConnectionLost
  <1>4. <<>> \in Seq(RowIds) /\ 0 \in 0..MaxRows
    BY StreamAssumption
  <1>5. StreamTypeOK'
    BY <1>1, <1>3, <1>4 DEF StreamTypeOK, NoRequest
  <1>6. StreamAt(t)'
    BY <1>2, <1>3 DEF StreamAt, NoRequest
  <1> QED
    BY <1>5, <1>6 DEF StreamInv

LEMMA NextStream ==
    ASSUME TellInOrder
    PROVE  StreamInv /\ [StreamNext]_streamVars => StreamInv'
  <1> SUFFICES ASSUME StreamInv, [StreamNext]_streamVars PROVE StreamInv'
    OBVIOUS
  <1>1. CASE UNCHANGED streamVars
    <2>1. UNCHANGED <<esRows, esUntold, esServer, esWire, esClient, esDrops>>
      BY <1>1 DEF streamVars
    <2> QED
      BY <2>1 DEF StreamInv, StreamTypeOK, StreamAt
  <1> QED
    BY <1>1, RowAppendedKeeps, RowToldKeeps, HistoryReadKeeps, ReplayedKeeps, ConnectsKeeps, FrameHandledKeeps,
       ConnectionLostKeeps DEF StreamNext, StreamProgress

\* Whatever is emitted, however often the connection is lost and wherever a stream is when it is, the
\* browser applies the first rows of the log in order, none missing and none twice.
THEOREM TimelineExactAlways ==
    ASSUME TellInOrder
    PROVE  StreamSpec => []TimelineExact
  <1>1. StreamInv /\ [StreamNext]_streamVars => StreamInv'
    BY NextStream
  <1>2. StreamInv => TimelineExact
    <2> SUFFICES ASSUME StreamInv, NEW i \in DOMAIN esClient.events PROVE esClient.events[i] = i
      BY DEF TimelineExact
    <2>1. PICK e \in Nat : esClient.events = Ids(0, e)
      BY StreamNumbers DEF StreamInv, StreamAt
    <2> QED
      BY <2>1 DEF Ids
  <1> QED
    BY <1>1, <1>2, StreamStarts, PTL DEF StreamSpec

-----------------------------------------------------------------------------
(* An agent's run *)

\* A block of a round is paid in advance only if the whole round reads; a frame whose loop goes on
\* has not asked on its last chance.
FrameSound(f) ==
    /\ f \in Frame /\ f.at >= 1
    /\ DOMAIN f.did = DOMAIN f.round /\ DOMAIN f.paid = DOMAIN f.round
    /\ \A i \in DOMAIN f.paid : f.paid[i] = "yes" => \A j \in DOMAIN f.round : IsRead(f.round[j])
    /\ f.kind = "workflow" => f.round = <<>> /\ f.id \in Workflows
    /\ f.pc \notin {"end", "threw"} => f.asksLeft = 1

\* Paid in advance and not sent yet.
Unspent(f) == {i \in DOMAIN f.did : f.paid[i] = "yes" /\ f.did[i] = "todo"}

NoneTwice == \A i, j \in 2..Depth : runStack[i].kind = runStack[j].kind /\ runStack[i].id = runStack[j].id => i = j

RunInv ==
    /\ AgentTypeOK /\ BudgetKept
    /\ \A i \in 1..Depth : FrameSound(runStack[i]) /\ (i < Depth => Unspent(runStack[i]) = {})
    /\ runStack # <<>> => ledger.calls + Cardinality(Unspent(Inner)) <= budget.toolCalls
    /\ Depth <= MaxDepth + 1 /\ NoneTwice

LEMMA AgentNumbers ==
    /\ MaxIterations \in Nat /\ MaxToolCalls \in Nat /\ MaxSolverCalls \in Nat /\ ParallelReads \in Nat
    /\ Rounds \subseteq Seq(Block) /\ Steps \in [Workflows -> Seq(Step)]
    /\ \A w \in Workflows : w \notin Tools /\ w # "skill" /\ ~IsRead(w)
  <1>1. \A w \in Workflows : w \notin Tools /\ w # "skill"
    BY AgentRunInputs
  <1>2. \A w \in Workflows : w # "read"
    BY <1>1 DEF Tools
  <1> QED
    BY <1>1, <1>2, AgentRunAssumption, AgentRunInputs DEF IsRead

LEMMA FrameFields ==
    ASSUME NEW f \in Frame
    PROVE  /\ f.kind \in {"agent", "workflow"} /\ f.id \in Agents \cup Workflows
           /\ f.pc \in {"top", "ask", "round", "step", "end", "threw"}
           /\ f.round \in Seq(Block) /\ f.did \in Seq(Progress) /\ f.paid \in Seq({"later", "yes", "no"})
           /\ f.denies \in Nat /\ f.warned \in BOOLEAN /\ f.lastChance \in BOOLEAN /\ f.asksLeft \in 0..1 /\ f.at \in Nat
  BY DEF Frame

LEMMA UnspentIsFinite ==
    ASSUME NEW f, FrameSound(f)
    PROVE  IsFiniteSet(Unspent(f)) /\ Cardinality(Unspent(f)) \in Nat
  <1>1. f.did \in Seq(Progress)
    BY FrameFields DEF FrameSound
  <1>2. PICK n \in Nat : DOMAIN f.did = 1..n
    BY <1>1
  <1>3. IsFiniteSet(1..n)
    BY FS_Interval
  <1>4. Unspent(f) \subseteq 1..n
    BY <1>2 DEF Unspent
  <1>5. IsFiniteSet(Unspent(f))
    BY <1>3, <1>4, FS_Subset
  <1> QED
    BY <1>5, FS_CardinalityType

\* A frame changed in nothing that matters here.
LEMMA FrameMoves ==
    ASSUME NEW f, FrameSound(f), NEW pc \in {"top", "ask", "round", "step", "end", "threw"},
           NEW g \in Frame, g.kind = f.kind, g.id = f.id, g.at >= 1, g.pc = pc,
           g.round = f.round, g.did = f.did, g.paid = f.paid,
           pc \notin {"end", "threw"} => g.asksLeft = 1
    PROVE  FrameSound(g) /\ Unspent(g) = Unspent(f)
  BY DEF FrameSound, Unspent

\* Something has become of the block i.
LEMMA BlockSettles ==
    ASSUME NEW f, FrameSound(f), NEW i \in DOMAIN f.did, NEW how \in Progress \ {"todo"},
           NEW g, g = [f EXCEPT !.did[i] = how]
    PROVE  /\ FrameSound(g) /\ g.kind = f.kind /\ g.id = f.id
           /\ Unspent(g) = Unspent(f) \ {i}
  <1>1. /\ f.did \in Seq(Progress) /\ f \in Frame
    BY FrameFields DEF FrameSound
  <1>2. PICK d : d = [f.did EXCEPT ![i] = how]
    OBVIOUS
  <1>3. d \in Seq(Progress) /\ DOMAIN d = DOMAIN f.did /\ d[i] = how /\ \A j \in DOMAIN f.did : j # i => d[j] = f.did[j]
    BY <1>1, <1>2
  <1>4. g = [f EXCEPT !.did = d]
    BY <1>1, <1>2 DEF Frame
  <1>5. /\ g \in Frame /\ g.did = d /\ g.kind = f.kind /\ g.id = f.id /\ g.pc = f.pc /\ g.round = f.round /\ g.paid = f.paid
        /\ g.asksLeft = f.asksLeft /\ g.at = f.at
    BY <1>1, <1>3, <1>4 DEF Frame
  <1>6. FrameSound(g)
    BY <1>3, <1>5 DEF FrameSound
  <1>7. Unspent(g) = Unspent(f) \ {i}
    BY <1>3, <1>5 DEF Unspent
  <1> QED
    BY <1>5, <1>6, <1>7

LEMMA NewFrameIsSound ==
    ASSUME NEW kind \in {"agent", "workflow"}, NEW id,
           kind = "agent" => id \in Agents, kind = "workflow" => id \in Workflows
    PROVE  /\ FrameSound(NewFrame(kind, id)) /\ Unspent(NewFrame(kind, id)) = {}
           /\ NewFrame(kind, id).kind = kind /\ NewFrame(kind, id).id = id
  <1>1. <<>> \in Seq(Block) /\ <<>> \in Seq(Progress) /\ <<>> \in Seq({"later", "yes", "no"}) /\ DOMAIN <<>> = {}
    OBVIOUS
  <1>2. NewFrame(kind, id) \in Frame
    BY <1>1 DEF NewFrame, Frame
  <1> QED
    BY <1>1, <1>2 DEF NewFrame, FrameSound, Unspent

LEMMA PutInSeq ==
    ASSUME NEW S, NEW s \in Seq(S), NEW i \in 1..Len(s), NEW x \in S
    PROVE  /\ [s EXCEPT ![i] = x] \in Seq(S) /\ Len([s EXCEPT ![i] = x]) = Len(s)
           /\ [s EXCEPT ![i] = x][i] = x /\ \A j \in 1..Len(s) : j # i => [s EXCEPT ![i] = x][j] = s[j]
  OBVIOUS

LEMMA AddToSeq ==
    ASSUME NEW S, NEW s \in Seq(S), NEW x \in S
    PROVE  /\ Append(s, x) \in Seq(S) /\ Len(Append(s, x)) = Len(s) + 1 /\ DOMAIN Append(s, x) = 1..Len(s) + 1
           /\ Append(s, x)[Len(s) + 1] = x /\ \A j \in 1..Len(s) : Append(s, x)[j] = s[j]
  OBVIOUS

LEMMA StackFacts ==
    ASSUME RunInv, runStack # <<>>
    PROVE  /\ runStack \in Seq(Frame) /\ Depth \in Nat /\ Depth >= 1 /\ DOMAIN runStack = 1..Depth
           /\ FrameSound(Inner) /\ Inner \in Frame
           /\ ledger.calls \in Nat /\ ledger.solver \in Nat /\ ledger.nested \in Nat
           /\ budget.toolCalls \in Nat /\ budget.solverCalls \in Nat /\ budget.iterations \in Nat
           /\ budget.expired \in BOOLEAN
           /\ Cardinality(Unspent(Inner)) \in Nat /\ ledger.calls + Cardinality(Unspent(Inner)) <= budget.toolCalls
  <1>1. runStack \in Seq(Frame)
    BY DEF RunInv, AgentTypeOK
  <1>2. Depth \in Nat /\ Depth >= 1 /\ DOMAIN runStack = 1..Depth
    BY <1>1 DEF Depth
  <1>3. FrameSound(Inner) /\ Inner \in Frame
    <2>1. Depth \in 1..Depth
      BY <1>2
    <2> QED
      BY <2>1 DEF RunInv, Inner, FrameSound
  <1>4. Cardinality(Unspent(Inner)) \in Nat /\ ledger.calls + Cardinality(Unspent(Inner)) <= budget.toolCalls
    BY <1>3, UnspentIsFinite DEF RunInv
  <1> QED
    BY <1>1, <1>2, <1>3, <1>4 DEF RunInv, AgentTypeOK

\* Only the innermost frame changes, and what is spent stays within what is counted.
LEMMA InnerKeeps ==
    ASSUME RunInv, runStack # <<>>, NEW f, FrameSound(f), f.kind = Inner.kind, f.id = Inner.id, SetInner(f),
           budget' \in [iterations : Nat, toolCalls : Nat, solverCalls : Nat, expired : BOOLEAN],
           ledger' \in [calls : Nat, solver : Nat, nested : Nat],
           BudgetKept', ledger'.calls + Cardinality(Unspent(f)) <= budget'.toolCalls,
           runCancelled' \in BOOLEAN, runOutcome' = runOutcome
    PROVE  RunInv'
  <1>1. runStack \in Seq(Frame) /\ Depth \in Nat /\ Depth >= 1 /\ DOMAIN runStack = 1..Depth /\ f \in Frame
    BY StackFacts DEF FrameSound
  <1>2. PICK d \in Nat : d = Depth /\ d >= 1 /\ d \in 1..d
    BY <1>1
  <1>3. runStack' = [runStack EXCEPT ![d] = f]
    BY <1>2 DEF SetInner
  <1>4. /\ runStack' \in Seq(Frame) /\ Len(runStack') = d /\ DOMAIN runStack' = 1..d /\ runStack'[d] = f
        /\ \A i \in 1..d : i # d => runStack'[i] = runStack[i]
    <2>1. d \in 1..Len(runStack) /\ Len(runStack) = d
      BY <1>2 DEF Depth
    <2>2. /\ runStack' \in Seq(Frame) /\ Len(runStack') = d /\ runStack'[d] = f
          /\ \A i \in 1..d : i # d => runStack'[i] = runStack[i]
      BY <1>1, <1>3, <2>1, PutInSeq
    <2> QED
      BY <2>2
  <1>5. Depth' = d /\ Inner' = f /\ runStack' # <<>>
    BY <1>2, <1>4 DEF Depth, Inner
  <1>6. AgentTypeOK'
    BY <1>4 DEF RunInv, AgentTypeOK
  <1>7. ASSUME NEW i \in 1..d
        PROVE  FrameSound(runStack'[i]) /\ (i < d => Unspent(runStack'[i]) = {})
    <2>1. CASE i = d
      BY <1>2, <1>4, <2>1
    <2>2. CASE i # d
      BY <1>2, <1>4, <2>2 DEF RunInv
    <2> QED
      BY <2>1, <2>2
  <1>8. ASSUME NEW i \in 1..d PROVE runStack'[i].kind = runStack[i].kind /\ runStack'[i].id = runStack[i].id
    BY <1>2, <1>4 DEF Inner
  <1>9. NoneTwice'
    <2>1. \A i \in 2..d : i \in 1..d
      OBVIOUS
    <2> QED
      BY <1>2, <1>5, <1>8, <2>1 DEF RunInv, NoneTwice
  <1>10. d <= MaxDepth + 1
    BY <1>2 DEF RunInv
  <1>11. /\ \A i \in 1..Depth' : FrameSound(runStack[i])' /\ (i < Depth' => Unspent(runStack[i])' = {})
         /\ ledger'.calls + Cardinality(Unspent(Inner))' <= budget'.toolCalls
    BY <1>5, <1>7 DEF FrameSound, Unspent
  <1> QED
    BY <1>5, <1>6, <1>9, <1>10, <1>11 DEF RunInv, MaxDepth

\* An agent or a workflow is entered; nothing paid in advance is left behind.
LEMMA EnterKeeps ==
    ASSUME RunInv, runStack # <<>>, NEW f, FrameSound(f), f.kind = Inner.kind, f.id = Inner.id, Unspent(f) = {},
           NEW kind \in {"agent", "workflow"}, NEW id, MayEnter(kind, id),
           kind = "agent" => id \in Agents, kind = "workflow" => id \in Workflows,
           runStack' = Append([runStack EXCEPT ![Depth] = f], NewFrame(kind, id)),
           UNCHANGED <<budget, ledger, runCancelled, runOutcome>>
    PROVE  RunInv'
  <1>1. runStack \in Seq(Frame) /\ Depth \in Nat /\ Depth >= 1 /\ DOMAIN runStack = 1..Depth /\ f \in Frame
    BY StackFacts DEF FrameSound
  <1>2. PICK d \in Nat : d = Depth /\ d >= 1 /\ d \in 1..d
    BY <1>1
  <1>3. PICK g : /\ g = NewFrame(kind, id) /\ FrameSound(g) /\ Unspent(g) = {} /\ g.kind = kind /\ g.id = id /\ g \in Frame
    BY NewFrameIsSound DEF FrameSound
  <1>4. /\ runStack' \in Seq(Frame) /\ Len(runStack') = d + 1 /\ DOMAIN runStack' = 1..d + 1 /\ runStack'[d] = f
        /\ runStack'[d + 1] = g
        /\ \A i \in 1..d : i # d => runStack'[i] = runStack[i]
    <2>1. PICK s : s = [runStack EXCEPT ![d] = f]
      OBVIOUS
    <2>2. s \in Seq(Frame) /\ Len(s) = d /\ s[d] = f /\ \A i \in 1..d : i # d => s[i] = runStack[i]
      <3>1. d \in 1..Len(runStack) /\ Len(runStack) = d
        BY <1>2 DEF Depth
      <3> QED
        BY <1>1, <2>1, <3>1, PutInSeq
    <2>3. runStack' = Append(s, g)
      BY <1>2, <1>3, <2>1
    <2>4. /\ runStack' \in Seq(Frame) /\ Len(runStack') = d + 1 /\ DOMAIN runStack' = 1..d + 1 /\ runStack'[d + 1] = g
          /\ \A i \in 1..d : runStack'[i] = s[i]
      <3>1. /\ Append(s, g) \in Seq(Frame) /\ Len(Append(s, g)) = Len(s) + 1 /\ DOMAIN Append(s, g) = 1..Len(s) + 1
            /\ Append(s, g)[Len(s) + 1] = g /\ \A i \in 1..Len(s) : Append(s, g)[i] = s[i]
        BY <1>3, <2>2, AddToSeq
      <3>2. PICK u : u = Append(s, g)
        OBVIOUS
      <3>3. /\ u \in Seq(Frame) /\ Len(u) = d + 1 /\ DOMAIN u = 1..d + 1 /\ u[d + 1] = g
            /\ \A i \in 1..d : u[i] = s[i]
        BY <2>2, <3>1, <3>2
      <3> QED
        BY <2>3, <3>2, <3>3
    <2> QED
      BY <1>2, <2>2, <2>4
  <1>5. Depth' = d + 1 /\ Inner' = g /\ runStack' # <<>>
    BY <1>2, <1>4 DEF Depth, Inner
  <1>6. AgentTypeOK' /\ BudgetKept'
    BY <1>4 DEF RunInv, AgentTypeOK, BudgetKept
  <1>7. ASSUME NEW i \in 1..d + 1
        PROVE  FrameSound(runStack'[i]) /\ (i < d + 1 => Unspent(runStack'[i]) = {})
    <2>1. CASE i = d + 1
      BY <1>2, <1>3, <1>4, <2>1
    <2>2. CASE i = d
      BY <1>2, <1>4, <2>2
    <2>3. CASE i # d /\ i # d + 1
      <3>1. i \in 1..d /\ i < d
        BY <2>3
      <3> QED
        BY <1>2, <1>4, <2>3, <3>1 DEF RunInv
    <2> QED
      BY <2>1, <2>2, <2>3
  <1>8. ASSUME NEW i \in 1..d PROVE runStack'[i].kind = runStack[i].kind /\ runStack'[i].id = runStack[i].id
    BY <1>2, <1>4 DEF Inner
  <1>9. /\ d + 1 <= MaxDepth + 1
        /\ \A i \in 2..d : ~(runStack[i].kind = kind /\ runStack[i].id = id)
    <2>1. DOMAIN CallChain = 1..d - 1 /\ \A i \in 1..d - 1 : CallChain[i] = <<runStack[i + 1].kind, runStack[i + 1].id>>
      BY <1>2 DEF CallChain
    <2>2. d - 1 \in Nat
      BY <1>2
    <2>3. Len(CallChain) = d - 1
      BY <1>2, <2>2 DEF CallChain
    <2>4. ASSUME NEW i \in 2..d PROVE ~(runStack[i].kind = kind /\ runStack[i].id = id)
      <3>1. i - 1 \in 1..d - 1 /\ (i - 1) + 1 = i
        OBVIOUS
      <3>2. CallChain[i - 1] = <<runStack[i].kind, runStack[i].id>> /\ i - 1 \in DOMAIN CallChain
        BY <2>1, <3>1
      <3>3. <<kind, id>> # CallChain[i - 1]
        BY <3>2 DEF MayEnter, ToSet
      <3> QED
        BY <3>2, <3>3
    <2>5. (d - 1) + 1 <= MaxDepth
      BY <2>3 DEF MayEnter
    <2> QED
      BY <2>4, <2>5 DEF MaxDepth
  <1>10. NoneTwice'
    <2>1. SUFFICES ASSUME NEW i \in 2..d + 1, NEW j \in 2..d + 1,
                          runStack'[i].kind = runStack'[j].kind, runStack'[i].id = runStack'[j].id
                   PROVE  i = j
      BY <1>5 DEF NoneTwice
    <2>2. CASE i = d + 1 /\ j = d + 1
      BY <2>2
    <2>3. CASE i = d + 1 /\ j # d + 1
      <3>1. j \in 2..d /\ j \in 1..d
        BY <2>3
      <3> QED
        BY <1>3, <1>4, <1>8, <1>9, <2>1, <2>3, <3>1
    <2>4. CASE i # d + 1 /\ j = d + 1
      <3>1. i \in 2..d /\ i \in 1..d
        BY <2>4
      <3> QED
        BY <1>3, <1>4, <1>8, <1>9, <2>1, <2>4, <3>1
    <2>5. CASE i # d + 1 /\ j # d + 1
      <3>1. i \in 2..d /\ i \in 1..d /\ j \in 2..d /\ j \in 1..d
        BY <2>5
      <3> QED
        BY <1>2, <1>8, <2>1, <3>1 DEF RunInv, NoneTwice
    <2> QED
      BY <2>2, <2>3, <2>4, <2>5
  <1>11. Cardinality(Unspent(g)) = 0 /\ ledger.calls \in Nat /\ ledger.calls <= budget.toolCalls
    BY <1>3, FS_EmptySet DEF RunInv, AgentTypeOK, BudgetKept
  <1>12. /\ \A i \in 1..Depth' : FrameSound(runStack[i])' /\ (i < Depth' => Unspent(runStack[i])' = {})
         /\ ledger'.calls + Cardinality(Unspent(Inner))' <= budget'.toolCalls
    <2>1. ledger' = ledger /\ budget' = budget /\ budget.toolCalls \in Nat
      BY DEF RunInv, AgentTypeOK
    <2>2. ledger'.calls + Cardinality(Unspent(g)) <= budget'.toolCalls
      BY <1>11, <2>1
    <2>3. \A i \in 1..Depth' : FrameSound(runStack[i])' /\ (i < Depth' => Unspent(runStack[i])' = {})
      BY <1>5, <1>7 DEF FrameSound, Unspent
    <2>4. Cardinality(Unspent(Inner))' = Cardinality(Unspent(g))
      BY <1>5 DEF Unspent
    <2> QED
      BY <2>2, <2>3, <2>4
  <1> QED
    BY <1>5, <1>6, <1>9, <1>10, <1>12 DEF RunInv, MaxDepth

\* The innermost frame goes, and the one before it goes on.
LEMMA LeaveKeeps ==
    ASSUME RunInv, runStack # <<>>, Return
    PROVE  RunInv'
  <1>1. runStack \in Seq(Frame) /\ Depth \in Nat /\ Depth >= 1 /\ DOMAIN runStack = 1..Depth
    BY StackFacts
  <1>2. PICK d \in Nat : d = Depth /\ d >= 1 /\ d \in 1..d
    BY <1>1
  <1>3. UNCHANGED <<budget, ledger, runCancelled>> /\ BudgetKept'
    BY DEF Return, RunInv, BudgetKept
  <1>4. CASE d = 1
    <2>1. runStack' = <<>> /\ runOutcome' \in {"RETURNED", "THREW"}
      BY <1>2, <1>4 DEF Return
    <2>2. <<>> \in Seq(Frame) /\ Len(<<>>) = 0
      OBVIOUS
    <2>3. Depth' = 0 /\ AgentTypeOK'
      BY <1>3, <2>1, <2>2 DEF Depth, RunInv, AgentTypeOK
    <2> QED
      BY <1>3, <2>1, <2>3 DEF RunInv, NoneTwice, MaxDepth
  <1>5. CASE d # 1
    <2> DEFINE f == Resume(runStack[d - 1], Inner.pc)
    <2>1. PICK e \in Nat : e = d - 1 /\ e >= 1 /\ e \in 1..e /\ e \in 1..d /\ e < d
      BY <1>2, <1>5
    <2>2. runStack' = [i \in 1..e |-> IF i = e THEN f ELSE runStack[i]] /\ runOutcome' = runOutcome
      BY <1>2, <1>5, <2>1 DEF Return
    <2>3. FrameSound(runStack[e]) /\ Unspent(runStack[e]) = {}
      BY <1>2, <2>1 DEF RunInv
    <2>4. FrameSound(f) /\ Unspent(f) = {} /\ f.kind = runStack[e].kind /\ f.id = runStack[e].id
      <3>1. PICK caller \in Frame : caller = runStack[e] /\ FrameSound(caller) /\ Unspent(caller) = {}
        BY <2>3 DEF FrameSound
      <3>2. f = Resume(caller, Inner.pc)
        BY <2>1, <3>1
      <3>3. CASE caller.kind = "agent"
        <4> DEFINE new == [i \in DOMAIN caller.did |->
                             IF caller.did[i] = "sent" THEN (IF Inner.pc = "end" THEN "ok" ELSE "other") ELSE caller.did[i]]
        <4>1. f = [caller EXCEPT !.did = new]
          BY <3>2, <3>3 DEF Resume
        <4>2. new \in Seq(Progress) /\ DOMAIN new = DOMAIN caller.did
              /\ \A i \in DOMAIN caller.did : new[i] = "todo" => caller.did[i] = "todo"
          BY FrameFields DEF Progress
        <4> HIDE DEF f, new
        <4>3. /\ f \in Frame /\ f.did = new /\ f.kind = caller.kind /\ f.id = caller.id /\ f.pc = caller.pc
              /\ f.round = caller.round /\ f.paid = caller.paid /\ f.asksLeft = caller.asksLeft /\ f.at = caller.at
          BY <4>1, <4>2 DEF Frame
        <4>4. FrameSound(f)
          BY <3>1, <4>2, <4>3 DEF FrameSound
        <4>5. Unspent(f) = {}
          BY <3>1, <4>2, <4>3 DEF Unspent
        <4> QED
          BY <3>1, <4>3, <4>4, <4>5
      <3>4. CASE caller.kind # "agent"
        <4>1. f = [caller EXCEPT !.at = caller.at + 1] \/ f = [caller EXCEPT !.pc = "threw"]
          BY <3>2, <3>4 DEF Resume
        <4> HIDE DEF f
        <4>2. CASE f = [caller EXCEPT !.at = caller.at + 1]
          <5>1. /\ f \in Frame /\ f.did = caller.did /\ f.kind = caller.kind /\ f.id = caller.id /\ f.pc = caller.pc
                /\ f.round = caller.round /\ f.paid = caller.paid /\ f.asksLeft = caller.asksLeft /\ f.at >= 1
            <6>1. caller.at \in Nat /\ caller.at >= 1 /\ caller.at + 1 \in Nat /\ caller.at + 1 >= 1
              BY <3>1, FrameFields DEF FrameSound
            <6>2. f.at = caller.at + 1 /\ f \in Frame
              BY <4>2, <6>1 DEF Frame
            <6>3. /\ f.did = caller.did /\ f.kind = caller.kind /\ f.id = caller.id /\ f.pc = caller.pc
                  /\ f.round = caller.round /\ f.paid = caller.paid /\ f.asksLeft = caller.asksLeft
              BY <4>2 DEF Frame
            <6> QED
              BY <6>1, <6>2, <6>3
          <5> QED
            BY <3>1, <5>1 DEF FrameSound, Unspent
        <4>3. CASE f = [caller EXCEPT !.pc = "threw"]
          <5>1. /\ f \in Frame /\ f.did = caller.did /\ f.kind = caller.kind /\ f.id = caller.id /\ f.pc = "threw"
                /\ f.round = caller.round /\ f.paid = caller.paid /\ f.asksLeft = caller.asksLeft /\ f.at = caller.at
            BY <3>1, <4>3 DEF Frame
          <5> QED
            BY <3>1, <5>1 DEF FrameSound, Unspent
        <4> QED
          BY <4>1, <4>2, <4>3
      <3> QED
        BY <3>3, <3>4
    <2> HIDE DEF f
    <2>5. /\ runStack' \in Seq(Frame) /\ Len(runStack') = e /\ DOMAIN runStack' = 1..e /\ runStack'[e] = f
          /\ \A i \in 1..e : i # e => runStack'[i] = runStack[i]
      <3>1. \A i \in 1..e : (IF i = e THEN f ELSE runStack[i]) \in Frame
        <4>1. \A i \in 1..e : i \in 1..d
          BY <2>1
        <4> QED
          BY <1>1, <1>2, <2>4, <4>1 DEF FrameSound
      <3> QED
        BY <2>1, <2>2, <3>1
    <2>6. Depth' = e /\ Inner' = f /\ runStack' # <<>>
      BY <2>1, <2>5 DEF Depth, Inner
    <2>7. AgentTypeOK'
      BY <1>3, <2>2, <2>5 DEF RunInv, AgentTypeOK
    <2>8. ASSUME NEW i \in 1..e
          PROVE  /\ FrameSound(runStack'[i]) /\ Unspent(runStack'[i]) = {}
                 /\ runStack'[i].kind = runStack[i].kind /\ runStack'[i].id = runStack[i].id
      <3>1. i \in 1..d /\ i < d
        BY <2>1
      <3> QED
        BY <1>2, <2>4, <2>5, <3>1 DEF RunInv
    <2>9. NoneTwice'
      <3>1. \A i \in 2..e : i \in 1..e /\ i \in 2..d
        BY <2>1
      <3> QED
        BY <1>2, <2>6, <2>8, <3>1 DEF RunInv, NoneTwice
    <2>10. Cardinality(Unspent(f)) = 0 /\ ledger.calls \in Nat /\ ledger.calls <= budget.toolCalls
      BY <2>4, FS_EmptySet DEF RunInv, AgentTypeOK, BudgetKept
    <2>11. /\ \A i \in 1..Depth' : FrameSound(runStack[i])' /\ (i < Depth' => Unspent(runStack[i])' = {})
           /\ ledger'.calls + Cardinality(Unspent(Inner))' <= budget'.toolCalls
      BY <1>3, <2>6, <2>8, <2>10 DEF FrameSound, Unspent
    <2>12. e <= MaxDepth + 1
      BY <1>2, <2>1 DEF RunInv, MaxDepth
    <2> QED
      BY <1>3, <2>6, <2>7, <2>9, <2>11, <2>12 DEF RunInv, MaxDepth
  <1> QED
    BY <1>4, <1>5

\* consecutiveDenies is a number.
LEMMA DeniesAreCounted ==
    ASSUME NEW denies \in Nat, NEW did \in Seq(Progress)
    PROVE  DeniesAfter(denies, did) \in Nat
  <1> DEFINE n == Len(did)
             G == [p \in Nat \X (1..n) |-> IF did[p[2]] = "denied" THEN p[1] + 1 ELSE IF did[p[2]] = "ok" THEN 0 ELSE p[1]]
             Folds(F) == F = [s \in SUBSET (1..n) |->
                           IF s = {} THEN denies
                           ELSE IF did[Max(s)] = "denied" THEN F[s \ {Max(s)}] + 1
                                ELSE IF did[Max(s)] = "ok" THEN 0 ELSE F[s \ {Max(s)}]]
  <1>1. n \in Nat /\ DOMAIN did = 1..n
    OBVIOUS
  <1>2. \E F : Folds(F)
    <2>1. G \in [Nat \X (1..n) -> Nat]
      OBVIOUS
    <2> HIDE DEF n
    <2>2. PICK F \in [SUBSET (1..n) -> Nat] : FoldsTo(F, n, denies, G)
      <3> HIDE DEF G
      <3> QED
        BY <1>1, <2>1, FoldExists
    <2>3. ASSUME NEW s \in SUBSET (1..n), s # {}
          PROVE  G[<<F[s \ {Max(s)}], Max(s)>>]
                   = IF did[Max(s)] = "denied" THEN F[s \ {Max(s)}] + 1
                     ELSE IF did[Max(s)] = "ok" THEN 0 ELSE F[s \ {Max(s)}]
      <3>1. Max(s) \in s
        BY <1>1, <2>3, MaxOfSome
      <3>2. <<F[s \ {Max(s)}], Max(s)>> \in Nat \X (1..n)
        BY <2>2, <3>1
      <3> QED
        BY <3>2
    <2>4. Folds(F)
      <3> HIDE DEF G
      <3> QED
        BY <2>2, <2>3 DEF FoldsTo
    <2> QED
      BY <2>4
  <1> DEFINE C == CHOOSE F : Folds(F)
  <1>3. Folds(C)
    BY <1>2
  <1>4. DeniesAfter(denies, did) = C[1..n]
    BY <1>1 DEF DeniesAfter, FoldLeft, MapThenFoldSet
  <1> HIDE DEF C
  <1>5. ASSUME NEW s \in SUBSET (1..n)
        PROVE  C[s] = IF s = {} THEN denies
                      ELSE IF did[Max(s)] = "denied" THEN C[s \ {Max(s)}] + 1
                           ELSE IF did[Max(s)] = "ok" THEN 0 ELSE C[s \ {Max(s)}]
    BY <1>3
  <1> HIDE DEF Folds, G
  <1> DEFINE Wrong == {k \in 0..n : C[1..k] \notin Nat}
  <1>6. C[1..0] \in Nat
    <2>1. (1..0) = {} /\ {} \in SUBSET (1..n)
      OBVIOUS
    <2> QED
      BY <1>5, <2>1
  <1>7. ASSUME NEW k \in Nat, k + 1 <= n, C[1..k] \in Nat PROVE C[1..k + 1] \in Nat
    <2>1. 1..k + 1 \in SUBSET (1..n)
      <3> HIDE DEF n
      <3> QED
        BY <1>1, <1>7
    <2>2. 1..k + 1 # {} /\ Max(1..k + 1) = k + 1 /\ (1..k + 1) \ {k + 1} = 1..k
      BY LastPlace
    <2>3. C[1..k + 1] = IF did[k + 1] = "denied" THEN C[1..k] + 1 ELSE IF did[k + 1] = "ok" THEN 0 ELSE C[1..k]
      BY <1>5, <2>1, <2>2
    <2> QED
      BY <1>7, <2>3
  <1> HIDE DEF n
  <1>8. C[1..n] \in Nat
    <2>1. SUFFICES ASSUME C[1..n] \notin Nat PROVE FALSE
      OBVIOUS
    <2>2. Wrong \in SUBSET Nat /\ Wrong # {}
      BY <1>1, <2>1
    <2>3. PICK m \in Wrong : \A k \in Wrong : m <= k
      <3> HIDE DEF Wrong
      <3> QED
        BY <2>2, LeastNumber
    <2>4. m \in 0..n /\ m # 0 /\ C[1..m] \notin Nat
      BY <1>6, <2>3
    <2>5. m - 1 \in Nat /\ m - 1 \notin Wrong /\ (m - 1) + 1 = m /\ m - 1 \in 0..n
      BY <1>1, <2>3, <2>4
    <2> QED
      BY <1>1, <1>7, <2>4, <2>5
  <1> QED
    BY <1>4, <1>8

\* The innermost frame moves on without being paid anything.
LEMMA MovesOn ==
    ASSUME RunInv, runStack # <<>>, NEW f, FrameSound(f), f.kind = Inner.kind, f.id = Inner.id,
           Unspent(f) \subseteq Unspent(Inner), SetInner(f),
           UNCHANGED <<budget, runCancelled, runOutcome>>,
           ledger' \in [calls : Nat, solver : Nat, nested : Nat],
           ledger'.calls = ledger.calls, ledger'.solver = ledger.solver
    PROVE  RunInv'
  <1>1. ledger.calls + Cardinality(Unspent(f)) <= budget.toolCalls
    <2>1. IsFiniteSet(Unspent(Inner)) /\ FrameSound(Inner)
      BY StackFacts, UnspentIsFinite
    <2>2. Cardinality(Unspent(f)) <= Cardinality(Unspent(Inner))
      BY <2>1, FS_Subset
    <2>3. PICK p \in Nat, q \in Nat, c \in Nat, b \in Nat :
              /\ p = Cardinality(Unspent(f)) /\ q = Cardinality(Unspent(Inner)) /\ c = ledger.calls /\ b = budget.toolCalls
              /\ c + q <= b
      BY StackFacts, UnspentIsFinite
    <2> QED
      BY <2>2, <2>3
  <1>2. BudgetKept' /\ budget' \in [iterations : Nat, toolCalls : Nat, solverCalls : Nat, expired : BOOLEAN]
        /\ runCancelled' \in BOOLEAN
    BY DEF RunInv, BudgetKept, AgentTypeOK
  <1>3. ledger'.calls + Cardinality(Unspent(f)) <= budget'.toolCalls
    BY <1>1
  <1> QED
    BY <1>2, <1>3, InnerKeeps

\* So it does when only its point, its flags and its step change.
LEMMA PointMoves ==
    ASSUME RunInv, runStack # <<>>, NEW f \in Frame, f.kind = Inner.kind, f.id = Inner.id, f.at >= 1,
           f.round = Inner.round, f.did = Inner.did, f.paid = Inner.paid,
           f.pc \notin {"end", "threw"} => f.asksLeft = 1, SetInner(f),
           UNCHANGED <<budget, runCancelled, runOutcome>>,
           ledger' \in [calls : Nat, solver : Nat, nested : Nat],
           ledger'.calls = ledger.calls, ledger'.solver = ledger.solver
    PROVE  RunInv'
  <1>1. FrameSound(Inner)
    BY StackFacts
  <1>2. FrameSound(f) /\ Unspent(f) = Unspent(Inner)
    BY <1>1, FrameMoves, FrameFields
  <1> QED
    BY <1>2, MovesOn

LEMMA LoopTopKeeps ==
    ASSUME RunInv, LoopTop
    PROVE  RunInv'
  <1>1. runStack # <<>> /\ Inner.pc = "top" /\ UNCHANGED <<ledger, runCancelled, runOutcome>>
    BY DEF LoopTop, AgentAt
  <1>2. Inner \in Frame /\ FrameSound(Inner) /\ Inner.asksLeft = 1 /\ Inner.at >= 1
    BY <1>1, StackFacts DEF FrameSound
  <1>3. /\ budget \in [iterations : Nat, toolCalls : Nat, solverCalls : Nat, expired : BOOLEAN]
        /\ ledger' \in [calls : Nat, solver : Nat, nested : Nat] /\ runCancelled' \in BOOLEAN
    BY <1>1 DEF RunInv, AgentTypeOK
  <1>4. CASE SetInner([Inner EXCEPT !.pc = "end"]) /\ UNCHANGED budget
    <2> DEFINE f == [Inner EXCEPT !.pc = "end"]
    <2>1. /\ f \in Frame /\ f.kind = Inner.kind /\ f.id = Inner.id /\ f.at >= 1 /\ f.pc = "end"
          /\ f.round = Inner.round /\ f.did = Inner.did /\ f.paid = Inner.paid
      BY <1>2 DEF Frame
    <2>2. SetInner(f)
      BY <1>4
    <2> HIDE DEF f
    <2> QED
      BY <1>1, <1>3, <1>4, <2>1, <2>2, PointMoves
  <1>5. ASSUME budget.iterations < MaxIterations, budget' = [budget EXCEPT !.iterations = @ + 1],
               NEW full \in BOOLEAN, SetInner([Inner EXCEPT !.pc = "ask", !.lastChance = @ \/ full])
        PROVE  RunInv'
    <2> DEFINE f == [Inner EXCEPT !.pc = "ask", !.lastChance = @ \/ full]
    <2>1. /\ f \in Frame /\ f.kind = Inner.kind /\ f.id = Inner.id /\ f.at >= 1 /\ f.pc = "ask"
          /\ f.round = Inner.round /\ f.did = Inner.did /\ f.paid = Inner.paid /\ f.asksLeft = 1
      BY <1>2 DEF Frame
    <2>2. SetInner(f)
      BY <1>5
    <2> HIDE DEF f
    <2>3. FrameSound(f) /\ Unspent(f) = Unspent(Inner)
      BY <1>2, <2>1, FrameMoves
    <2>4. /\ budget' \in [iterations : Nat, toolCalls : Nat, solverCalls : Nat, expired : BOOLEAN]
          /\ budget'.toolCalls = budget.toolCalls /\ budget'.solverCalls = budget.solverCalls
          /\ budget'.iterations = budget.iterations + 1 /\ budget.iterations \in Nat
      BY <1>3, <1>5
    <2>5. BudgetKept'
      <3>1. BudgetKept /\ MaxIterations \in Nat
        BY AgentNumbers DEF RunInv
      <3> QED
        BY <1>1, <1>5, <2>4, <3>1 DEF BudgetKept
    <2>6. ledger'.calls + Cardinality(Unspent(f)) <= budget'.toolCalls
      BY <1>1, <2>3, <2>4, StackFacts
    <2> QED
      BY <1>1, <1>3, <2>1, <2>2, <2>3, <2>4, <2>5, <2>6, InnerKeeps
  <1>6. \/ SetInner([Inner EXCEPT !.pc = "end"]) /\ UNCHANGED budget
        \/ /\ ~(budget.iterations >= MaxIterations) /\ budget' = [budget EXCEPT !.iterations = @ + 1]
           /\ \E full \in BOOLEAN : SetInner([Inner EXCEPT !.pc = "ask", !.lastChance = @ \/ full])
    BY DEF LoopTop
  <1>7. ~(budget.iterations >= MaxIterations) => budget.iterations < MaxIterations
    BY <1>1, StackFacts, AgentNumbers
  <1> QED
    BY <1>4, <1>5, <1>6, <1>7

LEMMA AsksKeep ==
    ASSUME RunInv, AskFails \/ AskAnswered \/ AskInvalid
    PROVE  RunInv'
  <1>1. runStack # <<>> /\ Inner.pc = "ask" /\ UNCHANGED <<budget, ledger, runCancelled, runOutcome>>
    BY DEF AskFails, AskAnswered, AskInvalid, AgentAt
  <1>2. Inner \in Frame /\ FrameSound(Inner) /\ Inner.asksLeft = 1 /\ Inner.at >= 1
    BY <1>1, StackFacts DEF FrameSound
  <1>3. ledger' \in [calls : Nat, solver : Nat, nested : Nat]
    BY <1>1 DEF RunInv, AgentTypeOK
  <1>4. PICK left \in 0..1 : left = (IF Inner.lastChance THEN 0 ELSE Inner.asksLeft)
    BY <1>2
  <1>5. Asked = [Inner EXCEPT !.asksLeft = left]
    BY <1>4 DEF Asked
  <1>6. \/ ~Inner.lastChance /\ SetInner([Inner EXCEPT !.pc = "top", !.lastChance = TRUE])
        \/ ~Inner.lastChance /\ SetInner([Asked EXCEPT !.pc = "top"])
        \/ \E pc \in {"end", "threw"} : SetInner([Asked EXCEPT !.pc = pc])
    BY DEF AskFails, AskAnswered, AskInvalid
  <1>7. CASE ~Inner.lastChance /\ SetInner([Inner EXCEPT !.pc = "top", !.lastChance = TRUE])
    <2> DEFINE f == [Inner EXCEPT !.pc = "top", !.lastChance = TRUE]
    <2>1. /\ f \in Frame /\ f.kind = Inner.kind /\ f.id = Inner.id /\ f.at >= 1 /\ f.asksLeft = 1
          /\ f.round = Inner.round /\ f.did = Inner.did /\ f.paid = Inner.paid
      BY <1>2 DEF Frame
    <2>2. SetInner(f)
      BY <1>7
    <2> HIDE DEF f
    <2> QED
      BY <1>1, <1>3, <2>1, <2>2, PointMoves
  <1>8. ASSUME NEW pc \in {"top", "end", "threw"}, pc = "top" => ~Inner.lastChance, SetInner([Asked EXCEPT !.pc = pc])
        PROVE  RunInv'
    <2> DEFINE f == [Asked EXCEPT !.pc = pc]
    <2>1. /\ f \in Frame /\ f.kind = Inner.kind /\ f.id = Inner.id /\ f.at >= 1 /\ f.asksLeft = left /\ f.pc = pc
          /\ f.round = Inner.round /\ f.did = Inner.did /\ f.paid = Inner.paid
      BY <1>2, <1>5 DEF Frame
    <2>2. SetInner(f) /\ (pc \notin {"end", "threw"} => left = 1)
      BY <1>2, <1>4, <1>8
    <2> HIDE DEF f
    <2> QED
      BY <1>1, <1>3, <2>1, <2>2, PointMoves
  <1> QED
    BY <1>6, <1>7, <1>8

\* What a parallel round is granted in advance leaves room for the last block that is paid.
LEMMA GrantsFit ==
    ASSUME RunInv, runStack # <<>>, NEW r \in Rounds
    PROVE  LET Y == {i \in DOMAIN r : Decisions(r)[i] = "yes"} IN
           /\ IsFiniteSet(Y) /\ Cardinality(Y) \in Nat /\ budget.toolCalls + Cardinality(Y) <= MaxToolCalls
  <1> DEFINE Y == {i \in DOMAIN r : Decisions(r)[i] = "yes"}
  <1>1. PICK n \in Nat : DOMAIN r = 1..n /\ n = Len(r)
    <2>1. r \in Seq(Block)
      BY AgentNumbers
    <2> QED
      BY <2>1
  <1>2. IsFiniteSet(1..n) /\ Y \in SUBSET (1..n)
    BY <1>1, FS_Interval
  <1>3. IsFiniteSet(Y) /\ Cardinality(Y) \in Nat
    BY <1>2, FS_Subset, FS_CardinalityType
  <1>4. PICK tools \in Nat, max \in Nat : tools = budget.toolCalls /\ max = MaxToolCalls /\ tools <= max
    BY StackFacts, AgentNumbers DEF RunInv, BudgetKept
  <1>5. CASE Y = {}
    BY <1>3, <1>4, <1>5, FS_EmptySet
  <1>6. CASE Y # {}
    <2>1. PICK m \in Y : \A i \in Y : i <= m
      <3>1. Max(Y) \in Y /\ \A i \in Y : i <= Max(Y)
        <4> HIDE DEF Y
        <4> QED
          BY <1>2, <1>6, MaxOfSome
      <3> QED
        BY <3>1
    <2> DEFINE Before == {j \in Paying(r) : j < m}
    <2>2. Y \ {m} \subseteq Before /\ Before \subseteq 1..n
      <3>1. ASSUME NEW i \in Y, i # m PROVE i \in Paying(r) /\ i < m
        <4>1. i \in 1..n /\ m \in 1..n /\ i <= m
          BY <1>2, <2>1
        <4>2. i \in Paying(r)
          BY DEF Decisions, Paying
        <4> QED
          BY <3>1, <4>1, <4>2
      <3> QED
        BY <1>1, <3>1 DEF Paying
    <2>3. MayConsume(r[m], tools + Cardinality(Before), budget.solverCalls)
      <3>1. m \in DOMAIN r /\ Decisions(r)[m] = "yes"
        BY <2>1
      <3> QED
        BY <1>4, <3>1 DEF Decisions
    <2>4. tools + Cardinality(Before) < max
      BY <1>4, <2>3 DEF MayConsume
    <2> HIDE DEF Before, Y
    <2>5. IsFiniteSet(Before) /\ Cardinality(Before) \in Nat
      BY <1>2, <2>2, FS_Subset, FS_CardinalityType
    <2>6. Cardinality(Y \ {m}) <= Cardinality(Before)
      BY <2>2, <2>5, FS_Subset
    <2>7. Cardinality(Y \ {m}) = Cardinality(Y) - 1
      BY <1>3, <2>1, FS_RemoveElement
    <2>8. PICK y \in Nat, b \in Nat : y = Cardinality(Y) /\ b = Cardinality(Before) /\ y - 1 <= b /\ tools + b < max
      BY <1>3, <2>4, <2>5, <2>6, <2>7
    <2>9. tools + y <= max
      BY <2>8
    <2> QED
      BY <1>3, <1>4, <2>8, <2>9 DEF Y
  <1> QED
    BY <1>3, <1>5, <1>6

LEMMA AskRoundKeeps ==
    ASSUME RunInv, AskRound
    PROVE  RunInv'
  <1>1. runStack # <<>> /\ Inner.pc = "ask" /\ Inner.kind = "agent" /\ UNCHANGED <<ledger, runCancelled, runOutcome>>
    BY DEF AskRound, AgentAt
  <1>2. Inner \in Frame /\ FrameSound(Inner) /\ Inner.asksLeft = 1 /\ Inner.at >= 1
    BY <1>1, StackFacts DEF FrameSound
  <1>3. /\ ledger' \in [calls : Nat, solver : Nat, nested : Nat] /\ runCancelled' \in BOOLEAN
        /\ budget \in [iterations : Nat, toolCalls : Nat, solverCalls : Nat, expired : BOOLEAN]
    BY <1>1 DEF RunInv, AgentTypeOK
  <1>4. PICK r \in Rounds :
            IF Inner.lastChance
            THEN SetInner([Asked EXCEPT !.pc = "end"]) /\ UNCHANGED budget
            ELSE LET parallel == Len(r) > 1 /\ \A i \in DOMAIN r : IsRead(r[i])
                     paid == IF parallel THEN Decisions(r) ELSE [i \in DOMAIN r |-> "later"]
                 IN /\ SetInner([Inner EXCEPT !.pc = "round", !.round = r,
                                              !.did = [i \in DOMAIN r |-> "todo"], !.paid = paid])
                    /\ Consume(Cardinality({i \in DOMAIN r : paid[i] = "yes"}), 0)
    BY DEF AskRound
  <1>5. CASE Inner.lastChance
    <2>0. PICK none \in 0..1 : none = 0
      OBVIOUS
    <2> DEFINE f == [Inner EXCEPT !.asksLeft = none, !.pc = "end"]
    <2>1. SetInner(f) /\ UNCHANGED budget
      BY <1>4, <1>5, <2>0 DEF Asked
    <2>2. /\ f \in Frame /\ f.kind = Inner.kind /\ f.id = Inner.id /\ f.at >= 1 /\ f.pc = "end"
          /\ f.round = Inner.round /\ f.did = Inner.did /\ f.paid = Inner.paid
      BY <1>2 DEF Frame
    <2> HIDE DEF f
    <2> QED
      BY <1>1, <1>3, <2>1, <2>2, PointMoves
  <1>6. CASE ~Inner.lastChance
    <2> DEFINE parallel == Len(r) > 1 /\ \A i \in DOMAIN r : IsRead(r[i])
               paid == IF parallel THEN Decisions(r) ELSE [i \in DOMAIN r |-> "later"]
               todo == [i \in DOMAIN r |-> "todo"]
               Y == {i \in DOMAIN r : paid[i] = "yes"}
               f == [Inner EXCEPT !.pc = "round", !.round = r, !.did = todo, !.paid = paid]
    <2>1. SetInner(f) /\ budget' = [budget EXCEPT !.toolCalls = @ + Cardinality(Y), !.solverCalls = @ + 0]
      BY <1>4, <1>6 DEF Consume
    <2>2. r \in Seq(Block)
      BY AgentNumbers
    <2>3. todo \in Seq(Progress) /\ DOMAIN todo = DOMAIN r /\ paid \in Seq({"later", "yes", "no"}) /\ DOMAIN paid = DOMAIN r
      <3>1. PICK n \in Nat : DOMAIN r = 1..n
        BY <2>2
      <3>2. \A i \in 1..n : Decisions(r)[i] \in {"later", "yes", "no"}
        BY <3>1 DEF Decisions
      <3>3. DOMAIN Decisions(r) = 1..n /\ Decisions(r) = [i \in 1..n |-> Decisions(r)[i]]
        BY <3>1 DEF Decisions
      <3>4. Decisions(r) \in Seq({"later", "yes", "no"})
        BY <3>2, <3>3
      <3>5. [i \in DOMAIN r |-> "later"] \in Seq({"later", "yes", "no"}) /\ todo \in Seq(Progress)
        BY <3>1 DEF Progress
      <3> QED
        BY <3>1, <3>3, <3>4, <3>5
    <2>4. \A i \in DOMAIN r : paid[i] = "yes" => \A j \in DOMAIN r : IsRead(r[j])
      OBVIOUS
    <2>5. IsFiniteSet(Y) /\ Cardinality(Y) \in Nat /\ budget.toolCalls + Cardinality(Y) <= MaxToolCalls
      <3>1. CASE parallel
        <4>1. Y = {i \in DOMAIN r : Decisions(r)[i] = "yes"}
          BY <3>1
        <4> QED
          BY <1>1, <4>1, GrantsFit
      <3>2. CASE ~parallel
        <4>1. Y = {}
          BY <3>2
        <4>2. PICK tools \in Nat : tools = budget.toolCalls /\ tools <= MaxToolCalls
          BY <1>1, StackFacts DEF RunInv, BudgetKept
        <4> HIDE DEF Y
        <4> QED
          BY <4>1, <4>2, FS_EmptySet
      <3> QED
        BY <3>1, <3>2
    <2>6. Unspent([did |-> todo, paid |-> paid]) = Y
      BY DEF Unspent
    <2> HIDE DEF paid, todo, Y
    <2>7. /\ f \in Frame /\ f.kind = "agent" /\ f.kind = Inner.kind /\ f.id = Inner.id /\ f.at >= 1 /\ f.asksLeft = 1
          /\ f.round = r /\ f.did = todo /\ f.paid = paid
      BY <1>1, <1>2, <2>2, <2>3 DEF Frame
    <2> HIDE DEF f
    <2>8. FrameSound(f)
      BY <2>3, <2>4, <2>7 DEF FrameSound
    <2>9. Unspent(f) = Y
      BY <2>6, <2>7 DEF Unspent
    <2>10. /\ budget' \in [iterations : Nat, toolCalls : Nat, solverCalls : Nat, expired : BOOLEAN]
           /\ budget'.toolCalls = budget.toolCalls + Cardinality(Y) /\ budget'.solverCalls = budget.solverCalls
           /\ budget'.iterations = budget.iterations
      <3>1. PICK tools \in Nat, solvers \in Nat :
                tools = budget.toolCalls + Cardinality(Y) /\ solvers = budget.solverCalls + 0 /\ solvers = budget.solverCalls
        BY <1>3, <2>5
      <3>2. budget' = [budget EXCEPT !.toolCalls = tools, !.solverCalls = solvers]
        BY <2>1, <3>1
      <3> QED
        BY <1>3, <3>1, <3>2
    <2>11. PICK y \in Nat, tools \in Nat, calls \in Nat :
              y = Cardinality(Y) /\ tools = budget.toolCalls /\ calls = ledger.calls /\ calls <= tools
      BY <1>1, <2>5, StackFacts DEF RunInv, BudgetKept
    <2>12. BudgetKept'
      <3>1. BudgetKept
        BY DEF RunInv
      <3>2. calls <= tools + y /\ tools + y <= MaxToolCalls
        BY <2>5, <2>11
      <3> QED
        BY <1>1, <2>10, <2>11, <3>1, <3>2 DEF BudgetKept
    <2>13. ledger'.calls + Cardinality(Unspent(f)) <= budget'.toolCalls
      <3>1. calls + y <= tools + y
        BY <2>11
      <3> QED
        BY <1>1, <2>9, <2>10, <2>11, <3>1
    <2> QED
      BY <1>1, <1>3, <2>1, <2>7, <2>8, <2>10, <2>12, <2>13, InnerKeeps
  <1> QED
    BY <1>5, <1>6

\* A block of the innermost frame has come to something; nothing is sent.
LEMMA SettleKeeps ==
    ASSUME RunInv, runStack # <<>>, NEW i \in DOMAIN Inner.did, NEW how \in Progress \ {"todo"}, Settle(i, how),
           UNCHANGED <<budget, ledger, runCancelled, runOutcome>>
    PROVE  RunInv'
  <1> DEFINE f == [Inner EXCEPT !.did[i] = how]
  <1>1. FrameSound(Inner)
    BY StackFacts
  <1>2. FrameSound(f) /\ f.kind = Inner.kind /\ f.id = Inner.id /\ Unspent(f) = Unspent(Inner) \ {i}
    BY <1>1, BlockSettles
  <1>3. SetInner(f) /\ Unspent(f) \subseteq Unspent(Inner)
    BY <1>2 DEF Settle
  <1>4. /\ ledger' \in [calls : Nat, solver : Nat, nested : Nat] /\ ledger'.calls = ledger.calls
        /\ ledger'.solver = ledger.solver
    BY DEF RunInv, AgentTypeOK
  <1> HIDE DEF f
  <1> QED
    BY <1>2, <1>3, <1>4, MovesOn

LEMMA BlockSentKeeps ==
    ASSUME RunInv, NEW i, BlockSent(i)
    PROVE  RunInv'
  <1>1. /\ runStack # <<>> /\ Inner.pc = "round" /\ i \in DOMAIN Inner.did /\ Inner.did[i] = "todo"
        /\ Inner.round[i] \in Tools /\ UNCHANGED <<runCancelled, runOutcome>>
    BY DEF BlockSent, NextBlock, AgentAt
  <1>2. FrameSound(Inner)
    BY <1>1, StackFacts
  <1> DEFINE f == [Inner EXCEPT !.did[i] = "sent"]
  <1>3. FrameSound(f) /\ f.kind = Inner.kind /\ f.id = Inner.id /\ Unspent(f) = Unspent(Inner) \ {i} /\ SetInner(f)
    <2>1. "sent" \in Progress \ {"todo"}
      BY DEF Progress
    <2> QED
      BY <1>1, <1>2, <2>1, BlockSettles DEF BlockSent, Settle
  <1> HIDE DEF f
  <1> DEFINE price == IF Inner.round[i] = "solver" THEN 1 ELSE 0
  <1>20. /\ \/ Inner.paid[i] = "yes" /\ UNCHANGED budget
            \/ /\ Inner.paid[i] = "later"
               /\ MayConsume(Inner.round[i], budget.toolCalls, budget.solverCalls)
               /\ Consume(1, price)
         /\ ledger' = [ledger EXCEPT !.calls = @ + 1, !.solver = @ + price]
    BY DEF BlockSent
  <1>4. PICK solver \in 0..1 :
            /\ solver = price
            /\ \/ Inner.paid[i] = "yes" /\ UNCHANGED budget
               \/ /\ Inner.paid[i] = "later"
                  /\ MayConsume(Inner.round[i], budget.toolCalls, budget.solverCalls)
                  /\ Consume(1, solver)
            /\ ledger' = [ledger EXCEPT !.calls = @ + 1, !.solver = @ + solver]
    <2>1. price \in 0..1
      OBVIOUS
    <2> HIDE DEF price
    <2> QED
      BY <1>20, <2>1
  <1>5. /\ ledger \in [calls : Nat, solver : Nat, nested : Nat] /\ runCancelled' \in BOOLEAN
        /\ budget \in [iterations : Nat, toolCalls : Nat, solverCalls : Nat, expired : BOOLEAN]
        /\ BudgetKept
    BY <1>1 DEF RunInv, AgentTypeOK
  <1>6. /\ ledger' \in [calls : Nat, solver : Nat, nested : Nat] /\ ledger'.calls = ledger.calls + 1
        /\ ledger'.solver = ledger.solver + solver
    <2>1. PICK calls \in Nat, solvers \in Nat : calls = ledger.calls + 1 /\ solvers = ledger.solver + solver
      BY <1>5
    <2>2. ledger' = [ledger EXCEPT !.calls = calls, !.solver = solvers]
      BY <1>4, <2>1
    <2> QED
      BY <1>5, <2>1, <2>2
  <1>7. PICK u \in Nat, v \in Nat : u = Cardinality(Unspent(Inner)) /\ v = Cardinality(Unspent(f)) /\ v <= u
                                    /\ (i \in Unspent(Inner) => v = u - 1)
    <2>1. IsFiniteSet(Unspent(Inner)) /\ Cardinality(Unspent(Inner)) \in Nat
      BY <1>2, UnspentIsFinite
    <2>2. Cardinality(Unspent(f)) \in Nat
      BY <1>3, UnspentIsFinite
    <2>3. Cardinality(Unspent(Inner) \ {i}) <= Cardinality(Unspent(Inner))
      BY <2>1, FS_Subset
    <2>4. i \in Unspent(Inner) => Cardinality(Unspent(Inner) \ {i}) = Cardinality(Unspent(Inner)) - 1
      BY <2>1, FS_RemoveElement
    <2> QED
      BY <1>3, <2>1, <2>2, <2>3, <2>4
  <1>8. ledger.calls \in Nat /\ budget.toolCalls \in Nat /\ ledger.calls + u <= budget.toolCalls
    BY <1>1, <1>7, StackFacts
  <1>9. CASE Inner.paid[i] = "yes" /\ UNCHANGED budget
    <2>1. i \in Unspent(Inner)
      BY <1>1, <1>9 DEF Unspent
    <2>2. solver = 0
      <3>1. IsRead(Inner.round[i])
        BY <1>1, <1>2, <1>9 DEF FrameSound
      <3> QED
        BY <1>4, <3>1 DEF IsRead
    <2>3. ledger'.calls + v <= budget'.toolCalls /\ ledger'.calls <= budget'.toolCalls
      <3>1. PICK calls \in Nat, tools \in Nat : calls = ledger.calls /\ tools = budget.toolCalls /\ calls + u <= tools
        BY <1>8
      <3>2. u \in Nat /\ v = u - 1 /\ v \in Nat
        BY <1>7, <2>1
      <3>3. (calls + 1) + v <= tools /\ calls + 1 <= tools
        BY <3>1, <3>2
      <3> QED
        BY <1>6, <1>9, <3>1, <3>3
    <2>4. BudgetKept'
      <3>1. ledger'.solver = ledger.solver
        BY <1>5, <1>6, <2>2
      <3> QED
        BY <1>5, <1>9, <2>3, <3>1 DEF BudgetKept
    <2>5. budget' \in [iterations : Nat, toolCalls : Nat, solverCalls : Nat, expired : BOOLEAN]
      BY <1>5, <1>9
    <2> QED
      BY <1>1, <1>3, <1>5, <1>6, <1>7, <2>3, <2>4, <2>5, InnerKeeps
  <1>10. CASE MayConsume(Inner.round[i], budget.toolCalls, budget.solverCalls) /\ Consume(1, solver)
    <2>1. budget.toolCalls < MaxToolCalls /\ (solver = 1 => budget.solverCalls < MaxSolverCalls)
      BY <1>4, <1>10 DEF MayConsume
    <2>2. PICK tools \in Nat, solvers \in Nat : tools = budget.toolCalls + 1 /\ solvers = budget.solverCalls + solver
      BY <1>5
    <2>3. budget' = [budget EXCEPT !.toolCalls = tools, !.solverCalls = solvers]
      BY <1>10, <2>2 DEF Consume
    <2>4. /\ budget' \in [iterations : Nat, toolCalls : Nat, solverCalls : Nat, expired : BOOLEAN]
          /\ budget'.toolCalls = tools /\ budget'.solverCalls = solvers /\ budget'.iterations = budget.iterations
      BY <1>5, <2>2, <2>3
    <2>5. ledger'.calls + v <= budget'.toolCalls /\ ledger'.calls <= budget'.toolCalls /\ budget'.toolCalls <= MaxToolCalls
      <3>1. PICK calls \in Nat, t \in Nat, m \in Nat :
                calls = ledger.calls /\ t = budget.toolCalls /\ m = MaxToolCalls /\ calls + u <= t /\ t < m
        BY <1>8, <2>1, AgentNumbers
      <3>2. (calls + 1) + v <= t + 1 /\ calls + 1 <= t + 1 /\ t + 1 <= m
        BY <1>7, <3>1
      <3> QED
        BY <1>6, <2>2, <2>4, <3>1, <3>2
    <2>6. ledger'.solver <= budget'.solverCalls /\ budget'.solverCalls <= MaxSolverCalls
      <3>1. PICK s \in Nat, b \in Nat, m \in Nat :
                s = ledger.solver /\ b = budget.solverCalls /\ m = MaxSolverCalls /\ s <= b /\ b <= m
        BY <1>5, AgentNumbers DEF BudgetKept
      <3>2. s + solver <= b + solver /\ b + solver <= m
        BY <2>1, <3>1
      <3> QED
        BY <1>6, <2>2, <2>4, <3>1, <3>2
    <2>7. BudgetKept'
      BY <1>5, <2>4, <2>5, <2>6 DEF BudgetKept
    <2> QED
      BY <1>1, <1>3, <1>5, <1>6, <1>7, <2>4, <2>5, <2>7, InnerKeeps
  <1> QED
    BY <1>4, <1>9, <1>10

LEMMA BlocksKeep ==
    ASSUME RunInv, NEW i,
           \/ BlockRefused(i) \/ BlockUnpaid(i) \/ BlockSent(i) \/ BlockAnswered(i) \/ BlockSkill(i) \/ BlockWorkflow(i)
    PROVE  RunInv'
  <1>1. runStack # <<>> /\ i \in DOMAIN Inner.did
    BY DEF BlockRefused, BlockUnpaid, BlockSent, BlockAnswered, BlockSkill, BlockWorkflow, NextBlock, AgentAt
  <1>2. {"sent", "ok", "denied", "other"} \subseteq Progress \ {"todo"}
    BY DEF Progress
  <1>3. CASE BlockSent(i)
    BY <1>3, BlockSentKeeps
  <1>4. CASE BlockRefused(i) \/ BlockUnpaid(i) \/ BlockAnswered(i) \/ BlockSkill(i)
    <2>1. UNCHANGED <<budget, ledger, runCancelled, runOutcome>>
      BY <1>4 DEF BlockRefused, BlockUnpaid, BlockAnswered, BlockSkill
    <2>2. PICK how \in Progress \ {"todo"} : Settle(i, how)
      BY <1>2, <1>4 DEF BlockRefused, BlockUnpaid, BlockAnswered, BlockSkill
    <2> QED
      BY <1>1, <2>1, <2>2, SettleKeeps
  <1>5. CASE BlockWorkflow(i)
    <2>1. Inner.round[i] \in Workflows /\ UNCHANGED <<budget, ledger, runCancelled, runOutcome>>
      BY <1>5 DEF BlockWorkflow
    <2>2. CASE ~MayEnter("workflow", Inner.round[i])
      <3>1. Settle(i, "other")
        BY <1>5, <2>2 DEF BlockWorkflow
      <3> QED
        BY <1>1, <1>2, <2>1, <3>1, SettleKeeps
    <2>3. CASE MayEnter("workflow", Inner.round[i])
      <3> DEFINE f == [Inner EXCEPT !.did[i] = "sent"]
      <3>1. FrameSound(Inner) /\ DOMAIN runStack = 1..Depth /\ Depth \in 1..Depth
        BY <1>1, StackFacts
      <3>2. FrameSound(f) /\ f.kind = Inner.kind /\ f.id = Inner.id /\ Unspent(f) = Unspent(Inner) \ {i}
        BY <1>1, <1>2, <3>1, BlockSettles
      <3>3. Unspent(Inner) = {}
        <4>1. ~IsRead(Inner.round[i]) /\ i \in DOMAIN Inner.round
          BY <1>1, <2>1, <3>1, AgentNumbers DEF FrameSound
        <4>2. \A j \in DOMAIN Inner.paid : Inner.paid[j] # "yes"
          BY <3>1, <4>1 DEF FrameSound
        <4> QED
          BY <3>1, <4>2 DEF Unspent, FrameSound
      <3>4. runStack' = Append([runStack EXCEPT ![Depth] = f], NewFrame("workflow", Inner.round[i]))
        <4>1. [runStack EXCEPT ![Depth].did[i] = "sent"] = [runStack EXCEPT ![Depth] = f]
          BY <3>1 DEF Inner
        <4> QED
          BY <1>5, <2>3, <4>1 DEF BlockWorkflow
      <3> HIDE DEF f
      <3> QED
        BY <1>1, <2>1, <2>3, <3>2, <3>3, <3>4, EnterKeeps
    <2> QED
      BY <2>2, <2>3
  <1> QED
    BY <1>3, <1>4, <1>5

LEMMA RoundEndsKeeps ==
    ASSUME RunInv, RoundEnds
    PROVE  RunInv'
  <1>1. runStack # <<>> /\ Inner.pc = "round" /\ Inner.kind = "agent" /\ UNCHANGED <<budget, ledger, runCancelled, runOutcome>>
    BY DEF RoundEnds, AgentAt
  <1>2. Inner \in Frame /\ FrameSound(Inner) /\ Inner.asksLeft = 1 /\ Inner.at >= 1
    BY <1>1, StackFacts DEF FrameSound
  <1>3. PICK denies \in Nat : denies = DeniesAfter(Inner.denies, Inner.did)
    BY <1>2, FrameFields, DeniesAreCounted
  <1>4. PICK pc \in {"end", "top"}, warned \in BOOLEAN :
            SetInner([Inner EXCEPT !.pc = pc, !.warned = warned, !.denies = denies,
                                   !.round = <<>>, !.did = <<>>, !.paid = <<>>])
    <2> DEFINE many == denies >= DenyLimit
    <2>1. SetInner([Inner EXCEPT !.pc = IF many /\ Inner.warned THEN "end" ELSE "top",
                                 !.warned = @ \/ many, !.denies = denies,
                                 !.round = <<>>, !.did = <<>>, !.paid = <<>>])
      BY <1>3 DEF RoundEnds
    <2>2. (IF many /\ Inner.warned THEN "end" ELSE "top") \in {"end", "top"}
      OBVIOUS
    <2>3. (Inner.warned \/ many) \in BOOLEAN
      OBVIOUS
    <2> HIDE DEF many
    <2> QED
      BY <2>1, <2>2, <2>3
  <1> DEFINE f == [Inner EXCEPT !.pc = pc, !.warned = warned, !.denies = denies,
                                !.round = <<>>, !.did = <<>>, !.paid = <<>>]
  <1>5. <<>> \in Seq(Block) /\ <<>> \in Seq(Progress) /\ <<>> \in Seq({"later", "yes", "no"}) /\ DOMAIN <<>> = {}
    OBVIOUS
  <1>6. /\ f \in Frame /\ f.kind = "agent" /\ f.kind = Inner.kind /\ f.id = Inner.id /\ f.at >= 1 /\ f.asksLeft = 1
        /\ f.round = <<>> /\ f.did = <<>> /\ f.paid = <<>>
    BY <1>1, <1>2, <1>5 DEF Frame
  <1>7. SetInner(f)
    BY <1>4
  <1> HIDE DEF f
  <1>8. FrameSound(f) /\ Unspent(f) = {}
    BY <1>5, <1>6 DEF FrameSound, Unspent
  <1>9. ledger' \in [calls : Nat, solver : Nat, nested : Nat] /\ ledger'.calls = ledger.calls /\ ledger'.solver = ledger.solver
    BY <1>1 DEF RunInv, AgentTypeOK
  <1> QED
    BY <1>1, <1>6, <1>7, <1>8, <1>9, MovesOn

LEMMA StepsKeep ==
    ASSUME RunInv, \/ StepUnresolved \/ StepDenied \/ StepTool \/ StepCompose \/ StepsDone \/ StepAgent
    PROVE  RunInv'
  <1>1. /\ runStack # <<>> /\ Inner.pc = "step" /\ Inner.kind = "workflow"
        /\ UNCHANGED <<budget, runCancelled, runOutcome>>
    BY DEF StepUnresolved, StepDenied, StepTool, StepCompose, StepsDone, StepAgent, StepIs, WorkflowAt
  <1>2. Inner \in Frame /\ FrameSound(Inner) /\ Inner.asksLeft = 1 /\ Inner.at >= 1 /\ Inner.at \in Nat
    BY <1>1, StackFacts, FrameFields DEF FrameSound
  <1>3. ledger \in [calls : Nat, solver : Nat, nested : Nat]
    BY DEF RunInv, AgentTypeOK
  <1>4. ASSUME NEW pc \in {"threw", "end"}, SetInner([Inner EXCEPT !.pc = pc]),
               ledger' \in [calls : Nat, solver : Nat, nested : Nat],
               ledger'.calls = ledger.calls, ledger'.solver = ledger.solver
        PROVE  RunInv'
    <2> DEFINE f == [Inner EXCEPT !.pc = pc]
    <2>1. /\ f \in Frame /\ f.kind = Inner.kind /\ f.id = Inner.id /\ f.at >= 1 /\ f.pc = pc
          /\ f.round = Inner.round /\ f.did = Inner.did /\ f.paid = Inner.paid
      BY <1>2 DEF Frame
    <2>2. SetInner(f)
      BY <1>4
    <2> HIDE DEF f
    <2> QED
      BY <1>1, <1>4, <2>1, <2>2, PointMoves
  <1>5. ASSUME SetInner(NextStep),
               ledger' \in [calls : Nat, solver : Nat, nested : Nat],
               ledger'.calls = ledger.calls, ledger'.solver = ledger.solver
        PROVE  RunInv'
    <2>1. PICK at \in Nat : at = Inner.at + 1 /\ at >= 1
      BY <1>2
    <2> DEFINE f == [Inner EXCEPT !.at = at]
    <2>2. /\ f \in Frame /\ f.kind = Inner.kind /\ f.id = Inner.id /\ f.at >= 1 /\ f.asksLeft = 1
          /\ f.round = Inner.round /\ f.did = Inner.did /\ f.paid = Inner.paid
      BY <1>2, <2>1 DEF Frame
    <2>3. SetInner(f)
      BY <1>5, <2>1 DEF NextStep
    <2> HIDE DEF f
    <2> QED
      BY <1>1, <1>5, <2>2, <2>3, PointMoves
  <1>6. CASE StepUnresolved \/ StepDenied \/ StepCompose \/ StepsDone
    <2>1. UNCHANGED ledger
      BY <1>6 DEF StepUnresolved, StepDenied, StepCompose, StepsDone
    <2>2. SetInner(NextStep) \/ \E pc \in {"threw", "end"} : SetInner([Inner EXCEPT !.pc = pc])
      BY <1>6 DEF StepUnresolved, StepDenied, StepCompose, StepsDone
    <2> QED
      BY <1>3, <1>4, <1>5, <2>1, <2>2
  <1>7. CASE StepTool
    <2>1. SetInner(NextStep) \/ \E pc \in {"threw", "end"} : SetInner([Inner EXCEPT !.pc = pc])
      BY <1>7 DEF StepTool
    <2>2. /\ ledger' \in [calls : Nat, solver : Nat, nested : Nat]
          /\ ledger'.calls = ledger.calls /\ ledger'.solver = ledger.solver
      <3>1. PICK nested \in Nat : nested = (IF Depth > 1 THEN ledger.nested + 1 ELSE ledger.nested)
        BY <1>3
      <3>2. ledger' = [ledger EXCEPT !.nested = nested]
        BY <1>7, <3>1 DEF StepTool
      <3> QED
        BY <1>3, <3>1, <3>2
    <2> QED
      BY <1>4, <1>5, <2>1, <2>2
  <1>8. CASE StepAgent
    <2>1. UNCHANGED ledger
      BY <1>8 DEF StepAgent
    <2>2. CASE SetInner([Inner EXCEPT !.pc = "threw"])
      BY <1>3, <1>4, <2>1, <2>2
    <2>3. CASE /\ MayEnter("agent", StepNow.agent)
               /\ runStack' = Append(runStack, NewFrame("agent", StepNow.agent))
      <3>1. StepNow.agent \in Agents
        <4>1. Inner.id \in Workflows /\ Inner.at \in 1..Len(Steps[Inner.id])
          <5>1. Inner.at <= Len(Steps[Inner.id]) /\ Inner.id \in Workflows
            BY <1>1, <1>2, <1>8 DEF StepAgent, StepIs, FrameSound
          <5>2. Len(Steps[Inner.id]) \in Nat
            BY <5>1, AgentNumbers
          <5> QED
            BY <1>2, <5>1, <5>2
        <4>2. Steps[Inner.id] \in Seq(Step)
          BY <4>1, AgentNumbers
        <4>3. StepNow \in Step
          BY <4>1, <4>2 DEF StepNow
        <4> QED
          BY <4>3 DEF Step
      <3>2. /\ runStack = [runStack EXCEPT ![Depth] = Inner] /\ Unspent(Inner) = {}
        <4>1. Inner.round = <<>> /\ DOMAIN Inner.did = DOMAIN Inner.round
          BY <1>1, <1>2 DEF FrameSound
        <4>2. Unspent(Inner) = {}
          BY <4>1 DEF Unspent
        <4>3. runStack = [runStack EXCEPT ![Depth] = Inner]
          <5>1. runStack \in Seq(Frame)
            BY <1>1, StackFacts
          <5>2. DOMAIN runStack = 1..Len(runStack) /\ runStack = [i \in 1..Len(runStack) |-> runStack[i]]
            BY <5>1
          <5> QED
            BY <5>2 DEF Inner
        <4> QED
          BY <4>2, <4>3
      <3>3. runStack' = Append([runStack EXCEPT ![Depth] = Inner], NewFrame("agent", StepNow.agent))
        BY <2>3, <3>2
      <3>4. PICK agent \in Agents : agent = StepNow.agent
        BY <3>1
      <3> QED
        BY <1>1, <1>2, <2>1, <2>3, <3>2, <3>3, <3>4, EnterKeeps
    <2> QED
      BY <1>8, <2>2, <2>3 DEF StepAgent
  <1> QED
    BY <1>6, <1>7, <1>8

LEMMA RunStartsKeeps ==
    ASSUME RunInv, RunStarts
    PROVE  RunInv'
  <1>1. runStack = <<>> /\ UNCHANGED <<budget, ledger, runCancelled, runOutcome>>
    BY DEF RunStarts
  <1>2. PICK kind \in {"agent", "workflow"}, id \in Agents \cup Workflows :
            /\ kind = "agent" => id \in Agents
            /\ kind = "workflow" => id \in Workflows
            /\ runStack' = <<NewFrame(kind, id)>>
    BY DEF RunStarts
  <1>3. PICK g : /\ g = NewFrame(kind, id) /\ FrameSound(g) /\ Unspent(g) = {} /\ g \in Frame
    BY <1>2, NewFrameIsSound DEF FrameSound
  <1>4. runStack' = <<g>>
    BY <1>2, <1>3
  <1>5. <<g>> \in Seq(Frame) /\ Len(<<g>>) = 1 /\ <<g>>[1] = g /\ <<g>> # <<>>
    BY <1>3
  <1>6. Depth' = 1 /\ Inner' = g /\ runStack'[1] = g /\ runStack' \in Seq(Frame)
    BY <1>4, <1>5 DEF Depth, Inner
  <1>7. AgentTypeOK' /\ BudgetKept'
    BY <1>1, <1>6 DEF RunInv, AgentTypeOK, BudgetKept
  <1>8. Cardinality(Unspent(g)) = 0 /\ ledger.calls \in Nat /\ ledger.calls <= budget.toolCalls
    BY <1>3, FS_EmptySet DEF RunInv, AgentTypeOK, BudgetKept
  <1>9. /\ \A i \in 1..Depth' : FrameSound(runStack[i])' /\ (i < Depth' => Unspent(runStack[i])' = {})
        /\ ledger'.calls + Cardinality(Unspent(Inner))' <= budget'.toolCalls
    <2>1. \A i \in 1..1 : i = 1
      OBVIOUS
    <2>2. \A i \in 1..Depth' : FrameSound(runStack[i])' /\ (i < Depth' => Unspent(runStack[i])' = {})
      BY <1>3, <1>6, <2>1 DEF FrameSound, Unspent
    <2>3. Cardinality(Unspent(Inner))' = 0
      BY <1>6, <1>8 DEF Unspent
    <2>4. ledger'.calls = ledger.calls /\ budget'.toolCalls = budget.toolCalls
      BY <1>1
    <2> QED
      BY <1>8, <2>2, <2>3, <2>4
  <1>10. NoneTwice'
    <2>1. \A i \in 2..1 : FALSE
      OBVIOUS
    <2> QED
      BY <1>6, <2>1 DEF NoneTwice
  <1> QED
    BY <1>6, <1>7, <1>9, <1>10 DEF RunInv, MaxDepth

\* The clock and the user touch neither the frames nor the counters.
LEMMA SurroundingsKeep ==
    ASSUME RunInv, TimeIsUp \/ CancelRun \/ UNCHANGED agentVars
    PROVE  RunInv'
  <1>1. UNCHANGED <<runStack, ledger, runOutcome>>
    BY DEF TimeIsUp, CancelRun, agentVars
  <1>2. budget \in [iterations : Nat, toolCalls : Nat, solverCalls : Nat, expired : BOOLEAN]
    BY DEF RunInv, AgentTypeOK
  <1>3. budget' = budget \/ budget' = [budget EXCEPT !.expired = TRUE]
    BY DEF TimeIsUp, CancelRun, agentVars
  <1>4. /\ budget' \in [iterations : Nat, toolCalls : Nat, solverCalls : Nat, expired : BOOLEAN]
        /\ budget'.iterations = budget.iterations /\ budget'.toolCalls = budget.toolCalls
        /\ budget'.solverCalls = budget.solverCalls
    BY <1>2, <1>3
  <1>5. runCancelled' \in BOOLEAN
    BY DEF TimeIsUp, CancelRun, agentVars, RunInv, AgentTypeOK
  <1>6. AgentTypeOK' /\ BudgetKept'
    BY <1>1, <1>4, <1>5 DEF RunInv, AgentTypeOK, BudgetKept
  <1>7. Depth' = Depth /\ Inner' = Inner /\ NoneTwice' = NoneTwice
    BY <1>1 DEF Depth, Inner, NoneTwice
  <1>8. /\ \A i \in 1..Depth' : FrameSound(runStack[i])' /\ (i < Depth' => Unspent(runStack[i])' = {})
        /\ runStack' # <<>> => ledger'.calls + Cardinality(Unspent(Inner))' <= budget'.toolCalls
    BY <1>1, <1>4, <1>7 DEF RunInv, FrameSound, Unspent
  <1> QED
    BY <1>6, <1>7, <1>8 DEF RunInv, MaxDepth

LEMMA AgentStarts ==
    ASSUME AgentInit
    PROVE  RunInv
  <1>1. runStack = <<>> /\ runStack \in Seq(Frame) /\ Len(runStack) = 0
    BY DEF AgentInit
  <1>2. Depth = 0 /\ \A i \in 1..0 : FALSE
    BY <1>1 DEF Depth
  <1>3. AgentTypeOK
    BY <1>1 DEF AgentInit, AgentTypeOK
  <1>4. BudgetKept
    <2>1. ledger.calls = 0 /\ ledger.solver = 0 /\ budget.toolCalls = 0 /\ budget.solverCalls = 0 /\ budget.iterations = 0
      BY DEF AgentInit
    <2> QED
      BY <2>1, AgentNumbers DEF BudgetKept
  <1> QED
    BY <1>1, <1>2, <1>3, <1>4 DEF RunInv, NoneTwice, MaxDepth

LEMMA AgentKeeps ==
    ASSUME RunInv, [AgentNext]_agentVars
    PROVE  RunInv'
  <1>1. CASE RunStarts
    BY <1>1, RunStartsKeeps
  <1>2. CASE TimeIsUp \/ CancelRun \/ UNCHANGED agentVars
    BY <1>2, SurroundingsKeep
  <1>3. CASE LoopTop
    BY <1>3, LoopTopKeeps
  <1>4. CASE AskFails \/ AskAnswered \/ AskInvalid
    BY <1>4, AsksKeep
  <1>5. CASE AskRound
    BY <1>5, AskRoundKeeps
  <1>6. CASE RoundEnds
    BY <1>6, RoundEndsKeeps
  <1>7. ASSUME NEW i, \/ BlockRefused(i) \/ BlockUnpaid(i) \/ BlockSent(i) \/ BlockAnswered(i)
                      \/ BlockSkill(i) \/ BlockWorkflow(i)
        PROVE  RunInv'
    BY <1>7, BlocksKeep
  <1>8. CASE StepUnresolved \/ StepDenied \/ StepTool \/ StepCompose \/ StepsDone \/ StepAgent
    BY <1>8, StepsKeep
  <1>9. CASE Return
    <2>1. runStack # <<>>
      BY <1>9 DEF Return
    <2> QED
      BY <1>9, <2>1, LeaveKeeps
  <1> QED
    BY <1>1, <1>2, <1>3, <1>4, <1>5, <1>6, <1>7, <1>8, <1>9 DEF AgentNext, AgentProgress

LEMMA RunInvSuffices ==
    ASSUME RunInv
    PROVE  AgentTypeOK /\ BudgetKept /\ NestingSound /\ OneLastChance
  <1>1. AgentTypeOK /\ BudgetKept
    BY DEF RunInv
  <1>2. OneLastChance
    BY DEF RunInv, OneLastChance, FrameSound
  <1>3. PICK d \in Nat : d = Depth /\ d <= MaxDepth + 1
    <2>1. runStack \in Seq(Frame)
      BY <1>1 DEF AgentTypeOK
    <2>2. Depth \in Nat
      BY <2>1 DEF Depth
    <2> QED
      BY <2>2 DEF RunInv
  <1>4. DOMAIN CallChain = 1..d - 1 /\ \A i \in 1..d - 1 : CallChain[i] = <<runStack[i + 1].kind, runStack[i + 1].id>>
    BY <1>3 DEF CallChain
  <1>5. IsInjective(CallChain)
    <2>1. SUFFICES ASSUME NEW i \in 1..d - 1, NEW j \in 1..d - 1, CallChain[i] = CallChain[j]
                   PROVE  i = j
      BY <1>4 DEF IsInjective
    <2>2. i + 1 \in 2..d /\ j + 1 \in 2..d
      OBVIOUS
    <2>3. runStack[i + 1].kind = runStack[j + 1].kind /\ runStack[i + 1].id = runStack[j + 1].id
      BY <1>4, <2>1
    <2>4. i + 1 = j + 1
      BY <1>3, <2>2, <2>3 DEF RunInv, NoneTwice
    <2> QED
      BY <2>4
  <1>6. Len(CallChain) <= MaxDepth
    <2>1. CASE d = 0
      <3>1. 1..d - 1 = {}
        BY <2>1
      <3>2. CallChain = <<>>
        BY <1>3, <3>1 DEF CallChain
      <3> QED
        BY <3>2 DEF MaxDepth
    <2>2. CASE d # 0
      <3>1. d - 1 \in Nat /\ d - 1 <= MaxDepth
        BY <1>3, <2>2 DEF MaxDepth
      <3>2. Len(CallChain) = d - 1
        BY <1>3, <3>1 DEF CallChain
      <3> QED
        BY <3>1, <3>2
    <2> QED
      BY <2>1, <2>2
  <1> QED
    BY <1>1, <1>2, <1>5, <1>6 DEF NestingSound

\* However the agents and the workflows call each other, in whatever rounds, the calls that
\* agents make stay within the one budget of the run, the nested invocations within the
\* nesting limits, and the model has one answer after its last chance (runAgentLoop,
\* BudgetTracker, enterNesting).
THEOREM RunStaysInBounds == AgentSpec => [](AgentTypeOK /\ BudgetKept /\ NestingSound /\ OneLastChance)
  <1>1. AgentInit => RunInv
    BY AgentStarts
  <1>2. RunInv /\ [AgentNext]_agentVars => RunInv'
    BY AgentKeeps
  <1>3. RunInv => AgentTypeOK /\ BudgetKept /\ NestingSound /\ OneLastChance
    BY RunInvSuffices
  <1> QED
    BY <1>1, <1>2, <1>3, PTL DEF AgentSpec

-----------------------------------------------------------------------------
(* What an agent sends: the conversation *)

CallId == Nat \X Nat
ContextMessage == [role : {"user", "assistant"}, text : {"task", "reminder", "denials", "none"},
                   calls : Seq(CallId), answers : Seq(CallId), raw : {"none"} \cup Dialects, folded : BOOLEAN]

\* The turns of a conversation are followed by their answers, and nothing else is answered; the turn
\* that comes last is not answered yet.
TurnFits(s, d, k) ==
    IF s[k].role = "assistant"
    THEN /\ s[k].answers = <<>> /\ s[k].raw = d /\ s[k].calls # <<>> /\ ~s[k].folded /\ s[k].text = "none"
         /\ k < Len(s) => s[k + 1].answers = s[k].calls
    ELSE /\ s[k].calls = <<>> /\ s[k].raw = "none"
         /\ s[k].answers = <<>> => ~s[k].folded
         /\ s[k].answers # <<>> => k > 1 /\ s[k - 1].role = "assistant"

Paired(s, d) ==
    /\ s \in Seq(ContextMessage) /\ Len(s) >= 1 /\ s[1] = UserText("task")
    /\ \A k \in 1..Len(s) : TurnFits(s, d, k)

LEMMA NothingIsSeq ==
    ASSUME NEW S
    PROVE  <<>> \in Seq(S) /\ Len(<<>>) = 0
  OBVIOUS

LEMMA ListIsSeq ==
    ASSUME NEW S, NEW n \in Nat, NEW t \in [1..n -> S]
    PROVE  t \in Seq(S) /\ Len(t) = n /\ DOMAIN t = 1..n
  OBVIOUS

LEMMA TextIsMessage ==
    ASSUME NEW text \in {"task", "reminder", "denials", "none"}
    PROVE  /\ UserText(text) \in ContextMessage /\ UserText(text).role = "user" /\ UserText(text).text = text
           /\ UserText(text).calls = <<>> /\ UserText(text).answers = <<>> /\ UserText(text).raw = "none"
           /\ UserText(text).folded = FALSE
  BY NothingIsSeq DEF UserText, Message, ContextMessage

LEMMA AnswerIsMessage ==
    ASSUME NEW blocks \in Seq(CallId)
    PROVE  /\ Answers(blocks) \in ContextMessage /\ Answers(blocks).role = "user" /\ Answers(blocks).text = "none"
           /\ Answers(blocks).calls = <<>> /\ Answers(blocks).answers = blocks /\ Answers(blocks).raw = "none"
           /\ Answers(blocks).folded = FALSE
  BY NothingIsSeq DEF Answers, Message, ContextMessage

\* One message more: what was said fits still if the new one answers the last.
LEMMA MessageAdded ==
    ASSUME NEW d, NEW s, Paired(s, d), NEW m \in ContextMessage,
           s[Len(s)].role = "assistant" => m.answers = s[Len(s)].calls
    PROVE  /\ Append(s, m) \in Seq(ContextMessage) /\ Len(Append(s, m)) = Len(s) + 1 /\ Len(s) \in Nat
           /\ Append(s, m)[1] = UserText("task") /\ Append(s, m)[Len(s) + 1] = m
           /\ \A k \in 1..Len(s) : Append(s, m)[k] = s[k] /\ TurnFits(Append(s, m), d, k)
  <1>1. PICK n \in Nat : n = Len(s) /\ n >= 1
    BY DEF Paired
  <1>2. PICK t : t = Append(s, m)
    OBVIOUS
  <1>3. t \in Seq(ContextMessage) /\ Len(t) = n + 1 /\ t[n + 1] = m /\ \A k \in 1..n : t[k] = s[k]
    <2>1. s \in Seq(ContextMessage)
      BY DEF Paired
    <2> QED
      BY <1>1, <1>2, <2>1, AddToSeq
  <1>4. t[1] = UserText("task")
    BY <1>1, <1>3 DEF Paired
  <1>5. ASSUME NEW k \in 1..n PROVE TurnFits(t, d, k)
    <2>1. TurnFits(s, d, k) /\ t[k] = s[k]
      BY <1>1, <1>3 DEF Paired
    <2>2. CASE s[k].role = "assistant"
      <3>1. t[k + 1].answers = s[k].calls
        <4>1. CASE k = n
          BY <1>1, <1>3, <2>2, <4>1
        <4>2. CASE k # n
          <5>1. k < n /\ k + 1 \in 1..n
            BY <4>2
          <5> QED
            BY <1>1, <1>3, <2>1, <2>2, <5>1 DEF TurnFits
        <4> QED
          BY <4>1, <4>2
      <3> QED
        BY <2>1, <2>2, <3>1 DEF TurnFits
    <2>3. CASE s[k].role # "assistant"
      <3>1. k > 1 => t[k - 1] = s[k - 1]
        BY <1>3
      <3> QED
        BY <2>1, <2>3, <3>1 DEF TurnFits
    <2> QED
      BY <2>2, <2>3
  <1> QED
    BY <1>1, <1>2, <1>3, <1>4, <1>5

LEMMA TaskIsPaired ==
    ASSUME NEW d
    PROVE  Paired(<<UserText("task")>>, d)
  <1>1. PICK m : m = UserText("task") /\ m \in ContextMessage /\ m.role = "user" /\ m.calls = <<>> /\ m.answers = <<>>
                 /\ m.raw = "none" /\ m.folded = FALSE
    BY TextIsMessage
  <1>2. PICK s : s = <<m>>
    OBVIOUS
  <1>3. s \in Seq(ContextMessage) /\ Len(s) = 1 /\ s[1] = m
    BY <1>1, <1>2
  <1>4. \A k \in 1..Len(s) : k = 1
    BY <1>3
  <1>5. TurnFits(s, d, 1)
    BY <1>1, <1>3 DEF TurnFits
  <1> QED
    BY <1>1, <1>2, <1>3, <1>4, <1>5 DEF Paired

LEMMA NoticeAdded ==
    ASSUME NEW d, NEW s, Paired(s, d), s[Len(s)].role = "user", NEW text \in {"reminder", "denials"}
    PROVE  /\ Paired(Append(s, UserText(text)), d) /\ Append(s, UserText(text))[Len(s) + 1] = UserText(text)
           /\ Len(Append(s, UserText(text))) = Len(s) + 1
           /\ \A k \in 1..Len(s) : Append(s, UserText(text))[k] = s[k]
  <1>1. PICK m : m = UserText(text) /\ m \in ContextMessage /\ m.role = "user" /\ m.calls = <<>> /\ m.answers = <<>>
                 /\ m.raw = "none" /\ m.folded = FALSE
    BY TextIsMessage
  <1>2. PICK n \in Nat, t \in Seq(ContextMessage) : t = Append(s, m) /\ n = Len(s)
    BY <1>1, MessageAdded
  <1>3. /\ t \in Seq(ContextMessage) /\ Len(t) = n + 1 /\ t[1] = UserText("task") /\ t[n + 1] = m
        /\ \A k \in 1..n : t[k] = s[k] /\ TurnFits(t, d, k)
    BY <1>1, <1>2, MessageAdded
  <1>4. TurnFits(t, d, n + 1)
    BY <1>1, <1>3 DEF TurnFits
  <1>5. \A k \in 1..n + 1 : k \in 1..n \/ k = n + 1
    OBVIOUS
  <1>6. n + 1 >= 1
    OBVIOUS
  <1> QED
    BY <1>1, <1>2, <1>3, <1>4, <1>5, <1>6 DEF Paired

LEMMA TurnAdded ==
    ASSUME NEW d \in Dialects, NEW s, Paired(s, d), s[Len(s)].role = "user",
           NEW calls \in Seq(CallId), calls # <<>>,
           NEW m, m = Message("assistant", "none", calls, <<>>, d)
    PROVE  /\ Paired(Append(s, m), d) /\ Append(s, m)[Len(s) + 1] = m
           /\ Len(Append(s, m)) = Len(s) + 1
           /\ \A k \in 1..Len(s) : Append(s, m)[k] = s[k]
  <1>1. m \in ContextMessage /\ m.role = "assistant" /\ m.calls = calls /\ m.answers = <<>>
        /\ m.raw = d /\ m.folded = FALSE /\ m.text = "none"
    BY NothingIsSeq DEF Message, ContextMessage
  <1>2. PICK n \in Nat, t \in Seq(ContextMessage) : t = Append(s, m) /\ n = Len(s)
    BY <1>1, MessageAdded
  <1>3. /\ t \in Seq(ContextMessage) /\ Len(t) = n + 1 /\ t[1] = UserText("task") /\ t[n + 1] = m
        /\ \A k \in 1..n : t[k] = s[k] /\ TurnFits(t, d, k)
    BY <1>1, <1>2, MessageAdded
  <1>4. TurnFits(t, d, n + 1)
    BY <1>1, <1>3 DEF TurnFits
  <1>5. \A k \in 1..n + 1 : k \in 1..n \/ k = n + 1
    OBVIOUS
  <1>6. n + 1 >= 1
    OBVIOUS
  <1> QED
    BY <1>1, <1>2, <1>3, <1>4, <1>5, <1>6 DEF Paired

\* The message that answers the turn that comes last.
AnswersOf(s) == Answers(s[Len(s)].calls)

LEMMA AnswersAdded ==
    ASSUME NEW d, NEW s, Paired(s, d), s[Len(s)].role = "assistant"
    PROVE  /\ Paired(Append(s, AnswersOf(s)), d) /\ Append(s, AnswersOf(s))[Len(s) + 1] = AnswersOf(s)
           /\ Len(Append(s, AnswersOf(s))) = Len(s) + 1
           /\ AnswersOf(s).answers = s[Len(s)].calls /\ AnswersOf(s).answers # <<>> /\ AnswersOf(s).role = "user"
           /\ AnswersOf(s).text = "none" /\ AnswersOf(s).folded = FALSE /\ AnswersOf(s) \in ContextMessage
  <1>0. PICK n \in Nat : n = Len(s) /\ n >= 1 /\ n \in 1..n /\ s \in Seq(ContextMessage)
    BY DEF Paired
  <1>8. PICK m : m = Answers(s[n].calls) /\ m = AnswersOf(s)
    BY <1>0 DEF AnswersOf
  <1>1. s[n] \in ContextMessage /\ TurnFits(s, d, n)
    BY <1>0 DEF Paired
  <1>2. m \in ContextMessage /\ m.role = "user" /\ m.calls = <<>> /\ m.answers = s[n].calls
        /\ m.raw = "none" /\ m.folded = FALSE /\ m.text = "none" /\ m.answers # <<>>
    <2>1. s[n].calls \in Seq(CallId) /\ s[n].calls # <<>>
      BY <1>0, <1>1 DEF ContextMessage, TurnFits
    <2>2. PICK blocks \in Seq(CallId) : blocks = s[n].calls
      BY <2>1
    <2>3. /\ Answers(blocks) \in ContextMessage /\ Answers(blocks).role = "user" /\ Answers(blocks).text = "none"
          /\ Answers(blocks).calls = <<>> /\ Answers(blocks).answers = blocks /\ Answers(blocks).raw = "none"
          /\ Answers(blocks).folded = FALSE
      BY AnswerIsMessage
    <2>4. m = Answers(blocks)
      BY <1>8, <2>2
    <2> QED
      BY <2>1, <2>2, <2>3, <2>4
  <1>3. PICK t : t = Append(s, m)
    OBVIOUS
  <1>4. /\ t \in Seq(ContextMessage) /\ Len(t) = n + 1 /\ t[1] = UserText("task") /\ t[n + 1] = m
        /\ \A k \in 1..n : t[k] = s[k] /\ TurnFits(t, d, k)
    BY <1>0, <1>2, <1>3, MessageAdded
  <1>5. TurnFits(t, d, n + 1)
    <2>1. n + 1 > 1 /\ (n + 1) - 1 = n
      BY <1>0
    <2>2. t[(n + 1) - 1].role = "assistant"
      BY <1>0, <1>4, <2>1
    <2> QED
      BY <1>2, <1>4, <2>1, <2>2 DEF TurnFits
  <1>6. \A k \in 1..n + 1 : k \in 1..n \/ k = n + 1
    OBVIOUS
  <1>7. n + 1 >= 1
    OBVIOUS
  <1> QED
    BY <1>8, <1>0, <1>2, <1>3, <1>4, <1>5, <1>6, <1>7 DEF Paired

MarkFolded(s, Folded) == [k \in DOMAIN s |-> IF k \in Folded THEN [s[k] EXCEPT !.folded = TRUE] ELSE s[k]]

\* Answers are folded, nothing else is.
LEMMA FoldingKeepsPairs ==
    ASSUME NEW d, NEW s, Paired(s, d), NEW Folded,
           \A k \in 1..Len(s) : k \in Folded => s[k].answers # <<>>,
           NEW t, t = MarkFolded(s, Folded)
    PROVE  /\ Paired(t, d) /\ Len(t) = Len(s) /\ DOMAIN t = DOMAIN s
           /\ \A k \in 1..Len(s) : /\ t[k].role = s[k].role /\ t[k].text = s[k].text /\ t[k].calls = s[k].calls
                                   /\ t[k].answers = s[k].answers
                                   /\ t[k].folded = (s[k].folded \/ k \in Folded)
  <1>1. PICK n \in Nat : n = Len(s) /\ n >= 1 /\ n \in 1..n /\ s \in Seq(ContextMessage) /\ DOMAIN s = 1..n /\ 1 \in 1..n
    BY DEF Paired
  <1>2. ASSUME NEW k \in 1..n
        PROVE  /\ t[k] \in ContextMessage /\ t[k].role = s[k].role /\ t[k].text = s[k].text /\ t[k].calls = s[k].calls
               /\ t[k].answers = s[k].answers /\ t[k].raw = s[k].raw
               /\ t[k].folded = (s[k].folded \/ k \in Folded)
    <2>1. s[k] \in ContextMessage
      BY <1>1
    <2>2. t[k] = IF k \in Folded THEN [s[k] EXCEPT !.folded = TRUE] ELSE s[k]
      BY <1>1 DEF MarkFolded
    <2>3. s[k].folded \in BOOLEAN
      BY <2>1 DEF ContextMessage
    <2>4. CASE k \in Folded
      <3>1. t[k] = [s[k] EXCEPT !.folded = TRUE]
        BY <2>2, <2>4
      <3>2. t[k].folded = TRUE /\ t[k].folded \in BOOLEAN
        BY <2>1, <3>1 DEF ContextMessage
      <3>3. /\ t[k].role = s[k].role /\ t[k].text = s[k].text /\ t[k].calls = s[k].calls
            /\ t[k].answers = s[k].answers /\ t[k].raw = s[k].raw
        BY <2>1, <3>1 DEF ContextMessage
      <3>4. t[k] \in ContextMessage
        <4>1. PICK m \in ContextMessage : m = s[k]
          BY <2>1
        <4>2. [m EXCEPT !.folded = TRUE] \in ContextMessage
          BY DEF ContextMessage
        <4> QED
          BY <3>1, <4>1, <4>2
      <3> QED
        BY <2>4, <3>2, <3>3, <3>4
    <2>5. CASE k \notin Folded
      BY <2>1, <2>2, <2>3, <2>5
    <2> QED
      BY <2>4, <2>5
  <1>3. t \in Seq(ContextMessage) /\ Len(t) = n /\ DOMAIN t = 1..n
    <2>1. PICK S : S = ContextMessage
      OBVIOUS
    <2>2. t \in [1..n -> S]
      BY <1>1, <1>2, <2>1 DEF MarkFolded
    <2>3. t \in Seq(S) /\ Len(t) = n
      BY <2>2, ListIsSeq
    <2> QED
      BY <2>1, <2>2, <2>3
  <1>4. t[1] = UserText("task")
    <2>1. s[1] = UserText("task") /\ s[1].answers = <<>>
      BY TextIsMessage DEF Paired
    <2>2. 1 \notin Folded
      BY <1>1, <2>1
    <2> QED
      BY <1>1, <2>1, <2>2 DEF MarkFolded
  <1>5. ASSUME NEW k \in 1..n PROVE TurnFits(t, d, k)
    <2>1. TurnFits(s, d, k)
      BY <1>1 DEF Paired
    <2>2. CASE s[k].role = "assistant"
      <3>1. k \notin Folded /\ t[k] = s[k]
        BY <1>1, <2>1, <2>2 DEF TurnFits, MarkFolded
      <3>2. k < n => k + 1 \in 1..n
        OBVIOUS
      <3>3. k < n => t[k + 1].answers = t[k].calls
        BY <1>1, <1>2, <2>1, <2>2, <3>1, <3>2 DEF TurnFits
      <3> QED
        BY <1>1, <1>3, <2>1, <2>2, <3>1, <3>3 DEF TurnFits
    <2>3. CASE s[k].role # "assistant"
      <3>1. k > 1 => k - 1 \in 1..n
        OBVIOUS
      <3>2. ASSUME t[k].answers = <<>> PROVE ~t[k].folded
        <4>1. s[k].answers = <<>> /\ ~s[k].folded
          BY <1>2, <2>1, <2>3, <3>2 DEF TurnFits
        <4>2. k \notin Folded
          BY <1>1, <4>1
        <4> QED
          BY <1>2, <4>1, <4>2
      <3> QED
        BY <1>1, <1>2, <2>1, <2>3, <3>1, <3>2 DEF TurnFits
    <2> QED
      BY <2>2, <2>3
  <1> QED
    BY <1>1, <1>2, <1>3, <1>4, <1>5 DEF Paired

-----------------------------------------------------------------------------
(* What an agent sends: lists put together *)

\* f[k] is made of the first k parts.
Joins(f, ps, n) == f[0] = <<>> /\ \A k \in 1..n : f[k] = f[k - 1] \o ps[k]

LEMMA Flattens ==
    ASSUME NEW S, NEW n \in Nat, NEW ps \in [1..n -> Seq(S)]
    PROVE  \E f \in [0..n -> Seq(S)] : Joins(f, ps, n) /\ f[n] = FlattenSeq(ps)
  <1> DEFINE W == Seq(S)
             G == [p \in W \X (1..n) |-> p[1] \o ps[p[2]]]
             Flat(f) == f = [i \in 1..n |-> IF i = 1 THEN ps[i] ELSE f[i - 1] \o ps[i]]
  <1>1. PICK F \in [SUBSET (1..n) -> W] : FoldsTo(F, n, <<>>, G)
    <2>1. <<>> \in W
      OBVIOUS
    <2>2. G \in [W \X (1..n) -> W]
      <3>1. ASSUME NEW p \in W \X (1..n) PROVE G[p] \in W
        <4>1. p[1] \in Seq(S) /\ ps[p[2]] \in Seq(S)
          OBVIOUS
        <4>2. p[1] \o ps[p[2]] \in Seq(S)
          BY <4>1
        <4> QED
          BY <4>2
      <3> QED
        BY <3>1
    <2> HIDE DEF W, G
    <2> QED
      BY <2>1, <2>2, FoldExists
  <1> DEFINE f == [k \in 0..n |-> F[1..k]]
  <1>2. f \in [0..n -> W]
    <2>1. \A k \in 0..n : 1..k \in SUBSET (1..n)
      OBVIOUS
    <2> HIDE DEF W
    <2> QED
      BY <1>1, <2>1
  <1>3. f[0] = <<>>
    <2>1. (1..0) = {} /\ {} \in SUBSET (1..n) /\ 0 \in 0..n
      OBVIOUS
    <2>2. F[{}] = <<>>
      BY <1>1, <2>1 DEF FoldsTo
    <2> QED
      BY <2>1, <2>2
  <1>4. ASSUME NEW k \in 1..n PROVE f[k] = f[k - 1] \o ps[k]
    <2>1. k - 1 \in Nat /\ (k - 1) + 1 = k /\ k - 1 \in 0..n /\ k \in 0..n
      OBVIOUS
    <2>2. 1..k # {} /\ Max(1..k) = k /\ (1..k) \ {k} = 1..k - 1
      BY <2>1, LastPlace
    <2>3. 1..k \in SUBSET (1..n)
      OBVIOUS
    <2>4. F[1..k] = G[<<F[1..k - 1], k>>]
      <3> HIDE DEF G
      <3> QED
        BY <1>1, <2>2, <2>3 DEF FoldsTo
    <2>5. <<F[1..k - 1], k>> \in W \X (1..n)
      <3>1. f[k - 1] \in W
        BY <1>2, <2>1
      <3>2. F[1..k - 1] \in W
        BY <2>1, <3>1
      <3> QED
        BY <3>2
    <2>6. G[<<F[1..k - 1], k>>] = F[1..k - 1] \o ps[k]
      BY <2>5
    <2> QED
      BY <2>1, <2>4, <2>6
  <1> HIDE DEF f
  <1>7. 1 \in 1..n => f[1] = <<>> \o ps[1]
    <2>1. 1 - 1 = 0
      OBVIOUS
    <2>2. 1 \in 1..n => f[1] = f[1 - 1] \o ps[1]
      BY <1>4
    <2> QED
      BY <1>3, <2>1, <2>2
  <1>5. CASE n = 0
    <2>1. ps = <<>> /\ Len(ps) = 0
      BY <1>5
    <2>2. FlattenSeq(ps) = <<>>
      BY <2>1 DEF FlattenSeq
    <2> QED
      BY <1>2, <1>3, <1>4, <1>5, <2>2 DEF Joins
  <1>6. CASE n # 0
    <2>1. Len(ps) = n /\ n \in 1..n
      BY <1>6
    <2>2. \E g : Flat(g)
      <3> DEFINE g == [i \in 1..n |-> f[i]]
      <3>1. ASSUME NEW i \in 1..n PROVE g[i] = IF i = 1 THEN ps[i] ELSE g[i - 1] \o ps[i]
        <4>1. CASE i = 1
          <5>1. f[1] = <<>> \o ps[1]
            BY <1>7, <4>1
          <5>2. <<>> \o ps[1] = ps[1]
            <6>1. ps[1] \in Seq(S)
              BY <4>1
            <6> QED
              BY <6>1
          <5> QED
            BY <4>1, <5>1, <5>2
        <4>2. CASE i # 1
          <5>1. i - 1 \in 1..n
            BY <4>2
          <5> QED
            BY <1>4, <4>2, <5>1
        <4> QED
          BY <4>1, <4>2
      <3>2. Flat(g)
        <4>1. g = [i \in 1..n |-> g[i]]
          OBVIOUS
        <4> HIDE DEF g
        <4> QED
          BY <3>1, <4>1
      <3> QED
        BY <3>2
    <2> DEFINE C == CHOOSE g : Flat(g)
    <2>3. Flat(C)
      BY <2>2
    <2>4. FlattenSeq(ps) = C[n]
      BY <1>6, <2>1 DEF FlattenSeq
    <2> HIDE DEF C
    <2>5. \A i \in 1..n : C[i] = IF i = 1 THEN ps[i] ELSE C[i - 1] \o ps[i]
      BY <2>3
    <2> HIDE DEF Flat
    <2> DEFINE Wrong == {i \in 1..n : C[i] # f[i]}
    <2>6. Wrong = {}
      <3>1. SUFFICES ASSUME Wrong # {} PROVE FALSE
        OBVIOUS
      <3>2. PICK m \in Wrong : \A k \in Wrong : m <= k
        <4>1. Wrong \in SUBSET Nat
          OBVIOUS
        <4> HIDE DEF Wrong
        <4> QED
          BY <3>1, <4>1, LeastNumber
      <3>3. m \in 1..n /\ C[m] # f[m]
        OBVIOUS
      <3>4. CASE m = 1
        <4>1. ps[1] \in Seq(S) /\ f[1] = <<>> \o ps[1] /\ C[1] = ps[1]
          BY <1>7, <2>5, <3>3, <3>4
        <4>2. <<>> \o ps[1] = ps[1]
          BY <4>1
        <4> QED
          BY <3>3, <3>4, <4>1, <4>2
      <3>5. CASE m # 1
        <4>1. m - 1 \in 1..n /\ m - 1 \notin Wrong
          BY <3>2, <3>3, <3>5
        <4>2. C[m - 1] = f[m - 1]
          BY <4>1
        <4> QED
          BY <1>4, <2>5, <3>3, <3>5, <4>1, <4>2
      <3> QED
        BY <3>4, <3>5
    <2>7. f[n] = FlattenSeq(ps)
      BY <2>1, <2>4, <2>6
    <2> QED
      BY <1>2, <1>3, <1>4, <2>7 DEF Joins
  <1> QED
    BY <1>5, <1>6

LEMMA UpTo ==
    ASSUME NEW n \in Nat, NEW Good, 0 \in Good, \A k \in 0..n : k \in Good /\ k < n => k + 1 \in Good
    PROVE  \A k \in 0..n : k \in Good
  <1> DEFINE Wrong == (0..n) \ Good
  <1>1. SUFFICES ASSUME Wrong # {} PROVE FALSE
    OBVIOUS
  <1>2. PICK m \in Wrong : \A k \in Wrong : m <= k
    <2>1. Wrong \in SUBSET Nat
      OBVIOUS
    <2> HIDE DEF Wrong
    <2> QED
      BY <1>1, <2>1, LeastNumber
  <1>3. m \in 0..n /\ m # 0 /\ m \notin Good
    OBVIOUS
  <1>4. m - 1 \in 0..n /\ m - 1 \notin Wrong /\ m - 1 < n /\ (m - 1) + 1 = m
    BY <1>2, <1>3
  <1>5. m - 1 \in Good
    BY <1>4
  <1> QED
    BY <1>3, <1>4, <1>5

LEMMA JoinedSeq ==
    ASSUME NEW S, NEW s \in Seq(S), NEW t \in Seq(S)
    PROVE  /\ s \o t \in Seq(S) /\ Len(s \o t) = Len(s) + Len(t) /\ DOMAIN (s \o t) = 1..Len(s) + Len(t)
           /\ \A k \in 1..Len(s) : (s \o t)[k] = s[k]
           /\ \A k \in 1..Len(t) : (s \o t)[Len(s) + k] = t[k]
  OBVIOUS

LEMMA JoinedOne ==
    ASSUME NEW S, NEW s \in Seq(S), NEW x \in S
    PROVE  s \o <<x>> = Append(s, x)
  OBVIOUS

LEMMA SameSeq ==
    ASSUME NEW S, NEW s \in Seq(S), NEW t \in Seq(S), Len(s) = Len(t), \A k \in 1..Len(s) : s[k] = t[k]
    PROVE  s = t
  OBVIOUS

\* Nothing, one list, and a list of single entries.
LEMMA FlattenNone == ASSUME NEW ps \in [1..0 -> {}] PROVE FlattenSeq(ps) = <<>>
  <1>1. ps = <<>> /\ Len(ps) = 0
    OBVIOUS
  <1> QED
    BY <1>1 DEF FlattenSeq

LEMMA FlattenOne ==
    ASSUME NEW S, NEW ps \in [1..1 -> Seq(S)]
    PROVE  FlattenSeq(ps) = ps[1]
  <1>1. PICK f \in [0..1 -> Seq(S)] : Joins(f, ps, 1) /\ f[1] = FlattenSeq(ps)
    <2>1. PICK n \in Nat : n = 1
      OBVIOUS
    <2>2. ps \in [1..n -> Seq(S)]
      BY ONLY <2>1, ps \in [1..1 -> Seq(S)]
    <2>3. \E f \in [0..n -> Seq(S)] : Joins(f, ps, n) /\ f[n] = FlattenSeq(ps)
      BY ONLY <2>2, n \in Nat, Flattens
    <2> QED
      BY ONLY <2>1, <2>3
  <1>2. 1 - 1 = 0 /\ 1 \in 1..1 /\ ps[1] \in Seq(S)
    OBVIOUS
  <1>3. f[1] = <<>> \o ps[1]
    BY <1>1, <1>2 DEF Joins
  <1>4. <<>> \o ps[1] = ps[1]
    BY <1>2
  <1> QED
    BY <1>1, <1>3, <1>4

LEMMA FlattenSingles ==
    ASSUME NEW S, NEW c \in Seq(S), NEW ps, ps = [k \in 1..Len(c) |-> <<c[k]>>]
    PROVE  FlattenSeq(ps) = c
  <1>1. PICK n \in Nat : n = Len(c) /\ \A k \in 1..n : c[k] \in S
    OBVIOUS
  <1>2. ps \in [1..n -> Seq(S)] /\ \A k \in 1..n : ps[k] = <<c[k]>>
    <2>1. ASSUME NEW k \in 1..n PROVE <<c[k]>> \in Seq(S)
      BY <1>1
    <2> QED
      BY <1>1, <2>1
  <1>3. PICK f \in [0..n -> Seq(S)] : Joins(f, ps, n) /\ f[n] = FlattenSeq(ps)
    BY <1>2, Flattens
  <1> DEFINE Good == {k \in 0..n : Len(f[k]) = k /\ \A j \in 1..k : f[k][j] = c[j]}
  <1>4. 0 \in Good
    <2>1. f[0] = <<>> /\ \A j \in 1..0 : FALSE
      BY <1>3 DEF Joins
    <2> QED
      BY <2>1
  <1>5. ASSUME NEW k \in 0..n, k \in Good, k < n PROVE k + 1 \in Good
    <2>1. k + 1 \in 1..n /\ (k + 1) - 1 = k
      BY <1>5
    <2>2. f[k + 1] = f[k] \o <<c[k + 1]>>
      BY <1>2, <1>3, <2>1 DEF Joins
    <2>3. PICK s \in Seq(S) : s = f[k]
      OBVIOUS
    <2>4. Len(s) = k /\ \A j \in 1..k : s[j] = c[j]
      BY <1>5, <2>3
    <2>5. PICK x \in S : x = c[k + 1]
      BY <1>1, <2>1
    <2>6. PICK t : t = s \o <<x>>
      OBVIOUS
    <2>7. Len(t) = k + 1 /\ t[k + 1] = x /\ \A j \in 1..k : t[j] = s[j]
      <3>1. t = Append(s, x)
        BY <2>6, JoinedOne
      <3>2. /\ Len(Append(s, x)) = Len(s) + 1 /\ Append(s, x)[Len(s) + 1] = x
            /\ \A j \in 1..Len(s) : Append(s, x)[j] = s[j]
        BY AddToSeq
      <3>3. Len(s) = k
        BY <2>4
      <3> QED
        BY <3>1, <3>2, <3>3
    <2>8. f[k + 1] = t
      BY <2>2, <2>3, <2>5, <2>6
    <2>9. ASSUME NEW j \in 1..k + 1 PROVE t[j] = c[j]
      <3>1. j \in 1..k \/ j = k + 1
        OBVIOUS
      <3> QED
        BY <2>4, <2>5, <2>7, <3>1
    <2> QED
      BY <2>1, <2>7, <2>8, <2>9
  <1>6. n \in Good
    <2>1. n \in 0..n
      OBVIOUS
    <2> HIDE DEF Good
    <2> QED
      BY <1>4, <1>5, <2>1, UpTo
  <1>7. f[n] \in Seq(S) /\ Len(f[n]) = Len(c) /\ \A j \in 1..Len(c) : f[n][j] = c[j]
    BY <1>1, <1>6
  <1> QED
    BY <1>3, <1>7, SameSeq

-----------------------------------------------------------------------------
(* What an agent sends: the request *)

WireMessage == [role : {"user", "assistant", "tool"}, answers : Seq(CallId), calls : Seq(CallId)]

AnswersEnd(w, k, last) ==
    /\ last \in k..Len(w)
    /\ \A j \in k + 1..last : w[j].answers # <<>>
    /\ last = Len(w) \/ w[last + 1].answers = <<>>

LEMMA AnswersAre ==
    ASSUME NEW w \in Seq(WireMessage), NEW k \in 1..Len(w), NEW last, AnswersEnd(w, k, last)
    PROVE  AnswersTo(w, k) = FlattenSeq([j \in 1..last - k |-> w[k + j].answers])
  <1> DEFINE Ends(n) == /\ \A j \in (k + 1)..n : w[j].answers # <<>>
                        /\ n = Len(w) \/ w[n + 1].answers = <<>>
             c == CHOOSE n \in k..Len(w) : Ends(n)
  <1>1. PICK size \in Nat : size = Len(w) /\ last \in k..size /\ k \in Nat /\ last \in Nat
    BY DEF AnswersEnd
  <1>2. Ends(last)
    BY DEF AnswersEnd
  <1>3. c \in k..size /\ Ends(c)
    BY <1>1, <1>2
  <1>4. c = last
    <2> HIDE DEF c
    <2>1. c \in Nat
      BY <1>1, <1>3
    <2>2. CASE c < last
      <3>1. c + 1 \in (k + 1)..last /\ c # size
        BY <1>1, <1>3, <2>1, <2>2
      <3> QED
        BY <1>1, <1>2, <1>3, <3>1
    <2>3. CASE last < c
      <3>1. last + 1 \in (k + 1)..c /\ last # size
        BY <1>1, <1>3, <2>1, <2>3
      <3> QED
        BY <1>1, <1>2, <1>3, <3>1
    <2> QED
      BY <1>1, <2>1, <2>2, <2>3
  <1>5. AnswersTo(w, k) = FlattenSeq([j \in 1..c - k |-> w[k + j].answers])
    BY DEF AnswersTo
  <1> HIDE DEF c
  <1> QED
    BY <1>4, <1>5

LEMMA AnswersEndSomewhere ==
    ASSUME NEW w \in Seq(WireMessage), NEW k \in 1..Len(w)
    PROVE  \E last \in k..Len(w) : AnswersEnd(w, k, last)
  <1> DEFINE Stops == {n \in k..Len(w) : n = Len(w) \/ w[n + 1].answers = <<>>}
  <1>1. Len(w) \in Stops /\ Stops \in SUBSET Nat
    OBVIOUS
  <1>2. PICK m \in Stops : \A n \in Stops : m <= n
    <2> HIDE DEF Stops
    <2> QED
      BY <1>1, LeastNumber
  <1>3. m \in k..Len(w) /\ (m = Len(w) \/ w[m + 1].answers = <<>>)
    OBVIOUS
  <1>4. ASSUME NEW j \in k + 1..m PROVE w[j].answers # <<>>
    <2>1. j - 1 \in k..Len(w) /\ j - 1 < m /\ (j - 1) + 1 = j /\ j - 1 # Len(w)
      BY <1>3
    <2>2. j - 1 \notin Stops
      <3> HIDE DEF Stops
      <3> QED
        BY <1>1, <1>2, <2>1
    <2> QED
      BY <2>1, <2>2
  <1> QED
    BY <1>3, <1>4 DEF AnswersEnd

\* What follows and answers nothing changes nothing about what was answered before.
LEMMA AnswersStay ==
    ASSUME NEW w \in Seq(WireMessage), NEW v \in Seq(WireMessage), Len(w) < Len(v),
           \A k \in 1..Len(w) : v[k] = w[k], v[Len(w) + 1].answers = <<>>, NEW k \in 1..Len(w)
    PROVE  AnswersTo(v, k) = AnswersTo(w, k)
  <1>1. PICK last \in k..Len(w) : AnswersEnd(w, k, last)
    BY AnswersEndSomewhere
  <1>2. AnswersEnd(v, k, last)
    <2>1. last \in k..Len(v)
      OBVIOUS
    <2>2. \A j \in k + 1..last : j \in 1..Len(w)
      OBVIOUS
    <2>3. last # Len(w) => last + 1 \in 1..Len(w)
      OBVIOUS
    <2> QED
      BY <1>1, <2>1, <2>2, <2>3 DEF AnswersEnd
  <1>3. k \in 1..Len(v)
    OBVIOUS
  <1>4. [j \in 1..last - k |-> v[k + j].answers] = [j \in 1..last - k |-> w[k + j].answers]
    <2>1. \A j \in 1..last - k : k + j \in 1..Len(w)
      OBVIOUS
    <2> QED
      BY <2>1
  <1>5. AnswersTo(v, k) = FlattenSeq([j \in 1..last - k |-> v[k + j].answers])
    BY <1>2, <1>3, AnswersAre
  <1>6. AnswersTo(w, k) = FlattenSeq([j \in 1..last - k |-> w[k + j].answers])
    BY <1>1, AnswersAre
  <1> QED
    BY <1>4, <1>5, <1>6

ClosedWire(w) == w \in Seq(WireMessage) /\ Len(w) >= 1 /\ EveryCallAnswered(w)

\* What answers itself nothing and calls nothing is complete where it stands.
LEMMA NothingToAnswer ==
    ASSUME NEW w \in Seq(WireMessage), NEW k \in 1..Len(w), k < Len(w) => w[k + 1].answers = <<>>
    PROVE  AnswersTo(w, k) = <<>>
  <1>1. AnswersEnd(w, k, k)
    <2>1. k \in k..Len(w) /\ \A j \in k + 1..k : FALSE
      OBVIOUS
    <2> QED
      BY <2>1 DEF AnswersEnd
  <1>2. PICK ps : ps = [j \in 1..k - k |-> w[k + j].answers]
    OBVIOUS
  <1>3. ps \in [1..0 -> {}]
    <2>1. k - k = 0 /\ \A j \in 1..0 : FALSE
      OBVIOUS
    <2> QED
      BY <1>2, <2>1
  <1> QED
    BY <1>1, <1>2, <1>3, AnswersAre, FlattenNone

\* A call and the message behind it.
LEMMA AnsweredAtOnce ==
    ASSUME NEW w \in Seq(WireMessage), NEW k \in 1..Len(w), k < Len(w), w[k + 1].answers # <<>>,
           k + 1 = Len(w) \/ w[k + 2].answers = <<>>
    PROVE  AnswersTo(w, k) = w[k + 1].answers
  <1>1. AnswersEnd(w, k, k + 1)
    <2>1. k + 1 \in k..Len(w) /\ (k + 1) + 1 = k + 2 /\ \A j \in k + 1..k + 1 : j = k + 1
      OBVIOUS
    <2> QED
      BY <2>1 DEF AnswersEnd
  <1>2. PICK ps : ps = [j \in 1..(k + 1) - k |-> w[k + j].answers]
    OBVIOUS
  <1>3. ps \in [1..1 -> Seq(CallId)] /\ ps[1] = w[k + 1].answers
    <2>1. (k + 1) - k = 1 /\ k + 1 \in 1..Len(w) /\ 1 \in 1..1
      OBVIOUS
    <2>2. w[k + 1] \in WireMessage
      BY <2>1
    <2>3. w[k + 1].answers \in Seq(CallId)
      BY <2>2 DEF WireMessage
    <2>4. \A j \in 1..1 : j = 1
      OBVIOUS
    <2> QED
      BY <1>2, <2>1, <2>3, <2>4
  <1>4. AnswersTo(w, k) = FlattenSeq(ps)
    BY <1>1, <1>2, AnswersAre
  <1> QED
    BY <1>3, <1>4, FlattenOne

LEMMA AnthropicIsClosed ==
    ASSUME NEW s, Paired(s, "anthropic"), s[Len(s)].role = "user"
    PROVE  EveryCallAnswered([k \in DOMAIN s |-> AnthropicMessage(s[k])])
  <1>1. PICK n \in Nat : n = Len(s) /\ n >= 1 /\ n \in 1..n /\ s \in Seq(ContextMessage) /\ DOMAIN s = 1..n /\ 1 \in 1..n
    BY DEF Paired
  <1>2. PICK w : w = [k \in DOMAIN s |-> AnthropicMessage(s[k])]
    OBVIOUS
  <1>3. ASSUME NEW k \in 1..n
        PROVE  /\ s[k] \in ContextMessage /\ TurnFits(s, "anthropic", k)
               /\ w[k].role = s[k].role /\ w[k].answers = s[k].answers /\ w[k].calls = s[k].calls
               /\ w[k] \in WireMessage
    <2>1. s[k] \in ContextMessage /\ TurnFits(s, "anthropic", k)
      BY <1>1 DEF Paired
    <2>2. s[k].raw # "openai"
      BY <2>1 DEF TurnFits
    <2>3. w[k] = [role |-> s[k].role, answers |-> s[k].answers, calls |-> s[k].calls]
      BY <1>1, <1>2, <2>2 DEF AnthropicMessage
    <2> QED
      BY <2>1, <2>3 DEF ContextMessage, WireMessage
  <1>4. w \in Seq(WireMessage) /\ Len(w) = n /\ DOMAIN w = 1..n
    <2>1. w \in [1..n -> WireMessage]
      BY <1>1, <1>2, <1>3
    <2> QED
      BY <2>1, ListIsSeq
  <1>5. w[1].answers = <<>>
    BY <1>1, <1>3, TextIsMessage DEF Paired
  <1>6. ASSUME NEW k \in 1..n, w[k].role = "assistant" PROVE k < n /\ AnswersTo(w, k) = w[k].calls
    <2>1. k < n
      BY <1>1, <1>3, <1>6
    <2>2. k + 1 \in 1..n /\ (k + 1) - 1 = k
      BY <2>1
    <2>3. s[k + 1].answers = s[k].calls /\ s[k].calls # <<>>
      BY <1>1, <1>3, <1>6, <2>1 DEF TurnFits
    <2>4. k + 1 = n \/ w[k + 2].answers = <<>>
      <3>1. SUFFICES ASSUME k + 1 # n PROVE w[k + 2].answers = <<>>
        OBVIOUS
      <3>2. k + 2 \in 1..n /\ (k + 2) - 1 = k + 1 /\ k + 2 > 1
        BY <2>2, <3>1
      <3>3. s[k + 1].role # "assistant"
        BY <1>3, <2>2, <2>3 DEF TurnFits
      <3>4. TurnFits(s, "anthropic", k + 2) /\ w[k + 2].answers = s[k + 2].answers
        BY <1>3, <3>2
      <3> QED
        BY <3>2, <3>3, <3>4 DEF TurnFits
    <2>5. w[k + 1].answers = s[k].calls /\ w[k].calls = s[k].calls
      BY <1>3, <2>2, <2>3
    <2>6. AnswersTo(w, k) = w[k + 1].answers
      BY <1>4, <2>1, <2>3, <2>4, <2>5, AnsweredAtOnce
    <2> QED
      BY <2>1, <2>5, <2>6
  <1>7. ASSUME NEW k \in 1..n, w[k].role # "assistant", w[k].answers = <<>> PROVE AnswersTo(w, k) = w[k].calls
    <2>1. w[k].calls = <<>>
      BY <1>3, <1>7 DEF TurnFits
    <2>2. k < n => w[k + 1].answers = <<>>
      <3>1. SUFFICES ASSUME k < n PROVE w[k + 1].answers = <<>>
        OBVIOUS
      <3>2. k + 1 \in 1..n /\ (k + 1) - 1 = k
        BY <3>1
      <3>3. TurnFits(s, "anthropic", k + 1) /\ w[k + 1].answers = s[k + 1].answers /\ s[k].role # "assistant"
        BY <1>3, <1>7, <3>2
      <3> QED
        BY <3>2, <3>3 DEF TurnFits
    <2> QED
      BY <1>4, <2>1, <2>2, NothingToAnswer
  <1> QED
    BY <1>2, <1>4, <1>5, <1>6, <1>7 DEF EveryCallAnswered

\* A text more.
LEMMA NoticeCloses ==
    ASSUME NEW w, ClosedWire(w), NEW x \in WireMessage, x.role = "user", x.answers = <<>>, x.calls = <<>>
    PROVE  ClosedWire(Append(w, x))
  <1>1. PICK n \in Nat : n = Len(w) /\ n >= 1 /\ 1 \in 1..n /\ w \in Seq(WireMessage) /\ DOMAIN w = 1..n
    BY DEF ClosedWire
  <1>2. PICK v : v = Append(w, x)
    OBVIOUS
  <1>3. /\ v \in Seq(WireMessage) /\ Len(v) = n + 1 /\ DOMAIN v = 1..n + 1 /\ v[n + 1] = x
        /\ \A k \in 1..n : v[k] = w[k]
    BY <1>1, <1>2, AddToSeq
  <1>4. ASSUME NEW k \in 1..n
        PROVE  /\ v[k].role = "assistant" => k < n + 1
               /\ v[k].answers = <<>> => AnswersTo(v, k) = v[k].calls
    <2>1. AnswersTo(v, k) = AnswersTo(w, k)
      <3>1. Len(w) < Len(v)
        BY <1>1, <1>3
      <3> QED
        BY <1>1, <1>3, <3>1, AnswersStay
    <2>2. k < n + 1
      OBVIOUS
    <2>3. w[k].answers = <<>> => AnswersTo(w, k) = w[k].calls
      BY <1>1 DEF ClosedWire, EveryCallAnswered
    <2> QED
      BY <1>3, <2>1, <2>2, <2>3
  <1>5. AnswersTo(v, n + 1) = <<>>
    <2>1. n + 1 \in 1..Len(v) /\ ~(n + 1 < Len(v))
      BY <1>3
    <2> QED
      BY <1>3, <2>1, NothingToAnswer
  <1>6. \A k \in 1..n + 1 : k \in 1..n \/ k = n + 1
    OBVIOUS
  <1>7. v[1].answers = <<>> /\ n + 1 >= 1
    BY <1>1, <1>3 DEF ClosedWire, EveryCallAnswered
  <1> QED
    BY <1>2, <1>3, <1>4, <1>5, <1>6, <1>7 DEF ClosedWire, EveryCallAnswered

\* Calls and an answer to each, in their order.
LEMMA RoundCloses ==
    ASSUME NEW w, ClosedWire(w), NEW c \in Seq(CallId), c # <<>>,
           NEW a \in WireMessage, a.role = "assistant", a.answers = <<>>, a.calls = c,
           NEW t, t = [k \in DOMAIN c |-> [role |-> "tool", answers |-> <<c[k]>>, calls |-> <<>>]]
    PROVE  ClosedWire((w \o <<a>>) \o t)
  <1>1. PICK n \in Nat : n = Len(w) /\ n >= 1 /\ 1 \in 1..n /\ w \in Seq(WireMessage) /\ DOMAIN w = 1..n
    BY DEF ClosedWire
  <1>2. PICK m \in Nat : m = Len(c) /\ m >= 1 /\ DOMAIN c = 1..m /\ \A k \in 1..m : c[k] \in CallId
    OBVIOUS
  <1>3. t \in Seq(WireMessage) /\ Len(t) = m
    <2>1. ASSUME NEW k \in 1..m PROVE [role |-> "tool", answers |-> <<c[k]>>, calls |-> <<>>] \in WireMessage
      <3>1. c[k] \in CallId
        BY <1>2
      <3>2. <<c[k]>> \in Seq(CallId) /\ <<>> \in Seq(CallId)
        BY <3>1
      <3> QED
        BY <3>2 DEF WireMessage
    <2>2. t \in [1..m -> WireMessage]
      BY <1>2, <2>1
    <2> QED
      BY <2>2, ListIsSeq
  <1>4. PICK u : u = w \o <<a>>
    OBVIOUS
  <1>5. /\ u \in Seq(WireMessage) /\ Len(u) = n + 1 /\ u[n + 1] = a /\ \A k \in 1..n : u[k] = w[k]
    <2>1. u = Append(w, a)
      BY <1>1, <1>4, JoinedOne
    <2>2. /\ Append(w, a) \in Seq(WireMessage) /\ Len(Append(w, a)) = Len(w) + 1 /\ Append(w, a)[Len(w) + 1] = a
          /\ \A k \in 1..Len(w) : Append(w, a)[k] = w[k]
      BY <1>1, AddToSeq
    <2> QED
      BY <1>1, <2>1, <2>2
  <1>6. PICK v : v = u \o t
    OBVIOUS
  <1>7. /\ v \in Seq(WireMessage) /\ Len(v) = (n + 1) + m /\ DOMAIN v = 1..(n + 1) + m
        /\ \A k \in 1..n + 1 : v[k] = u[k]
        /\ \A k \in 1..m : v[(n + 1) + k] = t[k]
    <2>0. u \in Seq(WireMessage) /\ t \in Seq(WireMessage)
      BY <1>3, <1>5
    <2>1. /\ u \o t \in Seq(WireMessage) /\ Len(u \o t) = Len(u) + Len(t) /\ DOMAIN (u \o t) = 1..Len(u) + Len(t)
          /\ \A k \in 1..Len(u) : (u \o t)[k] = u[k]
          /\ \A k \in 1..Len(t) : (u \o t)[Len(u) + k] = t[k]
      BY <2>0, JoinedSeq
    <2>2. /\ v \in Seq(WireMessage) /\ Len(v) = Len(u) + Len(t) /\ DOMAIN v = 1..Len(u) + Len(t)
          /\ \A k \in 1..Len(u) : v[k] = u[k]
          /\ \A k \in 1..Len(t) : v[Len(u) + k] = t[k]
      BY ONLY <1>6, <2>1
    <2>3. Len(u) = n + 1 /\ Len(t) = m
      BY <1>3, <1>5
    <2> QED
      BY ONLY <2>2, <2>3
  <1>8. v[n + 1] = a /\ \A k \in 1..n : v[k] = w[k]
    <2>1. n + 1 \in 1..n + 1 /\ \A k \in 1..n : k \in 1..n + 1
      OBVIOUS
    <2> QED
      BY <1>5, <1>7, <2>1
  <1>9. ASSUME NEW k \in 1..m PROVE /\ v[(n + 1) + k].role = "tool" /\ v[(n + 1) + k].answers = <<c[k]>>
                                    /\ v[(n + 1) + k].answers # <<>>
    <2>1. v[(n + 1) + k] = [role |-> "tool", answers |-> <<c[k]>>, calls |-> <<>>]
      BY <1>2, <1>7
    <2>2. <<c[k]>> # <<>>
      OBVIOUS
    <2> QED
      BY <2>1, <2>2
  <1>10. ASSUME NEW k \in 1..n
         PROVE  /\ k < (n + 1) + m
                /\ v[k].answers = <<>> => AnswersTo(v, k) = v[k].calls
    <2>1. AnswersTo(v, k) = AnswersTo(w, k)
      <3>1. Len(w) < Len(v)
        BY <1>1, <1>2, <1>7
      <3> QED
        BY <1>1, <1>7, <1>8, <3>1, AnswersStay
    <2>2. k < (n + 1) + m
      BY <1>2
    <2>3. w[k].answers = <<>> => AnswersTo(w, k) = w[k].calls
      BY <1>1 DEF ClosedWire, EveryCallAnswered
    <2> QED
      BY <1>8, <2>1, <2>2, <2>3
  <1>11. AnswersTo(v, n + 1) = c
    <2>1. AnswersEnd(v, n + 1, (n + 1) + m)
      <3>1. (n + 1) + m \in n + 1..Len(v) /\ (n + 1) + m = Len(v)
        BY <1>2, <1>7
      <3>2. ASSUME NEW j \in (n + 1) + 1..(n + 1) + m PROVE v[j].answers # <<>>
        <4>1. j - (n + 1) \in 1..m /\ (n + 1) + (j - (n + 1)) = j
          OBVIOUS
        <4> QED
          BY <1>9, <4>1
      <3> QED
        BY <3>1, <3>2 DEF AnswersEnd
    <2>2. ((n + 1) + m) - (n + 1) = m /\ n + 1 \in 1..Len(v)
      BY <1>7
    <2>3. PICK ps : ps = [j \in 1..((n + 1) + m) - (n + 1) |-> v[(n + 1) + j].answers]
      OBVIOUS
    <2>4. ps = [j \in 1..Len(c) |-> <<c[j]>>]
      BY <1>2, <1>9, <2>2, <2>3
    <2>5. FlattenSeq(ps) = c
      BY <2>4, FlattenSingles
    <2>6. AnswersTo(v, n + 1) = FlattenSeq([j \in 1..((n + 1) + m) - (n + 1) |-> v[(n + 1) + j].answers])
      BY <1>7, <2>1, <2>2, AnswersAre
    <2> QED
      BY <2>3, <2>5, <2>6
  <1>12. ASSUME NEW k \in 1..(n + 1) + m
         PROVE  /\ v[k].role = "assistant" => k < (n + 1) + m
                /\ v[k].answers = <<>> => AnswersTo(v, k) = v[k].calls
    <2>1. CASE k \in 1..n
      BY <1>10, <2>1
    <2>2. CASE k = n + 1
      <3>1. n + 1 < (n + 1) + m
        BY <1>2
      <3> QED
        BY <1>8, <1>11, <2>2, <3>1
    <2>3. CASE k > n + 1
      <3>1. k - (n + 1) \in 1..m /\ (n + 1) + (k - (n + 1)) = k
        BY <2>3
      <3> QED
        BY <1>9, <3>1
    <2> QED
      BY <2>1, <2>2, <2>3
  <1>13. v[1].answers = <<>> /\ (n + 1) + m >= 1
    BY <1>1, <1>2, <1>8 DEF ClosedWire, EveryCallAnswered
  <1> QED
    BY <1>4, <1>6, <1>7, <1>12, <1>13 DEF ClosedWire, EveryCallAnswered

LEMMA OpenAiIsClosed ==
    ASSUME NEW d, NEW s, Paired(s, d), s[Len(s)].role = "user"
    PROVE  EveryCallAnswered(FlattenSeq([k \in DOMAIN s |-> OpenAiMessages(s[k])]))
  <1>1. PICK n \in Nat : n = Len(s) /\ n >= 1 /\ n \in 1..n /\ s \in Seq(ContextMessage) /\ DOMAIN s = 1..n /\ 1 \in 1..n
    BY DEF Paired
  <1>2. PICK ps : ps = [k \in DOMAIN s |-> OpenAiMessages(s[k])]
    OBVIOUS
  <1> DEFINE Plain(m) == [role |-> m.role, answers |-> <<>>, calls |-> m.calls]
             Answering(c) == [k \in DOMAIN c |-> [role |-> "tool", answers |-> <<c[k]>>, calls |-> <<>>]]
  <1>3. ASSUME NEW k \in 1..n
        PROVE  /\ s[k] \in ContextMessage /\ TurnFits(s, d, k) /\ ps[k] \in Seq(WireMessage)
               /\ s[k].answers = <<>> => ps[k] = <<Plain(s[k])>> /\ Plain(s[k]) \in WireMessage
               /\ s[k].answers # <<>> => ps[k] = Answering(s[k].answers)
               /\ s[k].role # "assistant" => s[k].role = "user"
    <2>1. s[k] \in ContextMessage /\ TurnFits(s, d, k)
      BY <1>1 DEF Paired
    <2>2. s[k].answers \in Seq(CallId) /\ s[k].calls \in Seq(CallId) /\ s[k].role \in {"user", "assistant"}
      BY <2>1 DEF ContextMessage
    <2>3. ps[k] = IF s[k].answers = <<>> THEN <<Plain(s[k])>> ELSE Answering(s[k].answers)
      BY <1>1, <1>2 DEF OpenAiMessages
    <2>4. Plain(s[k]) \in WireMessage
      BY <2>2, NothingIsSeq DEF WireMessage
    <2>5. CASE s[k].answers = <<>>
      <3>1. PICK x \in WireMessage : x = Plain(s[k])
        BY <2>4
      <3>2. <<x>> \in Seq(WireMessage)
        OBVIOUS
      <3> QED
        BY <2>1, <2>2, <2>3, <2>4, <2>5, <3>1, <3>2
    <2>6. CASE s[k].answers # <<>>
      <3>1. PICK c \in Seq(CallId), m \in Nat : c = s[k].answers /\ m = Len(c) /\ DOMAIN c = 1..m /\ \A j \in 1..m : c[j] \in CallId
        BY <2>2
      <3>2. ASSUME NEW j \in 1..m PROVE [role |-> "tool", answers |-> <<c[j]>>, calls |-> <<>>] \in WireMessage
        <4>1. c[j] \in CallId
          BY <3>1
        <4>2. <<c[j]>> \in Seq(CallId) /\ <<>> \in Seq(CallId)
          BY <4>1
        <4> QED
          BY <4>2 DEF WireMessage
      <3>3. Answering(c) \in [1..m -> WireMessage]
        BY <3>1, <3>2
      <3>4. Answering(c) \in Seq(WireMessage)
        BY <3>3, ListIsSeq
      <3> QED
        BY <2>1, <2>2, <2>3, <2>6, <3>1, <3>4
    <2> QED
      BY <2>5, <2>6
  <1>4. ps \in [1..n -> Seq(WireMessage)]
    BY <1>1, <1>2, <1>3
  <1>5. PICK f \in [0..n -> Seq(WireMessage)] : Joins(f, ps, n) /\ f[n] = FlattenSeq(ps)
    BY <1>4, Flattens
  <1> HIDE DEF Plain, Answering
  <1> DEFINE Right(k) == IF s[k].role = "assistant"
                         THEN k > 1 /\ ClosedWire(f[k - 1]) /\ f[k] = f[k - 1] \o <<Plain(s[k])>>
                         ELSE ClosedWire(f[k])
             Good == {k \in 0..n : k > 0 => Right(k)}
  <1>6. ASSUME NEW k \in 0..n, k \in Good, k < n PROVE k + 1 \in Good
    <2>1. k + 1 \in 1..n /\ (k + 1) - 1 = k /\ k + 1 \in 0..n
      BY <1>6
    <2>2. f[k + 1] = f[k] \o ps[k + 1] /\ f[k] \in Seq(WireMessage)
      BY <1>5, <2>1 DEF Joins
    <2>3. CASE k = 0
      <3>1. /\ s[1] = UserText("task") /\ s[1].answers = <<>> /\ s[1].role = "user" /\ s[1].calls = <<>>
        BY TextIsMessage DEF Paired
      <3>2. PICK x \in WireMessage : x = Plain(s[1]) /\ x.role = "user" /\ x.answers = <<>> /\ x.calls = <<>>
        BY <1>1, <1>3, <3>1 DEF Plain
      <3>3. f[1] = <<x>>
        <4>1. f[0] = <<>> /\ ps[1] = <<x>>
          BY <1>1, <1>3, <1>5, <3>1, <3>2 DEF Joins
        <4>2. f[1] = <<>> \o <<x>>
          BY <2>2, <2>3, <4>1
        <4>3. <<>> \o <<x>> = <<x>>
          OBVIOUS
        <4> QED
          BY <4>2, <4>3
      <3>4. PICK w : w = <<x>>
        OBVIOUS
      <3>5. w \in Seq(WireMessage) /\ Len(w) = 1 /\ w[1] = x /\ DOMAIN w = 1..1 /\ 1 \in 1..Len(w)
        BY <3>4
      <3>6. AnswersTo(w, 1) = <<>>
        <4>1. w \in Seq(WireMessage) /\ 1 \in 1..Len(w) /\ ~(1 < Len(w))
          BY <3>5
        <4> QED
          BY <4>1, NothingToAnswer
      <3>7. \A j \in 1..1 : j = 1
        OBVIOUS
      <3>8. ClosedWire(w)
        BY <3>2, <3>5, <3>6, <3>7 DEF ClosedWire, EveryCallAnswered
      <3>9. Right(1)
        BY <3>1, <3>3, <3>4, <3>8
      <3> QED
        BY <2>1, <2>3, <3>9
    <2>4. CASE k # 0
      <3>1. k \in 1..n /\ Right(k) /\ TurnFits(s, d, k) /\ TurnFits(s, d, k + 1)
        <4>1. k \in 1..n /\ k > 0
          BY <1>6, <2>4
        <4>2. Right(k)
          <5> HIDE DEF Right
          <5> QED
            BY <1>6, <4>1
        <4> QED
          BY <1>3, <2>1, <4>1, <4>2
      <3>2. CASE s[k + 1].role = "assistant"
        <4>1. s[k + 1].answers = <<>>
          BY <3>1, <3>2 DEF TurnFits
        <4>2. s[k].role # "assistant"
          BY <1>1, <1>6, <3>1, <4>1 DEF TurnFits
        <4>3. ClosedWire(f[k]) /\ f[k + 1] = f[k] \o <<Plain(s[k + 1])>>
          BY <1>3, <2>1, <2>2, <3>1, <4>1, <4>2
        <4>4. k + 1 > 1
          BY <2>4
        <4>5. Right(k + 1)
          BY <2>1, <3>2, <4>3, <4>4
        <4> QED
          BY <2>1, <4>5
      <3>3. CASE s[k + 1].role # "assistant" /\ s[k].role = "assistant"
        <4>1. s[k + 1].answers = s[k].calls /\ s[k].calls # <<>> /\ s[k].answers = <<>>
          BY <1>1, <1>6, <3>1, <3>3 DEF TurnFits
        <4>2. PICK c \in Seq(CallId) : c = s[k].calls /\ c # <<>>
          BY <1>3, <3>1, <4>1 DEF ContextMessage
        <4>3. PICK a \in WireMessage : a = Plain(s[k]) /\ a.role = "assistant" /\ a.answers = <<>> /\ a.calls = c
          BY <1>3, <3>1, <3>3, <4>1, <4>2 DEF Plain
        <4>4. ps[k + 1] = Answering(c)
          BY <1>3, <2>1, <4>1, <4>2
        <4>5. ClosedWire(f[k - 1]) /\ f[k] = f[k - 1] \o <<a>>
          BY <3>1, <3>3, <4>3
        <4>6. f[k + 1] = (f[k - 1] \o <<a>>) \o Answering(c)
          BY <2>2, <4>4, <4>5
        <4>7. ClosedWire((f[k - 1] \o <<a>>) \o Answering(c))
          <5>1. Answering(c) = [j \in DOMAIN c |-> [role |-> "tool", answers |-> <<c[j]>>, calls |-> <<>>]]
            BY DEF Answering
          <5> HIDE DEF Answering
          <5> QED
            BY <4>2, <4>3, <4>5, <5>1, RoundCloses
        <4>8. Right(k + 1)
          BY <3>3, <4>6, <4>7
        <4> QED
          BY <2>1, <4>8
      <3>4. CASE s[k + 1].role # "assistant" /\ s[k].role # "assistant"
        <4>1. s[k + 1].answers = <<>> /\ s[k + 1].calls = <<>> /\ s[k + 1].role = "user"
          BY <1>3, <2>1, <3>1, <3>4 DEF TurnFits
        <4>2. PICK x \in WireMessage : x = Plain(s[k + 1]) /\ x.role = "user" /\ x.answers = <<>> /\ x.calls = <<>>
          BY <1>3, <2>1, <4>1 DEF Plain
        <4>3. f[k + 1] = Append(f[k], x)
          <5>1. ps[k + 1] = <<x>>
            BY <1>3, <2>1, <4>1, <4>2
          <5>2. f[k] \o <<x>> = Append(f[k], x)
            BY <2>2, JoinedOne
          <5> QED
            BY <2>2, <5>1, <5>2
        <4>4. ClosedWire(f[k])
          BY <3>1, <3>4
        <4>5. ClosedWire(Append(f[k], x))
          BY <4>2, <4>4, NoticeCloses
        <4>6. Right(k + 1)
          BY <3>4, <4>3, <4>5
        <4> QED
          BY <2>1, <4>6
      <3> QED
        BY <3>2, <3>3, <3>4
    <2> QED
      BY <2>3, <2>4
  <1>7. 0 \in Good
    OBVIOUS
  <1>8. n \in Good
    <2>1. n \in 0..n
      OBVIOUS
    <2> HIDE DEF Good
    <2> QED
      BY <1>6, <1>7, <2>1, UpTo
  <1>9. ClosedWire(f[n])
    BY <1>1, <1>8
  <1> QED
    BY <1>2, <1>5, <1>9 DEF ClosedWire

LEMMA RequestIsClosed ==
    ASSUME cxDialect \in Dialects, Paired(cxMessages, cxDialect), cxMessages[Len(cxMessages)].role = "user"
    PROVE  EveryCallAnswered(Wire)
  <1>1. CASE cxDialect = "anthropic"
    BY <1>1, AnthropicIsClosed DEF Wire
  <1>2. CASE cxDialect # "anthropic"
    BY <1>2, OpenAiIsClosed DEF Wire
  <1> QED
    BY <1>1, <1>2

-----------------------------------------------------------------------------
(* What an agent sends: the rounds that are folded *)

\* The folded rounds are the first ones; they are the notes, and their messages are marked.
FramesFit(frames, notes, s) ==
    /\ frames \in Seq(RoundFrame) /\ notes \in Seq(1..MaxRequests)
    /\ Len(notes) = 0 \/ Len(notes) + 2 <= Len(frames)
    /\ \A k \in 1..Len(frames) : /\ frames[k].folded = (k <= Len(notes))
                                 /\ k <= Len(notes) => notes[k] = frames[k].iteration
                                 /\ frames[k].index \in 1..Len(s)
                                 /\ s[frames[k].index].answers # <<>>
                                 /\ s[frames[k].index].answers[1][1] = frames[k].iteration
                                 /\ s[frames[k].index].folded = frames[k].folded
    /\ \A j, k \in 1..Len(frames) : frames[j].index = frames[k].index => j = k
    /\ \A m \in 1..Len(s) : s[m].folded => \E k \in 1..Len(frames) : frames[k].index = m

LEMMA FramesCount ==
    ASSUME NEW frames, NEW notes, NEW s, FramesFit(frames, notes, s)
    PROVE  /\ frames \in Seq(RoundFrame) /\ Len(frames) \in Nat /\ DOMAIN frames = 1..Len(frames)
           /\ notes \in Seq(1..MaxRequests) /\ Len(notes) \in Nat /\ DOMAIN notes = 1..Len(notes) /\ Len(notes) <= Len(frames)
           /\ \A k \in 1..Len(frames) : /\ frames[k] \in RoundFrame
                                        /\ frames[k].folded <=> k <= Len(notes)
                                        /\ frames[k].iteration \in 1..MaxRequests
  <1>1. frames \in Seq(RoundFrame) /\ notes \in Seq(1..MaxRequests)
    BY DEF FramesFit
  <1>2. Len(frames) \in Nat /\ DOMAIN frames = 1..Len(frames) /\ \A k \in 1..Len(frames) : frames[k] \in RoundFrame
    BY <1>1
  <1>3. Len(notes) \in Nat /\ DOMAIN notes = 1..Len(notes)
    BY <1>1
  <1>4. Len(notes) <= Len(frames)
    BY <1>2, <1>3 DEF FramesFit
  <1>5. ASSUME NEW k \in 1..Len(frames)
        PROVE  /\ frames[k] \in RoundFrame
               /\ frames[k].folded <=> k <= Len(notes)
               /\ frames[k].iteration \in 1..MaxRequests
    <2>1. frames[k].folded = (k <= Len(notes)) /\ frames[k] \in RoundFrame
      BY <1>2 DEF FramesFit
    <2> QED
      BY <2>1 DEF RoundFrame
  <1> QED
    BY <1>1, <1>2, <1>3, <1>4, <1>5

LEMMA OpenOnes ==
    ASSUME NEW frames, NEW notes, NEW s, FramesFit(frames, notes, s), NEW u,
           u = FlattenSeq([k \in DOMAIN frames |-> IF frames[k].folded THEN <<>> ELSE <<frames[k]>>])
    PROVE  /\ u \in Seq(RoundFrame) /\ Len(u) = Len(frames) - Len(notes)
           /\ \A j \in 1..Len(frames) - Len(notes) : u[j] = frames[Len(notes) + j]
  <1>1. PICK n \in Nat, p \in Nat : /\ n = Len(frames) /\ p = Len(notes) /\ p <= n /\ DOMAIN frames = 1..n
                                    /\ \A k \in 1..n : frames[k] \in RoundFrame /\ (frames[k].folded <=> k <= p)
    BY FramesCount
  <1>2. PICK ps : ps = [k \in DOMAIN frames |-> IF frames[k].folded THEN <<>> ELSE <<frames[k]>>]
    OBVIOUS
  <1>3. ASSUME NEW k \in 1..n
        PROVE  ps[k] \in Seq(RoundFrame) /\ (k <= p => ps[k] = <<>>) /\ (k > p => ps[k] = <<frames[k]>>)
    <2>1. <<>> \in Seq(RoundFrame) /\ <<frames[k]>> \in Seq(RoundFrame)
      BY <1>1
    <2>2. ps[k] = IF frames[k].folded THEN <<>> ELSE <<frames[k]>>
      BY <1>1, <1>2
    <2> QED
      BY <1>1, <2>1, <2>2
  <1>4. ps \in [1..n -> Seq(RoundFrame)]
    BY <1>1, <1>2, <1>3
  <1>5. PICK f \in [0..n -> Seq(RoundFrame)] : Joins(f, ps, n) /\ f[n] = FlattenSeq(ps)
    BY <1>4, Flattens
  <1> DEFINE Right(k) == IF k <= p THEN f[k] = <<>>
                         ELSE Len(f[k]) = k - p /\ \A j \in 1..k - p : f[k][j] = frames[p + j]
             Good == {k \in 0..n : Right(k)}
  <1>6. 0 \in Good
    BY <1>1, <1>5 DEF Joins
  <1>7. ASSUME NEW k \in 0..n, k \in Good, k < n PROVE k + 1 \in Good
    <2>1. k + 1 \in 1..n /\ (k + 1) - 1 = k /\ k + 1 \in 0..n
      BY <1>7
    <2>2. f[k + 1] = f[k] \o ps[k + 1]
      BY <1>5, <2>1 DEF Joins
    <2>3. PICK a \in Seq(RoundFrame) : a = f[k]
      BY <1>5
    <2>4. CASE k + 1 <= p
      <3>1. a = <<>> /\ ps[k + 1] = <<>>
        BY <1>3, <1>7, <2>1, <2>3, <2>4
      <3>2. a \o <<>> = a
        OBVIOUS
      <3> QED
        BY <2>1, <2>2, <2>3, <2>4, <3>1, <3>2
    <2>5. CASE k + 1 > p
      <3>1. PICK x \in RoundFrame : x = frames[k + 1]
        BY <1>1, <2>1
      <3>2. ps[k + 1] = <<x>>
        BY <1>3, <2>1, <2>5, <3>1
      <3>3. f[k + 1] = Append(a, x)
        BY <2>2, <2>3, <3>2, JoinedOne
      <3>4. Len(a) = k - p /\ k - p \in Nat /\ \A j \in 1..k - p : a[j] = frames[p + j]
        <4>1. CASE k <= p
          <5>1. k = p /\ a = <<>>
            BY <1>7, <2>3, <2>5, <4>1
          <5> QED
            BY <5>1
        <4>2. CASE k > p
          BY <1>7, <2>3, <4>2
        <4> QED
          BY <4>1, <4>2
      <3>5. /\ Len(Append(a, x)) = Len(a) + 1 /\ Append(a, x)[Len(a) + 1] = x
            /\ \A j \in 1..Len(a) : Append(a, x)[j] = a[j]
        BY AddToSeq
      <3>6. Len(f[k + 1]) = (k + 1) - p
        BY <3>3, <3>4, <3>5
      <3>7. ASSUME NEW j \in 1..(k + 1) - p PROVE f[k + 1][j] = frames[p + j]
        <4>1. CASE j = (k - p) + 1
          <5>1. p + j = k + 1
            BY <4>1
          <5> QED
            BY <3>1, <3>3, <3>4, <3>5, <4>1, <5>1
        <4>2. CASE j # (k - p) + 1
          <5>1. j \in 1..k - p
            BY <4>2
          <5> QED
            BY <3>3, <3>4, <3>5, <5>1
        <4> QED
          BY <4>1, <4>2
      <3> QED
        BY <2>1, <2>5, <3>6, <3>7
    <2> QED
      BY <1>1, <2>1, <2>4, <2>5
  <1>8. n \in Good
    <2>1. n \in 0..n
      OBVIOUS
    <2> HIDE DEF Good
    <2> QED
      BY <1>6, <1>7, <2>1, UpTo
  <1>9. u = f[n] /\ u \in Seq(RoundFrame)
    BY <1>2, <1>5
  <1>10. Len(u) = n - p /\ \A j \in 1..n - p : u[j] = frames[p + j]
    <2>1. CASE n <= p
      BY <1>1, <1>8, <1>9, <2>1
    <2>2. CASE ~(n <= p)
      <3>1. Len(f[n]) = n - p /\ \A j \in 1..n - p : f[n][j] = frames[p + j]
        BY <1>8, <2>2
      <3> QED
        BY <1>9, <3>1
    <2> QED
      BY <2>1, <2>2
  <1> QED
    BY <1>1, <1>9, <1>10

LEMMA NotesAre ==
    ASSUME NEW frames, NEW notes, NEW s, FramesFit(frames, notes, s)
    PROVE  notes = FlattenSeq([k \in DOMAIN frames |-> IF frames[k].folded THEN <<frames[k].iteration>> ELSE <<>>])
  <1>1. PICK n \in Nat, p \in Nat : /\ n = Len(frames) /\ p = Len(notes) /\ p <= n /\ DOMAIN frames = 1..n
                                    /\ \A k \in 1..n : /\ frames[k].iteration \in 1..MaxRequests
                                                       /\ (frames[k].folded <=> k <= p)
    BY FramesCount
  <1> DEFINE S == 1..MaxRequests
  <1>2. notes \in Seq(S) /\ \A k \in 1..p : notes[k] = frames[k].iteration
    BY <1>1 DEF FramesFit
  <1> HIDE DEF S
  <1>3. PICK ps : ps = [k \in DOMAIN frames |-> IF frames[k].folded THEN <<frames[k].iteration>> ELSE <<>>]
    OBVIOUS
  <1>4. ASSUME NEW k \in 1..n
        PROVE  ps[k] \in Seq(S) /\ (k > p => ps[k] = <<>>) /\ (k <= p => ps[k] = <<frames[k].iteration>>)
    <2>1. frames[k].iteration \in S
      BY <1>1 DEF S
    <2>2. <<>> \in Seq(S) /\ <<frames[k].iteration>> \in Seq(S)
      BY <2>1
    <2>3. ps[k] = IF frames[k].folded THEN <<frames[k].iteration>> ELSE <<>>
      BY <1>1, <1>3
    <2> QED
      BY <1>1, <2>2, <2>3
  <1>5. ps \in [1..n -> Seq(S)]
    BY <1>1, <1>3, <1>4
  <1>6. PICK f \in [0..n -> Seq(S)] : Joins(f, ps, n) /\ f[n] = FlattenSeq(ps)
    BY <1>5, Flattens
  <1> DEFINE Right(k) == IF k > p THEN f[k] = f[p] ELSE Len(f[k]) = k /\ \A j \in 1..k : f[k][j] = frames[j].iteration
             Good == {k \in 0..n : Right(k)}
  <1>7. 0 \in Good
    <2>1. f[0] = <<>> /\ \A j \in 1..0 : FALSE
      BY <1>6 DEF Joins
    <2> QED
      BY <1>1, <2>1
  <1>8. ASSUME NEW k \in 0..n, k \in Good, k < n PROVE k + 1 \in Good
    <2>1. k + 1 \in 1..n /\ (k + 1) - 1 = k /\ k + 1 \in 0..n
      BY <1>8
    <2>2. f[k + 1] = f[k] \o ps[k + 1]
      BY <1>6, <2>1 DEF Joins
    <2>3. PICK a \in Seq(S) : a = f[k]
      BY <1>6
    <2>4. CASE k + 1 > p
      <3>1. a = f[p] /\ ps[k + 1] = <<>>
        <4>1. k > p \/ k = p
          BY <2>4
        <4> QED
          BY <1>4, <1>8, <2>1, <2>3, <2>4, <4>1
      <3>2. a \o <<>> = a
        OBVIOUS
      <3> QED
        BY <2>1, <2>2, <2>3, <2>4, <3>1, <3>2
    <2>5. CASE ~(k + 1 > p)
      <3>1. k + 1 <= p
        BY <2>5
      <3>2. PICK x \in S : x = frames[k + 1].iteration /\ ps[k + 1] = <<x>>
        BY <1>1, <1>4, <2>1, <3>1 DEF S
      <3>3. f[k + 1] = Append(a, x)
        BY <2>2, <2>3, <3>2, JoinedOne
      <3>4. Len(a) = k /\ \A j \in 1..k : a[j] = frames[j].iteration
        BY <1>8, <2>3, <3>1
      <3>5. /\ Len(Append(a, x)) = Len(a) + 1 /\ Append(a, x)[Len(a) + 1] = x
            /\ \A j \in 1..Len(a) : Append(a, x)[j] = a[j]
        BY AddToSeq
      <3>6. Len(f[k + 1]) = k + 1
        BY <3>3, <3>4, <3>5
      <3>7. ASSUME NEW j \in 1..k + 1 PROVE f[k + 1][j] = frames[j].iteration
        <4>1. j = k + 1 \/ j \in 1..k
          OBVIOUS
        <4> QED
          BY <3>2, <3>3, <3>4, <3>5, <4>1
      <3> QED
        BY <2>1, <2>5, <3>6, <3>7
    <2> QED
      BY <2>4, <2>5
  <1>9. \A k \in 0..n : k \in Good
    <2> HIDE DEF Good
    <2> QED
      BY <1>7, <1>8, UpTo
  <1>10. p \in Good /\ n \in Good
    BY <1>1, <1>9
  <1>11. f[n] = f[p]
    <2>1. n > p \/ n = p
      BY <1>1
    <2> QED
      BY <1>10, <2>1
  <1>12. f[p] \in Seq(S) /\ Len(f[p]) = Len(notes) /\ \A j \in 1..Len(f[p]) : f[p][j] = notes[j]
    <2>1. f[p] \in Seq(S) /\ Len(f[p]) = p /\ \A j \in 1..p : f[p][j] = frames[j].iteration
      BY <1>1, <1>6, <1>10
    <2> QED
      BY <1>1, <1>2, <2>1
  <1>13. f[p] = notes
    BY <1>2, <1>12, SameSeq
  <1> QED
    BY <1>3, <1>6, <1>11, <1>13

ContextFits == FramesFit(cxFrames, cxNotes, cxMessages) /\ Paired(cxMessages, cxDialect)

\* The next n rounds are folded, the two latest are left.
LEMMA FoldsTheNext ==
    ASSUME ContextFits, NEW n \in 0..Foldable
    PROVE  /\ n \in Nat /\ Fold(n) = Len(cxNotes) + 1..Len(cxNotes) + n
           /\ n = 0 \/ Len(cxNotes) + n + 2 <= Len(cxFrames)
           /\ \A j \in 1..n : Unfolded[j] = cxFrames[Len(cxNotes) + j]
  <1>1. PICK size \in Nat, p \in Nat : /\ size = Len(cxFrames) /\ p = Len(cxNotes) /\ p <= size /\ DOMAIN cxFrames = 1..size
    BY FramesCount DEF ContextFits
  <1>2. PICK u : u = Unfolded /\ Len(u) = size - p /\ \A j \in 1..size - p : u[j] = cxFrames[p + j]
    <2>1. FramesFit(cxFrames, cxNotes, cxMessages)
      BY DEF ContextFits
    <2>2. PICK u : u = FlattenSeq([k \in DOMAIN cxFrames |-> IF cxFrames[k].folded THEN <<>> ELSE <<cxFrames[k]>>])
      OBVIOUS
    <2>3. /\ Len(u) = Len(cxFrames) - Len(cxNotes)
          /\ \A j \in 1..Len(cxFrames) - Len(cxNotes) : u[j] = cxFrames[Len(cxNotes) + j]
      BY <2>1, <2>2, OpenOnes
    <2>4. u = Unfolded
      BY <2>2 DEF Unfolded
    <2> QED
      BY <1>1, <2>3, <2>4
  <1>3. Foldable = IF size - p <= 2 THEN 0 ELSE size - p - 2
    BY <1>2 DEF Foldable
  <1>4. n \in Nat /\ (n = 0 \/ p + n + 2 <= size) /\ \A j \in 1..n : j \in 1..size - p
    BY <1>1, <1>3
  <1>5. \A j \in 1..n : u[j] = cxFrames[p + j]
    BY <1>2, <1>4
  <1>6. ASSUME NEW k \in 1..size PROVE k \in Fold(n) <=> k \in p + 1..p + n
    <2>1. k \in Fold(n) <=> \E j \in 1..n : cxFrames[k] = cxFrames[p + j]
      BY <1>1, <1>2, <1>5 DEF Fold
    <2>2. ASSUME NEW j \in 1..n, cxFrames[k] = cxFrames[p + j] PROVE k \in p + 1..p + n
      <3>1. p + j \in 1..size /\ p + j \in p + 1..p + n
        BY <1>1, <1>4
      <3>2. k = p + j
        BY <1>1, <2>2, <3>1 DEF ContextFits, FramesFit
      <3> QED
        BY <3>1, <3>2
    <2>3. ASSUME k \in p + 1..p + n PROVE k \in Fold(n)
      <3>1. k - p \in 1..n /\ p + (k - p) = k
        BY <2>3
      <3> QED
        BY <2>1, <3>1
    <2> QED
      BY <2>1, <2>2, <2>3
  <1>7. Fold(n) \subseteq 1..size /\ p + 1..p + n \subseteq 1..size
    <2>1. ASSUME NEW k \in p + 1..p + n PROVE k \in 1..size
      BY <1>1, <1>4, <2>1
    <2> QED
      BY <1>1, <2>1 DEF Fold
  <1>8. Fold(n) = p + 1..p + n
    BY <1>6, <1>7
  <1> QED
    BY <1>1, <1>2, <1>4, <1>5, <1>8

LEMMA FoldingFits ==
    ASSUME ContextFits, NEW n \in 0..Foldable
    PROVE  /\ Paired(FoldedMessages(n), cxDialect)
           /\ FramesFit(FoldedFrames(n), FoldedNotes(n), FoldedMessages(n))
           /\ Len(FoldedMessages(n)) = Len(cxMessages)
           /\ \A m \in 1..Len(cxMessages) : /\ FoldedMessages(n)[m].role = cxMessages[m].role
                                            /\ FoldedMessages(n)[m].text = cxMessages[m].text
           /\ Len(FoldedNotes(n)) = Len(cxNotes) + n
           /\ \A k \in 1..Len(cxNotes) : FoldedNotes(n)[k] = cxNotes[k]
  <1>1. PICK size \in Nat, p \in Nat :
            /\ size = Len(cxFrames) /\ p = Len(cxNotes) /\ p <= size /\ DOMAIN cxFrames = 1..size /\ DOMAIN cxNotes = 1..p
            /\ cxNotes \in Seq(1..MaxRequests)
            /\ \A k \in 1..size : /\ cxFrames[k] \in RoundFrame
                                  /\ cxFrames[k].folded <=> k <= p
                                  /\ cxFrames[k].iteration \in 1..MaxRequests
    BY FramesCount DEF ContextFits
  <1>2. /\ n \in Nat /\ Fold(n) = p + 1..p + n /\ (n = 0 \/ p + n + 2 <= size)
        /\ \A j \in 1..n : Unfolded[j] = cxFrames[p + j]
    BY <1>1, FoldsTheNext
  <1>3. \A k \in p + 1..p + n : k \in 1..size
    BY <1>1, <1>2
  <1>4. PICK len \in Nat : len = Len(cxMessages) /\ DOMAIN cxMessages = 1..len
    BY DEF ContextFits, Paired
  <1>5. ASSUME NEW k \in 1..size
        PROVE  /\ cxFrames[k].folded = (k <= p)
               /\ k <= p => cxNotes[k] = cxFrames[k].iteration
               /\ cxFrames[k].index \in 1..len
               /\ cxMessages[cxFrames[k].index].answers # <<>>
               /\ cxMessages[cxFrames[k].index].answers[1][1] = cxFrames[k].iteration
               /\ cxMessages[cxFrames[k].index].folded = cxFrames[k].folded
               /\ \A j \in 1..size : cxFrames[j].index = cxFrames[k].index => j = k
    BY <1>1, <1>4 DEF ContextFits, FramesFit
  <1> DEFINE Marked == {m \in 1..len : \E k \in Fold(n) : cxFrames[k].index = m}
  <1>6. PICK t : t = FoldedMessages(n)
    OBVIOUS
  <1>7. /\ Paired(t, cxDialect) /\ Len(t) = len
        /\ \A m \in 1..len : /\ t[m].role = cxMessages[m].role /\ t[m].text = cxMessages[m].text
                             /\ t[m].answers = cxMessages[m].answers
                             /\ t[m].folded = (cxMessages[m].folded \/ m \in Marked)
    <2>1. t = [m \in DOMAIN cxMessages |-> IF m \in Marked THEN [cxMessages[m] EXCEPT !.folded = TRUE] ELSE cxMessages[m]]
      BY <1>4, <1>6 DEF FoldedMessages
    <2>2. \A m \in 1..len : m \in Marked => cxMessages[m].answers # <<>>
      BY <1>2, <1>3, <1>5
    <2>3. PICK F, s : F = Marked /\ s = cxMessages
      OBVIOUS
    <2> HIDE DEF Marked
    <2>4. Paired(s, cxDialect) /\ \A m \in 1..Len(s) : m \in F => s[m].answers # <<>>
      BY <1>4, <2>2, <2>3 DEF ContextFits
    <2>5. t = MarkFolded(s, F)
      BY <2>1, <2>3 DEF MarkFolded
    <2>6. /\ Paired(t, cxDialect) /\ Len(t) = Len(s) /\ DOMAIN t = DOMAIN s
          /\ \A m \in 1..Len(s) : /\ t[m].role = s[m].role /\ t[m].text = s[m].text /\ t[m].calls = s[m].calls
                                   /\ t[m].answers = s[m].answers
                                   /\ t[m].folded = (s[m].folded \/ m \in F)
      BY <2>4, <2>5, FoldingKeepsPairs
    <2> QED
      BY <1>4, <2>3, <2>6
  <1>8. PICK fr : fr = FoldedFrames(n)
    OBVIOUS
  <1>9. ASSUME NEW k \in 1..size
        PROVE  /\ fr[k] \in RoundFrame /\ fr[k].iteration = cxFrames[k].iteration /\ fr[k].index = cxFrames[k].index
               /\ fr[k].folded = (k <= p + n)
    <2>1. fr[k] = IF k \in p + 1..p + n THEN [cxFrames[k] EXCEPT !.folded = TRUE] ELSE cxFrames[k]
      BY <1>1, <1>2, <1>8 DEF FoldedFrames
    <2>2. PICK x \in RoundFrame : x = cxFrames[k]
      BY <1>1
    <2>3. CASE k \in p + 1..p + n
      <3>1. [x EXCEPT !.folded = TRUE] \in RoundFrame /\ [x EXCEPT !.folded = TRUE].folded = TRUE
            /\ [x EXCEPT !.folded = TRUE].iteration = x.iteration /\ [x EXCEPT !.folded = TRUE].index = x.index
        BY DEF RoundFrame
      <3>2. k <= p + n
        BY <2>3
      <3> QED
        BY <2>1, <2>2, <2>3, <3>1, <3>2
    <2>4. CASE k \notin p + 1..p + n
      <3>1. (k <= p) <=> (k <= p + n)
        BY <1>2, <2>4
      <3>2. cxFrames[k].folded = (k <= p + n)
        BY <1>5, <3>1
      <3> QED
        BY <1>1, <2>1, <2>4, <3>2
    <2> QED
      BY <2>3, <2>4
  <1>10. fr \in Seq(RoundFrame) /\ Len(fr) = size
    <2>1. fr \in [1..size -> RoundFrame]
      BY <1>1, <1>8, <1>9 DEF FoldedFrames
    <2> QED
      BY <2>1, ListIsSeq
  <1>11. PICK notes : notes = FoldedNotes(n)
    OBVIOUS
  <1>12. /\ notes \in Seq(1..MaxRequests) /\ Len(notes) = p + n
         /\ \A k \in 1..p : notes[k] = cxNotes[k]
         /\ \A j \in 1..n : notes[p + j] = cxFrames[p + j].iteration
    <2>1. PICK more : more = [j \in 1..n |-> Unfolded[j].iteration]
      OBVIOUS
    <2>2. \A j \in 1..n : more[j] = cxFrames[p + j].iteration /\ p + j \in p + 1..p + n
      BY <1>2, <2>1
    <2>3. more \in [1..n -> 1..MaxRequests]
      BY <1>1, <1>3, <2>1, <2>2
    <2>4. more \in Seq(1..MaxRequests) /\ Len(more) = n
      BY <1>2, <2>3, ListIsSeq
    <2>5. notes = cxNotes \o more
      BY <1>11, <2>1 DEF FoldedNotes
    <2>6. /\ cxNotes \o more \in Seq(1..MaxRequests) /\ Len(cxNotes \o more) = Len(cxNotes) + Len(more)
          /\ \A k \in 1..Len(cxNotes) : (cxNotes \o more)[k] = cxNotes[k]
          /\ \A k \in 1..Len(more) : (cxNotes \o more)[Len(cxNotes) + k] = more[k]
      <3>1. cxNotes \in Seq(1..MaxRequests) /\ more \in Seq(1..MaxRequests)
        BY <1>1, <2>4
      <3>2. PICK S : S = 1..MaxRequests
        OBVIOUS
      <3> QED
        BY <3>1, <3>2, JoinedSeq
    <2> QED
      BY <1>1, <2>2, <2>4, <2>5, <2>6
  <1>13. ASSUME NEW k \in 1..size
         PROVE  /\ fr[k].folded = (k <= Len(notes))
                /\ k <= Len(notes) => notes[k] = fr[k].iteration
                /\ fr[k].index \in 1..Len(t)
                /\ t[fr[k].index].answers # <<>>
                /\ t[fr[k].index].answers[1][1] = fr[k].iteration
                /\ t[fr[k].index].folded = fr[k].folded
    <2>1. k <= p + n => notes[k] = fr[k].iteration
      <3>1. CASE k <= p
        BY <1>5, <1>9, <1>12, <3>1
      <3>2. CASE k > p /\ k <= p + n
        <4>1. k - p \in 1..n /\ p + (k - p) = k
          BY <1>2, <3>2
        <4> QED
          BY <1>9, <1>12, <4>1
      <3> QED
        BY <3>1, <3>2
    <2>2. cxFrames[k].index \in Marked <=> k \in p + 1..p + n
      <3>1. ASSUME NEW j \in Fold(n), cxFrames[j].index = cxFrames[k].index PROVE j = k
        BY <1>2, <1>3, <1>5, <3>1
      <3> QED
        BY <1>2, <1>5, <3>1
    <2>3. t[fr[k].index].folded = fr[k].folded
      <3>1. t[fr[k].index].folded = ((k <= p) \/ k \in p + 1..p + n)
        <4>1. t[cxFrames[k].index].folded = (cxMessages[cxFrames[k].index].folded \/ cxFrames[k].index \in Marked)
          BY <1>5, <1>7
        <4>2. cxMessages[cxFrames[k].index].folded = (k <= p)
          BY <1>5
        <4> HIDE DEF Marked
        <4> QED
          BY <1>9, <2>2, <4>1, <4>2
      <3>2. ((k <= p) \/ k \in p + 1..p + n) <=> k <= p + n
        BY <1>2
      <3> QED
        BY <1>9, <3>1, <3>2
    <2> QED
      BY <1>5, <1>7, <1>9, <1>12, <2>1, <2>3
  <1>14. \A j, k \in 1..size : fr[j].index = fr[k].index => j = k
    BY <1>5, <1>9
  <1>15. ASSUME NEW m \in 1..len, t[m].folded PROVE \E k \in 1..size : fr[k].index = m
    <2>1. cxMessages[m].folded \/ m \in Marked
      BY <1>7, <1>15
    <2>2. CASE cxMessages[m].folded
      <3>1. \E k \in 1..size : cxFrames[k].index = m
        BY <1>1, <1>4, <2>2 DEF ContextFits, FramesFit
      <3> QED
        BY <1>9, <3>1
    <2>3. CASE m \in Marked
      BY <1>2, <1>3, <1>9, <2>3
    <2> QED
      BY <2>1, <2>2, <2>3
  <1>16. Len(notes) = 0 \/ Len(notes) + 2 <= Len(fr)
    <2>1. p = 0 \/ p + 2 <= size
      BY <1>1 DEF ContextFits, FramesFit
    <2> QED
      BY <1>2, <1>10, <1>12, <2>1
  <1>17. FramesFit(fr, notes, t)
    BY <1>7, <1>10, <1>12, <1>13, <1>14, <1>15, <1>16 DEF FramesFit
  <1> QED
    BY <1>1, <1>4, <1>6, <1>7, <1>8, <1>11, <1>12, <1>17

\* A message more: if it is not folded, the rounds are where they were.
LEMMA FramesStay ==
    ASSUME NEW frames, NEW notes, NEW s \in Seq(ContextMessage), FramesFit(frames, notes, s),
           NEW m \in ContextMessage, ~m.folded
    PROVE  FramesFit(frames, notes, Append(s, m))
  <1>0. PICK n \in Nat : n = Len(s)
    OBVIOUS
  <1>1. PICK t : t = Append(s, m)
    OBVIOUS
  <1>2. t \in Seq(ContextMessage) /\ Len(t) = n + 1 /\ t[n + 1] = m /\ \A k \in 1..n : t[k] = s[k]
    <2>1. PICK S : S = ContextMessage
      OBVIOUS
    <2> QED
      BY <1>0, <1>1, <2>1, AddToSeq
  <1>3. ASSUME NEW k \in 1..Len(frames)
        PROVE  /\ frames[k].folded = (k <= Len(notes))
               /\ k <= Len(notes) => notes[k] = frames[k].iteration
               /\ frames[k].index \in 1..Len(t)
               /\ t[frames[k].index].answers # <<>>
               /\ t[frames[k].index].answers[1][1] = frames[k].iteration
               /\ t[frames[k].index].folded = frames[k].folded
    <2>1. /\ frames[k].folded = (k <= Len(notes))
          /\ k <= Len(notes) => notes[k] = frames[k].iteration
          /\ frames[k].index \in 1..Len(s)
          /\ s[frames[k].index].answers # <<>>
          /\ s[frames[k].index].answers[1][1] = frames[k].iteration
          /\ s[frames[k].index].folded = frames[k].folded
      BY DEF FramesFit
    <2>2. PICK i \in 1..n : i = frames[k].index
      BY <1>0, <2>1
    <2>3. t[i] = s[i] /\ i \in 1..n + 1
      BY <1>2
    <2> QED
      BY <1>2, <2>1, <2>2, <2>3
  <1>4. ASSUME NEW k \in 1..Len(t), t[k].folded PROVE \E j \in 1..Len(frames) : frames[j].index = k
    <2>1. k # n + 1
      BY <1>2, <1>4
    <2>2. k \in 1..n
      BY <1>2, <2>1
    <2>3. k \in 1..Len(s) /\ s[k].folded
      BY <1>0, <1>2, <1>4, <2>2
    <2> QED
      BY <2>3 DEF FramesFit
  <1>5. /\ frames \in Seq(RoundFrame) /\ notes \in Seq(1..MaxRequests)
        /\ Len(notes) = 0 \/ Len(notes) + 2 <= Len(frames)
        /\ \A j, k \in 1..Len(frames) : frames[j].index = frames[k].index => j = k
    BY DEF FramesFit
  <1>6. FramesFit(frames, notes, t)
    BY <1>3, <1>4, <1>5 DEF FramesFit
  <1> QED
    BY <1>1, <1>6

\* A round more: the answers come last.
LEMMA FrameAdded ==
    ASSUME NEW frames, NEW notes, NEW s \in Seq(ContextMessage), FramesFit(frames, notes, s),
           NEW m \in ContextMessage, ~m.folded, NEW i \in 1..MaxRequests, m.answers # <<>>, m.answers[1][1] = i,
           NEW f, f = [iteration |-> i, index |-> Len(s) + 1, folded |-> FALSE]
    PROVE  FramesFit(Append(frames, f), notes, Append(s, m))
  <1>1. PICK t : t = Append(s, m)
    OBVIOUS
  <1>2. FramesFit(frames, notes, t)
    BY <1>1, FramesStay
  <1>3. PICK n \in Nat : n = Len(s)
    OBVIOUS
  <1>4. Len(t) = n + 1 /\ t[n + 1] = m
    <2>1. PICK S : S = ContextMessage
      OBVIOUS
    <2> QED
      BY <1>1, <1>3, <2>1, AddToSeq
  <1>5. PICK size \in Nat, p \in Nat : size = Len(frames) /\ p = Len(notes) /\ p <= size /\ frames \in Seq(RoundFrame)
    BY FramesCount
  <1>6. f \in RoundFrame /\ f.iteration = i /\ f.index = n + 1 /\ f.folded = FALSE
    BY <1>3 DEF RoundFrame
  <1>7. PICK fr : fr = Append(frames, f)
    OBVIOUS
  <1>8. fr \in Seq(RoundFrame) /\ Len(fr) = size + 1 /\ fr[size + 1] = f /\ \A k \in 1..size : fr[k] = frames[k]
    BY <1>5, <1>6, <1>7, AddToSeq
  <1>9. ASSUME NEW k \in 1..size + 1
        PROVE  /\ fr[k].folded = (k <= Len(notes))
               /\ k <= Len(notes) => notes[k] = fr[k].iteration
               /\ fr[k].index \in 1..Len(t)
               /\ t[fr[k].index].answers # <<>>
               /\ t[fr[k].index].answers[1][1] = fr[k].iteration
               /\ t[fr[k].index].folded = fr[k].folded
    <2>1. CASE k = size + 1
      <3>1. ~(k <= Len(notes)) /\ fr[k] = f /\ f.index \in 1..Len(t) /\ t[f.index] = m
        BY <1>4, <1>5, <1>6, <1>8, <2>1
      <3>2. m.folded = FALSE
        BY DEF ContextMessage
      <3>3. f.folded = (k <= Len(notes))
        <4>1. (k <= Len(notes)) = FALSE
          BY <3>1
        <4> QED
          BY <1>6, <4>1, Zenon
      <3>4. t[f.index].folded = f.folded /\ t[f.index].answers[1][1] = f.iteration
        BY <1>6, <3>1, <3>2
      <3> QED
        BY <3>1, <3>3, <3>4
    <2>2. CASE k # size + 1
      <3>1. k \in 1..size /\ fr[k] = frames[k] /\ k \in 1..Len(frames)
        BY <1>5, <1>8, <2>2
      <3> QED
        BY <1>2, <3>1 DEF FramesFit
    <2> QED
      BY <2>1, <2>2
  <1>10. ASSUME NEW j \in 1..size + 1, NEW k \in 1..size + 1, fr[j].index = fr[k].index PROVE j = k
    <2>1. ASSUME NEW x \in 1..size PROVE fr[x].index \in 1..n /\ fr[x] = frames[x]
      BY <1>3, <1>5, <1>8 DEF FramesFit
    <2>2. fr[size + 1].index = n + 1 /\ n + 1 \notin 1..n
      BY <1>6, <1>8
    <2>3. CASE j = size + 1 \/ k = size + 1
      <3>1. \A x \in 1..size + 1 : x = size + 1 \/ x \in 1..size
        OBVIOUS
      <3> QED
        BY <1>10, <2>1, <2>2, <2>3, <3>1
    <2>4. CASE j # size + 1 /\ k # size + 1
      <3>1. j \in 1..size /\ k \in 1..size
        BY <2>4
      <3> QED
        BY <1>2, <1>5, <1>10, <2>1, <3>1 DEF FramesFit
    <2> QED
      BY <2>3, <2>4
  <1>11. ASSUME NEW k \in 1..Len(t), t[k].folded PROVE \E j \in 1..size + 1 : fr[j].index = k
    <2>1. PICK j \in 1..size : frames[j].index = k
      BY <1>2, <1>5, <1>11 DEF FramesFit
    <2>2. fr[j].index = k /\ j \in 1..size + 1
      BY <1>8, <2>1
    <2> QED
      BY <2>2
  <1>12. notes \in Seq(1..MaxRequests) /\ (Len(notes) = 0 \/ Len(notes) + 2 <= Len(fr))
    BY <1>2, <1>5, <1>8 DEF FramesFit
  <1>13. FramesFit(fr, notes, t)
    BY <1>8, <1>9, <1>10, <1>11, <1>12 DEF FramesFit
  <1> QED
    BY <1>1, <1>7, <1>13

LEMMA NoFramesFit ==
    ASSUME NEW s, \A m \in 1..Len(s) : ~s[m].folded
    PROVE  FramesFit(<<>>, <<>>, s)
  <1>1. PICK e : e = <<>>
    OBVIOUS
  <1>2. Len(e) = 0 /\ e \in Seq(RoundFrame) /\ e \in Seq(1..MaxRequests)
    BY <1>1
  <1>3. (1..0) = {}
    OBVIOUS
  <1>4. FramesFit(e, e, s)
    BY <1>2, <1>3 DEF FramesFit
  <1> QED
    BY <1>1, <1>4

LEMMA FoundForgotten ==
    ASSUME ContextFits
    PROVE  NothingForgotten
  <1>1. PICK n \in Nat, p \in Nat : /\ n = Len(cxFrames) /\ p = Len(cxNotes) /\ p <= n /\ DOMAIN cxFrames = 1..n
    BY FramesCount DEF ContextFits
  <1>2. PICK len \in Nat : len = Len(cxMessages) /\ DOMAIN cxMessages = 1..len
    BY DEF ContextFits, Paired
  <1>3. ASSUME NEW k \in 1..n
        PROVE  /\ cxMessages[cxFrames[k].index].answers # <<>>
               /\ cxMessages[cxFrames[k].index].answers[1][1] = cxFrames[k].iteration
               /\ cxMessages[cxFrames[k].index].folded = cxFrames[k].folded
               /\ cxFrames[k].folded => k + 2 <= n
    <2>1. /\ cxFrames[k].folded = (k <= p)
          /\ cxMessages[cxFrames[k].index].answers # <<>>
          /\ cxMessages[cxFrames[k].index].answers[1][1] = cxFrames[k].iteration
          /\ cxMessages[cxFrames[k].index].folded = cxFrames[k].folded
          /\ p = 0 \/ p + 2 <= n
      BY <1>1 DEF ContextFits, FramesFit
    <2>2. k <= p => k + 2 <= n
      BY <2>1
    <2> QED
      BY <2>1, <2>2
  <1>4. ASSUME NEW m \in 1..len, cxMessages[m].folded PROVE \E k \in 1..n : cxFrames[k].index = m
    BY <1>1, <1>2, <1>4 DEF ContextFits, FramesFit
  <1>5. cxNotes = FlattenSeq([k \in DOMAIN cxFrames |-> IF cxFrames[k].folded THEN <<cxFrames[k].iteration>> ELSE <<>>])
    BY NotesAre DEF ContextFits
  <1> QED
    BY <1>1, <1>2, <1>3, <1>4, <1>5 DEF NothingForgotten

LEMMA FinalIsThere ==
    ASSUME NEW turn \in Seq({"read", "write", "final"})
    PROVE  FinalOf(turn) = 0 \/ (FinalOf(turn) \in 1..Len(turn) /\ turn[FinalOf(turn)] = "final")
  <1> DEFINE I == {i \in 1..Len(turn) : turn[i] = "final"}
  <1>1. FinalOf(turn) = IF I # {} THEN Min(I) ELSE 0
    BY DEF FinalOf, SelectInSeq
  <1>2. ASSUME I # {} PROVE Min(I) \in I
    <2>1. I \in SUBSET Nat
      OBVIOUS
    <2> HIDE DEF I
    <2>2. \E x \in I : \A y \in I : x <= y
      BY <1>2, <2>1, LeastNumber
    <2> QED
      BY <2>2 DEF Min
  <1>3. FinalOf(turn) = 0 \/ FinalOf(turn) \in I
    <2> HIDE DEF I
    <2> QED
      BY <1>1, <1>2
  <1> QED
    BY <1>3

-----------------------------------------------------------------------------
(* What an agent sends: the loop *)

ContextLoop == [at : {"top", "asked", "tools", "ended"}, iteration : 0..MaxRequests, edits : BOOLEAN,
                finalize : BOOLEAN, told : BOOLEAN, denies : Nat,
                outcome : {"none", "BUDGET_EXHAUSTED", "FAILED", "THROWN", "ANSWERED"}]
RoundEntry == [tool : {"read", "write", "final"}, call : Nat, did : {"none", "ok", "error", "deny"}]

ContextTyped ==
    /\ cxDialect \in Dialects /\ cxMessages \in Seq(ContextMessage) /\ Len(cxMessages) >= 1
    /\ cxFrames \in Seq(RoundFrame) /\ cxNotes \in Seq(1..MaxRequests) /\ cxSummary \in Seq(1..MaxRequests)
    /\ cxLoop \in ContextLoop /\ cxRound \in Seq(RoundEntry)

Latest == cxMessages[Len(cxMessages)]

\* The round in progress is that of the latest turn.
RoundFits ==
    /\ Latest.role = "assistant" /\ cxLoop.iteration >= 1
    /\ Latest.calls = [k \in DOMAIN cxRound |-> <<cxLoop.iteration, k>>]
    /\ \A k \in DOMAIN cxRound : cxRound[k].did = "none" \/ cxRound[k].call = k

\* Where nothing is compacted, what the summary was made of is the beginning of the notes.
SummaryFits(summary, notes) ==
    Len(summary) <= Len(notes) /\ \A k \in 1..Len(summary) : summary[k] = notes[k]

Going ==
    /\ ContextFits
    /\ cxLoop.finalize <=> Latest.text = "reminder"
    /\ cxLoop.at \in {"top", "asked"} => Latest.role = "user"
    /\ cxLoop.at = "asked" => cxLoop.iteration >= 1
    /\ cxLoop.at = "tools" => RoundFits
    /\ cxDialect = "openai" => /\ ~cxLoop.edits /\ SummaryFits(cxSummary, cxNotes)
                               /\ cxLoop.at = "asked" => Len(cxSummary) = Len(cxNotes)

ContextInv == ContextTyped /\ (cxLoop.at # "ended" => Going)

LEMMA ContextSuffices == ContextInv => ContextTypeOK /\ RequestsSound
  <1> SUFFICES ASSUME ContextInv PROVE ContextTypeOK /\ RequestsSound
    OBVIOUS
  <1>1. ContextTypeOK
    <2>1. cxLoop.at \in {"top", "asked", "tools", "ended"} /\ cxLoop.iteration \in 0..MaxRequests
          /\ cxLoop.edits \in BOOLEAN /\ cxLoop.finalize \in BOOLEAN /\ cxLoop.told \in BOOLEAN /\ cxLoop.denies \in Nat
      BY DEF ContextInv, ContextTyped, ContextLoop
    <2>2. \A k \in DOMAIN cxMessages : cxMessages[k] \in ContextMessage
      BY DEF ContextInv, ContextTyped
    <2>3. \A k \in DOMAIN cxMessages : cxMessages[k].role \in {"user", "assistant"}
      BY <2>2 DEF ContextMessage
    <2>4. \A k \in DOMAIN cxFrames : cxFrames[k] \in RoundFrame
      BY DEF ContextInv, ContextTyped
    <2> QED
      BY <2>1, <2>3, <2>4 DEF ContextTypeOK, ContextInv, ContextTyped
  <1>2. ASSUME cxLoop.at # "ended" PROVE NothingForgotten
    BY <1>2, FoundForgotten DEF ContextInv, Going
  <1>3. ASSUME cxLoop.at = "asked"
        PROVE  /\ cxMessages[1].text = "task" /\ EveryCallAnswered(Wire)
               /\ cxLoop.finalize = (Last(cxMessages).text = "reminder")
               /\ (cxDialect = "openai" /\ cxNotes # <<>>) => cxSummary = cxNotes
    <2>1. Going
      BY <1>3 DEF ContextInv
    <2>2. cxMessages[1].text = "task"
      BY <2>1, TextIsMessage DEF Going, ContextFits, Paired
    <2>3. EveryCallAnswered(Wire)
      BY <1>3, <2>1, RequestIsClosed DEF ContextInv, ContextTyped, Going, ContextFits, Latest
    <2>4. cxLoop.finalize = (Last(cxMessages).text = "reminder")
      <3>1. cxLoop.finalize \in BOOLEAN
        BY DEF ContextInv, ContextTyped, ContextLoop
      <3>2. cxLoop.finalize <=> Last(cxMessages).text = "reminder"
        BY <2>1 DEF Going, Latest, Last
      <3> QED
        BY <3>1, <3>2, Zenon
    <2>5. ASSUME cxDialect = "openai" PROVE cxSummary = cxNotes
      <3>1. Len(cxSummary) = Len(cxNotes) /\ \A k \in 1..Len(cxSummary) : cxSummary[k] = cxNotes[k]
        BY <1>3, <2>1, <2>5 DEF Going, SummaryFits
      <3>2. cxSummary \in Seq(1..MaxRequests) /\ cxNotes \in Seq(1..MaxRequests)
        BY DEF ContextInv, ContextTyped
      <3>3. PICK S : S = 1..MaxRequests
        OBVIOUS
      <3> QED
        BY <3>1, <3>2, <3>3, SameSeq
    <2> QED
      BY <2>2, <2>3, <2>4, <2>5
  <1> QED
    BY <1>1, <1>2, <1>3 DEF RequestsSound

LEMMA ContextStarts == ContextInit => ContextInv
  <1> SUFFICES ASSUME ContextInit PROVE ContextInv
    OBVIOUS
  <1>1. PICK m : m = UserText("task") /\ m \in ContextMessage /\ m.role = "user" /\ m.text = "task" /\ m.folded = FALSE
    BY TextIsMessage
  <1>2. PICK s : s = <<m>>
    OBVIOUS
  <1>3. s \in Seq(ContextMessage) /\ Len(s) = 1 /\ s[1] = m /\ cxMessages = s
    BY <1>1, <1>2 DEF ContextInit
  <1>4. cxLoop \in ContextLoop
    BY AgentContextAssumption DEF ContextInit, ContextLoop
  <1>5. <<>> \in Seq(RoundFrame) /\ <<>> \in Seq(1..MaxRequests) /\ <<>> \in Seq(RoundEntry)
    OBVIOUS
  <1>6. ContextTyped
    BY <1>3, <1>4, <1>5 DEF ContextTyped, ContextInit
  <1>7. Paired(cxMessages, cxDialect)
    BY <1>1, <1>2, <1>3, TaskIsPaired
  <1>8. FramesFit(<<>>, <<>>, s)
    <2>1. \A k \in 1..Len(s) : ~s[k].folded
      <3>1. \A k \in 1..Len(s) : k = 1
        BY <1>3
      <3> QED
        BY <1>1, <1>3, <3>1
    <2> QED
      BY <2>1, NoFramesFit
  <1>9. ContextFits
    BY <1>3, <1>7, <1>8 DEF ContextFits, ContextInit
  <1>10. SummaryFits(<<>>, <<>>)
    <2>1. (1..0) = {}
      OBVIOUS
    <2>2. PICK e : e = <<>> /\ Len(e) = 0
      OBVIOUS
    <2> QED
      BY <2>1, <2>2 DEF SummaryFits
  <1>11. Going
    BY <1>1, <1>3, <1>9, <1>10 DEF Going, ContextInit, Latest
  <1> QED
    BY <1>6, <1>11 DEF ContextInv

LEMMA LoopMoves ==
    ASSUME NEW l \in ContextLoop
    PROVE  /\ \A o \in {"none", "BUDGET_EXHAUSTED", "FAILED", "THROWN", "ANSWERED"} :
                 [l EXCEPT !.at = "ended", !.outcome = o] \in ContextLoop
           /\ \A at \in {"top", "tools"} :
                 /\ [l EXCEPT !.at = at] \in ContextLoop /\ [l EXCEPT !.at = at].at = at
                 /\ [l EXCEPT !.at = at].iteration = l.iteration /\ [l EXCEPT !.at = at].finalize = l.finalize
                 /\ [l EXCEPT !.at = at].edits = l.edits
  BY DEF ContextLoop

\* The run ends: nothing has to fit any more.
LEMMA EndsKeep == ASSUME ContextInv, LoopStops \/ AskThrows PROVE ContextInv'
  <1>1. cxLoop' \in ContextLoop /\ cxLoop'.at = "ended"
    <2>1. PICK o \in {"BUDGET_EXHAUSTED", "FAILED", "THROWN"} : cxLoop' = Ended(o)
      BY DEF LoopStops, AskThrows
    <2>2. cxLoop \in ContextLoop
      BY DEF ContextInv, ContextTyped
    <2>3. Ended(o) \in ContextLoop
      BY <2>2, LoopMoves DEF Ended
    <2>4. Ended(o).at = "ended"
      BY <2>2 DEF Ended, ContextLoop
    <2> QED
      BY <2>1, <2>3, <2>4
  <1>2. UNCHANGED <<cxDialect, cxMessages, cxFrames, cxNotes, cxSummary, cxRound>>
    BY DEF LoopStops, AskThrows
  <1> QED
    BY <1>1, <1>2 DEF ContextInv, ContextTyped

\* What is folded fits, and the texts are the same.
LEMMA FoldingKeepsTexts ==
    ASSUME ContextInv, cxLoop.at # "ended", NEW n \in 0..Foldable,
           NEW s, s = FoldedMessages(n), NEW frames, frames = FoldedFrames(n), NEW notes, notes = FoldedNotes(n)
    PROVE  /\ Paired(s, cxDialect) /\ FramesFit(frames, notes, s)
           /\ s \in Seq(ContextMessage) /\ Len(s) = Len(cxMessages) /\ Len(s) >= 1
           /\ s[Len(s)].role = Latest.role /\ s[Len(s)].text = Latest.text
           /\ frames \in Seq(RoundFrame) /\ notes \in Seq(1..MaxRequests)
           /\ cxDialect = "openai" => SummaryFits(cxSummary, notes)
  <1>1. Going /\ ContextFits
    BY DEF ContextInv, Going
  <1>2. /\ Paired(s, cxDialect) /\ FramesFit(frames, notes, s) /\ Len(s) = Len(cxMessages)
        /\ \A m \in 1..Len(cxMessages) : s[m].role = cxMessages[m].role /\ s[m].text = cxMessages[m].text
        /\ Len(notes) = Len(cxNotes) + n
        /\ \A k \in 1..Len(cxNotes) : notes[k] = cxNotes[k]
    BY <1>1, FoldingFits
  <1>3. PICK len \in Nat : len = Len(cxMessages) /\ len >= 1 /\ len \in 1..len
    BY DEF ContextInv, ContextTyped
  <1>4. s[Len(s)].role = Latest.role /\ s[Len(s)].text = Latest.text
    BY <1>2, <1>3 DEF Latest
  <1>5. s \in Seq(ContextMessage) /\ frames \in Seq(RoundFrame) /\ notes \in Seq(1..MaxRequests)
    BY <1>2 DEF Paired, FramesFit
  <1>6. ASSUME cxDialect = "openai" PROVE SummaryFits(cxSummary, notes)
    <2>1. n \in Nat
      BY <1>1, FoldsTheNext
    <2>0. PICK p \in Nat : p = Len(cxSummary)
      BY DEF ContextInv, ContextTyped
    <2>2. PICK q \in Nat : q = Len(cxNotes)
      BY DEF ContextInv, ContextTyped
    <2>3. p <= q /\ \A k \in 1..p : cxSummary[k] = cxNotes[k]
      BY <1>1, <1>6, <2>0, <2>2 DEF Going, SummaryFits
    <2>4. ASSUME NEW k \in 1..p PROVE cxSummary[k] = notes[k]
      <3>1. k \in 1..q
        BY <2>2, <2>3
      <3> QED
        BY <1>2, <2>2, <2>3, <3>1
    <2>5. p <= Len(notes)
      BY <1>2, <2>0, <2>1, <2>2, <2>3
    <2> QED
      BY <2>0, <2>4, <2>5 DEF SummaryFits
  <1> QED
    BY <1>2, <1>3, <1>4, <1>5, <1>6

LEMMA AskKeeps == ASSUME ContextInv, Ask PROVE ContextInv'
  <1>1. cxLoop.at = "top" /\ cxLoop \in ContextLoop /\ cxLoop.iteration < MaxRequests /\ Going
        /\ UNCHANGED <<cxDialect, cxRound>>
    BY DEF Ask, ContextInv, ContextTyped
  <1>2. PICK n \in 0..Foldable, size \in {"fine", "soft", "hard"} :
            /\ cxMessages' = FoldedMessages(n) \o (IF size = "hard" /\ ~cxLoop.finalize THEN <<UserText("reminder")>> ELSE <<>>)
            /\ cxLoop' = [cxLoop EXCEPT !.at = "asked", !.iteration = @ + 1,
                                        !.edits = size # "fine" /\ cxDialect = "anthropic",
                                        !.finalize = @ \/ (size = "hard" /\ ~cxLoop.finalize)]
            /\ cxFrames' = FoldedFrames(n) /\ cxNotes' = FoldedNotes(n)
            /\ cxSummary' = Summary(FoldedNotes(n))
    BY DEF Ask
  <1>3. PICK s : s = FoldedMessages(n)
    OBVIOUS
  <1>4. PICK frames : frames = FoldedFrames(n)
    OBVIOUS
  <1>5. PICK notes : notes = FoldedNotes(n)
    OBVIOUS
  <1>6. /\ Paired(s, cxDialect) /\ FramesFit(frames, notes, s)
        /\ s \in Seq(ContextMessage) /\ Len(s) = Len(cxMessages) /\ Len(s) >= 1
        /\ s[Len(s)].role = Latest.role /\ s[Len(s)].text = Latest.text
        /\ frames \in Seq(RoundFrame) /\ notes \in Seq(1..MaxRequests)
        /\ cxDialect = "openai" => SummaryFits(cxSummary, notes)
    BY <1>1, <1>3, <1>4, <1>5, FoldingKeepsTexts
  <1>7. /\ cxLoop' \in ContextLoop /\ cxLoop'.at = "asked" /\ cxLoop'.iteration >= 1
        /\ cxLoop'.finalize <=> cxLoop.finalize \/ size = "hard"
        /\ cxLoop'.edits => cxDialect = "anthropic"
    <2>1. cxLoop.iteration + 1 \in 0..MaxRequests /\ cxLoop.iteration + 1 >= 1 /\ cxLoop.finalize \in BOOLEAN
      BY <1>1, AgentContextAssumption DEF ContextLoop
    <2>2. PICK b \in BOOLEAN : b = (size # "fine" /\ cxDialect = "anthropic")
      OBVIOUS
    <2>3. PICK c \in BOOLEAN : c = (cxLoop.finalize \/ (size = "hard" /\ ~cxLoop.finalize))
      OBVIOUS
    <2>4. cxLoop' = [cxLoop EXCEPT !.at = "asked", !.iteration = cxLoop.iteration + 1, !.edits = b, !.finalize = c]
      BY <1>2, <2>2, <2>3
    <2>5. /\ cxLoop' \in ContextLoop /\ cxLoop'.at = "asked" /\ cxLoop'.iteration = cxLoop.iteration + 1
          /\ cxLoop'.edits = b /\ cxLoop'.finalize = c
      BY <1>1, <2>1, <2>4 DEF ContextLoop
    <2> QED
      BY <2>1, <2>2, <2>3, <2>5
  <1>8. /\ cxMessages' \in Seq(ContextMessage) /\ Len(cxMessages') >= 1
        /\ Paired(cxMessages', cxDialect) /\ FramesFit(frames, notes, cxMessages')
        /\ Latest'.role = "user" /\ (Latest'.text = "reminder" <=> cxLoop.finalize \/ size = "hard")
    <2>1. Latest.role = "user" /\ (Latest.text = "reminder" <=> cxLoop.finalize)
      BY <1>1 DEF Going
    <2>2. CASE size = "hard" /\ ~cxLoop.finalize
      <3>1. PICK m : m = UserText("reminder") /\ m \in ContextMessage /\ m.role = "user" /\ m.text = "reminder" /\ m.folded = FALSE
        BY TextIsMessage
      <3>2. cxMessages' = Append(s, m)
        <4>1. cxMessages' = s \o <<m>>
          BY <1>2, <1>3, <2>2, <3>1
        <4>2. s \o <<m>> = Append(s, m)
          BY <1>6, <3>1, JoinedOne
        <4> QED
          BY <4>1, <4>2
      <3>3. Paired(Append(s, m), cxDialect) /\ Append(s, m)[Len(s) + 1] = m /\ Len(Append(s, m)) = Len(s) + 1
        BY <1>6, <2>1, <3>1, NoticeAdded
      <3>4. FramesFit(frames, notes, Append(s, m))
        BY <1>6, <3>1, FramesStay
      <3>5. Latest' = m
        BY <3>2, <3>3 DEF Latest
      <3>6. cxMessages' \in Seq(ContextMessage) /\ Len(cxMessages') >= 1
        BY <3>2, <3>3 DEF Paired
      <3> QED
        BY <2>2, <3>1, <3>2, <3>3, <3>4, <3>5, <3>6
    <2>3. CASE ~(size = "hard" /\ ~cxLoop.finalize)
      <3>1. cxMessages' = s
        <4>1. cxMessages' = s \o <<>>
          BY <1>2, <1>3, <2>3
        <4>2. s \o <<>> = s
          BY <1>6
        <4> QED
          BY <4>1, <4>2
      <3> QED
        BY <1>6, <2>1, <2>3, <3>1 DEF Latest
    <2> QED
      BY <2>2, <2>3
  <1>9. /\ cxSummary' \in Seq(1..MaxRequests)
        /\ cxDialect = "openai" => SummaryFits(cxSummary', notes) /\ Len(cxSummary') = Len(notes)
    <2>1. cxSummary' = IF Len(notes) \in {0, Len(cxSummary)} THEN cxSummary ELSE notes
      BY <1>2, <1>5 DEF Summary
    <2>2. PICK p \in Nat : p = Len(cxSummary)
      BY DEF ContextInv, ContextTyped
    <2>3. PICK q \in Nat : q = Len(notes)
      BY <1>6
    <2>4. SummaryFits(notes, notes)
      BY <2>3 DEF SummaryFits
    <2>5. cxDialect = "openai" => p <= q
      BY <1>6, <2>2, <2>3 DEF SummaryFits
    <2>6. CASE q = 0 \/ q = p
      <3>1. cxSummary' = cxSummary
        BY <2>1, <2>2, <2>3, <2>6
      <3>2. cxDialect = "openai" => p = q
        BY <2>5, <2>6
      <3> QED
        BY <1>6, <2>2, <2>3, <3>1, <3>2 DEF ContextInv, ContextTyped
    <2>7. CASE ~(q = 0 \/ q = p)
      <3>1. cxSummary' = notes
        BY <2>1, <2>2, <2>3, <2>7
      <3> QED
        BY <1>6, <2>4, <3>1
    <2> QED
      BY <2>6, <2>7
  <1>10. ContextTyped'
    BY <1>1, <1>2, <1>4, <1>5, <1>6, <1>7, <1>8, <1>9 DEF ContextInv, ContextTyped
  <1>11. Going'
    <2>1. ContextFits'
      BY <1>1, <1>2, <1>4, <1>5, <1>8 DEF ContextFits
    <2>2. cxDialect' = "openai" => ~cxLoop'.edits
      BY <1>1, <1>7
    <2> QED
      BY <1>1, <1>2, <1>5, <1>7, <1>8, <1>9, <2>1, <2>2 DEF Going
  <1> QED
    BY <1>10, <1>11 DEF ContextInv

LEMMA AskTooLongKeeps == ASSUME ContextInv, AskTooLong PROVE ContextInv'
  <1>1. cxLoop.at = "asked" /\ cxLoop \in ContextLoop /\ Going
        /\ UNCHANGED <<cxDialect, cxSummary, cxRound>>
    BY DEF AskTooLong, ContextInv, ContextTyped
  <1>2. CASE cxLoop.finalize
    <2>1. cxLoop' = Ended("BUDGET_EXHAUSTED") /\ UNCHANGED <<cxMessages, cxFrames, cxNotes>>
      BY <1>2 DEF AskTooLong
    <2>2. cxLoop' \in ContextLoop
      BY <1>1, <2>1, LoopMoves DEF Ended
    <2>3. cxLoop'.at = "ended"
      BY <1>1, <2>1 DEF Ended, ContextLoop
    <2> QED
      BY <1>1, <2>1, <2>2, <2>3 DEF ContextInv, ContextTyped
  <1>3. CASE ~cxLoop.finalize
    <2>1. PICK n : n = Foldable /\ n \in 0..Foldable
      <3>1. Foldable \in Nat
        <4>1. PICK u : u = FlattenSeq([k \in DOMAIN cxFrames |-> IF cxFrames[k].folded THEN <<>> ELSE <<cxFrames[k]>>])
          OBVIOUS
        <4>2. FramesFit(cxFrames, cxNotes, cxMessages)
          BY <1>1 DEF Going, ContextFits
        <4>3. u \in Seq(RoundFrame)
          BY <4>1, <4>2, OpenOnes
        <4> QED
          BY <4>1, <4>3 DEF Foldable, Unfolded
      <3> QED
        BY <3>1
    <2>2. PICK s : s = FoldedMessages(n)
      OBVIOUS
    <2>3. PICK frames : frames = FoldedFrames(n)
      OBVIOUS
    <2>4. PICK notes : notes = FoldedNotes(n)
      OBVIOUS
    <2>5. /\ Paired(s, cxDialect) /\ FramesFit(frames, notes, s)
          /\ s \in Seq(ContextMessage) /\ Len(s) = Len(cxMessages) /\ Len(s) >= 1
          /\ s[Len(s)].role = Latest.role /\ s[Len(s)].text = Latest.text
          /\ frames \in Seq(RoundFrame) /\ notes \in Seq(1..MaxRequests)
          /\ cxDialect = "openai" => SummaryFits(cxSummary, notes)
      BY <1>1, <2>1, <2>2, <2>3, <2>4, FoldingKeepsTexts
    <2>6. PICK m : m = UserText("reminder") /\ m \in ContextMessage /\ m.role = "user" /\ m.text = "reminder" /\ m.folded = FALSE
      BY TextIsMessage
    <2>7. /\ cxMessages' = Append(s, m) /\ cxFrames' = frames /\ cxNotes' = notes
          /\ cxLoop' = [cxLoop EXCEPT !.at = "top", !.finalize = TRUE]
      BY <1>3, <2>1, <2>2, <2>3, <2>4, <2>6 DEF AskTooLong
    <2>8. cxLoop' \in ContextLoop /\ cxLoop'.at = "top" /\ cxLoop'.finalize = TRUE /\ cxLoop'.edits = cxLoop.edits
      BY <1>1, <2>7 DEF ContextLoop
    <2>9. Paired(Append(s, m), cxDialect) /\ Append(s, m)[Len(s) + 1] = m /\ Len(Append(s, m)) = Len(s) + 1
      BY <1>1, <2>5, <2>6, NoticeAdded DEF Going
    <2>10. FramesFit(frames, notes, Append(s, m))
      BY <2>5, <2>6, FramesStay
    <2>11. Latest' = m /\ cxMessages' \in Seq(ContextMessage) /\ Len(cxMessages') >= 1
      BY <2>7, <2>9 DEF Latest, Paired
    <2>12. ContextTyped'
      BY <1>1, <2>5, <2>7, <2>8, <2>11 DEF ContextInv, ContextTyped
    <2>13. ContextFits'
      BY <1>1, <2>7, <2>9, <2>10 DEF ContextFits
    <2>14. Going'
      BY <1>1, <2>5, <2>6, <2>7, <2>8, <2>11, <2>13 DEF Going
    <2> QED
      BY <2>12, <2>14 DEF ContextInv
  <1> QED
    BY <1>2, <1>3

\* The denials of a round in the conversation are a number as well.
LEMMA DeniesAreNumber ==
    ASSUME NEW denies \in Nat, denies = cxLoop.denies, NEW did \in Seq(RoundEntry), did = cxRound
    PROVE  Denies \in Nat
  <1> DEFINE n == Len(did)
             G == [p \in Nat \X (1..n) |-> IF did[p[2]].did = "deny" THEN p[1] + 1 ELSE IF did[p[2]].did = "ok" THEN 0 ELSE p[1]]
             Folds(F) == F = [s \in SUBSET (1..n) |->
                           IF s = {} THEN denies
                           ELSE IF did[Max(s)].did = "deny" THEN F[s \ {Max(s)}] + 1
                                ELSE IF did[Max(s)].did = "ok" THEN 0 ELSE F[s \ {Max(s)}]]
  <1>1. n \in Nat /\ DOMAIN did = 1..n
    OBVIOUS
  <1>2. \E F : Folds(F)
    <2>1. G \in [Nat \X (1..n) -> Nat]
      OBVIOUS
    <2> HIDE DEF n
    <2>2. PICK F \in [SUBSET (1..n) -> Nat] : FoldsTo(F, n, denies, G)
      <3> HIDE DEF G
      <3> QED
        BY <1>1, <2>1, FoldExists
    <2>3. ASSUME NEW s \in SUBSET (1..n), s # {}
          PROVE  G[<<F[s \ {Max(s)}], Max(s)>>]
                   = IF did[Max(s)].did = "deny" THEN F[s \ {Max(s)}] + 1
                     ELSE IF did[Max(s)].did = "ok" THEN 0 ELSE F[s \ {Max(s)}]
      <3>1. Max(s) \in s
        BY <1>1, <2>3, MaxOfSome
      <3>2. <<F[s \ {Max(s)}], Max(s)>> \in Nat \X (1..n)
        BY <2>2, <3>1
      <3> QED
        BY <3>2
    <2>4. Folds(F)
      <3> HIDE DEF G
      <3> QED
        BY <2>2, <2>3 DEF FoldsTo
    <2> QED
      BY <2>4
  <1> DEFINE C == CHOOSE F : Folds(F)
  <1>3. Folds(C)
    BY <1>2
  <1>4. Denies = C[1..n]
    BY <1>1 DEF Denies, FoldLeft, MapThenFoldSet
  <1> HIDE DEF C
  <1>5. ASSUME NEW s \in SUBSET (1..n)
        PROVE  C[s] = IF s = {} THEN denies
                      ELSE IF did[Max(s)].did = "deny" THEN C[s \ {Max(s)}] + 1
                           ELSE IF did[Max(s)].did = "ok" THEN 0 ELSE C[s \ {Max(s)}]
    BY <1>3
  <1> HIDE DEF Folds, G
  <1> DEFINE Wrong == {k \in 0..n : C[1..k] \notin Nat}
  <1>6. C[1..0] \in Nat
    <2>1. (1..0) = {} /\ {} \in SUBSET (1..n)
      OBVIOUS
    <2> QED
      BY <1>5, <2>1
  <1>7. ASSUME NEW k \in Nat, k + 1 <= n, C[1..k] \in Nat PROVE C[1..k + 1] \in Nat
    <2>1. 1..k + 1 \in SUBSET (1..n)
      <3> HIDE DEF n
      <3> QED
        BY <1>1, <1>7
    <2>2. 1..k + 1 # {} /\ Max(1..k + 1) = k + 1 /\ (1..k + 1) \ {k + 1} = 1..k
      BY LastPlace
    <2>3. C[1..k + 1] = IF did[k + 1].did = "deny" THEN C[1..k] + 1 ELSE IF did[k + 1].did = "ok" THEN 0 ELSE C[1..k]
      BY <1>5, <2>1, <2>2
    <2> QED
      BY <1>7, <2>3
  <1> HIDE DEF n
  <1>8. C[1..n] \in Nat
    <2>1. SUFFICES ASSUME C[1..n] \notin Nat PROVE FALSE
      OBVIOUS
    <2>2. Wrong \in SUBSET Nat /\ Wrong # {}
      BY <1>1, <2>1
    <2>3. PICK m \in Wrong : \A k \in Wrong : m <= k
      <3> HIDE DEF Wrong
      <3> QED
        BY <2>2, LeastNumber
    <2>4. m \in 0..n /\ m # 0 /\ C[1..m] \notin Nat
      BY <1>6, <2>3
    <2>5. m - 1 \in Nat /\ m - 1 \notin Wrong /\ (m - 1) + 1 = m /\ m - 1 \in 0..n
      BY <1>1, <2>3, <2>4
    <2> QED
      BY <1>1, <1>7, <2>4, <2>5
  <1> QED
    BY <1>4, <1>8

\* A turn arrives: the conversation goes on from the task alone if it carries a compaction.
LEMMA CallsAre ==
    ASSUME NEW i \in Nat, NEW turn \in Seq({"read", "write", "final"})
    PROVE  /\ Calls(i, turn) \in Seq(CallId) /\ Len(Calls(i, turn)) = Len(turn) /\ DOMAIN Calls(i, turn) = DOMAIN turn
           /\ \A k \in 1..Len(turn) : Calls(i, turn)[k] = <<i, k>>
           /\ turn # <<>> => Calls(i, turn) # <<>>
  <1>1. PICK n \in Nat : n = Len(turn) /\ DOMAIN turn = 1..n
    OBVIOUS
  <1>2. PICK c : c = Calls(i, turn)
    OBVIOUS
  <1>3. c = [k \in 1..n |-> <<i, k>>]
    BY <1>1, <1>2 DEF Calls
  <1>4. ASSUME NEW k \in 1..n PROVE <<i, k>> \in CallId
    BY DEF CallId
  <1>5. c \in [1..n -> CallId]
    BY <1>3, <1>4
  <1>6. c \in Seq(CallId) /\ Len(c) = n /\ DOMAIN c = 1..n
    BY <1>5, ListIsSeq
  <1>7. turn # <<>> => n # 0
    BY <1>1
  <1> QED
    BY <1>1, <1>2, <1>3, <1>6, <1>7

LEMMA HeardFits ==
    ASSUME ContextInv, cxLoop.at = "asked", NEW turn \in Seq({"read", "write", "final"}), NEW compacted \in BOOLEAN,
           compacted => cxLoop.edits, ForgetRounds(compacted),
           NEW s, s = Compaction(turn, cxDialect, compacted)
    PROVE  /\ s \in Seq(ContextMessage) /\ Len(s) >= 1
           /\ s[Len(s)].role = "assistant" /\ s[Len(s)].text = "none" /\ s[Len(s)].calls = Calls(cxLoop.iteration, turn)
           /\ turn # <<>> => Paired(s, cxDialect)
           /\ FramesFit(cxFrames', cxNotes', s)
           /\ cxFrames' \in Seq(RoundFrame) /\ cxNotes' \in Seq(1..MaxRequests)
           /\ cxDialect = "openai" => cxNotes' = cxNotes
  <1>1. /\ Going /\ cxLoop.iteration \in Nat /\ cxDialect \in Dialects /\ cxMessages \in Seq(ContextMessage)
        /\ Len(cxMessages) >= 1 /\ Latest.role = "user"
    BY DEF ContextInv, ContextTyped, ContextLoop, Going
  <1>2. Paired(cxMessages, cxDialect) /\ FramesFit(cxFrames, cxNotes, cxMessages)
    BY <1>1 DEF Going, ContextFits
  <1>3. PICK calls \in Seq(CallId) : calls = Calls(cxLoop.iteration, turn) /\ (turn # <<>> => calls # <<>>)
    BY <1>1, CallsAre
  <1>4. PICK m : m = Message("assistant", "none", calls, <<>>, cxDialect)
    OBVIOUS
  <1>5. m \in ContextMessage /\ m.role = "assistant" /\ m.text = "none" /\ m.calls = calls /\ m.folded = FALSE
    BY <1>1, <1>4, NothingIsSeq DEF Message, ContextMessage
  <1>6. PICK kept : /\ kept = (IF compacted THEN <<Head(cxMessages)>> ELSE cxMessages)
                    /\ s = Append(kept, m)
    BY <1>3, <1>4 DEF Compaction
  <1>7. /\ Paired(kept, cxDialect) /\ kept[Len(kept)].role = "user" /\ FramesFit(cxFrames', cxNotes', kept)
        /\ cxDialect = "openai" => cxNotes' = cxNotes
    <2>1. CASE compacted
      <3>1. Head(cxMessages) = UserText("task")
        <4>1. Head(cxMessages) = cxMessages[1]
          BY <1>1
        <4> QED
          BY <1>2, <4>1 DEF Paired
      <3>2. kept = <<UserText("task")>> /\ Len(kept) = 1 /\ kept[1] = UserText("task")
        BY <1>6, <2>1, <3>1
      <3>3. Paired(kept, cxDialect)
        BY <3>2, TaskIsPaired
      <3>4. \A k \in 1..Len(kept) : ~kept[k].folded
        <4>1. \A k \in 1..Len(kept) : k = 1
          BY <3>2
        <4> QED
          BY <3>2, <4>1, TextIsMessage
      <3>5. cxFrames' = <<>> /\ cxNotes' = <<>>
        BY <2>1 DEF ForgetRounds
      <3>6. FramesFit(cxFrames', cxNotes', kept)
        BY <3>4, <3>5, NoFramesFit
      <3>7. cxDialect # "openai"
        BY <1>1, <2>1 DEF Going
      <3>8. UserText("task").role = "user"
        BY TextIsMessage
      <3> QED
        BY <3>2, <3>3, <3>6, <3>7, <3>8
    <2>2. CASE ~compacted
      <3>1. kept = cxMessages /\ cxFrames' = cxFrames /\ cxNotes' = cxNotes
        BY <1>6, <2>2 DEF ForgetRounds
      <3> QED
        BY <1>1, <1>2, <3>1 DEF Latest
    <2> QED
      BY <2>1, <2>2
  <1>8. kept \in Seq(ContextMessage) /\ Len(kept) >= 1
    BY <1>7 DEF Paired
  <1>9. s \in Seq(ContextMessage) /\ Len(s) = Len(kept) + 1 /\ s[Len(kept) + 1] = m
    <2>1. PICK S : S = ContextMessage
      OBVIOUS
    <2> QED
      BY <1>5, <1>6, <1>8, <2>1, AddToSeq
  <1>10. ASSUME turn # <<>> PROVE Paired(s, cxDialect)
    <2>1. calls # <<>> /\ cxDialect \in Dialects
      BY <1>1, <1>3, <1>10
    <2>2. Paired(kept, cxDialect) /\ kept[Len(kept)].role = "user"
      BY <1>7
    <2>3. Paired(Append(kept, m), cxDialect)
      BY <1>4, <2>1, <2>2, TurnAdded
    <2> QED
      BY <1>6, <2>3
  <1>11. FramesFit(cxFrames', cxNotes', s)
    BY <1>5, <1>6, <1>7, <1>8, FramesStay
  <1>12. cxFrames' \in Seq(RoundFrame) /\ cxNotes' \in Seq(1..MaxRequests)
    BY <1>11 DEF FramesFit
  <1>13. Len(s) >= 1
    BY <1>8, <1>9
  <1> QED
    BY <1>3, <1>5, <1>7, <1>9, <1>10, <1>11, <1>12, <1>13

\* A final_answer is the only call of its turn.
FinalAlone == \A turn \in Turns : "final" \in ToSet(turn) => Len(turn) = 1

LEMMA TurnArrivesKeeps == ASSUME ContextInv, TurnArrives, ~FallbackCrosses, FinalAlone PROVE ContextInv'
  <1>1. cxLoop.at = "asked" /\ cxLoop \in ContextLoop /\ Going /\ cxLoop.iteration \in 1..MaxRequests
        /\ cxSummary \in Seq(1..MaxRequests) /\ cxDialect \in Dialects
        /\ UNCHANGED <<cxDialect, cxSummary>>
    BY DEF TurnArrives, ContextInv, ContextTyped, ContextLoop, Going
  <1>2. PICK turn \in Turns \cup {<<>>}, compacted \in BOOLEAN :
            /\ compacted => cxLoop.edits
            /\ Answered(turn, cxDialect, compacted)
            /\ ForgetRounds(compacted)
    BY DEF TurnArrives
  <1>3. turn \in Seq({"read", "write", "final"})
    <2>1. <<>> \in Seq({"read", "write", "final"})
      BY NothingIsSeq
    <2>2. Turns \subseteq Seq({"read", "write", "final"})
      BY AgentContextAssumption
    <2> QED
      BY <1>2, <2>1, <2>2
  <1>4. PICK i \in Nat : i = cxLoop.iteration /\ i \in 1..MaxRequests
    BY <1>1, AgentContextAssumption
  <1>5. PICK calls \in Seq(CallId) :
            /\ calls = Calls(i, turn) /\ Len(calls) = Len(turn) /\ DOMAIN calls = DOMAIN turn
            /\ \A k \in 1..Len(turn) : calls[k] = <<i, k>>
            /\ turn # <<>> => calls # <<>>
    BY <1>3, CallsAre
  <1>6. PICK s : s = Compaction(turn, cxDialect, compacted)
    OBVIOUS
  <1>7. /\ s \in Seq(ContextMessage) /\ Len(s) >= 1
        /\ s[Len(s)].role = "assistant" /\ s[Len(s)].text = "none" /\ s[Len(s)].calls = calls
        /\ turn # <<>> => Paired(s, cxDialect)
        /\ FramesFit(cxFrames', cxNotes', s)
        /\ cxFrames' \in Seq(RoundFrame) /\ cxNotes' \in Seq(1..MaxRequests)
        /\ cxDialect = "openai" => cxNotes' = cxNotes
    <2>1. compacted => cxLoop.edits
      BY <1>2
    <2>2. ForgetRounds(compacted)
      BY <1>2
    <2> QED
      BY <1>1, <1>3, <1>4, <1>5, <1>6, <2>1, <2>2, HeardFits
  <1>8. <<>> \in Seq(RoundEntry)
    OBVIOUS
  <1>9. CASE cxMessages' = s /\ cxRound' = <<>> /\ \E o \in {"ANSWERED", "BUDGET_EXHAUSTED"} : cxLoop' = Ended(o)
    <2>1. PICK o \in {"ANSWERED", "BUDGET_EXHAUSTED"} : cxLoop' = Ended(o)
      BY <1>9
    <2>2. Ended(o) \in ContextLoop
      BY <1>1, LoopMoves DEF Ended
    <2>3. Ended(o).at = "ended"
      BY <1>1 DEF Ended, ContextLoop
    <2> QED
      BY <1>1, <1>7, <1>8, <1>9, <2>1, <2>2, <2>3 DEF ContextInv, ContextTyped
  <1>10. CASE /\ FinalOf(turn) > 0 /\ ~cxLoop.finalize
              /\ cxMessages' = Append(s, Answers(<<calls[FinalOf(turn)]>>))
              /\ cxLoop' = [cxLoop EXCEPT !.at = "top"]
              /\ cxRound' = <<>>
    <2>1. FinalOf(turn) \in 1..Len(turn) /\ turn[FinalOf(turn)] = "final"
      BY <1>3, <1>10, FinalIsThere
    <2>2. turn \in Turns /\ turn # <<>>
      BY <1>2, <2>1
    <2>3. "final" \in ToSet(turn)
      BY <1>3, <2>1 DEF ToSet
    <2>4. Len(turn) = 1 /\ FinalOf(turn) = 1
      BY <2>1, <2>2, <2>3 DEF FinalAlone
    <2>5. <<calls[1]>> = calls
      <3>1. Len(calls) = 1 /\ calls[1] \in CallId
        BY <1>5, <2>4
      <3>2. PICK c : c = <<calls[1]>>
        OBVIOUS
      <3>3. c \in Seq(CallId) /\ Len(c) = 1 /\ c[1] = calls[1]
        BY <3>1, <3>2
      <3>4. \A k \in 1..1 : k = 1
        OBVIOUS
      <3>5. c = calls
        BY <3>1, <3>3, <3>4, SameSeq
      <3> QED
        BY <3>2, <3>5
    <2>8. Paired(s, cxDialect)
      BY <1>7, <2>2
    <2>6. PICK m : m = AnswersOf(s)
      OBVIOUS
    <2>7. cxMessages' = Append(s, m)
      BY <1>7, <1>10, <2>4, <2>5, <2>6 DEF AnswersOf
    <2>9. /\ Paired(Append(s, m), cxDialect) /\ Append(s, m)[Len(s) + 1] = m /\ m \in ContextMessage
          /\ Len(Append(s, m)) = Len(s) + 1 /\ m.role = "user" /\ m.text = "none" /\ m.folded = FALSE
      BY <1>7, <2>6, <2>8, AnswersAdded
    <2>11. FramesFit(cxFrames', cxNotes', Append(s, m))
      BY <1>7, <2>9, FramesStay
    <2>12. /\ cxLoop' \in ContextLoop /\ cxLoop'.at = "top" /\ cxLoop'.finalize = cxLoop.finalize
           /\ cxLoop'.edits = cxLoop.edits
      BY <1>1, <1>10, LoopMoves
    <2>13. Latest' = m /\ cxMessages' \in Seq(ContextMessage) /\ Len(cxMessages') >= 1
      BY <2>7, <2>9 DEF Latest, Paired
    <2>14. ContextTyped'
      BY <1>1, <1>7, <1>8, <1>10, <2>12, <2>13 DEF ContextTyped
    <2>15. ContextFits'
      BY <1>1, <2>7, <2>9, <2>11 DEF ContextFits
    <2>16. Going'
      BY <1>1, <1>7, <1>10, <2>9, <2>12, <2>13, <2>15 DEF Going
    <2> QED
      BY <2>14, <2>16 DEF ContextInv
  <1>11. CASE /\ turn # <<>> /\ FinalOf(turn) = 0 /\ ~cxLoop.finalize
              /\ cxMessages' = s
              /\ cxLoop' = [cxLoop EXCEPT !.at = "tools"]
              /\ cxRound' = [k \in DOMAIN turn |-> [tool |-> turn[k], call |-> 0, did |-> "none"]]
    <2>1. /\ cxLoop' \in ContextLoop /\ cxLoop'.at = "tools" /\ cxLoop'.finalize = cxLoop.finalize
          /\ cxLoop'.edits = cxLoop.edits /\ cxLoop'.iteration = i
      BY <1>1, <1>4, <1>11, LoopMoves
    <2>2. PICK n \in Nat : n = Len(turn) /\ DOMAIN turn = 1..n
      BY <1>3
    <2>3. ASSUME NEW k \in 1..n
          PROVE  [tool |-> turn[k], call |-> 0, did |-> "none"] \in RoundEntry
      BY <1>3, <2>2 DEF RoundEntry
    <2>4. cxRound' \in [1..n -> RoundEntry]
      BY <1>11, <2>2, <2>3
    <2>5. cxRound' \in Seq(RoundEntry) /\ DOMAIN cxRound' = 1..n
      BY <2>4, ListIsSeq
    <2>6. \A k \in DOMAIN cxRound' : cxRound'[k].did = "none"
      BY <1>11, <2>2, <2>5
    <2>7. calls = [k \in DOMAIN cxRound' |-> <<i, k>>]
      BY <1>5, <2>2, <2>5 DEF Calls
    <2>8. RoundFits'
      BY <1>4, <1>7, <1>11, <2>1, <2>6, <2>7 DEF RoundFits, Latest
    <2>9. ContextTyped'
      BY <1>1, <1>7, <1>11, <2>1, <2>5 DEF ContextTyped
    <2>10. ContextFits'
      BY <1>1, <1>7, <1>11 DEF ContextFits
    <2>11. Going'
      BY <1>1, <1>7, <1>11, <2>1, <2>8, <2>10 DEF Going, Latest
    <2> QED
      BY <2>9, <2>11 DEF ContextInv
  <1> QED
    BY <1>2, <1>4, <1>5, <1>6, <1>9, <1>10, <1>11 DEF Answered

LEMMA ToolReturnsKeeps == ASSUME ContextInv, ToolReturns PROVE ContextInv'
  <1>1. /\ cxLoop.at = "tools" /\ Going /\ ContextTyped
        /\ UNCHANGED <<cxDialect, cxMessages, cxFrames, cxNotes, cxSummary, cxLoop>>
    BY DEF ToolReturns, ContextInv
  <1>2. PICK k \in DOMAIN cxRound, did \in {"ok", "error", "deny"} :
            cxRound' = [cxRound EXCEPT ![k].call = k, ![k].did = did]
    BY DEF ToolReturns, Place
  <1>3. PICK n \in Nat : n = Len(cxRound) /\ DOMAIN cxRound = 1..n
    BY <1>1 DEF ContextTyped
  <1>4. PICK e \in RoundEntry : e = cxRound[k]
    BY <1>1, <1>2, <1>3 DEF ContextTyped
  <1>5. PICK x : x = [e EXCEPT !.call = k, !.did = did]
    OBVIOUS
  <1>6. x \in RoundEntry /\ x.call = k
    <2>1. k \in Nat /\ did \in {"none", "ok", "error", "deny"}
      BY <1>2, <1>3
    <2> QED
      BY <1>5, <2>1 DEF RoundEntry
  <1>7. cxRound' = [cxRound EXCEPT ![k] = x]
    BY <1>1, <1>2, <1>3, <1>4, <1>5, <1>6 DEF ContextTyped, RoundEntry
  <1>8. /\ cxRound' \in Seq(RoundEntry) /\ DOMAIN cxRound' = DOMAIN cxRound
        /\ \A j \in DOMAIN cxRound : cxRound'[j] = IF j = k THEN x ELSE cxRound[j]
    <2>1. cxRound \in Seq(RoundEntry) /\ k \in 1..Len(cxRound)
      BY <1>1, <1>2, <1>3 DEF ContextTyped
    <2>2. PICK S : S = RoundEntry
      OBVIOUS
    <2>3. /\ cxRound' \in Seq(S) /\ Len(cxRound') = Len(cxRound) /\ cxRound'[k] = x
          /\ \A j \in 1..Len(cxRound) : j # k => cxRound'[j] = cxRound[j]
      BY <1>6, <1>7, <2>1, <2>2, PutInSeq
    <2> QED
      BY <2>1, <2>2, <2>3
  <1>9. RoundFits
    BY <1>1 DEF Going
  <1>10. RoundFits'
    <2>1. \A j \in DOMAIN cxRound' : cxRound'[j].did = "none" \/ cxRound'[j].call = j
      BY <1>6, <1>8, <1>9 DEF RoundFits
    <2>2. Latest' = Latest
      BY <1>1 DEF Latest
    <2> QED
      BY <1>1, <1>8, <1>9, <2>1, <2>2 DEF RoundFits
  <1>11. ContextFits'
    BY <1>1 DEF Going, ContextFits
  <1> QED
    BY <1>1, <1>8, <1>10, <1>11 DEF ContextInv, ContextTyped, Going, Latest

LEMMA RoundAnsweredKeeps == ASSUME ContextInv, RoundAnswered PROVE ContextInv'
  <1>1. /\ cxLoop.at = "tools" /\ Going /\ ContextTyped /\ CallsOut = {} /\ cxRound' = <<>>
        /\ cxLoop \in ContextLoop /\ cxDialect \in Dialects /\ cxMessages \in Seq(ContextMessage)
        /\ UNCHANGED <<cxDialect, cxNotes, cxSummary>>
    BY DEF RoundAnswered, ContextInv, ContextTyped
  <1>2. Paired(cxMessages, cxDialect) /\ FramesFit(cxFrames, cxNotes, cxMessages) /\ RoundFits
    BY <1>1 DEF Going, ContextFits
  <1>3. PICK i \in 1..MaxRequests : i = cxLoop.iteration
    BY <1>1, <1>2, AgentContextAssumption DEF RoundFits, ContextLoop
  <1>4. PICK m : m = AnswersOf(cxMessages) /\ m = Answers(Latest.calls)
    BY DEF AnswersOf, Latest
  <1>5. Answers([k \in DOMAIN cxRound |-> <<cxLoop.iteration, cxRound[k].call>>]) = m
    <2>1. \A k \in DOMAIN cxRound : cxRound[k].call = k
      BY <1>1, <1>2 DEF RoundFits, CallsOut
    <2>2. [k \in DOMAIN cxRound |-> <<cxLoop.iteration, cxRound[k].call>>] = Latest.calls
      BY <1>2, <2>1 DEF RoundFits
    <2> QED
      BY <1>4, <2>2
  <1>6. PICK tells \in BOOLEAN : tells = (Denies >= 3 /\ ~cxLoop.told)
    OBVIOUS
  <1>7. PICK f : f = [iteration |-> i, index |-> Len(cxMessages) + 1, folded |-> FALSE]
    OBVIOUS
  <1>8. /\ cxMessages' = cxMessages \o <<m>> \o (IF tells THEN <<UserText("denials")>> ELSE <<>>)
        /\ cxFrames' = Append(cxFrames, f)
        /\ cxLoop' = IF Denies >= 3 /\ cxLoop.told THEN Ended("ANSWERED")
                     ELSE [cxLoop EXCEPT !.at = "top", !.denies = Denies, !.told = @ \/ tells]
    BY <1>3, <1>5, <1>6, <1>7 DEF RoundAnswered
  <1>9. PICK s : s = Append(cxMessages, m)
    OBVIOUS
  <1>10. /\ Paired(s, cxDialect) /\ Len(s) = Len(cxMessages) + 1 /\ s[Len(cxMessages) + 1] = m
         /\ m.answers = Latest.calls /\ m.answers # <<>> /\ m.role = "user" /\ m.text = "none" /\ m.folded = FALSE
         /\ m \in ContextMessage
    BY <1>2, <1>4, <1>9, AnswersAdded DEF RoundFits, Latest
  <1>12. m.answers[1][1] = i
    <2>1. PICK c : c = m.answers /\ c = [k \in DOMAIN cxRound |-> <<i, k>>]
      BY <1>2, <1>3, <1>10 DEF RoundFits
    <2>2. c # <<>>
      BY <1>10, <2>1
    <2>3. PICK n \in Nat : DOMAIN cxRound = 1..n
      BY <1>1 DEF ContextTyped
    <2>4. 1 \in DOMAIN cxRound
      <3>1. CASE n = 0
        BY <2>1, <2>2, <2>3, <3>1
      <3> QED
        BY <2>3, <3>1
    <2>5. c[1] = <<i, 1>>
      BY <2>1, <2>4
    <2> QED
      BY <2>1, <2>5
  <1>13. FramesFit(cxFrames', cxNotes, s)
    BY <1>1, <1>2, <1>7, <1>8, <1>9, <1>10, <1>12, FrameAdded
  <1>14. /\ Paired(cxMessages', cxDialect) /\ FramesFit(cxFrames', cxNotes, cxMessages')
         /\ Latest'.role = "user" /\ Latest'.text # "reminder"
    <2>1. cxMessages \o <<m>> = s
      BY <1>1, <1>9, <1>10, JoinedOne
    <2>2. s \in Seq(ContextMessage) /\ s[Len(s)] = m
      BY <1>10 DEF Paired
    <2>3. CASE tells
      <3>1. PICK note : note = UserText("denials") /\ note \in ContextMessage /\ note.role = "user" /\ note.text = "denials" /\ note.folded = FALSE
        BY TextIsMessage
      <3>2. cxMessages' = Append(s, note)
        <4>1. cxMessages' = s \o <<note>>
          BY <1>8, <2>1, <2>3, <3>1
        <4>2. s \o <<note>> = Append(s, note)
          BY <2>2, <3>1, JoinedOne
        <4> QED
          BY <4>1, <4>2
      <3>3. Paired(Append(s, note), cxDialect) /\ Append(s, note)[Len(s) + 1] = note /\ Len(Append(s, note)) = Len(s) + 1
        BY <1>10, <2>2, <3>1, NoticeAdded
      <3>4. FramesFit(cxFrames', cxNotes, Append(s, note))
        BY <1>13, <2>2, <3>1, FramesStay
      <3>5. Latest' = note
        BY <3>2, <3>3 DEF Latest
      <3> QED
        BY <3>1, <3>2, <3>3, <3>4, <3>5
    <2>4. CASE ~tells
      <3>1. cxMessages' = s
        <4>1. cxMessages' = s \o <<>>
          BY <1>8, <2>1, <2>4
        <4>2. s \o <<>> = s
          BY <2>2
        <4> QED
          BY <4>1, <4>2
      <3> QED
        BY <1>10, <1>13, <2>2, <3>1 DEF Latest
    <2> QED
      BY <2>3, <2>4
  <1>15. cxMessages' \in Seq(ContextMessage) /\ Len(cxMessages') >= 1 /\ cxFrames' \in Seq(RoundFrame)
         /\ <<>> \in Seq(RoundEntry)
    BY <1>14 DEF Paired, FramesFit
  <1>16. CASE Denies >= 3 /\ cxLoop.told
    <2>1. cxLoop' = Ended("ANSWERED")
      BY <1>8, <1>16
    <2>2. cxLoop' \in ContextLoop
      BY <1>1, <2>1, LoopMoves DEF Ended
    <2>3. cxLoop'.at = "ended"
      BY <1>1, <2>1 DEF Ended, ContextLoop
    <2> QED
      BY <1>1, <1>15, <2>2, <2>3 DEF ContextInv, ContextTyped
  <1>17. CASE ~(Denies >= 3 /\ cxLoop.told)
    <2>1. Denies \in Nat
      <3>1. cxLoop.denies \in Nat /\ cxRound \in Seq(RoundEntry)
        BY <1>1 DEF ContextTyped, ContextLoop
      <3> QED
        BY <3>1, DeniesAreNumber
    <2>2. PICK told \in BOOLEAN : told = (cxLoop.told \/ tells)
      OBVIOUS
    <2>3. PICK d \in Nat : d = Denies
      BY <2>1
    <2>4. cxLoop' = [cxLoop EXCEPT !.at = "top", !.denies = d, !.told = told]
      BY <1>8, <1>17, <2>2, <2>3
    <2>5. cxLoop' \in ContextLoop /\ cxLoop'.at = "top" /\ cxLoop'.finalize = cxLoop.finalize /\ cxLoop'.edits = cxLoop.edits
      BY <1>1, <2>4 DEF ContextLoop
    <2>6. ~cxLoop.finalize
      <3>1. Latest.text = "none"
        <4>1. PICK n \in Nat : n = Len(cxMessages) /\ n \in 1..n
          BY <1>2 DEF Paired
        <4>2. TurnFits(cxMessages, cxDialect, n)
          BY <1>2, <4>1 DEF Paired
        <4> QED
          BY <1>2, <4>1, <4>2 DEF TurnFits, RoundFits, Latest
      <3> QED
        BY <1>1, <3>1 DEF Going
    <2>7. ContextFits'
      BY <1>1, <1>14 DEF ContextFits
    <2>8. Going'
      BY <1>1, <1>14, <2>5, <2>6, <2>7 DEF Going
    <2>9. ContextTyped'
      BY <1>1, <1>15, <2>5 DEF ContextTyped
    <2> QED
      BY <2>8, <2>9 DEF ContextInv
  <1> QED
    BY <1>16, <1>17

LEMMA ContextKeeps ==
    ASSUME ~FallbackCrosses, FinalAlone
    PROVE  ContextInv /\ [ContextNext]_contextVars => ContextInv'
  <1> SUFFICES ASSUME ContextInv, [ContextNext]_contextVars PROVE ContextInv'
    OBVIOUS
  <1>1. CASE LoopStops \/ AskThrows
    BY <1>1, EndsKeep
  <1>2. CASE Ask
    BY <1>2, AskKeeps
  <1>3. CASE AskTooLong
    BY <1>3, AskTooLongKeeps
  <1>4. CASE TurnArrives
    BY <1>4, TurnArrivesKeeps
  <1>5. CASE ToolReturns
    BY <1>5, ToolReturnsKeeps
  <1>6. CASE RoundAnswered
    BY <1>6, RoundAnsweredKeeps
  <1>7. CASE UNCHANGED contextVars
    BY <1>7 DEF contextVars, ContextInv, ContextTyped, Going, ContextFits, Latest, RoundFits
  <1> QED
    BY <1>1, <1>2, <1>3, <1>4, <1>5, <1>6, <1>7 DEF ContextNext

-----------------------------------------------------------------------------
(* The parts together *)

RunPartsInv == (part = "agent" => RunInv) /\ (part = "context" => ContextInv)

\* Of the parts only one moves, and an invariant of each is an invariant of all.
LEMMA RunPartsKeep ==
    ASSUME ~FallbackCrosses, FinalAlone
    PROVE  RunPartsInv /\ [Next]_partVars => RunPartsInv'
  <1> SUFFICES ASSUME RunPartsInv, [Next]_partVars PROVE RunPartsInv'
    OBVIOUS
  <1>1. CASE AgentMoves(AgentNext)
    <2>1. part = "agent" /\ part' = "agent" /\ AgentNext
      BY <1>1 DEF AgentMoves, Moves
    <2>2. RunInv'
      BY <2>1, AgentKeeps DEF RunPartsInv
    <2> QED
      BY <2>1, <2>2 DEF RunPartsInv
  <1>2. CASE ContextMoves(ContextNext)
    <2>1. part = "context" /\ part' = "context" /\ ContextNext
      BY <1>2 DEF ContextMoves, Moves
    <2>2. ContextInv'
      BY <2>1, ContextKeeps DEF RunPartsInv
    <2> QED
      BY <2>1, <2>2 DEF RunPartsInv
  <1>3. CASE part' \in {"breaker", "stream", "mcp"}
    BY <1>3 DEF RunPartsInv
  <1>4. CASE UNCHANGED partVars
    <2>1. part' = part /\ UNCHANGED agentVars /\ UNCHANGED contextVars
      BY <1>4 DEF partVars
    <2>2. RunInv => RunInv'
      BY <2>1, AgentKeeps
    <2>3. ContextInv => ContextInv'
      BY <2>1, ContextKeeps
    <2> QED
      BY <2>1, <2>2, <2>3 DEF RunPartsInv
  <1>5. CASE BreakerMoves(BreakerNext) \/ StreamMoves(StreamNext) \/ McpMoves(McpNext)
    BY <1>3, <1>5 DEF BreakerMoves, StreamMoves, McpMoves, Moves
  <1> QED
    BY <1>1, <1>2, <1>4, <1>5 DEF Next

LEMMA RunPartsStart == Init => RunPartsInv
  BY AgentStarts, ContextStarts DEF Init, RunPartsInv

\* However an agent's run nests, whatever its tools and the model answer: it keeps to its budget, without
\* a cycle and not too deep, asks once after its last chance, and every conversation it sends is complete:
\* each call answered at once and in order, nothing found out and lost.  Provided that a model calls
\* final_answer alone and that a request is answered by a provider of its own dialect.
THEOREM RunSoundAlways ==
    ASSUME ~FallbackCrosses, FinalAlone
    PROVE  Spec => []RunSound
  <1>1. RunPartsInv /\ [Next]_partVars => RunPartsInv'
    BY RunPartsKeep
  <1>2. RunPartsInv => RunSound
    <2>1. RunInv => BudgetKept /\ NestingSound /\ OneLastChance
      BY RunInvSuffices
    <2>2. ContextInv => RequestsSound
      BY ContextSuffices
    <2> QED
      BY <2>1, <2>2 DEF RunPartsInv, RunSound
  <1> QED
    BY <1>1, <1>2, RunPartsStart, PTL DEF Spec

PartsInv ==
    /\ part \in {"agent", "context", "breaker", "stream", "mcp"} /\ RunPartsInv
    /\ part = "breaker" => BreakerInv
    /\ part = "stream" => StreamInv
    /\ part = "mcp" => McpInv

\* Every part keeps its shape, under the premises of the parts' own invariants.
THEOREM PartTypesAlways ==
    ASSUME ~FallbackCrosses, FinalAlone, ~ProbeRejections, TellInOrder
    PROVE  Spec => []PartTypeOK
  <1>1. PartsInv /\ [Next]_partVars => PartsInv'
    <2> SUFFICES ASSUME PartsInv, [Next]_partVars PROVE PartsInv'
      OBVIOUS
    <2>1. part' = part /\ RunPartsInv'
      BY RunPartsKeep DEF PartsInv, Next, AgentMoves, ContextMoves, BreakerMoves, StreamMoves, McpMoves, Moves, partVars
    <2>2. part = "breaker" => [BreakerNext]_breakerVars
      BY DEF Next, AgentMoves, ContextMoves, BreakerMoves, StreamMoves, McpMoves, Moves, partVars
    <2>3. part = "stream" => [StreamNext]_streamVars
      BY DEF Next, AgentMoves, ContextMoves, BreakerMoves, StreamMoves, McpMoves, Moves, partVars
    <2>4. part = "mcp" => [McpNext]_mcpVars
      BY DEF Next, AgentMoves, ContextMoves, BreakerMoves, StreamMoves, McpMoves, Moves, partVars
    <2>5. part = "breaker" => BreakerInv'
      BY <2>2, NextBreaker DEF PartsInv
    <2>6. part = "stream" => StreamInv'
      BY <2>3, NextStream DEF PartsInv
    <2>7. part = "mcp" => McpInv'
      BY <2>4, NextMcp DEF PartsInv
    <2> QED
      BY <2>1, <2>5, <2>6, <2>7 DEF PartsInv
  <1>2. Init => PartsInv
    BY RunPartsStart, InitBreaker, StreamStarts, InitMcp DEF Init, PartsInv
  <1>3. PartsInv => PartTypeOK
    <2>1. RunInv => AgentTypeOK
      BY RunInvSuffices
    <2>2. ContextInv => ContextTypeOK
      BY ContextSuffices
    <2> QED
      BY <2>1, <2>2 DEF PartsInv, RunPartsInv, BreakerInv, StreamInv, McpInv, PartTypeOK
  <1> QED
    BY <1>1, <1>2, <1>3, PTL DEF Spec

=============================================================================
