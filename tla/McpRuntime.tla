----------------------------- MODULE McpRuntime -----------------------------
(***************************************************************************)
(* The runtime of one MCP server over http (agentcore mcp/runtime.ts): the *)
(* pool of connections, the calls that take and return them, the failures  *)
(* that mark the server's row ERROR, and the probes that mark it ACTIVE    *)
(* again, while an administrator may put the status.                       *)
(*                                                                         *)
(* Every read and write of the row is a step of its own.                   *)
(***************************************************************************)
EXTENDS Naturals, FiniteSets

CONSTANTS
    McpCallers,          \* the calls that may overlap
    McpProbes,           \* bound: probes under way at once
    MaxPool,             \* maxPoolPerServer
    ConnectRetries,      \* the length of backoffMs
    FailureThreshold,
    MaxFaults            \* bound: failures of the server, calls that time out, statuses put

ASSUME McpAssumption ==
    /\ {MaxPool, ConnectRetries, MaxFaults} \subseteq Nat
    /\ FailureThreshold \in Nat \ {0}

VARIABLES
    mcStatus,    \* McpServerConfig.status
    mcUp,        \* the server can be reached
    mcFails,     \* consecutiveFailures, up to the threshold
    mcPool,      \* how many connections are idle
    mcCalls,     \* per call: where it is, and how often it has tried to connect
    mcTimers,    \* recovery probes that are waiting for their timer
    mcTimerSet,  \* probeTimer is set
    mcProbing,   \* per probe: where it is
    mcFaults

mcpVars == <<mcStatus, mcUp, mcFails, mcPool, mcCalls, mcTimers, mcTimerSet, mcProbing, mcFaults>>
probeVars == <<mcTimers, mcTimerSet, mcProbing>>
serverVars == <<mcUp, mcFaults>>

Resting == [pc |-> "idle", tries |-> 0]
McpCall == [pc : {"idle", "connecting", "calling", "mark", "markWrite", "markProbe"}, tries : 0..ConnectRetries]

McpTypeOK ==
    /\ mcStatus \in {"ACTIVE", "ERROR", "DISABLED"}
    /\ mcUp \in BOOLEAN /\ mcFails \in 0..FailureThreshold /\ mcPool \in 0..MaxPool
    /\ mcCalls \in [McpCallers -> McpCall]
    /\ mcTimers \in Nat /\ mcTimerSet \in BOOLEAN
    /\ mcProbing \in [McpProbes -> {"idle", "connecting", "put"}]
    /\ mcFaults \in 0..MaxFaults

McpInit ==
    /\ mcStatus = "ACTIVE" /\ mcUp = TRUE /\ mcFails = 0 /\ mcPool = 0
    /\ mcCalls = [c \in McpCallers |-> Resting]
    /\ mcTimers = 0 /\ mcTimerSet = FALSE /\ mcProbing = [p \in McpProbes |-> "idle"]
    /\ mcFaults = 0

CallAt(c, pc) == mcCalls[c].pc = pc
Goes(c, pc) == mcCalls' = [mcCalls EXCEPT ![c] = [Resting EXCEPT !.pc = pc]]

-----------------------------------------------------------------------------
(* acquire, connect and the call *)

\* callTool and refreshTools: refused at once unless the row says ACTIVE; otherwise a connection
\* from the pool, or a new one.
CallBegins(c) ==
    /\ CallAt(c, "idle") /\ mcStatus = "ACTIVE"
    /\ IF mcPool > 0 THEN mcPool' = mcPool - 1 /\ Goes(c, "calling")
                     ELSE Goes(c, "connecting") /\ UNCHANGED mcPool
    /\ UNCHANGED <<mcStatus, mcFails, probeVars, serverVars>>

CallConnects(c) ==
    /\ CallAt(c, "connecting") /\ mcUp
    /\ Goes(c, "calling")
    /\ UNCHANGED <<mcStatus, mcFails, mcPool, probeVars, serverVars>>

\* One more failure is counted; at the threshold the server is to be marked.
OneMore == IF mcFails < FailureThreshold THEN mcFails + 1 ELSE mcFails

\* An attempt fails: tried again after the backoff, or given up.
ConnectFails(c) ==
    /\ CallAt(c, "connecting") /\ ~mcUp
    /\ mcFails' = OneMore
    /\ IF OneMore = FailureThreshold THEN Goes(c, "mark")
       ELSE IF mcCalls[c].tries < ConnectRetries
       THEN mcCalls' = [mcCalls EXCEPT ![c].tries = @ + 1]
       ELSE Goes(c, "idle")
    /\ UNCHANGED <<mcStatus, mcPool, probeVars, serverVars>>

\* Mutant of Release: the pool is not measured.
ReleaseAlways == mcPool' = mcPool + 1

\* release: into the pool, or closed if that is full.
Release == mcPool' = IF mcPool < MaxPool THEN mcPool + 1 ELSE mcPool

\* The tool answers.
CallAnswered(c) ==
    /\ CallAt(c, "calling") /\ mcUp
    /\ mcFails' = 0
    /\ Release
    /\ Goes(c, "idle")
    /\ UNCHANGED <<mcStatus, probeVars, serverVars>>

\* The call fails: its connection is closed and the failure counted.
CallFails(c) ==
    /\ CallAt(c, "calling") /\ ~mcUp
    /\ mcFails' = OneMore
    /\ Goes(c, IF OneMore = FailureThreshold THEN "mark" ELSE "idle")
    /\ UNCHANGED <<mcStatus, mcPool, probeVars, serverVars>>

\* So it is if the answer takes too long.
CallTimesOut(c) ==
    /\ CallAt(c, "calling") /\ mcFaults < MaxFaults
    /\ mcFaults' = mcFaults + 1
    /\ mcFails' = OneMore
    /\ Goes(c, IF OneMore = FailureThreshold THEN "mark" ELSE "idle")
    /\ UNCHANGED <<mcStatus, mcPool, probeVars, mcUp>>

\* A connection that has been idle for 30 s is closed.
IdleCloses ==
    /\ mcPool > 0
    /\ mcPool' = mcPool - 1
    /\ UNCHANGED <<mcStatus, mcFails, mcCalls, probeVars, serverVars>>

-----------------------------------------------------------------------------
(* markError and the recovery probe *)

\* markError reads the row.
MarkReads(c) ==
    /\ CallAt(c, "mark")
    /\ Goes(c, IF mcStatus = "ERROR" THEN "markProbe" ELSE "markWrite")
    /\ UNCHANGED <<mcStatus, mcFails, mcPool, probeVars, serverVars>>

\* The row was not ERROR when it was read: it is put so.
MarkWrites(c) ==
    /\ CallAt(c, "markWrite")
    /\ mcStatus' = "ERROR"
    /\ Goes(c, "markProbe")
    /\ UNCHANGED <<mcFails, mcPool, probeVars, serverVars>>

\* startRecoveryProbe, unless a timer is set already.
MarkProbes(c) ==
    /\ CallAt(c, "markProbe")
    /\ IF mcTimerSet THEN UNCHANGED <<mcTimers, mcTimerSet>>
                     ELSE mcTimers' = mcTimers + 1 /\ mcTimerSet' = TRUE
    /\ Goes(c, "idle")
    /\ UNCHANGED <<mcStatus, mcFails, mcPool, mcProbing, serverVars>>

\* Mutant of ProbeFires: probeTimer is not cleared.
ProbeFiresSet(p) ==
    /\ mcTimers > 0 /\ mcProbing[p] = "idle"
    /\ mcTimers' = mcTimers - 1
    /\ mcProbing' = [mcProbing EXCEPT ![p] = IF mcStatus = "ERROR" THEN "connecting" ELSE "idle"]
    /\ UNCHANGED <<mcStatus, mcFails, mcPool, mcCalls, mcTimerSet, serverVars>>

\* A timer fires: the probe has nothing to do unless the row says ERROR.
ProbeFires(p) ==
    /\ mcTimers > 0 /\ mcProbing[p] = "idle"
    /\ mcTimers' = mcTimers - 1 /\ mcTimerSet' = FALSE
    /\ mcProbing' = [mcProbing EXCEPT ![p] = IF mcStatus = "ERROR" THEN "connecting" ELSE "idle"]
    /\ UNCHANGED <<mcStatus, mcFails, mcPool, mcCalls, serverVars>>

\* Mutant of ProbeFails: the probe does not come again.
ProbeGivesUp(p) ==
    /\ mcProbing[p] = "connecting" /\ ~mcUp
    /\ mcProbing' = [mcProbing EXCEPT ![p] = "idle"]
    /\ UNCHANGED <<mcStatus, mcFails, mcPool, mcCalls, mcTimers, mcTimerSet, serverVars>>

\* The server does not answer: again after the interval.
ProbeFails(p) ==
    /\ mcProbing[p] = "connecting" /\ ~mcUp
    /\ mcProbing' = [mcProbing EXCEPT ![p] = "idle"]
    /\ mcTimers' = mcTimers + 1 /\ mcTimerSet' = TRUE
    /\ UNCHANGED <<mcStatus, mcFails, mcPool, mcCalls, serverVars>>

\* The server lists its tools: the failures are forgotten and the connection is released.
ProbeAnswered(p) ==
    /\ mcProbing[p] = "connecting" /\ mcUp
    /\ mcFails' = 0
    /\ Release
    /\ mcProbing' = [mcProbing EXCEPT ![p] = "put"]
    /\ UNCHANGED <<mcStatus, mcCalls, mcTimers, mcTimerSet, serverVars>>

\* The row is put back as ACTIVE, whatever it says by now.
ProbePuts(p) ==
    /\ mcProbing[p] = "put"
    /\ mcStatus' = "ACTIVE"
    /\ mcProbing' = [mcProbing EXCEPT ![p] = "idle"]
    /\ UNCHANGED <<mcFails, mcPool, mcCalls, mcTimers, mcTimerSet, serverVars>>

-----------------------------------------------------------------------------
(* The surroundings *)

\* The administrator puts the status (the route that reads and puts the row, at once).
StatusPut ==
    /\ mcFaults < MaxFaults
    /\ mcFaults' = mcFaults + 1
    /\ \E status \in {"ACTIVE", "DISABLED"} : status # mcStatus /\ mcStatus' = status
    /\ UNCHANGED <<mcFails, mcPool, mcCalls, probeVars, mcUp>>

ServerFails ==
    /\ mcUp /\ mcFaults < MaxFaults
    /\ mcUp' = FALSE /\ mcFaults' = mcFaults + 1
    /\ UNCHANGED <<mcStatus, mcFails, mcPool, mcCalls, probeVars>>

ServerReturns ==
    /\ ~mcUp
    /\ mcUp' = TRUE
    /\ UNCHANGED <<mcStatus, mcFails, mcPool, mcCalls, probeVars, mcFaults>>

Marking(c) == MarkReads(c) \/ MarkWrites(c) \/ MarkProbes(c)
Probing(p) == ProbeFires(p) \/ ProbeFails(p) \/ ProbeAnswered(p) \/ ProbePuts(p)

McpNext ==
    \/ \E c \in McpCallers :
        \/ CallBegins(c) \/ CallConnects(c) \/ ConnectFails(c)
        \/ CallAnswered(c) \/ CallFails(c) \/ CallTimesOut(c) \/ Marking(c)
    \/ \E p \in McpProbes : Probing(p)
    \/ IdleCloses \/ StatusPut \/ ServerFails \/ ServerReturns

\* The promises and timers of the runtime go on, and a server that is down comes back; no call
\* and no administrator need come.
McpSpec ==
    /\ McpInit /\ [][McpNext]_mcpVars
    /\ \A c \in McpCallers : WF_mcpVars(Marking(c))
    /\ \A p \in McpProbes : WF_mcpVars(Probing(p))
    /\ WF_mcpVars(ServerReturns)

-----------------------------------------------------------------------------
(* Properties *)

\* The probe that a server in ERROR needs is never lost, however many failing calls mark it
\* while another probe is waiting, under way or about to put its result.
ErrorIsProbed ==
    mcStatus = "ERROR" =>
        \/ mcTimers > 0
        \/ \E p \in McpProbes : mcProbing[p] # "idle"
        \/ \E c \in McpCallers : CallAt(c, "markProbe")

\* runtime.ts:13: a server in ERROR, which refuses every call, becomes ACTIVE again once it
\* can be reached.
McpRecovers == mcStatus = "ERROR" ~> mcStatus # "ERROR"

=============================================================================
