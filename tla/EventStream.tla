---------------------------- MODULE EventStream ----------------------------
(***************************************************************************)
(* The events of one task on their way to the browser: the stored rows and *)
(* the listeners of TaskEvents (agentcore events.ts), the SSE stream that  *)
(* replays and then follows them (api/sse.ts), and the client that         *)
(* reconnects and drops duplicates (useTaskStream.ts, taskStreamReducer).  *)
(*                                                                         *)
(* A row is stored first and told to the listeners when the append has     *)
(* returned; the stream reads the history across an await.                 *)
(***************************************************************************)
EXTENDS Naturals, Sequences, FiniteSets, SequencesExt

CONSTANTS
    MaxRows,       \* bound: the rows of the task
    MaxDrops,      \* bound: how often the connection is lost
    TellInOrder    \* appends return in the order of their rows

ASSUME StreamAssumption == MaxRows \in Nat /\ MaxDrops \in Nat /\ TellInOrder \in BOOLEAN

VARIABLES
    esRows,    \* query_events of the task: row n is an ordinary event or a terminal one
    esUntold,  \* the rows whose append has not returned yet
    esServer,  \* the request on the server
    esWire,    \* what the server has written and the browser has not read
    esClient,  \* lastEventIdRef, terminatedRef and the reducer's events
    esDrops    \* how often the connection was lost

streamVars == <<esRows, esUntold, esServer, esWire, esClient, esDrops>>

RowIds == 1..MaxRows
NoRequest == [phase |-> "none", after |-> 0, lastSent |-> 0, history |-> <<>>, buffer |-> <<>>]

StreamTypeOK ==
    /\ esRows \in Seq({"event", "terminal"}) /\ Len(esRows) <= MaxRows
    /\ esUntold \subseteq DOMAIN esRows
    /\ esServer \in [phase : {"none", "subscribed", "read", "live", "closed"}, after : 0..MaxRows,
                     lastSent : 0..MaxRows, history : Seq(RowIds), buffer : Seq(RowIds)]
    /\ esWire \in Seq(RowIds)
    /\ esClient \in [lastEventId : 0..MaxRows, terminated : BOOLEAN, events : Seq(RowIds)]
    /\ esDrops \in 0..MaxDrops

StreamInit ==
    /\ esRows = <<>> /\ esUntold = {}
    /\ esServer = NoRequest /\ esWire = <<>>
    /\ esClient = [lastEventId |-> 0, terminated |-> FALSE, events |-> <<>>]
    /\ esDrops = 0

IsTerminal(n) == esRows[n] = "terminal"

-----------------------------------------------------------------------------
(* TaskEvents and the stream on the server *)

\* emit: the row is appended.  After the terminal event the pipeline may still emit.
RowAppended ==
    /\ Len(esRows) < MaxRows
    /\ \E kind \in {"event", "terminal"} :
        /\ kind = "terminal" => \A n \in DOMAIN esRows : ~IsTerminal(n)
        /\ esRows' = Append(esRows, kind)
    /\ esUntold' = esUntold \cup {Len(esRows) + 1}
    /\ UNCHANGED <<esServer, esWire, esClient, esDrops>>

\* writeEvent for each of rows in turn: what is new is written.  Once the terminal event is
\* written the stream is closed at the end, not before.
Fresher(last, rows) == FoldLeft(LAMBDA w, n : IF n <= Last(<<last>> \o w) THEN w ELSE Append(w, n), <<>>, rows)
Writes(rows, phase) ==
    LET w == Fresher(esServer.lastSent, rows) IN
    /\ esWire' = esWire \o w
    /\ esServer' = [esServer EXCEPT !.lastSent = Last(<<@>> \o w), !.history = <<>>, !.buffer = <<>>,
            !.phase = IF \E i \in DOMAIN w : IsTerminal(w[i]) THEN "closed" ELSE phase]

\* emit: the append has returned and the listener is told.
RowTold(n) ==
    /\ n \in esUntold
    /\ TellInOrder => \A m \in esUntold : n <= m
    /\ esUntold' = esUntold \ {n}
    /\ CASE esServer.phase \in {"subscribed", "read"} ->
                esServer' = [esServer EXCEPT !.buffer = Append(@, n)] /\ UNCHANGED esWire
         [] esServer.phase = "live" -> Writes(<<n>>, "live")
         [] OTHER -> UNCHANGED <<esServer, esWire>>
    /\ UNCHANGED <<esRows, esClient, esDrops>>

\* Mutant of Replayed: the buffer is not written.
ReplayOnly ==
    /\ esServer.phase = "read"
    /\ Writes(esServer.history, "live")
    /\ UNCHANGED <<esRows, esUntold, esClient, esDrops>>

\* replayAfter reads the rows after Last-Event-ID.
HistoryRead ==
    /\ esServer.phase = "subscribed"
    /\ esServer' = [esServer EXCEPT !.phase = "read",
            !.history = [i \in 1..Len(esRows) - esServer.after |-> esServer.after + i]]
    /\ UNCHANGED <<esRows, esUntold, esWire, esClient, esDrops>>

\* The history has arrived: it is written, then what was told meanwhile, and the stream is live.
Replayed ==
    /\ esServer.phase = "read"
    /\ Writes(esServer.history \o esServer.buffer, "live")
    /\ UNCHANGED <<esRows, esUntold, esClient, esDrops>>

-----------------------------------------------------------------------------
(* The client *)

\* connect: the request reaches the server, which subscribes to the task.
Connects ==
    /\ ~esClient.terminated /\ esServer.phase = "none"
    /\ esServer' = [NoRequest EXCEPT !.phase = "subscribed", !.after = esClient.lastEventId,
                                     !.lastSent = esClient.lastEventId]
    /\ UNCHANGED <<esRows, esUntold, esWire, esClient, esDrops>>

\* handle and the reducer: the id is remembered, the event applied unless it was seen, and the
\* terminal event ends it.
FrameHandled ==
    /\ esWire # <<>> /\ ~esClient.terminated
    /\ LET n == Head(esWire) IN
       esClient' = [lastEventId |-> n, terminated |-> IsTerminal(n),
                    events |-> IF n \in ToSet(esClient.events) THEN esClient.events
                                                               ELSE Append(esClient.events, n)]
    /\ esWire' = Tail(esWire)
    /\ UNCHANGED <<esRows, esUntold, esServer, esDrops>>

\* The connection is lost, with what was on its way; onerror connects again after a while.
ConnectionLost ==
    /\ esServer.phase # "none" /\ ~esClient.terminated /\ esDrops < MaxDrops
    /\ esServer' = NoRequest
    /\ esWire' = <<>>
    /\ esDrops' = esDrops + 1
    /\ UNCHANGED <<esRows, esUntold, esClient>>

StreamProgress ==
    \/ \E n \in esUntold : RowTold(n)
    \/ HistoryRead \/ Replayed \/ Connects \/ FrameHandled

StreamNext == RowAppended \/ StreamProgress \/ ConnectionLost

\* Appends return, the history is read, the client retries for ever; nothing has to be emitted.
StreamSpec == StreamInit /\ [][StreamNext]_streamVars /\ WF_streamVars(StreamProgress)

-----------------------------------------------------------------------------
(* Properties *)

\* The browser's timeline is the log: the events applied are the first rows in order, none
\* missing and none twice, through replays, buffered rows and lost connections.
TimelineExact == \A i \in DOMAIN esClient.events : esClient.events[i] = i

\* The browser learns how the task ended, once that is stored.
EndIsSeen == (\E n \in DOMAIN esRows : IsTerminal(n)) ~> esClient.terminated

=============================================================================
