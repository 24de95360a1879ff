--------------------------- MODULE ConnectorSync ---------------------------
(***************************************************************************)
(* One connection and its datasets (connectors/service.ts): a sync reads   *)
(* the connection, fetches dataset after dataset and writes each one's     *)
(* record and rows; edits change name, configuration and schedule, and the *)
(* schedule is also registered with the scheduler.                         *)
(*                                                                         *)
(* A fetch is known by its number.  Datasets marked as time series go to   *)
(* the writer of TimeSeries and are not kept here.                         *)
(***************************************************************************)
EXTENDS Naturals, Sequences, FiniteSets

CONSTANTS
    Datasets,       \* what listDatasets of the adapter answers: a sequence of names
    Crons,          \* schedules an edit may set
    NoCron,
    MaxSyncs,       \* bound: how often a sync is started
    Syncers,        \* syncs that may overlap
    EditsDuringSync \* whether an edit may overlap a sync

Names == {Datasets[i] : i \in DOMAIN Datasets}

ASSUME ConnectorAssumption ==
    Datasets \in Seq(Names) /\ MaxSyncs \in Nat /\ NoCron \notin Crons /\ EditsDuringSync \in BOOLEAN

VARIABLES
    conn,     \* the connection: schedule, status and the sync it was last synchronised by
    cronJob,  \* the schedule registered with the scheduler
    edit,     \* of the administrator: the connection it is about to put
    editBroke, \* history: the last edit did not get to its end
    rawSets,  \* per name the raw datasets, in order of creation: the sync their record and their rows are of
    syncJobs,     \* per sync: its status
    syncers   \* per call of sync: the connection it has read and how far it is

connVars == <<conn, cronJob, edit, editBroke, rawSets, syncJobs, syncers>>

SyncNos == 1..MaxSyncs
Conn == [schedule : Crons \cup {NoCron}, status : {"ACTIVE", "ERROR"}, lastSync : {0} \cup SyncNos]
FreshConn == [schedule |-> NoCron, status |-> "ACTIVE", lastSync |-> 0]
Syncer == [pc : {"idle", "fetch", "record", "rows", "done", "failed"}, job : {0} \cup SyncNos, had : Conn, at : Nat, record : Nat]
NoSync == [pc |-> "idle", job |-> 0, had |-> FreshConn, at |-> 0, record |-> 0]
EditOp == [pc : {"idle", "register", "put"}, had : Conn]
NoEditOp == [pc |-> "idle", had |-> FreshConn]

ConnTypeOK ==
    /\ conn \in Conn /\ cronJob \in Crons \cup {NoCron} /\ edit \in EditOp
    /\ editBroke \in BOOLEAN /\ rawSets \in [Names -> Seq([head : SyncNos, rows : {0} \cup SyncNos])]
    /\ syncJobs \in [SyncNos -> {"none", "RUNNING", "SUCCEEDED", "FAILED"}] /\ syncers \in [Syncers -> Syncer]

ConnInit ==
    /\ conn = FreshConn /\ cronJob = NoCron /\ edit = NoEditOp
    /\ editBroke = FALSE /\ rawSets = [n \in Names |-> <<>>]
    /\ syncJobs = [j \in SyncNos |-> "none"] /\ syncers = [s \in Syncers |-> NoSync]

-----------------------------------------------------------------------------
(* updateConnection *)

\* The connection is read and its schedule changed,
EditRead == \E cron \in Crons \cup {NoCron} :
    /\ edit = NoEditOp
    /\ EditsDuringSync \/ \A s \in Syncers : syncers[s] = NoSync
    /\ edit' = [pc |-> "register", had |-> [conn EXCEPT !.schedule = cron]]
    /\ UNCHANGED <<conn, cronJob, editBroke, rawSets, syncJobs, syncers>>

\* the job registered, replaced or removed
CronRegistered ==
    /\ edit.pc = "register"
    /\ cronJob' = edit.had.schedule
    /\ edit' = [edit EXCEPT !.pc = "put"]
    /\ UNCHANGED <<conn, editBroke, rawSets, syncJobs, syncers>>

\* and the connection put.
EditPut ==
    /\ edit.pc = "put"
    /\ conn' = edit.had /\ edit' = NoEditOp /\ editBroke' = FALSE
    /\ UNCHANGED <<cronJob, rawSets, syncJobs, syncers>>

ConnEditBreaks ==
    /\ edit # NoEditOp
    /\ edit' = NoEditOp /\ editBroke' = TRUE
    /\ UNCHANGED <<conn, cronJob, rawSets, syncJobs, syncers>>

-----------------------------------------------------------------------------
(* sync *)

Moves(s, pc) == syncers' = [syncers EXCEPT ![s].pc = pc]

\* The connection is read and the job stored as RUNNING.
SyncStarts(s) == \E j \in SyncNos :
    /\ syncers[s] = NoSync /\ syncJobs[j] = "none" /\ \A i \in 1..(j - 1) : syncJobs[i] # "none"
    /\ EditsDuringSync \/ edit = NoEditOp
    /\ syncJobs' = [syncJobs EXCEPT ![j] = "RUNNING"]
    /\ syncers' = [syncers EXCEPT ![s] = [pc |-> "fetch", job |-> j, had |-> conn, at |-> 1, record |-> 0]]
    /\ UNCHANGED <<conn, cronJob, edit, editBroke, rawSets>>

NameOf(s) == Datasets[syncers[s].at]

\* The raw dataset of a name, the first if there are several; 0 without one.
RecordOf(n) == IF rawSets[n] = <<>> THEN 0 ELSE 1

\* The next dataset has been fetched, batch after batch, and its record is looked up.
DatasetFetched(s) ==
    /\ syncers[s].pc = "fetch" /\ syncers[s].at <= Len(Datasets)
    /\ syncers' = [syncers EXCEPT ![s].pc = "record", ![s].record = RecordOf(NameOf(s))]
    /\ UNCHANGED <<conn, cronJob, edit, editBroke, rawSets, syncJobs>>

\* The record is put, under a new id if there was none,
RecordPut(s) == LET n == NameOf(s)  r == syncers[s].record  j == syncers[s].job IN
    /\ syncers[s].pc = "record"
    /\ rawSets' = [rawSets EXCEPT ![n] = IF r = 0 THEN Append(@, [head |-> j, rows |-> 0]) ELSE [@ EXCEPT ![r].head = j]]
    /\ syncers' = [syncers EXCEPT ![s].pc = "rows", ![s].record = IF r = 0 THEN Len(rawSets[n]) + 1 ELSE r]
    /\ UNCHANGED <<conn, cronJob, edit, editBroke, syncJobs>>

\* then its rows are replaced.
RowsReplaced(s) ==
    /\ syncers[s].pc = "rows"
    /\ rawSets' = [rawSets EXCEPT ![NameOf(s)][syncers[s].record].rows = syncers[s].job]
    /\ syncers' = [syncers EXCEPT ![s].pc = "fetch", ![s].at = @ + 1, ![s].record = 0]
    /\ UNCHANGED <<conn, cronJob, edit, editBroke, syncJobs>>

\* The job has succeeded
JobSucceeds(s) ==
    /\ syncers[s].pc = "fetch" /\ syncers[s].at > Len(Datasets)
    /\ syncJobs' = [syncJobs EXCEPT ![syncers[s].job] = "SUCCEEDED"] /\ Moves(s, "done")
    /\ UNCHANGED <<conn, cronJob, edit, editBroke, rawSets>>

\* and the connection, as it was read, is put back.
ConnPut(s) ==
    /\ syncers[s].pc = "done"
    /\ conn' = [syncers[s].had EXCEPT !.status = "ACTIVE", !.lastSync = syncers[s].job]
    /\ syncers' = [syncers EXCEPT ![s] = NoSync]
    /\ UNCHANGED <<cronJob, edit, editBroke, rawSets, syncJobs>>

\* Whatever throws, the job and the connection say so.
SyncFails(s) ==
    /\ syncers[s] # NoSync /\ syncers[s].pc # "failed"
    /\ syncJobs' = [syncJobs EXCEPT ![syncers[s].job] = "FAILED"] /\ Moves(s, "failed")
    /\ UNCHANGED <<conn, cronJob, edit, editBroke, rawSets>>

FailurePut(s) ==
    /\ syncers[s].pc = "failed"
    /\ conn' = [syncers[s].had EXCEPT !.status = "ERROR"]
    /\ syncers' = [syncers EXCEPT ![s] = NoSync]
    /\ UNCHANGED <<cronJob, edit, editBroke, rawSets, syncJobs>>

\* The process stops.
SyncStops(s) ==
    /\ syncers[s] # NoSync
    /\ syncers' = [syncers EXCEPT ![s] = NoSync]
    /\ UNCHANGED <<conn, cronJob, edit, editBroke, rawSets, syncJobs>>

ConnNext ==
    \/ EditRead \/ CronRegistered \/ EditPut \/ ConnEditBreaks
    \/ \E s \in Syncers : \/ SyncStarts(s) \/ DatasetFetched(s) \/ RecordPut(s) \/ RowsReplaced(s) \/ JobSucceeds(s)
                         \/ ConnPut(s) \/ SyncFails(s) \/ FailurePut(s) \/ SyncStops(s)

ConnSpec == ConnInit /\ [][ConnNext]_connVars

-----------------------------------------------------------------------------
(* Properties *)

\* However often a connection is synchronised and wherever a sync failed or stopped, when none is under
\* way: each dataset has one record; what its record says and the rows it has differ only if the sync
\* of the record did not succeed; every dataset is at least as new as the sync the connection names;
\* and what the connection says of the last sync is what became of it.
DatasetsExplained ==
    (\A s \in Syncers : syncers[s] = NoSync) =>
        \A n \in Names :
            /\ Len(rawSets[n]) <= 1
            /\ \A i \in DOMAIN rawSets[n] : LET d == rawSets[n][i] IN
                /\ d.head # d.rows => syncJobs[d.head] # "SUCCEEDED" /\ d.rows < d.head
                /\ conn.lastSync <= d.rows
            /\ conn.lastSync # 0 => syncJobs[conn.lastSync] = "SUCCEEDED" /\ rawSets[n] # <<>>

\* The schedule a connection shows is the one the scheduler runs, unless an edit broke off.
ScheduleRuns == edit = NoEditOp /\ ~editBroke => conn.schedule = cronJob

\* Both: what a synchronisation and an edit leave behind is explained by how they ended.
SyncExplained == DatasetsExplained /\ ScheduleRuns

=============================================================================
