---------------------------- MODULE Materialize ----------------------------
(***************************************************************************)
(* Materialisation of one dataset into objects (modeling.ts) and the       *)
(* quarantine its bad rows go to (quarantine.ts).                          *)
(*                                                                         *)
(* Both write the same objects: the object's id is made of the primary     *)
(* key, a materialisation clears all objects of the dataset first, and a   *)
(* repaired row becomes one of them.  Duplicates are looked for among the  *)
(* keys of one materialisation, not among the objects, and not at all when *)
(* a row is reprocessed, with its own key or the one an edit gives it.     *)
(***************************************************************************)
EXTENDS Naturals, Sequences, FiniteSets

CONSTANTS
    Jobs,         \* materialisations that may overlap
    Repairs,      \* calls of reprocess and discard that may overlap with them
    Rows,         \* the rows of the dataset, as a sequence
    KeyOf,        \* the primary key of each row, or NoKey
    EditKeys,     \* the keys an edit may give a row
    NoKey,
    IdOf,         \* the object id made of each key: every sign but letters, digits, _ and - becomes _
    MaxQuarantined \* bound: quarantine rows

RowSet == {Rows[i] : i \in DOMAIN Rows}
KeysFor(r) == ({KeyOf[r]} \cup EditKeys) \ {NoKey}
Keys == UNION {KeysFor(r) : r \in RowSet}
MadeIds == {IdOf[k] : k \in Keys}

ASSUME MaterializeAssumption == Rows \in Seq(RowSet) /\ "none" \notin RowSet /\ MaxQuarantined \in Nat

VARIABLES
    objects,     \* per id: the row its object was made of, or "none"
    quarantine,  \* the quarantine rows, oldest first
    jobs,        \* per job: the next row to do (0: not running) and the keys it has seen
    repairs,     \* per repair: the quarantine row it has read (0: none) and how far it is
    cutShort,    \* history: the last job to clear the objects did not get to its end
    replaced     \* history: the rows whose object was put over since the objects were cleared

matVars == <<objects, quarantine, jobs, repairs, cutShort, replaced>>

QuarantineRow == [row : RowSet, status : {"PENDING", "REPROCESSED", "DISCARDED"}]
Job == [next : 0..(Len(Rows) + 1), seen : SUBSET Keys]
NoJob == [next |-> 0, seen |-> {}]
Repair == [at : {"idle", "object", "row", "discard"}, q : Nat]
NoRepair == [at |-> "idle", q |-> 0]

MatTypeOK ==
    /\ objects \in [MadeIds -> RowSet \cup {"none"}] /\ quarantine \in Seq(QuarantineRow)
    /\ jobs \in [Jobs -> Job] /\ repairs \in [Repairs -> Repair] /\ cutShort \in BOOLEAN /\ replaced \subseteq RowSet
    /\ \A p \in Repairs : repairs[p].at # "idle" => repairs[p].q \in DOMAIN quarantine

MatInit ==
    /\ objects = [i \in MadeIds |-> "none"] /\ quarantine = <<>>
    /\ jobs = [j \in Jobs |-> NoJob] /\ repairs = [p \in Repairs |-> NoRepair] /\ cutShort = TRUE /\ replaced = {}

\* The object of a row with this key is put, over the object of another row if there is one.
PutObject(r, key) ==
    /\ objects' = [objects EXCEPT ![IdOf[key]] = r]
    /\ replaced' = (replaced \cup ({objects[IdOf[key]]} \ {"none"})) \ {r}

-----------------------------------------------------------------------------
(* materialize *)

\* For the bound: the materialisations under way, and how many rows each of them finds bad.
Running == {j \in Jobs : jobs[j].next > 0}
BadRows == Len(Rows) - Cardinality({KeyOf[r] : r \in RowSet} \ {NoKey})

\* The objects of the last materialisation are removed, repaired ones with them.
JobClears(j) ==
    /\ jobs[j].next = 0 /\ Len(quarantine) + (Cardinality(Running) + 1) * BadRows <= MaxQuarantined
    /\ objects' = [i \in MadeIds |-> "none"] /\ replaced' = {}
    /\ jobs' = [jobs EXCEPT ![j] = [next |-> 1, seen |-> {}]]
    /\ cutShort' = FALSE
    /\ UNCHANGED <<quarantine, repairs>>

Bad(j, r) == KeyOf[r] = NoKey \/ KeyOf[r] \in jobs[j].seen

\* Mutant of RowQuarantined: a row without a key is skipped.
RowSkipped(j) ==
    /\ jobs[j].next \in DOMAIN Rows /\ Bad(j, Rows[jobs[j].next])
    /\ jobs' = [jobs EXCEPT ![j].next = @ + 1]
    /\ UNCHANGED <<objects, quarantine, repairs, cutShort, replaced>>

\* A row without a primary key, or with one seen before, goes to the quarantine.
RowQuarantined(j) == LET r == Rows[jobs[j].next] IN
    /\ jobs[j].next \in DOMAIN Rows /\ Bad(j, r)
    /\ quarantine' = Append(quarantine, [row |-> r, status |-> "PENDING"])
    /\ jobs' = [jobs EXCEPT ![j].next = @ + 1]
    /\ UNCHANGED <<objects, repairs, cutShort, replaced>>

\* Any other row becomes the object of its key's id.
RowBecomesObject(j) == LET r == Rows[jobs[j].next] IN
    /\ jobs[j].next \in DOMAIN Rows /\ ~Bad(j, r)
    /\ PutObject(r, KeyOf[r])
    /\ jobs' = [jobs EXCEPT ![j] = [next |-> @.next + 1, seen |-> @.seen \cup {KeyOf[r]}]]
    /\ UNCHANGED <<quarantine, repairs, cutShort>>

\* All rows are done.
JobEnds(j) ==
    /\ jobs[j].next = Len(Rows) + 1
    /\ jobs' = [jobs EXCEPT ![j] = NoJob]
    /\ UNCHANGED <<objects, quarantine, repairs, cutShort, replaced>>

\* It throws or the process stops: there is no job record to go on from.
JobBreaks(j) ==
    /\ jobs[j].next \in DOMAIN Rows
    /\ jobs' = [jobs EXCEPT ![j] = NoJob] /\ cutShort' = TRUE
    /\ UNCHANGED <<objects, quarantine, repairs, replaced>>

-----------------------------------------------------------------------------
(* reprocess, discard *)

\* reprocess reads a PENDING row.
ReprocessReads(p, q) ==
    /\ repairs[p].at = "idle" /\ quarantine[q].status = "PENDING"
    /\ repairs' = [repairs EXCEPT ![p] = [at |-> "object", q |-> q]]
    /\ UNCHANGED <<objects, quarantine, jobs, cutShort, replaced>>

\* With its key, or the one the edits give it, if there is one: the object is put first,
ReprocessPutsObject(p) == LET r == quarantine[repairs[p].q].row IN
    /\ repairs[p].at = "object"
    /\ \E key \in KeysFor(r) : PutObject(r, key)
    /\ repairs' = [repairs EXCEPT ![p].at = "row"]
    /\ UNCHANGED <<quarantine, jobs, cutShort>>

\* then the row.
ReprocessPutsRow(p) ==
    /\ repairs[p].at = "row"
    /\ quarantine' = [quarantine EXCEPT ![repairs[p].q].status = "REPROCESSED"]
    /\ repairs' = [repairs EXCEPT ![p] = NoRepair]
    /\ UNCHANGED <<objects, jobs, cutShort, replaced>>

\* discard reads a PENDING row and puts it back as DISCARDED.
DiscardReads(p, q) ==
    /\ repairs[p].at = "idle" /\ quarantine[q].status = "PENDING"
    /\ repairs' = [repairs EXCEPT ![p] = [at |-> "discard", q |-> q]]
    /\ UNCHANGED <<objects, quarantine, jobs, cutShort, replaced>>

DiscardPuts(p) ==
    /\ repairs[p].at = "discard"
    /\ quarantine' = [quarantine EXCEPT ![repairs[p].q].status = "DISCARDED"]
    /\ repairs' = [repairs EXCEPT ![p] = NoRepair]
    /\ UNCHANGED <<objects, jobs, cutShort, replaced>>

\* The call ends between its steps.
RepairBreaks(p) ==
    /\ repairs[p].at # "idle"
    /\ repairs' = [repairs EXCEPT ![p] = NoRepair]
    /\ UNCHANGED <<objects, quarantine, jobs, cutShort, replaced>>

MatNext ==
    \/ \E j \in Jobs : \/ JobClears(j) \/ RowQuarantined(j) \/ RowBecomesObject(j) \/ JobEnds(j) \/ JobBreaks(j)
    \/ \E p \in Repairs : \/ \E q \in DOMAIN quarantine : ReprocessReads(p, q) \/ DiscardReads(p, q)
                          \/ ReprocessPutsObject(p) \/ ReprocessPutsRow(p) \/ DiscardPuts(p) \/ RepairBreaks(p)

MatSpec == MatInit /\ [][MatNext]_matVars

-----------------------------------------------------------------------------
(* Properties *)

\* Another row has the object of an id that was this row's.
PutOver(r) == r \in replaced /\ \E key \in KeysFor(r) : objects[IdOf[key]] \notin {"none", r}

\* Nothing of the dataset gets lost for another reason than its key, whatever jobs, repairs and
\* discards overlap and whichever of the repairs break off: once no job is running, and the last one
\* to clear the objects was not cut short, every row is an object, waits in the quarantine, was
\* discarded there by somebody, or had its object put over by a row whose key makes the same id.
NothingLost ==
    (\A j \in Jobs : jobs[j].next = 0) /\ ~cutShort =>
        \A r \in RowSet : \/ \E i \in MadeIds : objects[i] = r
                          \/ \E q \in DOMAIN quarantine :
                                quarantine[q].row = r /\ quarantine[q].status \in {"PENDING", "DISCARDED"}
                          \/ PutOver(r)

\* modeling.ts:329: materialising again changes nothing; no row waits twice.
WaitsOnce == \A p, q \in DOMAIN quarantine :
    quarantine[p].row = quarantine[q].row /\ quarantine[p].status = "PENDING" /\ quarantine[q].status = "PENDING" => p = q

\* PRD-addendum-validation-loop.md:36: what was read is what was stored and what is in the quarantine;
\* no row is put over.
RowsConserved == replaced = {}

=============================================================================
