----------------------------- MODULE Calibration -----------------------------
(***************************************************************************)
(* Calibration proposals for one solver parameter (calibration/service.ts) *)
(* that several slices may propose to change: generations that overlap,    *)
(* with their frequency limit, application through an approved action or   *)
(* at once, rollback, and the meta loop that looks back at what was        *)
(* applied.                                                                *)
(*                                                                         *)
(* A generation decides, lists the records, awaits, and then puts its own  *)
(* over the one it has chosen, while write-backs set the parameter and put *)
(* their copy of a record, and the meta loop puts its own.  A value is the *)
(* number of the generation that proposed it, 0 the value before any.      *)
(* Methods, backtest and figures are abstracted to whether a candidate is  *)
(* found and passes.  One write-back is under way at a time.               *)
(***************************************************************************)
EXTENDS Naturals

CONSTANTS
    Slices,          \* the slices whose candidates change the parameter
    Generations,     \* calls of generateForSlice that may overlap
    FreqLimitDays,
    MaxValues,       \* bound: candidates generated
    MaxDays,         \* bound: simulated days
    MetaLoopDays,    \* days after which what was applied is compared with what came
    CopiesRace       \* may a record be applied or rolled back of which another call is about to put its own?

ASSUME CalibrationAssumption ==
    FreqLimitDays \in Nat /\ MaxValues \in Nat /\ MaxDays \in Nat
    /\ MetaLoopDays \in Nat /\ CopiesRace \in BOOLEAN

VARIABLES
    param,         \* the parameter in solver_params
    proposals,     \* calibrationProposals, by id; status "none": no such record
    gens,          \* per generation: how far it is, what it puts and under which id
    write,         \* the write-back under way and its copy of the record
    meta,          \* the meta loop's copies of the records it has listed and not put back
    days,          \* simulated days
    values,        \* candidates generated
    applications,  \* records put as APPLIED, which orders appliedAt
    stray,         \* history: a write-back set the parameter and broke off, and none has ended since
    overStray,     \* history: the records applied while it was so
    calm           \* history: every rollback undid the latest change, and not one of these

calVars == <<param, proposals, gens, write, meta, days, values, applications, stray, overStray, calm>>

Value == 0..MaxValues
ProposalIds == 1..MaxValues
Proposal == [status : {"none", "PENDING", "HOLD", "REJECTED", "APPLIED", "ROLLED_BACK"},
             slice : Slices \cup {"none"}, value : Value, appliedFrom : Value, appliedTick : 0..MaxDays, appliedAt : Nat]
NoProposal == [status |-> "none", slice |-> "none", value |-> 0, appliedFrom |-> 0, appliedTick |-> 0, appliedAt |-> 0]
Open(p) == p.status \in {"PENDING", "HOLD", "REJECTED"}

Generation == [at : {"idle", "list", "get", "put"}, id : ProposalIds \cup {0}, record : Proposal]
NoGeneration == [at |-> "idle", id |-> 0, record |-> NoProposal]
Write == [doing : {"idle", "apply", "rollback"}, set : BOOLEAN, id : ProposalIds \cup {0}, record : Proposal]
NoWrite == [doing |-> "idle", set |-> FALSE, id |-> 0, record |-> NoProposal]

CalTypeOK ==
    /\ param \in Value /\ proposals \in [ProposalIds -> Proposal] /\ gens \in [Generations -> Generation] /\ write \in Write
    /\ meta \in [ProposalIds -> Proposal] /\ days \in 0..MaxDays /\ values \in Value /\ applications \in Nat
    /\ stray \in BOOLEAN /\ overStray \subseteq ProposalIds /\ calm \in BOOLEAN

CalInit ==
    /\ param = 0 /\ proposals = [i \in ProposalIds |-> NoProposal] /\ gens = [g \in Generations |-> NoGeneration]
    /\ write = NoWrite /\ meta = [i \in ProposalIds |-> NoProposal] /\ days = 0 /\ values = 0 /\ applications = 0
    /\ stray = FALSE /\ overStray = {} /\ calm = TRUE

AtRest == write.doing = "idle"
InForce == {i \in ProposalIds : proposals[i].status = "APPLIED"}
History == {i \in ProposalIds : proposals[i].status \in {"APPLIED", "ROLLED_BACK"}}
LastApplied(i) == i \in InForce /\ \A j \in InForce : proposals[j].appliedAt <= proposals[i].appliedAt

-----------------------------------------------------------------------------
(* generateForSlice *)

\* The parameter was changed less than FreqLimitDays ago, rolled back or not.
FrequencyLimited == \E i \in History : days - proposals[i].appliedTick < FreqLimitDays

\* A candidate of slice s is REJECTED if the backtest does not improve, HOLD if the frequency limit
\* or a better candidate of the slice is in the way, else PENDING.
GenDecides(g, s) == \E passes \in BOOLEAN, cascade \in BOOLEAN :
    /\ gens[g].at = "idle" /\ values < MaxValues
    /\ values' = values + 1
    /\ gens' = [gens EXCEPT ![g] =
                    [at |-> "list", id |-> 0,
                     record |-> [NoProposal EXCEPT !.slice = s, !.value = values + 1, !.status =
                         IF ~passes THEN "REJECTED" ELSE IF FrequencyLimited \/ cascade THEN "HOLD" ELSE "PENDING"]]]
    /\ UNCHANGED <<param, proposals, write, days, applications, stray, overStray, calm, meta>>

\* Mutant of GenLists: the first record of the slice, open or not.
GenListsAny(g) ==
    LET prior == {i \in ProposalIds : proposals[i].status # "none" /\ proposals[i].slice = gens[g].record.slice} IN
    /\ gens[g].at = "list"
    /\ \/ prior = {} /\ gens' = [gens EXCEPT ![g].at = "get"]
       \/ \E i \in prior : gens' = [gens EXCEPT ![g].at = "put", ![g].id = i]
    /\ UNCHANGED <<param, proposals, write, days, values, applications, stray, overStray, calm, meta>>

\* persistRecords lists the records: an open one of the slice lends its id.
GenLists(g) ==
    LET prior == {i \in ProposalIds : Open(proposals[i]) /\ proposals[i].slice = gens[g].record.slice} IN
    /\ gens[g].at = "list"
    /\ \/ prior = {} /\ gens' = [gens EXCEPT ![g].at = "get"]
       \/ \E i \in prior : gens' = [gens EXCEPT ![g].at = "put", ![g].id = i]
    /\ UNCHANGED <<param, proposals, write, days, values, applications, stray, overStray, calm, meta>>

\* Otherwise it gets its own id, and that with suffixes, until there is none under it or an open one,
\* of any slice: the ids of two slices may be the same once their signs are replaced.
GenGets(g) == \E i \in ProposalIds :
    /\ gens[g].at = "get" /\ (proposals[i].status = "none" \/ Open(proposals[i]))
    /\ gens' = [gens EXCEPT ![g].at = "put", ![g].id = i]
    /\ UNCHANGED <<param, proposals, write, days, values, applications, stray, overStray, calm, meta>>

\* The record is put (service.ts:589), whatever there is by now under the id.  With autoApply it is
\* applied at once, from the copy at hand (417-421).
GenPuts(g) ==
    /\ gens[g].at = "put"
    /\ proposals' = [proposals EXCEPT ![gens[g].id] = gens[g].record]
    /\ gens' = [gens EXCEPT ![g] = NoGeneration]
    /\ \/ write' = write
       \/ /\ gens[g].record.status = "PENDING" /\ AtRest
          /\ write' = [doing |-> "apply", set |-> FALSE, id |-> gens[g].id, record |-> gens[g].record]
    /\ UNCHANGED <<param, days, values, applications, stray, overStray, calm, meta>>

\* Something throws, or the process stops, before the record is put.
GenBreaks(g) ==
    /\ gens[g].at # "idle"
    /\ gens' = [gens EXCEPT ![g] = NoGeneration]
    /\ UNCHANGED <<param, proposals, write, days, values, applications, stray, overStray, calm, meta>>

DayPasses ==
    /\ days < MaxDays
    /\ days' = days + 1
    /\ UNCHANGED <<param, proposals, gens, write, values, applications, stray, overStray, calm, meta>>

-----------------------------------------------------------------------------
(* applyAction: the write-back of an approved draft *)

\* mode approve reads a PENDING proposal.
ApproveReads(i) ==
    /\ AtRest /\ proposals[i].status = "PENDING"
    /\ write' = [doing |-> "apply", set |-> FALSE, id |-> i, record |-> proposals[i]]
    /\ UNCHANGED <<param, proposals, gens, days, values, applications, stray, overStray, calm, meta>>

\* performApply notes the day and the value in force, and sets the parameter.
ApplySets ==
    /\ write.doing = "apply" /\ ~write.set
    /\ param' = write.record.value
    /\ write' = [write EXCEPT !.set = TRUE, !.record.appliedFrom = param, !.record.appliedTick = days]
    /\ UNCHANGED <<proposals, gens, days, values, applications, stray, overStray, calm, meta>>

\* Then its copy is put as APPLIED, whatever there is by now under the id.
ApplyRecords ==
    /\ write.doing = "apply" /\ write.set
    /\ CopiesRace \/ \A g \in Generations : gens[g].at = "put" => gens[g].id # write.id
    /\ proposals' = [proposals EXCEPT ![write.id] =
                        [write.record EXCEPT !.status = "APPLIED", !.appliedAt = applications + 1]]
    /\ applications' = applications + 1
    /\ write' = NoWrite
    /\ stray' = FALSE /\ overStray' = overStray \cup (IF stray THEN {write.id} ELSE {})
    /\ UNCHANGED <<param, gens, days, values, calm, meta>>

\* mode rollback reads an APPLIED proposal.
RollbackReads(i) ==
    /\ AtRest /\ proposals[i].status = "APPLIED"
    /\ write' = [doing |-> "rollback", set |-> FALSE, id |-> i, record |-> proposals[i]]
    /\ calm' = (calm /\ LastApplied(i) /\ i \notin overStray)
    /\ UNCHANGED <<param, proposals, gens, days, values, applications, stray, overStray, meta>>

\* performRollback restores appliedFrom.
RollbackSets ==
    /\ write.doing = "rollback" /\ ~write.set
    /\ param' = write.record.appliedFrom
    /\ write' = [write EXCEPT !.set = TRUE]
    /\ UNCHANGED <<proposals, gens, days, values, applications, stray, overStray, calm, meta>>

RollbackRecords ==
    /\ write.doing = "rollback" /\ write.set
    /\ CopiesRace \/ meta[write.id] = NoProposal
    /\ proposals' = [proposals EXCEPT ![write.id] = [write.record EXCEPT !.status = "ROLLED_BACK"]]
    /\ write' = NoWrite
    /\ stray' = FALSE
    /\ UNCHANGED <<param, gens, days, values, applications, overStray, calm, meta>>

\* Something throws, or the process stops, before the proposal is put.
WriteBreaks ==
    /\ ~AtRest
    /\ write' = NoWrite
    /\ stray' = (stray \/ write.set)
    /\ UNCHANGED <<param, proposals, gens, days, values, applications, overStray, calm, meta>>

-----------------------------------------------------------------------------
(* runMetaLoop: what was applied long enough ago gets its realised error, which is left out here *)

\* It lists the records in force,
MetaLists ==
    LET due == {i \in InForce : days - proposals[i].appliedTick >= MetaLoopDays} IN
    /\ due # {} /\ \A i \in ProposalIds : meta[i] = NoProposal
    /\ meta' = [i \in ProposalIds |-> IF i \in due THEN proposals[i] ELSE NoProposal]
    /\ UNCHANGED <<param, proposals, gens, write, days, values, applications, stray, overStray, calm>>

\* and puts its copy of each, whatever there is by now under the id,
MetaPuts(i) ==
    /\ meta[i] # NoProposal
    /\ proposals' = [proposals EXCEPT ![i] = meta[i]]
    /\ meta' = [meta EXCEPT ![i] = NoProposal]
    /\ UNCHANGED <<param, gens, write, days, values, applications, stray, overStray, calm>>

\* unless there are no samples for it yet, or something throws, or the process stops.
MetaSkips(i) ==
    /\ meta[i] # NoProposal
    /\ meta' = [meta EXCEPT ![i] = NoProposal]
    /\ UNCHANGED <<param, proposals, gens, write, days, values, applications, stray, overStray, calm>>

CalNext ==
    \/ DayPasses
    \/ \E g \in Generations : \/ \E s \in Slices : GenDecides(g, s)
                              \/ GenLists(g) \/ GenGets(g) \/ GenPuts(g) \/ GenBreaks(g)
    \/ \E i \in ProposalIds : ApproveReads(i) \/ RollbackReads(i) \/ MetaPuts(i) \/ MetaSkips(i)
    \/ MetaLists
    \/ ApplySets \/ ApplyRecords \/ RollbackSets \/ RollbackRecords \/ WriteBreaks

CalSpec == CalInit /\ [][CalNext]_calVars

-----------------------------------------------------------------------------
(* Properties *)

\* At rest the parameter has the value of the latest proposal that is still APPLIED, or the first
\* one: what the history says is what the solvers use, through overlapping generations, stacked
\* proposals of several slices and their rollbacks.  A write-back that breaks off half-way suspends
\* this until the next one ends; a rollback out of order, or of what was applied meanwhile, ends it.
HistoryExplains ==
    calm /\ ~stray /\ AtRest =>
        \/ InForce = {} /\ param = 0
        \/ \E i \in InForce : LastApplied(i) /\ param = proposals[i].value

\* calibration/service.ts:567: records that were applied or rolled back are the history of changes
\* and are never overwritten.
HistoryKept == [][\A i \in History : i \in History' /\ proposals'[i].value = proposals[i].value]_calVars

\* calibration/service.ts:376: the parameter changes at most once in FreqLimitDays.
FrequencyKept == \A i, j \in History : proposals[i].appliedAt < proposals[j].appliedAt =>
                    proposals[j].appliedTick - proposals[i].appliedTick >= FreqLimitDays

=============================================================================
