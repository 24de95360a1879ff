------------------------------ MODULE Catalog ------------------------------
(***************************************************************************)
(* The catalogue of one package (agentcore catalog/service.ts): versions   *)
(* of one intent and of one plan, the intent referring to the latest plan  *)
(* or to a pinned version, and the plan an intent is run with.             *)
(*                                                                         *)
(* A version is known by the order of creation; its number is what         *)
(* createPlan and createIntent compute.  A plan's contents are valid or    *)
(* not (validatePlanSteps); an incomplete intent is a DRAFT that nobody     *)
(* publishes.                                                              *)
(***************************************************************************)
EXTENDS Naturals, FiniteSets

CONSTANTS
    IntentRows, PlanRows, \* 1..n: the records that may be created, in this order
    PinnedVersions,       \* the plan versions an intent may be pinned to
    CatalogEditors,       \* requests that may overlap
    CollisionsAllowed     \* whether an update, a publication or a retirement of one record, or two
                          \* publications of the intent, may overlap

ASSUME CatalogAssumption ==
    /\ IsFiniteSet(IntentRows) /\ IntentRows = 1..Cardinality(IntentRows)
    /\ IsFiniteSet(PlanRows) /\ PlanRows = 1..Cardinality(PlanRows)
    /\ PinnedVersions \subseteq PlanRows /\ CollisionsAllowed \in BOOLEAN

VARIABLES
    plans, intents, \* the records; number 0: not created
    catalogOps      \* per editor: what it has read and what is left to put

catalogVars == <<plans, intents, catalogOps>>

Statuses == {"none", "DRAFT", "PUBLISHED", "RETIRED"}
PlanRow == [status : Statuses, number : {0} \cup PlanRows, valid : BOOLEAN]
\* ref: 0 for latest, or the pinned version.
IntentRow == [status : Statuses, number : {0} \cup IntentRows, ref : {0} \cup PlanRows]
NoPlanRow == [status |-> "none", number |-> 0, valid |-> FALSE]
NoIntentRow == [status |-> "none", number |-> 0, ref |-> 0]
CatalogOp == [doing : {"nothing", "createPlan", "updatePlan", "publishPlan", "createIntent", "updateIntent", "publishIntent"},
              row : {0} \cup IntentRows \cup PlanRows, plan : PlanRow, intent : IntentRow, retire : SUBSET IntentRows]
NoCatalogOp == [doing |-> "nothing", row |-> 0, plan |-> NoPlanRow, intent |-> NoIntentRow, retire |-> {}]

CatalogTypeOK ==
    /\ plans \in [PlanRows -> PlanRow] /\ intents \in [IntentRows -> IntentRow]
    /\ catalogOps \in [CatalogEditors -> CatalogOp]

CatalogInit ==
    /\ plans = [p \in PlanRows |-> NoPlanRow] /\ intents = [i \in IntentRows |-> NoIntentRow]
    /\ catalogOps = [e \in CatalogEditors |-> NoCatalogOp]

-----------------------------------------------------------------------------

Made(table) == {r \in DOMAIN table : table[r].status # "none"}
NextNumber(table) == LET numbers == {0} \cup {table[r].number : r \in Made(table)} IN
    1 + CHOOSE n \in numbers : \A m \in numbers : m <= n
NextRow(table) == CHOOSE r \in DOMAIN table \ Made(table) : \A q \in DOMAIN table \ Made(table) : r <= q
WithStatus(table, status) == {r \in DOMAIN table : table[r].status = status}

\* Mutant of LatestOf: of the published plans the one that was created first.
LatestFirst(rows) == {r \in rows : \A q \in rows : plans[r].number <= plans[q].number}

\* The rows of the highest number: one, unless two were created at once.
LatestOf(rows) == {r \in rows : \A q \in rows : plans[q].number <= plans[r].number}

\* resolvePlanByRef: a pinned version whatever its status, or the latest that is PUBLISHED.
Resolved(ref) ==
    IF ref # 0 THEN {r \in Made(plans) : plans[r].number = ref}
    ELSE LatestOf(WithStatus(plans, "PUBLISHED"))

\* For the check before publication a draft does, if nothing is PUBLISHED.
ResolvedForCheck(ref) ==
    IF Resolved(ref) # {} \/ ref # 0 THEN Resolved(ref) ELSE LatestOf(Made(plans))

PlanOps == {"updatePlan", "publishPlan"}
IntentOps == {"updateIntent", "publishIntent"}
Collides(op, other) ==
    \/ op.row = other.row /\ ({op.doing, other.doing} \subseteq PlanOps \/ {op.doing, other.doing} \subseteq IntentOps)
    \/ {op.doing, other.doing} = {"publishIntent"}

Starts(e, op) ==
    /\ catalogOps[e] = NoCatalogOp
    /\ CollisionsAllowed \/ \A d \in CatalogEditors : ~Collides(op, catalogOps[d])
    /\ catalogOps' = [catalogOps EXCEPT ![e] = op]

Stops(e) == catalogOps' = [catalogOps EXCEPT ![e] = NoCatalogOp]

\* A version is created as a DRAFT: the number is read, the record inserted.
PlanNumbered(e) == \E valid \in BOOLEAN :
    /\ Made(plans) # PlanRows
    /\ Starts(e, [NoCatalogOp EXCEPT !.doing = "createPlan",
                  !.plan = [status |-> "DRAFT", number |-> NextNumber(plans), valid |-> valid]])
    /\ UNCHANGED <<plans, intents>>

PlanInserted(e) ==
    /\ catalogOps[e].doing = "createPlan" /\ Made(plans) # PlanRows
    /\ plans' = [plans EXCEPT ![NextRow(plans)] = catalogOps[e].plan]
    /\ Stops(e) /\ UNCHANGED intents

IntentNumbered(e) == \E ref \in {0} \cup PinnedVersions :
    /\ Made(intents) # IntentRows
    /\ Starts(e, [NoCatalogOp EXCEPT !.doing = "createIntent",
                  !.intent = [status |-> "DRAFT", number |-> NextNumber(intents), ref |-> ref]])
    /\ UNCHANGED <<plans, intents>>

IntentInserted(e) ==
    /\ catalogOps[e].doing = "createIntent" /\ Made(intents) # IntentRows
    /\ intents' = [intents EXCEPT ![NextRow(intents)] = catalogOps[e].intent]
    /\ Stops(e) /\ UNCHANGED plans

\* Only a DRAFT is updated; the record is put back as it was read, changed.
PlanUpdateRead(e, r) == \E valid \in BOOLEAN :
    /\ plans[r].status = "DRAFT"
    /\ Starts(e, [NoCatalogOp EXCEPT !.doing = "updatePlan", !.row = r, !.plan = [plans[r] EXCEPT !.valid = valid]])
    /\ UNCHANGED <<plans, intents>>

IntentUpdateRead(e, r) == \E ref \in {0} \cup PinnedVersions :
    /\ intents[r].status = "DRAFT"
    /\ Starts(e, [NoCatalogOp EXCEPT !.doing = "updateIntent", !.row = r, !.intent = [intents[r] EXCEPT !.ref = ref]])
    /\ UNCHANGED <<plans, intents>>

\* Only a valid DRAFT of a plan is published.
PlanPublishRead(e, r) ==
    /\ plans[r].status = "DRAFT" /\ plans[r].valid
    /\ Starts(e, [NoCatalogOp EXCEPT !.doing = "publishPlan", !.row = r, !.plan = [plans[r] EXCEPT !.status = "PUBLISHED"]])
    /\ UNCHANGED <<plans, intents>>

\* Only a DRAFT of an intent with a valid plan; the versions PUBLISHED so far are listed.
IntentPublishRead(e, r) ==
    /\ intents[r].status = "DRAFT"
    /\ \E p \in ResolvedForCheck(intents[r].ref) : plans[p].valid
    /\ Starts(e, [NoCatalogOp EXCEPT !.doing = "publishIntent", !.row = r, !.intent = [intents[r] EXCEPT !.status = "PUBLISHED"],
                  !.retire = WithStatus(intents, "PUBLISHED")])
    /\ UNCHANGED <<plans, intents>>

\* They are retired one by one
OlderRetired(e) == \E r \in catalogOps[e].retire :
    /\ intents' = [intents EXCEPT ![r].status = "RETIRED"]
    /\ catalogOps' = [catalogOps EXCEPT ![e].retire = @ \ {r}]
    /\ UNCHANGED plans

\* before the new one is put; so are the other records.
RowPut(e) == LET op == catalogOps[e] IN
    /\ op.doing \in {"updatePlan", "publishPlan", "updateIntent", "publishIntent"} /\ op.retire = {}
    /\ IF op.doing \in {"updatePlan", "publishPlan"}
         THEN plans' = [plans EXCEPT ![op.row] = op.plan] /\ UNCHANGED intents
         ELSE intents' = [intents EXCEPT ![op.row] = op.intent] /\ UNCHANGED plans
    /\ Stops(e)

\* retireIntent, whatever the status.
IntentRetired(r) ==
    /\ intents[r].status # "none"
    /\ intents' = [intents EXCEPT ![r].status = "RETIRED"]
    /\ CollisionsAllowed \/ \A e \in CatalogEditors : catalogOps[e].doing \in IntentOps => catalogOps[e].row # r
    /\ UNCHANGED <<plans, catalogOps>>

\* A write fails or the process stops.
CatalogBreaks(e) ==
    /\ catalogOps[e] # NoCatalogOp
    /\ Stops(e) /\ UNCHANGED <<plans, intents>>

CatalogNext ==
    \/ \E r \in IntentRows : IntentRetired(r)
    \/ \E e \in CatalogEditors :
        \/ PlanNumbered(e) \/ PlanInserted(e) \/ IntentNumbered(e) \/ IntentInserted(e)
        \/ OlderRetired(e) \/ RowPut(e) \/ CatalogBreaks(e)
        \/ \E r \in PlanRows : PlanUpdateRead(e, r) \/ PlanPublishRead(e, r)
        \/ \E r \in IntentRows : IntentUpdateRead(e, r) \/ IntentPublishRead(e, r)

CatalogSpec == CatalogInit /\ [][CatalogNext]_catalogVars

-----------------------------------------------------------------------------
(* Properties *)

\* As long as calls for one record, or two publications of the intent, do not overlap: one version of
\* the intent is served at most, wherever a publication broke off; a plan run for it by latest is valid
\* and PUBLISHED, whatever becomes of drafts and other versions in the meantime; and a PUBLISHED
\* intent pinned to a version has a plan.
CatalogServes ==
    /\ Cardinality(WithStatus(intents, "PUBLISHED")) <= 1
    /\ \A r \in Resolved(0) : plans[r].valid /\ \A q \in WithStatus(plans, "PUBLISHED") : plans[q].number <= plans[r].number
    /\ \A i \in WithStatus(intents, "PUBLISHED") : intents[i].ref # 0 => Resolved(intents[i].ref) # {}

=============================================================================
