---------------------------- MODULE RulePublish ----------------------------
(***************************************************************************)
(* The versions of one business rule (rules.ts): drafts, edits, direct and *)
(* document publication, retirement.  Publishing lists the siblings that   *)
(* are PUBLISHED, retires them one by one and puts the new version; each   *)
(* put is of the record read before.                                       *)
(***************************************************************************)
EXTENDS Naturals, FiniteSets

CONSTANTS
    Editors,   \* calls that may overlap
    RuleVersions   \* the versions that may be created

VARIABLES
    rules,       \* per version: none, DRAFT, PUBLISHED or RETIRED
    edits,       \* per editor: what it is doing, to which version, and the siblings left to retire
    overlapped,  \* history: two calls were under way at once
    lapsed       \* history: a version was retired by hand, a draft was put over a published version, or a
                 \* publication stopped before its last put

ruleVars == <<rules, edits, overlapped, lapsed>>

Edit == [doing : {"nothing", "publish", "update"}, version : RuleVersions \cup {"none"}, retire : SUBSET RuleVersions]
NoEdit == [doing |-> "nothing", version |-> "none", retire |-> {}]

RuleTypeOK ==
    /\ rules \in [RuleVersions -> {"none", "DRAFT", "PUBLISHED", "RETIRED"}]
    /\ edits \in [Editors -> Edit] /\ overlapped \in BOOLEAN /\ lapsed \in BOOLEAN

RuleInit ==
    /\ rules = [v \in RuleVersions |-> "none"] /\ edits = [e \in Editors |-> NoEdit]
    /\ overlapped = FALSE /\ lapsed = FALSE

NotBusy(e) == edits[e].doing = "nothing"
AllQuiet == \A e \in Editors : NotBusy(e)
PublishedRules == {v \in RuleVersions : rules[v] = "PUBLISHED"}
Started(e, edit) ==
    /\ NotBusy(e)
    /\ edits' = [edits EXCEPT ![e] = edit]
    /\ overlapped' = (overlapped \/ ~AllQuiet)

-----------------------------------------------------------------------------

\* create, as a draft.
CreateRule(v) ==
    /\ rules[v] = "none"
    /\ rules' = [rules EXCEPT ![v] = "DRAFT"]
    /\ UNCHANGED <<edits, overlapped, lapsed>>

\* publish lists its siblings; whether the version is a DRAFT is not asked.  create with status
\* PUBLISHED, from a reviewed document, does the same for a version of its own.
PublishReads(e, v) ==
    /\ Started(e, [doing |-> "publish", version |-> v, retire |-> PublishedRules \ {v}])
    /\ UNCHANGED <<rules, lapsed>>

\* One of them is put back as RETIRED.
SiblingRetires(e) == \E s \in edits[e].retire :
    /\ rules' = [rules EXCEPT ![s] = "RETIRED"]
    /\ edits' = [edits EXCEPT ![e].retire = @ \ {s}]
    /\ UNCHANGED <<overlapped, lapsed>>

\* Mutant of PublishPuts: the version is put before its siblings are retired.
PublishPutsFirst(e) ==
    /\ edits[e].doing = "publish"
    /\ rules' = [rules EXCEPT ![edits[e].version] = "PUBLISHED"]
    /\ edits' = [edits EXCEPT ![e] = IF @.retire = {} THEN NoEdit ELSE @]
    /\ UNCHANGED <<overlapped, lapsed>>

\* The version is put as PUBLISHED when all of them are.
PublishPuts(e) ==
    /\ edits[e].doing = "publish" /\ edits[e].retire = {}
    /\ rules' = [rules EXCEPT ![edits[e].version] = "PUBLISHED"]
    /\ edits' = [edits EXCEPT ![e] = NoEdit]
    /\ UNCHANGED <<overlapped, lapsed>>

\* update reads a DRAFT and puts it back changed, still as a DRAFT.
UpdateReads(e, v) ==
    /\ rules[v] = "DRAFT"
    /\ Started(e, [doing |-> "update", version |-> v, retire |-> {}])
    /\ UNCHANGED <<rules, lapsed>>

UpdatePuts(e) == LET v == edits[e].version IN
    /\ edits[e].doing = "update"
    /\ rules' = [rules EXCEPT ![v] = "DRAFT"]
    /\ edits' = [edits EXCEPT ![e] = NoEdit] /\ lapsed' = (lapsed \/ rules[v] = "PUBLISHED")
    /\ UNCHANGED overlapped

\* retire, of any version.
RetireRule(v) ==
    /\ rules[v] # "none"
    /\ rules' = [rules EXCEPT ![v] = "RETIRED"] /\ lapsed' = TRUE
    /\ UNCHANGED <<edits, overlapped>>

\* A put fails or the process stops.
EditBreaks(e) ==
    /\ ~NotBusy(e)
    /\ edits' = [edits EXCEPT ![e] = NoEdit] /\ lapsed' = TRUE
    /\ UNCHANGED <<rules, overlapped>>

RuleNext ==
    \/ \E v \in RuleVersions : CreateRule(v) \/ RetireRule(v)
    \/ \E e \in Editors : \/ \E v \in RuleVersions : UpdateReads(e, v) \/ (rules[v] # "none" /\ PublishReads(e, v))
                          \/ SiblingRetires(e) \/ PublishPuts(e) \/ UpdatePuts(e) \/ EditBreaks(e)

RuleSpec == RuleInit /\ [][RuleNext]_ruleVars

-----------------------------------------------------------------------------
(* Properties *)

\* The scan of a rule finds one version of it.  As long as calls do not overlap there are never
\* two PUBLISHED versions, wherever a publication stops; and overlapping publications, which may
\* leave two, never leave none: between calls a version is PUBLISHED when another was replaced,
\* unless one was retired by hand, a publication broke off or an edit put a draft over it.
RuleServed ==
    /\ ~overlapped => Cardinality(PublishedRules) <= 1
    /\ AllQuiet /\ ~lapsed /\ (\E v \in RuleVersions : rules[v] = "RETIRED") => PublishedRules # {}

=============================================================================
