----------------------------- MODULE MCDataCore -----------------------------
(***************************************************************************)
(* The parts of DataCore that share no state with each other, explored by  *)
(* one run as a disjoint sum: part says which of them moves, the others    *)
(* stay in their initial states.  What AgentCore caches belongs to the     *)
(* record it follows; its catalogue is here because, like the others, it   *)
(* is a set of records and nothing about it is temporal.                   *)
(***************************************************************************)
EXTENDS FeatureCache, SimClock, SopCycle, Governance, Calibration, Materialize, RulePublish, RuleDocs,
        TimeSeries, FeatureConfig, LlmDirectory, Catalog, ConnectorSync, OntologyFlow, Derivation,
        OntologySlice, LiveAudit, ElementRefs

\* What the theorems about the parts presume, each where its part does: what one actor reads and puts back
\* stays as it was in between, formulas are as the parser builds them, and the thresholds leave room.
PartPremises ==
    /\ \A s, t \in Savers : s = t
    /\ \A v, w \in SopWorkers : v = w
    /\ \A s, t \in Syncers : s = t
    /\ ~OverlapsAllowed /\ ~ResetsBreak /\ ~CollisionsAllowed /\ ~EditsDuringSync /\ ~UpdatesDuringPublish
    /\ ~WritersRace /\ OneAggregator /\ ~CopiesRace
    /\ FormulasPlain /\ LinksLeadElsewhere /\ DerivedSeparate /\ NewcomersReport /\ ~RecomputeOverlaps /\ ValuesTyped
    /\ T.segTolerance >= 1 /\ T.gmHardOver >= 50 /\ T.passScore > 0

ASSUME MCPremises == PartPremises

VARIABLE part

partVars == <<part, featureVars, clockVars, sopVars, govVars, calVars, matVars, ruleVars, docVars,
              seriesVars, featVars, llmVars, catalogVars, connVars, flowVars, derivationVars, sliceVars, auditVars, refVars>>

\* Each of the two domains has an owner; the administrator owns neither.
MCOwnerOf == [sales |-> "u1", plant |-> "u2"]

\* A row with a key, one without, one with the first row's key, and one whose key makes the same id.
MCRows == <<"r1", "r2", "r3", "r4">>
MCKeyOf == [r1 |-> "k1", r2 |-> "nokey", r3 |-> "k1", r4 |-> "k2"]
MCIdOf == [k1 |-> "o1", k2 |-> "o1", x |-> "o2"]

\* Single days and pairs a day apart, so that a day between two points stays without one.
MCBatches == {{1}, {2}, {3}, {4}, {1, 3}, {2, 4}}

\* A chain of two requirements; one template that leaves out its middle.
MCRequires == [fa |-> <<>>, fb |-> <<"fa">>, fc |-> <<"fb">>]
MCTemplates == {{"fa", "fb", "fc"}, {"fa", "fc"}}
MCNone == [k \in {} |-> TRUE]
MCTenantConfigs == {MCNone, [fa |-> FALSE], [nv |-> FALSE, fc |-> TRUE]}
MCRoleConfigs == {MCNone, [fb |-> FALSE, fc |-> TRUE]}

MCDatasets == <<"n1", "n2">>

\* Two entities and a link between them; an edge to an id that is missing; a list with an id twice.
MCNodeLists == {<<1, 2, 3>>, <<1, 3>>, <<1, 2, 1>>}
MCEdgeSets == SUBSET {<<1, 2>>, <<2, 3>>, <<3, 1>>, <<1, 4>>}
MCLinkEnds == [l \in {3} |-> {1, 2}]

\* Equipment feeds a process of a line; a formula of each kind of node; the third batch is a cycle.
MCTypeOf == [e1 |-> "eq", e2 |-> "eq", p1 |-> "proc", l1 |-> "line"]
MCLinkTypes == [uses |-> <<"eq", "proc">>, has |-> <<"line", "proc">>]
MCL(k, a, b) == [key |-> k, from |-> a, to |-> b]
MCLinks == {MCL("uses", "e1", "p1"), MCL("uses", "e2", "p1"), MCL("has", "l1", "p1")}
MCBaseProps == [eq |-> {"oee"}, proc |-> {"par"}, line |-> {}]
MCBaseValues == [oee |-> {Num(0), Num(10)}, par |-> {Bool(TRUE), Null}]
MCV(v) == [kind |-> "value", value |-> v]
MCThis(p) == [kind |-> "propref", prop |-> p]
MCBin(op, l, r) == [kind |-> "binary", op |-> op, left |-> l, right |-> r]
MCAgg(fn, dir, l, p, w) == [kind |-> "agg", fn |-> fn, nav |-> [direction |-> dir, link |-> l], prop |-> p, where |-> w]
MCSpec(k, t, p, a) == [key |-> k, type |-> t, prop |-> p, ast |-> a]
MCSpecBatches ==
    <<<<MCSpec("s1", "eq", "cap",
               <<MCV(Num(10)), MCThis("oee"), MCBin("/", 1, 2), MCV(Num(2)), MCV(Num(15)),
                 [kind |-> "clamp", value |-> 3, left |-> 4, right |-> 5]>>),
        MCSpec("s2", "proc", "cap",
               <<MCThis("par"), MCAgg("COUNT", "in", "uses", "*", <<>>), MCV(Num(10)), MCBin(">", 2, 3),
                 [kind |-> "or", left |-> 1, right |-> 4],
                 MCAgg("SUM", "in", "uses", "cap", <<>>), MCAgg("MIN", "in", "uses", "cap", <<"oee", <<MCV(Num(10))>>>>),
                 [kind |-> "if", cond |-> 5, left |-> 6, right |-> 7]>>)>>,
      <<MCSpec("s3", "line", "cap",
               <<MCAgg("AVG", "out", "has", "cap", <<>>), MCAgg("COUNT", "out", "has", "*", <<"par", <<MCV(Bool(TRUE))>>>>),
                 [kind |-> "coalesce", args |-> <<1, 2>>]>>),
        MCSpec("s4", "line", "load",
               <<MCThis("cap"), MCV(Num(20)), MCBin("!=", 1, 2), MCThis("cap"), [kind |-> "unary", operand |-> 4],
                 [kind |-> "and", left |-> 3, right |-> 5]>>)>>,
      <<MCSpec("s5", "eq", "load", <<MCAgg("SUM", "out", "uses", "load", <<>>)>>),
        MCSpec("s6", "proc", "load", <<MCAgg("MAX", "in", "uses", "load", <<>>)>>)>>>>

\* A line with two processes that share equipment; slices that go there and back, are cut, or have limits.
MCSliceObjects == <<"f1", "p1", "p2", "q1", "q2">>
MCSliceTypeOf == [f1 |-> "line", p1 |-> "proc", p2 |-> "proc", q1 |-> "equip", q2 |-> "equip"]
MCSliceLinkTypes == [has |-> <<"line", "proc">>, uses |-> <<"equip", "proc">>]
MCSliceLinks ==
    <<MCL("has", "f1", "p1"), MCL("has", "f1", "p2"), MCL("uses", "q1", "p1"), MCL("uses", "q1", "p2"), MCL("uses", "q2", "p2")>>
MCHop(l, d, f, n) == [link |-> l, direction |-> d, filter |-> f, limit |-> n]
MCSlice(t, f, ps, n) == [rootType |-> t, rootFilter |-> f, paths |-> ps, maxNodes |-> n]
MCSliceSpecs ==
    <<MCSlice("line", "none", <<<<MCHop("has", "out", "none", 9), MCHop("uses", "in", "none", 9), MCHop("uses", "out", "l1", 9)>>>>, 5),
      MCSlice("line", "l1", <<<<MCHop("has", "out", "l2", 9)>>, <<MCHop("has", "out", "l1", 9), MCHop("uses", "in", "none", 9)>>>>, 3),
      MCSlice("line", "none", <<<<MCHop("has", "out", "none", 9), MCHop("uses", "in", "none", 1)>>,
                                <<MCHop("gone", "out", "none", 9), MCHop("has", "out", "none", 9)>>>>, 4),
      MCSlice("proc", "none", <<<<MCHop("uses", "in", "none", 9), MCHop("uses", "out", "none", 9)>>, <<MCHop("has", "in", "none", 9)>>>>, 1)>>
MCPolicy(t, r, f) == [type |-> t, role |-> r, rowFilter |-> f]
MCPolicySets ==
    {{}, {MCPolicy("proc", "*", "l1")},
     {MCPolicy("*", "r1", "none"), MCPolicy("proc", "r1", "l2"), MCPolicy("equip", "r2", "none")},
     {MCPolicy("proc", "r1", "l1"), MCPolicy("proc", "r2", "l2")}}

\* A slice with and without a link; a derivation spec that reads a property of the type it navigates to.
MCPublications == {[refKind |-> "slice", refKey |-> "sl"], [refKind |-> "derivation", refKey |-> "ds"]}
MCRef(k, e) == [kind |-> k, key |-> e]
MCSliceRefs == {<<MCRef("type", "ty")>>, <<MCRef("type", "ty"), MCRef("link", "li")>>}
MCDerivationRefs == {<<MCRef("type", "ty"), MCRef("prop", "ty"), MCRef("link", "li")>>}

\* The thresholds of solverParams.audit, and forms around them.
MCT == [segTolerance |-> 50, gapHard |-> 200, gapSoft |-> 30, gmHardOver |-> 3000, gmSoftUnder |-> 5000, kitHard |-> 800,
        kitFixTons |-> 200, cashHard |-> 50, cashSoft |-> 55, essShareBaseline |-> 3200, essShareTol |-> 500, capexSoft |-> 10,
        margins |-> [pas |-> 18, ess |-> 13, com |-> 15], scoreH |-> 25, scoreM |-> 8, passScore |-> 85, condScore |-> 60]
MCBaselines ==
    {[dem |-> 1000, seg_pas |-> s[1], seg_ess |-> s[2], seg_com |-> s[3], sup |-> 950, kitGap |-> k, gmTarget |-> m,
      cashCushion |-> c, capex |-> 12] :
        s \in {<<0, 0, 0>>, <<500, 320, 180>>, <<500, 200, 200>>}, k \in {0, 1100}, m \in {1530, 1800}, c \in {48, 52}}
MCFieldValues == [dem |-> {800, 1300}, seg_ess |-> {0, 320}, cashCushion |-> {45, 60}]

Init ==
    /\ part \in {"features", "clock", "sop", "governance", "calibration", "materialize", "rules", "docs",
                "series", "entitlements", "llm", "catalog", "connection", "flow",
                "derivation", "slice", "audit", "references"}
    /\ FeatureInit /\ ClockInit /\ SopInit /\ GovInit /\ CalInit /\ MatInit /\ RuleInit /\ DocInit
    /\ SeriesInit /\ FeatInit /\ LlmInit /\ CatalogInit /\ ConnInit /\ FlowInit
    /\ DerivationInit /\ SliceInit /\ AuditInit /\ RefsInit
    /\ part # "entitlements" => template = BuiltIn
    /\ part # "slice" => policies = {} /\ \A o \in AllObjects : labels[o] = {"l1"}
    /\ part # "audit" => baseline = CHOOSE f \in Baselines : TRUE

\* The parts that do not move.
Rest(p) ==
    /\ part = p /\ part' = part
    /\ p # "features" => UNCHANGED featureVars
    /\ p # "clock" => UNCHANGED clockVars
    /\ p # "sop" => UNCHANGED sopVars
    /\ p # "governance" => UNCHANGED govVars
    /\ p # "calibration" => UNCHANGED calVars
    /\ p # "materialize" => UNCHANGED matVars
    /\ p # "rules" => UNCHANGED ruleVars
    /\ p # "docs" => UNCHANGED docVars
    /\ p # "series" => UNCHANGED seriesVars
    /\ p # "entitlements" => UNCHANGED featVars
    /\ p # "llm" => UNCHANGED llmVars
    /\ p # "catalog" => UNCHANGED catalogVars
    /\ p # "connection" => UNCHANGED connVars
    /\ p # "flow" => UNCHANGED flowVars
    /\ p # "derivation" => UNCHANGED derivationVars
    /\ p # "slice" => UNCHANGED sliceVars
    /\ p # "audit" => UNCHANGED auditVars
    /\ p # "references" => UNCHANGED refVars

Next ==
    \/ Rest("features") /\ FeatureNext
    \/ Rest("clock") /\ ClockNext
    \/ Rest("sop") /\ SopNext
    \/ Rest("governance") /\ GovNext
    \/ Rest("calibration") /\ CalNext
    \/ Rest("materialize") /\ MatNext
    \/ Rest("rules") /\ RuleNext
    \/ Rest("docs") /\ DocNext
    \/ Rest("series") /\ SeriesNext
    \/ Rest("entitlements") /\ FeatNext
    \/ Rest("llm") /\ LlmNext
    \/ Rest("catalog") /\ CatalogNext
    \/ Rest("connection") /\ ConnNext
    \/ Rest("flow") /\ FlowNext
    \/ Rest("derivation") /\ DerivationNext
    \/ Rest("slice") /\ SliceNext
    \/ Rest("audit") /\ AuditNext
    \/ Rest("references") /\ RefsNext

Spec == Init /\ [][Next]_partVars

\* The part that moves keeps its shape.
PartTypeOK ==
    CASE part = "features" -> FeatureTypeOK
      [] part = "clock" -> ClockTypeOK
      [] part = "sop" -> SopTypeOK
      [] part = "governance" -> GovTypeOK
      [] part = "calibration" -> CalTypeOK
      [] part = "materialize" -> MatTypeOK
      [] part = "rules" -> RuleTypeOK
      [] part = "docs" -> DocTypeOK
      [] part = "series" -> SeriesTypeOK
      [] part = "entitlements" -> FeatTypeOK
      [] part = "llm" -> LlmTypeOK
      [] part = "catalog" -> CatalogTypeOK
      [] part = "connection" -> ConnTypeOK
      [] part = "flow" -> FlowTypeOK
      [] part = "derivation" -> DerivationTypeOK
      [] part = "slice" -> SliceTypeOK
      [] part = "audit" -> AuditTypeOK
      [] part = "references" -> RefsTypeOK

\* The features of tenants and roles are what their layers leave on.  (What follows is true of parts that
\* do not move and costs time, so it is asked only of those that do.)
FeaturesSound == part = "entitlements" => ConfigurationSound

\* What is computed from stored values is what they give: the windows of a series, the derived
\* properties of objects.
ComputedIsCurrent == SeriesExact /\ DerivedIsCurrent

=============================================================================
