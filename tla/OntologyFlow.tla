---------------------------- MODULE OntologyFlow ----------------------------
(***************************************************************************)
(* One ontology workflow (pipeline/service.ts): a graph of nodes that is   *)
(* edited as a whole, validated and published.  Validation is the code's,  *)
(* Kahn's algorithm included; publication validates one reading of the     *)
(* graph, takes another and writes the types, the links, a version of the  *)
(* ontology and the slice one after the other.                             *)
(*                                                                         *)
(* With connections and references it makes up what is imported, the       *)
(* promises of which are joined at the end.                                *)
(*                                                                         *)
(* What a node holds is reduced to its kind: an entity may be STATIC and   *)
(* yet have derived values, a link joins two entities, the rest processes. *)
(***************************************************************************)
EXTENDS ElementRefs, ConnectorSync

CONSTANTS
    NodeLists,     \* the lists of node ids a graph may have, as the client sends them
    EdgeSets,      \* the sets of edges
    Entities,      \* ids of entity nodes, of a type each
    Derived,       \* entities with derived values, state variables or actions
    LinkEnds,      \* per id that is a link: the entities whose types it joins
    UpdatesDuringPublish \* whether the graph may be saved between the steps of a publication

ASSUME FlowAssumption ==
    /\ NodeLists \subseteq Seq(Nat) /\ EdgeSets \subseteq SUBSET (Nat \X Nat)
    /\ Derived \subseteq Entities /\ UpdatesDuringPublish \in BOOLEAN

VARIABLES
    flow,       \* the workflow as it is stored
    publishing, \* the publication under way: how far it is and the workflow it has read
    ontology,   \* the node ids whose types, links and slice the ontology holds, and how many versions it has
    lastGraph   \* history: the graph of the last publication that got to its end

flowVars == <<flow, publishing, ontology, lastGraph>>

Graph == [nodes : NodeLists, edges : EdgeSets, static : SUBSET Derived]
NoGraph == [nodes |-> <<>>, edges |-> {}, static |-> {}]
Flow == [graph : Graph \cup {NoGraph}, status : {"DRAFT", "PUBLISHED"}]
PublishSteps == {"idle", "validated", "types", "version"}
NotPublishing == [pc |-> "idle", graph |-> NoGraph]
MaxVersions == 2

FlowTypeOK ==
    /\ flow \in Flow /\ publishing \in [pc : PublishSteps, graph : Graph \cup {NoGraph}]
    /\ ontology \in [types : SUBSET Entities, links : SUBSET (DOMAIN LinkEnds), versions : 0..MaxVersions]
    /\ lastGraph \in Graph \cup {NoGraph}

FlowInit ==
    /\ flow = [graph |-> NoGraph, status |-> "DRAFT"] /\ publishing = NotPublishing
    /\ ontology = [types |-> {}, links |-> {}, versions |-> 0] /\ lastGraph = NoGraph

-----------------------------------------------------------------------------
(* validate *)

Ids(g) == {g.nodes[i] : i \in DOMAIN g.nodes}
EntitiesOf(g) == Ids(g) \cap Entities
LinksOf(g) == Ids(g) \cap DOMAIN LinkEnds
Inner(g) == {e \in g.edges : e[1] \in Ids(g) /\ e[2] \in Ids(g)}

\* Kahn's algorithm, the edges to ids that are missing left out: of the nodes without an edge to them, which
\* are queued, one is visited; its edges count no longer, and the nodes this frees are queued.
KahnStart(g) == [visited |-> {}, queue |-> {v \in Ids(g) : \A e \in Inner(g) : e[2] # v}]

KahnTurn(g, k) ==
    LET u == CHOOSE v \in k.queue : TRUE
        visited == k.visited \cup {u}
        freed == {v \in Ids(g) \ (visited \cup k.queue) : \A e \in Inner(g) : e[2] = v => e[1] \in visited} IN
    IF k.queue = {} THEN k ELSE [visited |-> visited, queue |-> (k.queue \ {u}) \cup freed]

Kahn(g) ==
    LET after[n \in 0..Len(g.nodes)] == IF n = 0 THEN KahnStart(g) ELSE KahnTurn(g, after[n - 1]) IN after

\* Mutant of HasCycle: only an edge back to where it starts is a cycle.
HasLoop(g) == \E e \in Inner(g) : e[1] = e[2]

\* Compared with the length of the list: an id that occurs twice counts as a cycle, too.
HasCycle(g) == Cardinality(Kahn(g)[Len(g.nodes)].visited) < Len(g.nodes)

Issues(g) ==
    {i \in {"DUP_NODE_ID"} : Cardinality(Ids(g)) # Len(g.nodes)}
    \cup {i \in {"EDGE_MISSING"} : Inner(g) # g.edges}
    \cup {i \in {"CYCLE"} : HasCycle(g)}
    \cup {i \in {"STATIC_HAS_ONTOLOGY_FEATURES"} : Ids(g) \cap g.static # {}}
    \cup {i \in {"LINK_TYPE_MISSING"} : \E l \in LinksOf(g) : ~(LinkEnds[l] \subseteq EntitiesOf(g))}

-----------------------------------------------------------------------------

\* create and update: the client's graph replaces the stored one; the status stays.
FlowUpdated == \E graph \in Graph :
    /\ UpdatesDuringPublish \/ publishing = NotPublishing
    /\ flow' = [flow EXCEPT !.graph = graph]
    /\ UNCHANGED <<publishing, ontology, lastGraph>>

\* promote: a STATIC entity becomes one of the ontology.
Promoted(n) ==
    /\ UpdatesDuringPublish \/ publishing = NotPublishing
    /\ n \in EntitiesOf(flow.graph)
    /\ flow' = [flow EXCEPT !.graph.static = @ \ {n}]
    /\ UNCHANGED <<publishing, ontology, lastGraph>>

\* publish goes on only without issues,
PublishValidates ==
    /\ publishing = NotPublishing /\ Issues(flow.graph) = {}
    /\ publishing' = [publishing EXCEPT !.pc = "validated"]
    /\ UNCHANGED <<flow, ontology, lastGraph>>

\* reads the workflow again and upserts the type of each entity,
PublishReadsAgain ==
    /\ publishing.pc = "validated"
    /\ publishing' = [pc |-> "types", graph |-> flow.graph]
    /\ UNCHANGED <<flow, ontology, lastGraph>>

TypeUpserted == \E n \in EntitiesOf(publishing.graph) \ ontology.types :
    /\ publishing.pc = "types"
    /\ ontology' = [ontology EXCEPT !.types = @ \cup {n}]
    /\ UNCHANGED <<flow, publishing, lastGraph>>

\* then each link,
LinkUpserted == \E n \in LinksOf(publishing.graph) \ ontology.links :
    /\ publishing.pc = "types" /\ EntitiesOf(publishing.graph) \subseteq ontology.types
    /\ ontology' = [ontology EXCEPT !.links = @ \cup {n}]
    /\ UNCHANGED <<flow, publishing, lastGraph>>

\* a version and the slice, which holds nothing else,
VersionPublished ==
    /\ publishing.pc = "types" /\ ontology.versions < MaxVersions
    /\ EntitiesOf(publishing.graph) \subseteq ontology.types /\ LinksOf(publishing.graph) \subseteq ontology.links
    /\ ontology' = [ontology EXCEPT !.versions = @ + 1]
    /\ publishing' = [publishing EXCEPT !.pc = "version"]
    /\ UNCHANGED <<flow, lastGraph>>

\* and the workflow is put as it was read the second time, PUBLISHED.
FlowPublished ==
    /\ publishing.pc = "version"
    /\ flow' = [graph |-> publishing.graph, status |-> "PUBLISHED"] /\ lastGraph' = publishing.graph
    /\ publishing' = NotPublishing
    /\ UNCHANGED ontology

\* A write fails or the process stops.
PublishBreaks ==
    /\ publishing # NotPublishing
    /\ publishing' = NotPublishing
    /\ UNCHANGED <<flow, ontology, lastGraph>>

FlowNext ==
    \/ FlowUpdated \/ PublishValidates \/ PublishReadsAgain \/ TypeUpserted \/ LinkUpserted
    \/ VersionPublished \/ FlowPublished \/ PublishBreaks
    \/ \E n \in Entities : Promoted(n)

FlowSpec == FlowInit /\ [][FlowNext]_flowVars

-----------------------------------------------------------------------------
(* Properties *)

\* A set of nodes in which each is reached from within: what there is in a graph exactly if it has a cycle.
Cyclic(g) == \E nodes \in (SUBSET Ids(g)) \ {{}} :
    \A v \in nodes : \E e \in Inner(g) : e[2] = v /\ e[1] \in nodes

\* Validation finds every cycle and no other graph is refused for one; the ontology never holds a link
\* without the types it joins, wherever a publication broke off; and the graph that was published last
\* is an acyclic one whose edges and links have their ends.
PublishedIsSound ==
    /\ Cardinality(Ids(flow.graph)) = Len(flow.graph.nodes) => HasCycle(flow.graph) = Cyclic(flow.graph)
    /\ \A l \in ontology.links : LinkEnds[l] \subseteq ontology.types
    /\ lastGraph # NoGraph =>
        /\ ~Cyclic(lastGraph) /\ Inner(lastGraph) = lastGraph.edges
        /\ \A l \in LinksOf(lastGraph) : LinkEnds[l] \subseteq EntitiesOf(lastGraph)

-----------------------------------------------------------------------------
(* What comes into the ontology and its datasets from outside *)

\* What a synchronisation of a connection, a publication of an ontology workflow and the storing of a
\* slice leave behind, also when they break off between two writes, can be accounted for.
ImportsSound == SyncExplained /\ PublishedIsSound /\ ReferencesSound

=============================================================================
