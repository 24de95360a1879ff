---------------------------- MODULE OntologySlice ----------------------------
(***************************************************************************)
(* Declarative slices (ontology-core.ts, executeSlice) under the           *)
(* permissions of authz.ts.  From the root objects a slice follows its     *)
(* paths link by link; what the caller may not see is pruned with all that *)
(* is only reached through it, a node is counted once, and the slice is    *)
(* cut at its size.                                                        *)
(*                                                                         *)
(* All that one execution reads is read at once.  Of an object's           *)
(* properties there is the set of labels (filters and row filters) it      *)
(* matches; projections are left out.                                      *)
(***************************************************************************)
EXTENDS Naturals, Sequences, FiniteSets

CONSTANTS
    SliceObjects, SliceTypeOf, \* objects in the order they are stored, and their types
    SliceLinkTypes,            \* per link key the types it leads from and to
    SliceLinks,                \* links in the order they are stored
    SliceSpecs,                \* slices: root type, filter, paths of hops, size
    PolicySets,                \* sets of policies a tenant may have
    CallerRoles                   \* sets of roles a caller may have

VARIABLES
    labels,   \* per object the filters it matches
    policies, \* the policies of the tenant
    execution,  \* slice and roles of the last execution
    slice     \* and what it answered

sliceVars == <<labels, policies, execution, slice>>

NoFilter == "none"
Labels == {"l1", "l2"}
NoSlice == [nodes |-> {}, edges |-> {}, truncated |-> FALSE]
NoExecution == [spec |-> 0, roles |-> {}]
AllObjects == {SliceObjects[i] : i \in DOMAIN SliceObjects}

IsList(s) == Len(s) \in Nat /\ DOMAIN s = 1..Len(s)

ASSUME SliceAssumption ==
    /\ \A i \in DOMAIN SliceLinks : {SliceLinks[i].from, SliceLinks[i].to} \subseteq AllObjects
    /\ IsList(SliceObjects) /\ IsList(SliceLinks) /\ IsList(SliceSpecs)
    /\ \A i \in DOMAIN SliceSpecs :
        /\ SliceSpecs[i].maxNodes \in Nat /\ IsList(SliceSpecs[i].paths)
        /\ \A p \in DOMAIN SliceSpecs[i].paths : LET path == SliceSpecs[i].paths[p] IN
            IsList(path) /\ \A k \in DOMAIN path : path[k].limit \in Nat

SliceTypeOK ==
    /\ labels \in [AllObjects -> SUBSET Labels] /\ policies \in PolicySets
    /\ execution \in [spec : 0..Len(SliceSpecs), roles : CallerRoles \cup {{}}]
    /\ slice.nodes \subseteq AllObjects /\ slice.truncated \in BOOLEAN
    /\ \A e \in slice.edges : {e.from, e.to} \subseteq AllObjects

SliceInit ==
    /\ labels \in [AllObjects -> {{}, {"l1"}, {"l1", "l2"}}]
    /\ \A o \in AllObjects : SliceTypeOf[o] # "proc" => labels[o] = {"l1"}
    /\ policies \in PolicySets /\ execution = NoExecution /\ slice = NoSlice

-----------------------------------------------------------------------------
(* authz.ts *)

Attached(type) == {p \in policies : p.type \in {type, "*"}}
Granting(type, roles) == {p \in Attached(type) : p.role \in roles \cup {"*"}}

\* decide: nothing for those who run the platform, everything where no policy is attached, else the rows
\* that pass the filters of all policies that grant something; none grants nothing.
May(type, roles) == "platform_admin" \notin roles /\ (Attached(type) = {} \/ Granting(type, roles) # {})
Passes(o, filters) == filters \ {NoFilter} \subseteq labels[o]
Visible(o, roles) ==
    May(SliceTypeOf[o], roles) /\ Passes(o, {p.rowFilter : p \in Granting(SliceTypeOf[o], roles)})

-----------------------------------------------------------------------------
(* executeSlice *)

\* Mutant of Added: a slice may have one node more.
AddedOneMore(st, o, max) ==
    IF o \in st.nodes THEN st
    ELSE IF Cardinality(st.nodes) > max THEN [st EXCEPT !.truncated = TRUE]
    ELSE [st EXCEPT !.nodes = @ \cup {o}]

\* addNode
Added(st, o, max) ==
    IF o \in st.nodes THEN st
    ELSE IF Cardinality(st.nodes) >= max THEN [st EXCEPT !.truncated = TRUE]
    ELSE [st EXCEPT !.nodes = @ \cup {o}]

IsRoot(o, spec, roles) == SliceTypeOf[o] = spec.rootType /\ Visible(o, roles) /\ Passes(o, {spec.rootFilter})

\* Roots are added in the order they are stored, until one does not fit.
Rooted(st, o, spec, roles) ==
    LET st2 == Added(st, o, spec.maxNodes) IN
    IF st.truncated \/ ~IsRoot(o, spec, roles) THEN st
    ELSE IF o \notin st2.nodes THEN st2
    ELSE [st2 EXCEPT !.next = Append(@, o)]

\* The other end of link l for one who comes from o by this hop.
FromTo(hop, l) == IF hop.direction = "out" THEN <<l.from, l.to>> ELSE <<l.to, l.from>>
HopType(hop) == SliceLinkTypes[hop.link][IF hop.direction = "out" THEN 2 ELSE 1]
Taken(hop, o, roles) == SliceTypeOf[o] = HopType(hop) /\ Visible(o, roles) /\ Passes(o, {hop.filter})

\* One link of a parent: children count towards the parent's limit only if they are taken, but also if
\* they are there already; at the slice's size the parent's links are left.
Followed(st, l, hop, parent, roles, max) ==
    LET child == FromTo(hop, l)[2]
        st2 == Added([st EXCEPT !.count = @ + 1], child, max) IN
    IF st.full \/ st.count >= hop.limit \/ l.key # hop.link \/ FromTo(hop, l)[1] # parent \/ ~Taken(hop, child, roles)
    THEN st
    ELSE IF child \notin st2.nodes THEN [st2 EXCEPT !.full = TRUE]
    ELSE [st2 EXCEPT !.edges = @ \cup {[link |-> l.key, from |-> l.from, to |-> l.to]}, !.next = Append(@, child)]

\* A loop over a sequence.
After(Step(_, _), start, seq) ==
    LET after[k \in 0..Len(seq)] == IF k = 0 THEN start ELSE Step(after[k - 1], seq[k]) IN after[Len(seq)]

OfParent(st, parent, hop, roles, max) ==
    After(LAMBDA s, l : Followed(s, l, hop, parent, roles, max), [st EXCEPT !.count = 0, !.full = FALSE], SliceLinks)

OfParents(st, hop, roles, max) ==
    After(LAMBDA s, parent : OfParent(s, parent, hop, roles, max), [st EXCEPT !.next = <<>>], st.next)

\* A path is over at a link key nobody knows, and after the hop at which the slice was cut.
Hopped(st, hop, roles, max) ==
    IF st.over THEN st
    ELSE IF hop.link \notin DOMAIN SliceLinkTypes THEN [st EXCEPT !.over = TRUE]
    ELSE LET after == OfParents(st, hop, roles, max) IN [after EXCEPT !.over = after.truncated]

\* Every path starts from the roots that are in the slice; after the one at which it was cut there is none.
PathWalked(st, path, from, roles, max) ==
    LET after == After(LAMBDA s, hop : Hopped(s, hop, roles, max), [st EXCEPT !.next = from, !.over = FALSE], path) IN
    IF st.cut THEN st ELSE [after EXCEPT !.cut = after.truncated]

Unfilled == [nodes |-> {}, edges |-> {}, truncated |-> FALSE, next |-> <<>>, count |-> 0, full |-> FALSE,
             over |-> FALSE, cut |-> FALSE]
RootsAdded(spec, roles) == After(LAMBDA st, o : Rooted(st, o, spec, roles), Unfilled, SliceObjects)

ExecuteSlice(spec, roles) ==
    LET start == RootsAdded(spec, roles)
        end == After(LAMBDA st, path : PathWalked(st, path, start.next, roles, spec.maxNodes), start, spec.paths) IN
    [nodes |-> end.nodes, edges |-> end.edges, truncated |-> end.truncated]

SliceResolved(i, roles) ==
    /\ execution = NoExecution
    /\ execution' = [spec |-> i, roles |-> roles]
    /\ slice' = ExecuteSlice(SliceSpecs[i], roles)
    /\ UNCHANGED <<labels, policies>>

SliceNext == \E i \in DOMAIN SliceSpecs : \E roles \in CallerRoles : SliceResolved(i, roles)

SliceSpecification == SliceInit /\ [][SliceNext]_sliceVars

-----------------------------------------------------------------------------
(* Properties *)

\* What the first k hops of a path lead to, all at once and without limits.
RootsOf(spec, roles) == {o \in AllObjects : IsRoot(o, spec, roles)}
Children(parents, hop, roles) ==
    {o \in AllObjects :
        /\ hop.link \in DOMAIN SliceLinkTypes /\ Taken(hop, o, roles)
        /\ \E i \in DOMAIN SliceLinks : /\ SliceLinks[i].key = hop.link /\ FromTo(hop, SliceLinks[i])[2] = o
                                       /\ FromTo(hop, SliceLinks[i])[1] \in parents}
AlongPath(spec, path, roles) ==
    LET level[k \in 0..Len(path)] ==
            IF k = 0 THEN RootsOf(spec, roles) ELSE Children(level[k - 1], path[k], roles) IN level

Reachable(spec, roles) ==
    RootsOf(spec, roles)
    \cup UNION {UNION {AlongPath(spec, spec.paths[p], roles)[k] : k \in 0..Len(spec.paths[p])} : p \in DOMAIN spec.paths}

Unlimited(spec) == \A p \in DOMAIN spec.paths : \A k \in DOMAIN spec.paths[p] :
    spec.paths[p][k].limit >= Len(SliceLinks)

\* An answer holds only what its caller reaches through objects he may see; it is no larger than it may
\* be and says so if it was cut; if it was not, and no limit per node applies, it is all he reaches.
\* Its edges are links between its nodes.
SliceSound == execution # NoExecution =>
    LET spec == SliceSpecs[execution.spec]
        reachable == Reachable(spec, execution.roles) IN
    /\ slice.nodes \subseteq reachable
    /\ Cardinality(slice.nodes) <= spec.maxNodes
    /\ slice.truncated => Cardinality(slice.nodes) = spec.maxNodes
    /\ Unlimited(spec) => (slice.truncated <=> Cardinality(reachable) > spec.maxNodes)
    /\ Unlimited(spec) /\ ~slice.truncated => slice.nodes = reachable
    /\ \A e \in slice.edges : {e.from, e.to} \subseteq slice.nodes /\
        \E i \in DOMAIN SliceLinks : <<SliceLinks[i].key, SliceLinks[i].from, SliceLinks[i].to>> = <<e.link, e.from, e.to>>

=============================================================================
