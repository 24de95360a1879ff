----------------------------- MODULE Derivation -----------------------------
(***************************************************************************)
(* Derived properties (ontology-core.ts, ontology-dsl.ts): formulas are    *)
(* compiled into specs with the properties they read, objects are          *)
(* upserted, and recompute brings the derived values up to date from the   *)
(* changes its caller lists: reverse navigation finds the targets a change *)
(* reaches, they are computed in topological order and put one by one, and *)
(* a value that changed reaches on.                                        *)
(*                                                                         *)
(* A formula is its syntax tree, written as the sequence of its nodes in   *)
(* the order they are evaluated: an operand is the place of an earlier     *)
(* node, the last node is the root.  The tokens it is parsed from are left *)
(* out.  Numbers are fixed-point, in units of 1/Scale.  Epochs, warnings   *)
(* and the history of temporal properties are left out.                    *)
(***************************************************************************)
EXTENDS Integers, Sequences, FiniteSets
LOCAL Sets == INSTANCE FiniteSetsExt

CONSTANTS
    ObjectIds, Seeded, TypeOf,  \* objects that may come to exist, those that exist at first, the type of each
    LinkTypes,                  \* per link key, the types it leads from and to
    Links,                      \* the links between objects: records of key, from and to
    BaseProps, BaseValues,      \* per type the properties that are upserted; per property its values
    DerivedProps,               \* the properties formulas give values to
    SpecBatches,                \* what compileSpecs is called with: a sequence of lists of specs, each with a key of its own
    Scale,                      \* 10000 in the code
    MaxUpserts,                 \* bound on the upserts
    RecomputeOverlaps           \* whether upserts overlap with a recompute, and a recompute may break off between puts

Null == <<"null">>
Undef == <<"undefined">>
Num(n) == <<"number", n>>
Bool(b) == <<"boolean", b>>

ASSUME DerivationAssumption ==
    /\ Seeded \subseteq ObjectIds /\ Scale \in Nat \ {0} /\ MaxUpserts \in Nat /\ RecomputeOverlaps \in BOOLEAN
    /\ \A l \in Links : l.key \in DOMAIN LinkTypes /\ LinkTypes[l.key] = <<TypeOf[l.from], TypeOf[l.to]>>
    /\ "own" \notin DOMAIN LinkTypes /\ "*" \notin DerivedProps \cup UNION {BaseProps[TypeOf[o]] : o \in ObjectIds}
    /\ \A i \in DOMAIN SpecBatches : LET batch == SpecBatches[i] IN
        /\ Len(batch) \in Nat /\ DOMAIN batch = 1..Len(batch)
        /\ \A j \in DOMAIN batch :
            /\ \E o \in ObjectIds : batch[j].type = TypeOf[o]
            /\ batch[j].prop \in DerivedProps
            /\ Len(batch[j].ast) \in Nat /\ DOMAIN batch[j].ast = 1..Len(batch[j].ast)
            /\ \A k \in DOMAIN batch : batch[j].key = batch[k].key => j = k

VARIABLES
    instances,  \* per object that exists its properties
    specs,    \* the compiled specs, in the order they were first put
    recompute,\* the recompute under way
    valueRuns,\* per object and derived property, value and inputs of the last run that was written
    toReport, \* changes no recompute has been called with yet, or with one that broke off
    upserts   \* how many upserts there were

derivationVars == <<instances, specs, recompute, valueRuns, toReport, upserts>>

Types == {TypeOf[o] : o \in ObjectIds}
Props == DerivedProps \cup UNION {BaseProps[t] : t \in Types}
IsNum(v) == v[1] = "number"
IsBool(v) == v[1] = "boolean"
Scalar(v) == v \in {Null, Undef} \/ IsNum(v) \/ IsBool(v)
NoNode == <<"none", "none">>
NoRecompute == [changes |-> {}, index |-> <<>>, dirty |-> {}, left |-> {}, node |-> NoNode, todo |-> {}, runs |-> <<>>]

DerivationTypeOK ==
    /\ DOMAIN instances \subseteq ObjectIds
    /\ \A o \in DOMAIN instances : DOMAIN instances[o] = Props /\ \A p \in Props : Scalar(instances[o][p])
    /\ \A i \in DOMAIN specs : specs[i].type \in Types /\ specs[i].prop \in DerivedProps
    /\ recompute.changes \subseteq Types \X (Props \cup {"*"}) \X ObjectIds /\ recompute.todo \subseteq ObjectIds
    /\ DOMAIN valueRuns \subseteq ObjectIds \X DerivedProps
    /\ toReport \subseteq Types \X (Props \cup {"*"}) \X ObjectIds /\ upserts \in 0..MaxUpserts

-----------------------------------------------------------------------------
(* ontology-dsl.ts: evaluation *)

\* The objects at the other end of the links a navigation follows from o.
Navigated(nav, o, objs) ==
    {x \in DOMAIN objs :
        \/ nav.direction = "out" /\ [key |-> nav.link, from |-> o, to |-> x] \in Links
        \/ nav.direction = "in" /\ [key |-> nav.link, from |-> x, to |-> o] \in Links}

\* Math.round: half goes up.
Quotient(a, b) == IF b < 0 THEN (b - 2 * a) \div (-2 * b) ELSE (2 * a + b) \div (2 * b)

Truthy(v) == v \notin {Null, Num(0), Bool(FALSE)}

Applied(op, l, r) ==
    IF Null \in {l, r} THEN Null
    ELSE IF op = "==" THEN Bool(l = r)
    ELSE IF op = "!=" THEN Bool(l # r)
    ELSE IF ~IsNum(l) \/ ~IsNum(r) THEN Null
    ELSE LET x == l[2]
             y == r[2] IN
         CASE op = "+" -> Num(x + y)
           [] op = "-" -> Num(x - y)
           [] op = "*" -> Num(Quotient(x * y, Scale))
           [] op = "/" -> IF y = 0 THEN Null ELSE Num(Quotient(x * Scale, y))
           [] op = ">" -> Bool(x > y)
           [] op = ">=" -> Bool(x >= y)
           [] op = "<" -> Bool(x < y)
           [] op = "<=" -> Bool(x <= y)

\* Over the numbers among the values of the objects, none of them gives null.
Aggregated(fn, amounts) ==
    LET counted == DOMAIN amounts
        numbers == {amounts[x] : x \in counted}
        sum == Sets!MapThenSumSet(LAMBDA x : amounts[x], counted) IN
    IF counted = {} THEN Null
    ELSE CASE fn = "SUM" -> Num(sum)
           [] fn = "AVG" -> Num(Quotient(sum, Cardinality(counted)))
           [] fn = "MIN" -> Num(Sets!Min(numbers))
           [] fn = "MAX" -> Num(Sets!Max(numbers))

Clamped(v, low, high) ==
    IF IsNum(v) /\ IsNum(low) /\ IsNum(high) THEN Num(Sets!Min({Sets!Max({v[2], low[2]}), high[2]})) ELSE Null

\* A node that combines the values of earlier nodes.
Combined(a, val) ==
    CASE a.kind = "value" -> a.value
      [] a.kind = "unary" -> Applied("-", Num(0), val[a.operand])
      [] a.kind = "binary" -> Applied(a.op, val[a.left], val[a.right])
      [] a.kind = "and" -> IF val[a.left] \in {Null, Bool(FALSE)} THEN val[a.left]
                           ELSE IF val[a.right] = Null THEN Null ELSE Bool(Truthy(val[a.left]) /\ Truthy(val[a.right]))
      [] a.kind = "or" -> IF val[a.left] \in {Null, Bool(TRUE)} THEN val[a.left]
                          ELSE IF val[a.right] = Null THEN Null ELSE Bool(Truthy(val[a.left]) \/ Truthy(val[a.right]))
      [] a.kind = "if" -> IF val[a.cond] = Null THEN Null ELSE IF Truthy(val[a.cond]) THEN val[a.left] ELSE val[a.right]
      [] a.kind = "coalesce" ->
            LET found == {i \in DOMAIN a.args : val[a.args[i]] # Null} IN
            IF found = {} THEN Null ELSE val[a.args[CHOOSE i \in found : \A j \in found : i <= j]]
      [] a.kind = "clamp" -> Clamped(val[a.value], val[a.left], val[a.right])

\* A formula without aggregates, as WHERE compares with.
PlainValue(a, val, o, objs) ==
    IF a.kind # "propref" THEN Combined(a, val) ELSE IF objs[o][a.prop] = Undef THEN Null ELSE objs[o][a.prop]
Operand(f, o, objs) == LET val[i \in DOMAIN f] == PlainValue(f[i], val, o, objs) IN val[Len(f)]

AggregateValue(a, o, objs) ==
    LET chosen == {x \in Navigated(a.nav, o, objs) : a.where = <<>> \/ objs[x][a.where[1]] = Operand(a.where[2], o, objs)} IN
    IF a.fn = "COUNT" THEN Num(Scale * Cardinality(chosen))
    ELSE Aggregated(a.fn, [x \in {y \in chosen : IsNum(objs[y][a.prop])} |-> objs[x][a.prop][2]])

NodeValue(a, val, o, objs) == IF a.kind = "agg" THEN AggregateValue(a, o, objs) ELSE PlainValue(a, val, o, objs)
Evaluate(f, o, objs) == LET val[i \in DOMAIN f] == NodeValue(f[i], val, o, objs) IN val[Len(f)]

-----------------------------------------------------------------------------
(* ontology-dsl.ts: the properties a formula reads *)

Dep(type, prop, nav) == [type |-> type, prop |-> prop, via |-> nav.link, direction |-> nav.direction]
Own == [link |-> "own", direction |-> "own"]
Nav(d) == [link |-> d.via, direction |-> d.direction]
TypeAt(nav) == LinkTypes[nav.link][IF nav.direction = "out" THEN 2 ELSE 1]

\* What an aggregate is compared with by WHERE is not walked.
Read(a, type) ==
    CASE a.kind = "propref" -> {Dep(type, a.prop, Own)}
      [] a.kind = "agg" -> {Dep(TypeAt(a.nav), p, a.nav) : p \in {a.prop} \cup (IF a.where = <<>> THEN {} ELSE {a.where[1]})}
      [] OTHER -> {}

\* A link that is not known is refused.
LinksKnown(f) == \A i \in DOMAIN f : f[i].kind = "agg" => f[i].nav.link \in DOMAIN LinkTypes

\* The first of those that agree in type, property and link key, whatever the direction.
ExtractDeps(f, type) ==
    UNION {{d \in Read(f[i], type) :
                \A j \in 1..(i - 1) : \A e \in Read(f[j], type) : <<e.type, e.prop, e.via>> # <<d.type, d.prop, d.via>>} :
           i \in DOMAIN f}

-----------------------------------------------------------------------------
(* ontology-core.ts: specs *)

Node(s) == <<s.type, s.prop>>
Nodes(ss) == {Node(ss[j]) : j \in DOMAIN ss}
Before(ss) == {e \in Nodes(ss) \X Nodes(ss) :
                  \E j \in DOMAIN ss : Node(ss[j]) = e[2] /\ \E d \in ss[j].deps : <<d.type, d.prop>> = e[1]}

\* What is left when nodes that read none of the others are taken out as often as there are nodes.
Unsorted(nodes, before) ==
    LET left[k \in 0..Cardinality(nodes)] ==
            IF k = 0 THEN nodes ELSE {m \in left[k - 1] : \E n \in left[k - 1] : <<n, m>> \in before} IN
    left[Cardinality(nodes)]

Sortable(ss) == Unsorted(Nodes(ss), Before(ss)) = {}

\* specByNode: of several specs for a property the last one is evaluated.
SpecAt(node) ==
    specs[CHOOSE j \in DOMAIN specs : Node(specs[j]) = node /\ \A k \in DOMAIN specs : Node(specs[k]) = node => k <= j]

\* Mutant of Reached: links are followed the way the formula navigates.
ReachedForward(s, o, objs) ==
    {t \in DOMAIN objs : TypeOf[t] = s.type /\ \E d \in s.deps :
        \/ d.via = "own" /\ t = o
        \/ d.via # "own" /\ t \in Navigated(Nav(d), o, objs)}

\* The targets of spec s that a change of o reaches: o itself, and what navigates to o by any link s uses.
Reached(s, o, objs) ==
    {t \in DOMAIN objs : TypeOf[t] = s.type /\ \E d \in s.deps :
        \/ d.via = "own" /\ t = o
        \/ d.via # "own" /\ o \in Navigated(Nav(d), t, objs)}

Readers(type, prop) == {s \in {specs[j] : j \in DOMAIN specs} : \E d \in s.deps : d.type = type /\ d.prop \in {prop, "*"}}

\* What becomes dirty when property prop of o has changed.
Marked(type, prop, o, objs) ==
    IF o \notin DOMAIN objs THEN {}
    ELSE UNION {{Node(s)} \X Reached(s, o, objs) : s \in Readers(type, prop)}

-----------------------------------------------------------------------------
(* Operations *)

DerivationInit ==
    /\ \E v \in [UNION {BaseProps[t] : t \in Types} -> UNION {BaseValues[p] : p \in DOMAIN BaseValues}] :
        /\ \A p \in DOMAIN v : v[p] = CHOOSE w \in BaseValues[p] : w # Null
        /\ instances = [o \in Seeded |-> [p \in Props |-> IF p \in BaseProps[TypeOf[o]] THEN v[p] ELSE Undef]]
    /\ specs = <<>> /\ recompute = NoRecompute /\ valueRuns = <<>> /\ toReport = {} /\ upserts = 0

\* compileSpecs: dependencies are extracted and the batch sorted for itself; unless that finds a cycle
\* the specs, new ones here, are put.  The caller then owes a recompute for all they read.
Compiled(batch) ==
    [j \in DOMAIN batch |-> LET s == batch[j] IN
        [key |-> s.key, type |-> s.type, prop |-> s.prop, ast |-> s.ast, deps |-> ExtractDeps(s.ast, s.type)]]
SpecsCompiled(i) ==
    LET batch == Compiled(SpecBatches[i]) IN
    /\ recompute = NoRecompute
    /\ \A j \in DOMAIN batch : LinksKnown(SpecBatches[i][j].ast) /\ \A k \in DOMAIN specs : specs[k].key # batch[j].key
    /\ Sortable(batch)
    /\ specs' = specs \o batch
    /\ toReport' = toReport \cup {<<TypeOf[c[2]], c[1].prop, c[2]>> :
            c \in {e \in (UNION {batch[j].deps : j \in DOMAIN batch}) \X DOMAIN instances : e[1].type = TypeOf[e[2]]}}
    /\ UNCHANGED <<instances, recompute, valueRuns, upserts>>

\* upsertObject: given properties are merged over those there are.  A new object comes with all of them.
ObjectUpserted(o) == \E given \in
    IF o \in DOMAIN instances THEN {{p} : p \in BaseProps[TypeOf[o]]} ELSE {BaseProps[TypeOf[o]]} :
    \E v \in [given -> UNION {BaseValues[p] : p \in given}] :
        /\ recompute = NoRecompute \/ RecomputeOverlaps
        /\ upserts < MaxUpserts
        /\ \A p \in given : v[p] \in BaseValues[p]
        /\ LET old == IF o \in DOMAIN instances THEN instances[o] ELSE [p \in Props |-> Undef] IN
           instances' = [x \in DOMAIN instances \cup {o} |->
                        IF x = o THEN [p \in Props |-> IF p \in given THEN v[p] ELSE old[p]] ELSE instances[x]]
        /\ toReport' = toReport \cup {<<TypeOf[o], p, o>> : p \in given}
        /\ upserts' = upserts + 1
        /\ UNCHANGED <<specs, recompute, valueRuns>>

\* recompute is called with the changes of one object or with all of them.  It throws if all specs together cannot be sorted; else
\* it reads all objects and marks what the changes reach.
RecomputeStarts == \E changes \in {toReport} \cup {{c \in toReport : c[3] = o} : o \in ObjectIds} :
    /\ changes # {} /\ recompute = NoRecompute /\ Sortable(specs)
    /\ recompute' = [NoRecompute EXCEPT !.changes = changes, !.index = instances, !.left = Nodes(specs),
                        !.dirty = UNION {Marked(c[1], c[2], c[3], instances) : c \in changes}]
    /\ UNCHANGED <<instances, specs, valueRuns, toReport, upserts>>

\* The next property in an order in which each comes after those it reads, with the targets marked by now.
NodeTaken(node) ==
    /\ recompute.todo = {} /\ node \in recompute.left
    /\ \A n \in recompute.left : <<n, node>> \notin Before(specs)
    /\ recompute' = [recompute EXCEPT !.left = @ \ {node}, !.node = node,
                        !.todo = {o \in ObjectIds : <<node, o>> \in recompute.dirty}]
    /\ UNCHANGED <<instances, specs, valueRuns, toReport, upserts>>

\* What the value run keeps of what the formula read.
Inputs(s, o, objs) ==
    {<<o, d.prop, objs[o][d.prop]>> : d \in {e \in s.deps : e.via = "own"}}
    \cup UNION {{<<x, d.prop, objs[x][d.prop]>> : x \in Navigated(Nav(d), o, objs)} :
                    d \in {e \in s.deps : e.via # "own" /\ e.prop # "*"}}

\* A target is computed and put whole, as it was read; if its value changed, so may what reads it.
TargetComputed(o) ==
    LET index == recompute.index
        s == SpecAt(recompute.node)
        value == Evaluate(s.ast, o, index)
        after == [index EXCEPT ![o][s.prop] = value] IN
    /\ o \in recompute.todo
    /\ instances' = [instances EXCEPT ![o] = after[o]]
    /\ recompute' = [recompute EXCEPT !.index = after, !.todo = @ \ {o},
                        !.dirty = @ \cup (IF index[o][s.prop] = value THEN {} ELSE Marked(s.type, s.prop, o, after)),
                        !.runs = [k \in DOMAIN @ \cup {<<o, s.prop>>} |->
                                    IF k = <<o, s.prop>> THEN [value |-> value, inputs |-> Inputs(s, o, index)] ELSE @[k]]]
    /\ UNCHANGED <<specs, valueRuns, toReport, upserts>>

\* At the end the value runs are written.
RecomputeEnds ==
    /\ recompute # NoRecompute /\ recompute.left = {} /\ recompute.todo = {}
    /\ valueRuns' = [k \in DOMAIN valueRuns \cup DOMAIN recompute.runs |->
                        IF k \in DOMAIN recompute.runs THEN recompute.runs[k] ELSE valueRuns[k]]
    /\ toReport' = toReport \ recompute.changes
    /\ recompute' = NoRecompute
    /\ UNCHANGED <<instances, specs, upserts>>

\* Something fails: before the first put it leaves no trace.
RecomputeBreaks ==
    /\ recompute # NoRecompute /\ (recompute.runs = <<>> \/ RecomputeOverlaps)
    /\ recompute' = NoRecompute
    /\ UNCHANGED <<instances, specs, valueRuns, toReport, upserts>>

DerivationNext ==
    \/ \E i \in DOMAIN SpecBatches : SpecsCompiled(i)
    \/ \E o \in ObjectIds : ObjectUpserted(o) \/ TargetComputed(o)
    \/ RecomputeStarts \/ RecomputeEnds \/ RecomputeBreaks
    \/ \E node \in recompute.left : NodeTaken(node)

DerivationSpec == DerivationInit /\ [][DerivationNext]_derivationVars

-----------------------------------------------------------------------------
(* Properties *)

\* Something that the formula reads is there.
HasInput(s, o, objs) == \E d \in s.deps :
    IF d.via = "own" THEN objs[o][d.prop] # Undef
    ELSE \E x \in Navigated(Nav(d), o, objs) : d.prop = "*" \/ objs[x][d.prop] # Undef
Given(inputs) == {v \in inputs : v[3] # Undef}

\* The value of node n at object o is what its formula gives for the objects as they are, and the last value run
\* of it holds this value and what there was to compute it from.
ValueHolds(n, o, objs, runs) ==
    LET s == SpecAt(n) IN
    /\ objs[o][n[2]] = Evaluate(s.ast, o, objs)
    /\ <<o, n[2]>> \in DOMAIN runs
    /\ runs[<<o, n[2]>>].value = objs[o][n[2]]
    /\ Given(runs[<<o, n[2]>>].inputs) = Given(Inputs(s, o, objs))

\* When every change has been reported, in whatever portions and order, each derived value is current.
\* (An object without anything to compute it from is never reached.)
DerivedIsCurrent ==
    recompute = NoRecompute /\ toReport = {} =>
        \A n \in Nodes(specs) : \A o \in DOMAIN instances :
            TypeOf[o] = n[1] /\ HasInput(SpecAt(n), o, instances) => ValueHolds(n, o, instances, valueRuns)

\* A formula as the theorem needs it: it reads properties that objects have, COUNT names none and the other
\* aggregates one, and WHERE compares with a value that is written down.
Literal(f) == Len(f) = 1 /\ DOMAIN f = {1} /\ f[1].kind = "value" /\ f[1].value # Undef
PlainFormula(f) == \A i \in DOMAIN f : LET a == f[i] IN
    /\ a.kind = "propref" => a.prop \in Props
    /\ a.kind = "agg" =>
        /\ a.nav.direction \in {"in", "out"}
        /\ IF a.fn = "COUNT" THEN a.prop = "*" ELSE a.prop \in Props
        /\ a.where = <<>> \/ (a.where[1] \in Props /\ Literal(a.where[2]))

\* No link leads from a type to itself: there the dependencies of both directions are taken for one.
LinksLeadElsewhere == \A l \in DOMAIN LinkTypes : LinkTypes[l][1] # LinkTypes[l][2]

\* A formula as the parser builds it: each node is of a kind there is and combines earlier ones.
NodeTyped(a, earlier) ==
    \/ a.kind = "propref"
    \/ a.kind = "agg" /\ a.fn \in {"COUNT", "SUM", "AVG", "MIN", "MAX"}
    \/ a.kind = "value" /\ Scalar(a.value)
    \/ a.kind = "unary" /\ a.operand \in earlier
    \/ a.kind = "binary" /\ {a.left, a.right} \subseteq earlier /\ a.op \in {"==", "!=", "+", "-", "*", "/", ">", ">=", "<", "<="}
    \/ a.kind \in {"and", "or"} /\ {a.left, a.right} \subseteq earlier
    \/ a.kind = "if" /\ {a.cond, a.left, a.right} \subseteq earlier
    \/ a.kind = "coalesce" /\ DOMAIN a.args \subseteq Nat /\ \A j \in DOMAIN a.args : a.args[j] \in earlier
    \/ a.kind = "clamp" /\ {a.value, a.left, a.right} \subseteq earlier
FormulaTyped(f) == Len(f) > 0 /\ \A i \in DOMAIN f : NodeTyped(f[i], 1..(i - 1))
ValuesTyped ==
    /\ \A t \in Types : BaseProps[t] \subseteq DOMAIN BaseValues
    /\ \A p \in DOMAIN BaseValues : \A v \in BaseValues[p] : Scalar(v)
    /\ \A i \in DOMAIN SpecBatches : \A j \in DOMAIN SpecBatches[i] : FormulaTyped(SpecBatches[i][j].ast)

FormulasPlain == \A i \in DOMAIN SpecBatches : \A j \in DOMAIN SpecBatches[i] : PlainFormula(SpecBatches[i][j].ast)
DerivedSeparate == \A t \in Types : BaseProps[t] \cap DerivedProps = {}

\* An object that is created starts something to be computed only by a property that it comes with.
NewcomersReport == \A o \in ObjectIds \ Seeded :
    /\ BaseProps[TypeOf[o]] # {}
    /\ \A i \in DOMAIN SpecBatches : Sortable(Compiled(SpecBatches[i])) =>
        \A j \in DOMAIN SpecBatches[i] : SpecBatches[i][j].type = TypeOf[o] =>
            \E k \in DOMAIN SpecBatches[i][j].ast : LET a == SpecBatches[i][j].ast[k] IN
                a.kind = "propref" /\ a.prop \in BaseProps[TypeOf[o]]

\* What compileSpecs accepts can be sorted together with what it accepted before.  Two batches that are
\* without a cycle each may have one together: then every recompute throws.
AlwaysSortable == Sortable(specs)

=============================================================================
