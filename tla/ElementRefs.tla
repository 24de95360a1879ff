----------------------------- MODULE ElementRefs -----------------------------
(***************************************************************************)
(* The deprecation of ontology elements (types and links) and the index of *)
(* what refers to them (datacore ontology-governance.ts, ontology.ts,      *)
(* ontology-core.ts and their routes in app.ts).  Whoever stores a slice   *)
(* or a derivation spec, a publication, indexes its references afterwards, *)
(* clearing the old rows first; whoever retires an element counts the rows *)
(* first.  There is no transaction around either.                          *)
(*                                                                         *)
(* Every repository call is a step.  A reference is an element under a     *)
(* kind: a slice refers to its root type and its links; a derivation spec  *)
(* to its target type, the links it navigates and, as "prop", the types    *)
(* whose properties it reads.  All elements exist.                         *)
(***************************************************************************)
EXTENDS Naturals, FiniteSets, Sequences

CONSTANTS
    TypeKeys, LinkKeys, \* the elements
    Publications,       \* [refKind |-> "slice" or "derivation", refKey |-> its key]
    SliceRefs,          \* the references a slice may have, its root type first
    DerivationRefs,     \* those of a derivation spec, its target type first
    Indexers,           \* requests that store a publication
    Stewards,           \* requests that deprecate, retire, change or publish elements
    MaxStores, MaxStewardships \* bounds on their number

Elements == TypeKeys \cup LinkKeys
KindOf(e) == IF e \in TypeKeys THEN "type" ELSE "link"
Ref == [kind : {"type", "link", "prop"}, key : Elements]
RefLists == SliceRefs \cup DerivationRefs

ASSUME RefsAssumption ==
    /\ TypeKeys \cap LinkKeys = {} /\ Elements # {}
    /\ Publications # {} /\ \A p \in Publications : p.refKind \in {"slice", "derivation"}
    /\ RefLists \subseteq Seq(Ref) /\ <<>> \notin RefLists
    /\ \A refs \in SliceRefs : \A n \in DOMAIN refs : refs[n].kind = KindOf(refs[n].key)
    /\ MaxStores \in Nat /\ MaxStewardships \in Nat

VARIABLES
    elements,     \* the records of types and links
    stored,       \* what each publication refers to, as it was put last; <<>>: never
    refRows,      \* element_refs
    stores,       \* per indexer: where it stands and what it has read
    stewardships, \* the same per steward
    torn,         \* publications stored by two requests at once, not to the end, or past the index
    refsCalm,     \* no steward has been at work during a store
    storesLeft, stewardshipsLeft

refVars == <<elements, stored, refRows, stores, stewardships, torn, refsCalm, storesLeft, stewardshipsLeft>>

Element == [status : {"ACTIVE", "DEPRECATED", "RETIRED"}, published : BOOLEAN]
RefRow == [by : Publications, kind : {"type", "link", "prop"}, key : Elements, no : Nat]
Store == [at : {"idle", "check", "list", "rows"}, by : Publications, refs : RefLists \cup {<<>>}, next : Nat, old : SUBSET RefRow]
NoStore == [at |-> "idle", by |-> CHOOSE p \in Publications : TRUE, refs |-> <<>>, next |-> 1, old |-> {}]
\* todo: the elements a steward still has to put; copy: the records as it read them.
Stewardship == [doing : {"nothing", "count", "deprecate", "retire", "change", "publishTypes", "publishLinks"},
                todo : SUBSET Elements, copy : [Elements -> Element]]
NewElement == [status |-> "ACTIVE", published |-> FALSE]
NoStewardship == [doing |-> "nothing", todo |-> {}, copy |-> [e \in Elements |-> NewElement]]

RefsTypeOK ==
    /\ elements \in [Elements -> Element]
    /\ stored \in [Publications -> RefLists \cup {<<>>}] /\ refRows \subseteq RefRow
    /\ stores \in [Indexers -> Store] /\ stewardships \in [Stewards -> Stewardship]
    /\ torn \subseteq Publications /\ refsCalm \in BOOLEAN
    /\ storesLeft \in 0..MaxStores /\ stewardshipsLeft \in 0..MaxStewardships

RefsInit ==
    /\ elements = [e \in Elements |-> NewElement]
    /\ stored = [p \in Publications |-> <<>>] /\ refRows = {}
    /\ stores = [c \in Indexers |-> NoStore] /\ stewardships = [w \in Stewards |-> NoStewardship]
    /\ torn = {} /\ refsCalm = TRUE /\ storesLeft = MaxStores /\ stewardshipsLeft = MaxStewardships

-----------------------------------------------------------------------------
(* Storing a slice or a derivation spec, and indexing it *)

\* The identifier of a row says nothing of the kind of its publication.
RowId(row) == <<row.by.refKey, row.kind, row.key, row.no>>
Without(rows, row) == {r \in rows : RowId(r) # RowId(row)}
RowOf(p, refs, n) == [by |-> p, kind |-> refs[n].kind, key |-> refs[n].key, no |-> n]
RowsBy(p) == {r \in refRows : r.by = p}

\* Past its checks, a request writes.
Writes(c, p) == stores[c].at \in {"list", "rows"} /\ stores[c].by = p
StoreTo(c, call) == stores' = [stores EXCEPT ![c] = call]

\* Only the route of slices checks: a spec begins behind its last reference.
StoreStarts(c, p, refs) ==
    /\ stores[c].at = "idle" /\ storesLeft > 0
    /\ refs \in IF p.refKind = "slice" THEN SliceRefs ELSE DerivationRefs
    /\ StoreTo(c, [at |-> "check", by |-> p, refs |-> refs,
                   next |-> IF p.refKind = "slice" THEN 1 ELSE 1 + Len(refs), old |-> {}])
    /\ storesLeft' = storesLeft - 1
    /\ refsCalm' = (refsCalm /\ \A w \in Stewards : stewardships[w].doing = "nothing")
    /\ UNCHANGED <<elements, stored, refRows, stewardships, torn, stewardshipsLeft>>

\* assertNewRefAllowed, one element.
RefAllowed(ref) == elements[ref.key].status = "ACTIVE"

RefChecked(c) == LET call == stores[c] IN
    /\ call.at = "check" /\ call.next <= Len(call.refs)
    /\ StoreTo(c, IF RefAllowed(call.refs[call.next]) THEN [call EXCEPT !.next = @ + 1] ELSE NoStore)
    /\ UNCHANGED <<elements, stored, refRows, stewardships, torn, refsCalm, storesLeft, stewardshipsLeft>>

\* putSliceSpec or compileSpecs: one record per key, whatever its version.
SpecPut(c) == LET call == stores[c] IN
    /\ call.at = "check" /\ call.next > Len(call.refs)
    /\ stored' = [stored EXCEPT ![call.by] = call.refs]
    /\ torn' = IF \E d \in Indexers : Writes(d, call.by) THEN torn \cup {call.by} ELSE torn \ {call.by}
    /\ StoreTo(c, [call EXCEPT !.at = "list"])
    /\ UNCHANGED <<elements, refRows, stewardships, refsCalm, storesLeft, stewardshipsLeft>>

OldRowsListed(c) == LET call == stores[c] IN
    /\ call.at = "list"
    /\ StoreTo(c, [call EXCEPT !.at = "rows", !.old = RowsBy(call.by), !.next = 1])
    /\ UNCHANGED <<elements, stored, refRows, stewardships, torn, refsCalm, storesLeft, stewardshipsLeft>>

OldRowRemoved(c) == LET call == stores[c] IN \E row \in call.old :
    /\ call.at = "rows"
    /\ refRows' = Without(refRows, row)
    /\ StoreTo(c, [call EXCEPT !.old = @ \ {row}])
    /\ UNCHANGED <<elements, stored, stewardships, torn, refsCalm, storesLeft, stewardshipsLeft>>

RowIndexed(c) == LET call == stores[c] row == RowOf(call.by, call.refs, call.next) IN
    /\ call.at = "rows" /\ call.old = {} /\ call.next <= Len(call.refs)
    /\ refRows' = Without(refRows, row) \cup {row}
    /\ StoreTo(c, IF call.next = Len(call.refs) THEN NoStore ELSE [call EXCEPT !.next = @ + 1])
    /\ UNCHANGED <<elements, stored, stewardships, torn, refsCalm, storesLeft, stewardshipsLeft>>

\* A write fails, or the process restarts.
StoreBreaks(c) == LET call == stores[c] IN
    /\ call.at # "idle"
    /\ torn' = IF call.at = "check" THEN torn ELSE torn \cup {call.by}
    /\ StoreTo(c, NoStore)
    /\ UNCHANGED <<elements, stored, refRows, stewardships, refsCalm, storesLeft, stewardshipsLeft>>

\* A workflow is published, or the battery is seeded: a slice is put without checks and without rows.
SlicePutUnindexed(p, refs) ==
    /\ p.refKind = "slice" /\ refs \in SliceRefs /\ storesLeft > 0
    /\ stored' = [stored EXCEPT ![p] = refs] /\ torn' = torn \cup {p}
    /\ storesLeft' = storesLeft - 1
    /\ UNCHANGED <<elements, refRows, stores, stewardships, refsCalm, stewardshipsLeft>>

-----------------------------------------------------------------------------
(* What happens to the elements *)

Counted(e) == {r \in refRows : r.kind = KindOf(e) /\ r.key = e}

StewardTo(w, s) == stewardships' = [stewardships EXCEPT ![w] = s]
Reads(doing, todo) == [doing |-> doing, todo |-> todo, copy |-> elements]

StewardStarts(w, s) ==
    /\ stewardships[w].doing = "nothing" /\ stewardshipsLeft > 0
    /\ StewardTo(w, s) /\ stewardshipsLeft' = stewardshipsLeft - 1
    /\ refsCalm' = (refsCalm /\ \A c \in Indexers : stores[c].at = "idle")
    /\ UNCHANGED <<elements, stored, refRows, stores, torn, storesLeft>>

DeprecateReads(w, e) == StewardStarts(w, Reads("deprecate", {e}))
\* upsertType, upsertLinkType
ChangeReads(w, e) == StewardStarts(w, Reads("change", {e}))
\* publishVersion: those that are not published yet, types before links.
PublishListsTypes(w) == StewardStarts(w, Reads("publishTypes", {e \in TypeKeys : ~elements[e].published}))

\* retire: only what nothing refers to, whether it was deprecated or not.
RetireCounts(w, e) == Counted(e) = {} /\ StewardStarts(w, [NoStewardship EXCEPT !.doing = "count", !.todo = {e}])

RetireReads(w) ==
    /\ stewardships[w].doing = "count"
    /\ StewardTo(w, Reads("retire", stewardships[w].todo))
    /\ UNCHANGED <<elements, stored, refRows, stores, torn, refsCalm, storesLeft, stewardshipsLeft>>

PublishListsLinks(w) ==
    /\ stewardships[w].doing = "publishTypes" /\ stewardships[w].todo = {}
    /\ StewardTo(w, Reads("publishLinks", {e \in LinkKeys : ~elements[e].published}))
    /\ UNCHANGED <<elements, stored, refRows, stores, torn, refsCalm, storesLeft, stewardshipsLeft>>

\* What is put in the place of a record.  A changed link is put without what it had; a type keeps it.
Changed(doing, e, was) ==
    CASE doing = "deprecate" -> [was EXCEPT !.status = "DEPRECATED"]
      [] doing = "retire" -> [was EXCEPT !.status = "RETIRED"]
      [] doing = "change" -> IF e \in LinkKeys THEN NewElement ELSE was
      [] OTHER -> [was EXCEPT !.published = TRUE]

ElementPut(w) == LET s == stewardships[w] IN \E e \in s.todo :
    /\ s.doing \in {"deprecate", "retire", "change", "publishTypes", "publishLinks"}
    /\ elements' = [elements EXCEPT ![e] = Changed(s.doing, e, s.copy[e])]
    /\ StewardTo(w, [s EXCEPT !.todo = @ \ {e}])
    /\ UNCHANGED <<stored, refRows, stores, torn, refsCalm, storesLeft, stewardshipsLeft>>

\* Done; a publication is when its links are.
StewardEnds(w) ==
    /\ stewardships[w].doing \in {"deprecate", "retire", "change", "publishLinks"} /\ stewardships[w].todo = {}
    /\ StewardTo(w, NoStewardship)
    /\ UNCHANGED <<elements, stored, refRows, stores, torn, refsCalm, storesLeft, stewardshipsLeft>>

StewardBreaks(w) ==
    /\ stewardships[w].todo # {}
    /\ StewardTo(w, NoStewardship)
    /\ UNCHANGED <<elements, stored, refRows, stores, torn, refsCalm, storesLeft, stewardshipsLeft>>

RefsNext ==
    \/ \E p \in Publications : \E refs \in SliceRefs : SlicePutUnindexed(p, refs)
    \/ \E c \in Indexers :
         \/ \E p \in Publications : \E refs \in RefLists : StoreStarts(c, p, refs)
         \/ RefChecked(c) \/ SpecPut(c) \/ OldRowsListed(c) \/ OldRowRemoved(c) \/ RowIndexed(c) \/ StoreBreaks(c)
    \/ \E w \in Stewards :
         \/ \E e \in Elements : DeprecateReads(w, e) \/ ChangeReads(w, e) \/ RetireCounts(w, e)
         \/ PublishListsTypes(w) \/ RetireReads(w) \/ PublishListsLinks(w) \/ ElementPut(w) \/ StewardEnds(w) \/ StewardBreaks(w)

RefsSpec == RefsInit /\ [][RefsNext]_refVars

-----------------------------------------------------------------------------
(* Properties *)

KeysDiffer == \A p, q \in Publications : p.refKey = q.refKey => p = q
BeingStored(p) == \E c \in Indexers : Writes(c, p)

\* indexSliceRefs, indexDerivationRefs (ontology-governance.ts:253, 284): whatever stewards do meanwhile,
\* the rows of a publication are its references as it was put last, also if an earlier store had broken
\* off half-way, ran into another one or went past the index.
IndexExact == \A p \in Publications : p \notin torn /\ ~BeingStored(p) =>
    RowsBy(p) = {RowOf(p, stored[p], n) : n \in DOMAIN stored[p]}

SlicesWithout(status) == \A p \in Publications \ torn : p.refKind = "slice" =>
    \A n \in DOMAIN stored[p] : elements[stored[p][n].key].status # status

\* retire counts the rows, the route of slices checks each element (ontology-governance.ts:188, 212): if
\* no steward works while something is stored, no slice refers to an element that is RETIRED.
RetiredIsUnused == refsCalm => SlicesWithout("RETIRED")

\* Both, unless a slice and a derivation spec have one key: then their rows may have one identifier.
ReferencesSound == KeysDiffer => IndexExact /\ RetiredIsUnused

\* docs/PRD-addendum-ontology-governance.md:37: what is RETIRED has no references, whoever works when.
RetiredHasNoUser == SlicesWithout("RETIRED")

\* docs/PRD-addendum-ontology-governance.md:35: formulas may not refer to a deprecated element either.
FormulasAreChecked ==
    refsCalm => \A p \in Publications \ torn : p.refKind = "derivation" =>
        \A n \in DOMAIN stored[p] : elements[stored[p][n].key].status # "RETIRED"

\* docs/PRD-addendum-ontology-governance.md:34: ACTIVE, DEPRECATED, RETIRED, and no way back.
RetiredStays == [][\A e \in Elements : elements[e].status = "RETIRED" => elements'[e].status = "RETIRED"]_refVars

=============================================================================
