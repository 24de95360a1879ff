-------------------------- MODULE GovernanceProofs --------------------------
(***************************************************************************)
(* What the governance of the ontology promises for any number of signers, *)
(* administrators and domains, however their sign-offs and the sweep       *)
(* overlap.  Decisions do get lost: every put is of a whole copy.  The     *)
(* argument is that copies differ only in what they have not heard of:     *)
(* each approval in the request, or in any copy of it, was accepted once.  *)
(*                                                                         *)
(* And what comes into the ontology from outside: the index of references  *)
(* that slices and formulas leave, ontology workflows and their validation *)
(* by Kahn's algorithm, synchronised connections.                          *)
(*                                                                         *)
(* And what is computed from records: the features of a tenant and its     *)
(* roles, the windows of a time series, derived properties, and what a     *)
(* slice answers to whom.                                                  *)
(***************************************************************************)
EXTENDS Governance, OntologyFlow, FeatureConfig, TimeSeries, Derivation, OntologySlice,
        FiniteSetTheorems, SequenceTheorems, WellFoundedInduction, TLAPS

-----------------------------------------------------------------------------
(* The inductive invariant *)

\* What a copy of the request says was decided.
Backed(r) ==
    /\ \A d \in Domains : r.signoffs[d] = "APPROVE" => approvedBy[d] # {}
    /\ r.status = "APPROVED" => Every(r.signoffs)

AllApproved == \A d \in Domains : approvedBy[d] # {}

GovInvariant ==
    /\ GovTypeOK
    /\ Backed(request) /\ Backed(sweep) /\ \A u \in Signers : Backed(calls[u].copy)
    /\ published > 0 \/ (\E u \in Signers : calls[u].at = "publish") => AllApproved

\* The request nobody has decided, and nobody's copy.
LEMMA NoRequestType ==
    /\ NoRequest \in Request /\ Undecided \in [Domains -> Decision]
    /\ NoRequest.status = "ABSENT" /\ NoRequest.signoffs = Undecided
    /\ \A d \in Domains : Undecided[d] = "none"
  BY DEF NoRequest, Request, Undecided, Decision

LEMMA NoRequestBacked == Backed(NoRequest)
  BY NoRequestType DEF Backed

\* An approved request, or copy, has everybody's approval.
LEMMA ApprovedIsAll ==
    ASSUME NEW r, Backed(r), r.status = "APPROVED" PROVE AllApproved
  BY DEF Backed, Every, AllApproved

\* What has been accepted stays so; hence what is backed stays backed.
LEMMA StaysBacked ==
    ASSUME NEW r, Backed(r), \A d \in Domains : approvedBy[d] # {} => approvedBy'[d] # {}
    PROVE  /\ \A d \in Domains : r.signoffs[d] = "APPROVE" => approvedBy'[d] # {}
           /\ r.status = "APPROVED" => Every(r.signoffs)
  BY DEF Backed

-----------------------------------------------------------------------------

LEMMA InitGov == GovInit => GovInvariant
  <1> SUFFICES ASSUME GovInit PROVE GovInvariant
    OBVIOUS
  <1>1. GovTypeOK
    <2>1. NoSignCall \in SignCall /\ 0 \in 0..MaxSignoffs
      BY NoRequestType, GovernanceAssumption DEF SignCall, NoSignCall
    <2> QED
      BY <2>1, NoRequestType DEF GovInit, GovTypeOK
  <1>2. /\ request = NoRequest /\ sweep = NoRequest
        /\ \A u \in Signers : calls[u].copy = NoRequest /\ calls[u].at = "idle"
    BY DEF GovInit, NoSignCall
  <1>3. /\ Backed(request) /\ Backed(sweep) /\ \A u \in Signers : Backed(calls[u].copy)
    BY <1>2, NoRequestBacked
  <1> QED
    BY <1>1, <1>2, <1>3 DEF GovInvariant, GovInit

\* A step that leaves approvals, calls and publications alone and puts a backed copy.
LEMMA PutKeeps ==
    ASSUME GovInvariant, GovTypeOK', Backed(request'), Backed(sweep'), UNCHANGED <<calls, approvedBy, published>>
    PROVE  GovInvariant'
  <1>1. Backed(request)' /\ Backed(sweep)'
    BY DEF Backed
  <1>2. \A u \in Signers : Backed(calls[u].copy)'
    BY DEF GovInvariant, Backed
  <1> QED
    BY <1>1, <1>2 DEF GovInvariant, AllApproved

LEMMA NextGov == GovInvariant /\ [GovNext]_govVars => GovInvariant'
  <1> SUFFICES ASSUME GovInvariant, [GovNext]_govVars PROVE GovInvariant'
    OBVIOUS
  <1> USE DEF GovInvariant
  <1>1. CASE UNCHANGED govVars
    BY <1>1 DEF govVars, GovTypeOK, Backed, AllApproved
  <1>2. CASE CreateRequest
    <2> DEFINE r == [status |-> IF Domains = {} THEN "APPROVED" ELSE "PENDING_SIGNOFF", signoffs |-> Undecided]
    <2>1. request' = r /\ UNCHANGED <<calls, sweep, age, approvedBy, rejected, published, accepted>>
      BY <1>2 DEF CreateRequest
    <2>2. r \in Request /\ r.signoffs = Undecided /\ (r.status = "APPROVED" => Domains = {})
      BY NoRequestType DEF Request
    <2>3. GovTypeOK'
      BY <2>1, <2>2 DEF GovTypeOK
    <2>4. Backed(request')
      BY <2>1, <2>2, NoRequestType DEF Backed, Every
    <2> QED
      BY <2>1, <2>3, <2>4, PutKeeps
  <1>3. CASE RequestAges
    <2>1. GovTypeOK'
      BY <1>3 DEF RequestAges, GovTypeOK
    <2>2. UNCHANGED <<request, calls, sweep, approvedBy, published>>
      BY <1>3 DEF RequestAges
    <2> QED
      BY <2>1, <2>2, PutKeeps
  <1>4. CASE SweepLists
    <2>1. sweep' = [request EXCEPT !.status = "EXPIRED"] /\ UNCHANGED <<request, calls, approvedBy, published>>
      BY <1>4 DEF SweepLists
    <2>2. GovTypeOK'
      BY <1>4, <2>1 DEF SweepLists, GovTypeOK, Request
    <2>3. Backed(sweep')
      BY <2>1 DEF Backed, GovTypeOK, Request
    <2> QED
      BY <2>1, <2>2, <2>3, PutKeeps
  <1>5. CASE SweepPuts
    <2>1. request' = sweep /\ sweep' = NoRequest /\ UNCHANGED <<calls, approvedBy, published>>
      BY <1>5 DEF SweepPuts
    <2>2. GovTypeOK'
      BY <1>5, NoRequestType DEF SweepPuts, GovTypeOK
    <2> QED
      BY <2>1, <2>2, NoRequestBacked, PutKeeps
  <1>6. ASSUME NEW u \in Signers, SignReads(u) PROVE GovInvariant'
    <2>1. PICK d \in Domains, decision \in {"APPROVE", "REJECT"} :
             /\ calls' = [calls EXCEPT ![u] = [at |-> "put", copy |->
                    [status |-> StatusAfter(decision, [request.signoffs EXCEPT ![d] = decision]),
                     signoffs |-> [request.signoffs EXCEPT ![d] = decision]]]]
             /\ approvedBy' = [approvedBy EXCEPT ![d] = IF decision = "APPROVE" THEN approvedBy[d] \cup {u} ELSE approvedBy[d]]
             /\ accepted < MaxSignoffs /\ accepted' = accepted + 1
             /\ UNCHANGED <<request, sweep, age, rejected, published>>
      BY <1>6 DEF SignReads
    <2> DEFINE rows == [request.signoffs EXCEPT ![d] = decision]
               copy == [status |-> StatusAfter(decision, rows), signoffs |-> rows]
    <2>2. copy \in Request /\ copy.signoffs = rows /\ copy.status = StatusAfter(decision, rows)
      BY DEF GovTypeOK, Request, Decision, StatusAfter
    <2>3. calls' = [calls EXCEPT ![u] = [at |-> "put", copy |-> copy]] /\ [at |-> "put", copy |-> copy] \in SignCall
      BY <2>1, <2>2 DEF SignCall
    <2>4. approvedBy' \in [Domains -> SUBSET Signers] /\ accepted' \in 0..MaxSignoffs
      BY <2>1, GovernanceAssumption DEF GovTypeOK
    <2>5. GovTypeOK'
      BY <2>1, <2>3, <2>4 DEF GovTypeOK
    <2>6. \A e \in Domains : approvedBy[e] # {} => approvedBy'[e] # {}
      BY <2>1 DEF GovTypeOK
    <2>7. decision = "APPROVE" => approvedBy'[d] # {}
      BY <2>1 DEF GovTypeOK
    <2>8. Backed(request)' /\ Backed(sweep)'
      BY <2>1, <2>6 DEF Backed, Every
    <2>9. \A e \in Domains : rows[e] = "APPROVE" => approvedBy'[e] # {}
      <3> SUFFICES ASSUME NEW e \in Domains, rows[e] = "APPROVE" PROVE approvedBy'[e] # {}
        OBVIOUS
      <3>1. CASE e = d
        BY <3>1, <2>7 DEF GovTypeOK, Request
      <3>2. CASE e # d
        BY <3>2, <2>6 DEF GovTypeOK, Request, Backed
      <3> QED
        BY <3>1, <3>2
    <2>10. copy.status = "APPROVED" => Every(rows)
      BY <2>2 DEF StatusAfter
    <2>11. ASSUME NEW v \in Signers PROVE Backed(calls[v].copy)' /\ (calls'[v].at = "publish" => calls[v].at = "publish")
      <3>1. CASE v = u
        <4>1. calls'[v].copy = copy /\ calls'[v].at = "put"
          BY <3>1, <2>3 DEF GovTypeOK
        <4> QED
          BY <4>1, <2>2, <2>9, <2>10 DEF Backed, Every
      <3>2. CASE v # u
        <4>1. calls'[v] = calls[v]
          BY <3>2, <2>3 DEF GovTypeOK
        <4>2. Backed(calls[v].copy)
          OBVIOUS
        <4> QED
          BY <4>1, <4>2, <2>6 DEF Backed, Every
      <3> QED
        BY <3>1, <3>2
    <2>12. AllApproved => AllApproved'
      BY <2>6 DEF AllApproved
    <2>13. published' = published
      BY <2>1
    <2> QED
      BY <2>5, <2>8, <2>11, <2>12, <2>13
  <1>7. ASSUME NEW u \in Signers, SignPuts(u) PROVE GovInvariant'
    <2> DEFINE done == calls[u].copy
    <2>1. /\ request' = done
          /\ calls' = [calls EXCEPT ![u] = IF done.status = "APPROVED" THEN [at |-> "publish", copy |-> NoRequest] ELSE NoSignCall]
          /\ UNCHANGED <<sweep, age, approvedBy, published, accepted>>
      BY <1>7 DEF SignPuts
    <2>2. done \in Request /\ calls' \in [Signers -> SignCall] /\ rejected' \in BOOLEAN
      BY <1>7, <2>1, NoRequestType DEF SignPuts, GovTypeOK, SignCall, NoSignCall
    <2>3. GovTypeOK'
      BY <2>1, <2>2 DEF GovTypeOK
    <2>4. Backed(request)' /\ Backed(sweep)'
      BY <2>1 DEF Backed
    <2>5. ASSUME NEW v \in Signers
          PROVE  /\ Backed(calls[v].copy)'
                 /\ calls'[v].at = "publish" => calls[v].at = "publish" \/ done.status = "APPROVED"
      <3>1. CASE v = u
        <4>1. calls'[v].copy = NoRequest /\ (calls'[v].at = "publish" => done.status = "APPROVED")
          BY <3>1, <2>1 DEF GovTypeOK, NoSignCall
        <4> QED
          BY <4>1, NoRequestType DEF Backed
      <3>2. CASE v # u
        BY <3>2, <2>1 DEF GovTypeOK, Backed
      <3> QED
        BY <3>1, <3>2
    <2>6. done.status = "APPROVED" => AllApproved
      BY ApprovedIsAll
    <2>7. AllApproved => AllApproved'
      BY <2>1 DEF AllApproved
    <2>8. published' = published
      BY <2>1
    <2> QED
      BY <2>3, <2>4, <2>5, <2>6, <2>7, <2>8
  <1>8. ASSUME NEW u \in Signers, RoutePublishes(u) PROVE GovInvariant'
    <2>1. PICK n \in {0, 1} : published' = published + n
      BY <1>8 DEF RoutePublishes
    <2>2. /\ calls[u].at = "publish" /\ calls' = [calls EXCEPT ![u] = NoSignCall]
          /\ UNCHANGED <<request, sweep, age, approvedBy, rejected, accepted>>
      BY <1>8 DEF RoutePublishes
    <2>3. calls' \in [Signers -> SignCall] /\ published' \in Nat
      BY <2>1, <2>2, NoRequestType DEF GovTypeOK, SignCall, NoSignCall
    <2>4. GovTypeOK'
      BY <2>2, <2>3 DEF GovTypeOK
    <2>5. Backed(request)' /\ Backed(sweep)'
      BY <2>2 DEF Backed
    <2>6. \A v \in Signers : Backed(calls[v].copy)'
      BY <2>2, NoRequestType DEF GovTypeOK, Backed, NoSignCall
    <2>7. AllApproved'
      BY <2>2 DEF AllApproved
    <2> QED
      BY <2>4, <2>5, <2>6, <2>7
  <1> QED
    BY <1>1, <1>2, <1>3, <1>4, <1>5, <1>6, <1>7, <1>8 DEF GovNext

-----------------------------------------------------------------------------

\* The inductive invariant of governance: whatever overlaps, every approval a copy holds was accepted.
THEOREM GovernanceInvariant == GovSpec => []GovInvariant
  BY InitGov, NextGov, PTL DEF GovSpec

\* Nothing is published, and no request APPROVED, unless for every domain an approval was accepted.
THEOREM PublishedIsApprovedAlways == GovSpec => []PublishedIsApproved
  <1>1. GovInvariant => PublishedIsApproved
    BY ApprovedIsAll DEF GovInvariant, PublishedIsApproved, AllApproved
  <1> QED
    BY <1>1, GovernanceInvariant, PTL

-----------------------------------------------------------------------------
(* References *)

\* Stewards and indexers apart, a slice uses no element that is RETIRED, or that somebody may yet put RETIRED.
Used(e) == \E p \in Publications \ torn : p.refKind = "slice" /\ \E n \in DOMAIN stored[p] : stored[p][n].key = e
Unused(s) == \A e \in s.todo :
    s.doing # "nothing" /\ (s.doing \in {"count", "retire"} \/ s.copy[e].status = "RETIRED") => ~Used(e)
CalmRight ==
    /\ \A w \in Stewards, c \in Indexers : stewardships[w].doing = "nothing" \/ stores[c].at = "idle"
    /\ \A c \in Indexers : stores[c].at = "check" /\ stores[c].by.refKind = "slice" =>
         \A n \in 1..Len(stores[c].refs) : n < stores[c].next => elements[stores[c].refs[n].key].status = "ACTIVE"
    /\ SlicesWithout("RETIRED")
    /\ \A w \in Stewards : Unused(stewardships[w])

\* What the call of an indexer may be relied on for, whoever else writes.
CallRight(call) ==
    call.at # "idle" =>
        /\ call.refs \in RefLists /\ (call.by.refKind = "slice" => call.refs \in SliceRefs)
        /\ call.next >= 1 /\ \A row \in call.old : row.by = call.by
        /\ call.at = "rows" => call.next <= Len(call.refs)
        /\ call.at \in {"list", "rows"} /\ call.by \notin torn => stored[call.by] = call.refs

Indexed(p, refs, k) == {RowOf(p, refs, n) : n \in {m \in DOMAIN refs : m < k}}

\* Where one request writes alone, the rows are the old ones it has left and the new ones it has put.
RowsRight ==
    /\ IndexExact
    /\ \A c \in Indexers : LET call == stores[c] IN call.at = "rows" /\ call.by \notin torn =>
         /\ RowsBy(call.by) = call.old \cup Indexed(call.by, call.refs, call.next)
         /\ call.old # {} => call.next = 1

RefsInv ==
    /\ RefsTypeOK
    /\ \A p \in Publications : p.refKind = "slice" => stored[p] \in SliceRefs \cup {<<>>}
    /\ \A c \in Indexers : CallRight(stores[c])
    /\ \A c, d \in Indexers : \A p \in Publications \ torn : Writes(c, p) /\ Writes(d, p) => c = d
    /\ KeysDiffer => RowsRight
    /\ KeysDiffer /\ refsCalm => CalmRight

LEMMA RefListFacts ==
    ASSUME NEW refs \in RefLists
    PROVE  /\ refs \in Seq(Ref) /\ Len(refs) \in Nat /\ Len(refs) >= 1 /\ DOMAIN refs = 1..Len(refs)
           /\ \A n \in DOMAIN refs : refs[n] \in Ref
  BY RefsAssumption

LEMMA SliceRefFacts ==
    ASSUME NEW refs \in SliceRefs, NEW n \in DOMAIN refs PROVE refs[n].kind = KindOf(refs[n].key) /\ refs[n].key \in Elements
  BY RefListFacts, RefsAssumption DEF RefLists, Ref

LEMMA NoStoreType ==
    /\ NoStore \in Store /\ NoStore.at = "idle" /\ NewElement \in Element /\ NewElement.status = "ACTIVE"
    /\ NoStewardship \in Stewardship /\ NoStewardship.doing = "nothing" /\ NoStewardship.todo = {}
  <1>1. (CHOOSE p \in Publications : TRUE) \in Publications
    BY RefsAssumption
  <1> QED
    BY <1>1 DEF NoStore, Store, NewElement, Element, NoStewardship, Stewardship

\* Identifiers are unique if keys are.
LEMMA WithoutIsWithout ==
    ASSUME KeysDiffer, NEW rows \in SUBSET RefRow, NEW row \in RefRow PROVE Without(rows, row) = rows \ {row}
  <1>1. ASSUME NEW r \in rows, RowId(r) = RowId(row) PROVE r = row
    <2>1. r.by.refKey = row.by.refKey /\ r.kind = row.kind /\ r.key = row.key /\ r.no = row.no
      BY <1>1 DEF RowId
    <2>2. r.by = row.by
      BY <2>1 DEF KeysDiffer, RefRow
    <2> QED
      BY <2>1, <2>2 DEF RefRow
  <1> QED
    BY <1>1 DEF Without

LEMMA RowOfType ==
    ASSUME NEW p \in Publications, NEW refs \in RefLists, NEW n \in DOMAIN refs PROVE RowOf(p, refs, n) \in RefRow /\ RowOf(p, refs, n).by = p
  BY RefListFacts DEF RowOf, RefRow, Ref

LEMMA InitRefs == RefsInit => RefsInv
  <1> SUFFICES ASSUME RefsInit PROVE RefsInv
    OBVIOUS
  <1>1. RefsTypeOK
    BY NoStoreType, RefsAssumption DEF RefsInit, RefsTypeOK
  <1>2. IndexExact
    BY DEF RefsInit, IndexExact, RowsBy
  <1>3. SlicesWithout("RETIRED")
    BY DEF RefsInit, SlicesWithout
  <1>4. \A w \in Stewards : Unused(stewardships[w])
    BY NoStoreType DEF RefsInit, Unused
  <1>5. RowsRight /\ CalmRight
    BY <1>2, <1>3, <1>4, NoStoreType DEF RefsInit, RowsRight, CalmRight
  <1> QED
    BY <1>1, <1>5, NoStoreType DEF RefsInit, RefsInv, CallRight, Writes

\* A steward goes on, or begins.
LEMMA StewardKeeps ==
    ASSUME RefsInv, NEW w \in Stewards, NEW s \in Stewardship, StewardTo(w, s),
           UNCHANGED <<elements, stored, refRows, stores, torn, storesLeft>>,
           refsCalm' \in BOOLEAN, stewardshipsLeft' \in 0..MaxStewardships,
           KeysDiffer /\ refsCalm' => refsCalm /\ (s.doing = "nothing" \/ \A c \in Indexers : stores[c].at = "idle"),
           KeysDiffer /\ refsCalm' => Unused(s)
    PROVE  RefsInv'
  <1>1. stewardships' = [stewardships EXCEPT ![w] = s] /\ stewardships \in [Stewards -> Stewardship]
    BY DEF StewardTo, RefsInv, RefsTypeOK
  <1>2. RefsTypeOK'
    BY <1>1 DEF RefsInv, RefsTypeOK
  <1>3. \A c \in Indexers : CallRight(stores[c])'
    BY DEF RefsInv, CallRight
  <1>4. KeysDiffer => RowsRight'
    BY DEF RefsInv, RowsRight, IndexExact, BeingStored, Writes, RowsBy
  <1>5. ASSUME KeysDiffer, refsCalm' PROVE CalmRight'
    <2>1. \A v \in Stewards : Unused(stewardships[v])'
      <3> TAKE v \in Stewards
      <3>1. CASE v = w
        BY <1>1, <1>5, <3>1 DEF Unused, Used
      <3>2. CASE v # w
        BY <1>1, <1>5, <3>2 DEF Unused, Used, RefsInv, CalmRight
      <3> QED
        BY <3>1, <3>2
    <2>2. \A v \in Stewards, c \in Indexers : stewardships'[v].doing = "nothing" \/ stores'[c].at = "idle"
      BY <1>1, <1>5 DEF RefsInv, CalmRight
    <2>3. SlicesWithout("RETIRED")'
      BY <1>5 DEF RefsInv, CalmRight, SlicesWithout
    <2> QED
      BY <1>5, <2>1, <2>2, <2>3 DEF RefsInv, CalmRight
  <1> QED
    BY <1>2, <1>3, <1>4, <1>5 DEF RefsInv, Writes, KeysDiffer

\* A steward reads the records: what is RETIRED among them is not in use.
LEMMA ReadsUnused ==
    ASSUME RefsInv, KeysDiffer, refsCalm, NEW todo \in SUBSET Elements, NEW doing,
           doing \in {"retire"} => \A e \in todo : ~Used(e), doing # "count"
    PROVE  Unused(Reads(doing, todo))
  <1>1. \A e \in Elements : elements[e].status = "RETIRED" => ~Used(e)
    BY DEF RefsInv, CalmRight, SlicesWithout, Used
  <1> QED
    BY <1>1 DEF Unused, Reads

\* Retirement begins where there is no row, hence no slice.
LEMMA CountedIsUnused ==
    ASSUME RefsInv, KeysDiffer, NEW e \in Elements, Counted(e) = {}, \A c \in Indexers : stores[c].at = "idle"
    PROVE  ~Used(e)
  <1> SUFFICES ASSUME NEW p \in Publications \ torn, p.refKind = "slice",
                      NEW n \in DOMAIN stored[p], stored[p][n].key = e
               PROVE  FALSE
    BY DEF Used
  <1>1. ~BeingStored(p)
    BY DEF BeingStored, Writes
  <1>2. RowsBy(p) = {RowOf(p, stored[p], m) : m \in DOMAIN stored[p]}
    BY <1>1 DEF RefsInv, RowsRight, IndexExact
  <1>3. RowOf(p, stored[p], n) \in refRows
    BY <1>2 DEF RowsBy
  <1>4. stored[p] \in SliceRefs
    BY DEF RefsInv
  <1>5. RowOf(p, stored[p], n) \in Counted(e)
    BY <1>3, <1>4, SliceRefFacts DEF Counted, RowOf
  <1> QED
    BY <1>5

\* What does not touch the records keeps everything, if the indexer's place stays right.
LEMMA CalmStays ==
    ASSUME RefsInv, KeysDiffer, refsCalm, UNCHANGED <<elements, stored, stewardships>>, torn \subseteq torn',
           NEW c \in Indexers, NEW call \in Store, StoreTo(c, call), stores[c].at # "idle",
           call.at = "check" /\ call.by.refKind = "slice" =>
             \A n \in 1..Len(call.refs) : n < call.next => elements[call.refs[n].key].status = "ACTIVE"
    PROVE  CalmRight'
  <1>1. stores' = [stores EXCEPT ![c] = call] /\ stores \in [Indexers -> Store]
    BY DEF StoreTo, RefsInv, RefsTypeOK
  <1>2. \A w \in Stewards : stewardships[w].doing = "nothing"
    BY DEF RefsInv, CalmRight
  <1>3. SlicesWithout("RETIRED")'
    BY DEF RefsInv, CalmRight, SlicesWithout
  <1>4. \A w \in Stewards : Unused(stewardships[w])'
    BY DEF RefsInv, CalmRight, Unused, Used
  <1>5. \A w \in Stewards, d \in Indexers : stewardships'[w].doing = "nothing" \/ stores'[d].at = "idle"
    BY <1>2
  <1>6. ASSUME NEW d \in Indexers, stores'[d].at = "check", stores'[d].by.refKind = "slice"
        PROVE  \A n \in 1..Len(stores'[d].refs) : n < stores'[d].next => elements'[stores'[d].refs[n].key].status = "ACTIVE"
    <2>1. CASE d = c
      BY <1>1, <1>6, <2>1
    <2>2. CASE d # c
      BY <1>1, <1>6, <2>2 DEF RefsInv, CalmRight
    <2> QED
      BY <2>1, <2>2
  <1> QED
    BY <1>3, <1>4, <1>5, <1>6 DEF CalmRight

\* Before it writes, a call changes only its own place.
LEMMA CheckKeeps ==
    ASSUME RefsInv, NEW c \in Indexers, NEW call \in Store, StoreTo(c, call),
           stores[c].at \in {"idle", "check"}, call.at \in {"idle", "check"},
           call.at = "check" => /\ call.refs \in RefLists /\ (call.by.refKind = "slice" => call.refs \in SliceRefs)
                                /\ call.next >= 1 /\ \A row \in call.old : row.by = call.by,
           UNCHANGED <<elements, stored, refRows, stewardships, torn, stewardshipsLeft>>,
           storesLeft' \in 0..MaxStores, refsCalm' \in BOOLEAN, KeysDiffer /\ refsCalm' => CalmRight'
    PROVE  RefsInv'
  <1>1. stores' = [stores EXCEPT ![c] = call] /\ stores \in [Indexers -> Store]
    BY DEF StoreTo, RefsInv, RefsTypeOK
  <1>2. RefsTypeOK'
    BY <1>1 DEF RefsInv, RefsTypeOK
  <1>3. \A d \in Indexers, p \in Publications : Writes(d, p)' <=> Writes(d, p)
    BY <1>1 DEF Writes
  <1>4. \A d \in Indexers : CallRight(stores[d])'
    BY <1>1 DEF RefsInv, CallRight
  <1>5. ASSUME KeysDiffer PROVE RowsRight'
    <2>1. IndexExact'
      BY <1>3, <1>5 DEF RefsInv, RowsRight, IndexExact, BeingStored, RowsBy
    <2>2. \A d \in Indexers : stores'[d].at = "rows" => stores'[d] = stores[d]
      BY <1>1
    <2> QED
      BY <1>5, <2>1, <2>2 DEF RefsInv, RowsRight, RowsBy
  <1> QED
    BY <1>2, <1>3, <1>4, <1>5 DEF RefsInv, KeysDiffer

LEMMA StoreStartKeeps ==
    ASSUME RefsInv, NEW c \in Indexers, NEW p \in Publications, NEW refs \in RefLists, StoreStarts(c, p, refs) PROVE RefsInv'
  <1> DEFINE call == [at |-> "check", by |-> p, refs |-> refs, next |-> IF p.refKind = "slice" THEN 1 ELSE 1 + Len(refs), old |-> {}]
  <1>1. call \in Store /\ call.next >= 1
    BY RefListFacts DEF Store
  <1>2. /\ stores' = [stores EXCEPT ![c] = call] /\ stores \in [Indexers -> Store]
        /\ stores[c].at = "idle" /\ (p.refKind = "slice" => refs \in SliceRefs)
        /\ storesLeft' \in 0..MaxStores /\ refsCalm' \in BOOLEAN
        /\ UNCHANGED <<elements, stored, refRows, stewardships, torn, stewardshipsLeft>>
    BY RefsAssumption DEF StoreStarts, StoreTo, RefsInv, RefsTypeOK
  <1>3. ASSUME KeysDiffer, refsCalm' PROVE CalmRight'
    <2>1. refsCalm /\ \A w \in Stewards : stewardships[w].doing = "nothing"
      BY <1>3 DEF StoreStarts
    <2>2. SlicesWithout("RETIRED")' /\ \A w \in Stewards : Unused(stewardships[w])'
      BY <1>2, <1>3, <2>1 DEF RefsInv, CalmRight, SlicesWithout, Unused, Used
    <2>3. ASSUME NEW d \in Indexers, stores'[d].at = "check", stores'[d].by.refKind = "slice"
          PROVE  \A n \in 1..Len(stores'[d].refs) : n < stores'[d].next => elements'[stores'[d].refs[n].key].status = "ACTIVE"
      <3>1. CASE d = c
        BY <1>2, <2>3, <3>1
      <3>2. CASE d # c
        BY <1>2, <1>3, <2>1, <2>3, <3>2 DEF RefsInv, CalmRight
      <3> QED
        BY <3>1, <3>2
    <2> QED
      BY <1>2, <2>1, <2>2, <2>3 DEF CalmRight
  <1>4. StoreTo(c, call)
    BY <1>2 DEF StoreTo
  <1> HIDE DEF call
  <1>5. call.at = "check" /\ call.refs = refs /\ call.by = p /\ call.old = {}
    BY DEF call
  <1> QED
    BY <1>1, <1>2, <1>3, <1>4, <1>5, CheckKeeps

LEMMA RefCheckKeeps == ASSUME RefsInv, NEW c \in Indexers, RefChecked(c) PROVE RefsInv'
  <1> DEFINE call == stores[c]
             next == IF RefAllowed(call.refs[call.next]) THEN [call EXCEPT !.next = @ + 1] ELSE NoStore
  <1>1. call \in Store /\ CallRight(call) /\ call.at = "check" /\ call.next <= Len(call.refs)
    BY DEF RefChecked, RefsInv, RefsTypeOK
  <1>2. next \in Store /\ StoreTo(c, next) /\ next.at \in {"idle", "check"}
    BY <1>1, NoStoreType DEF RefChecked, Store
  <1>3. next.at = "check" => /\ next.refs = call.refs /\ next.by = call.by /\ next.next = call.next + 1 /\ next.old = call.old
                            /\ elements[call.refs[call.next].key].status = "ACTIVE"
    BY <1>1, NoStoreType DEF RefAllowed, Store
  <1>4. UNCHANGED <<elements, stored, refRows, stewardships, torn, refsCalm, storesLeft, stewardshipsLeft>>
    BY DEF RefChecked
  <1>5. ASSUME KeysDiffer, refsCalm' PROVE CalmRight'
    <2>1. refsCalm /\ call.next \in Nat
      BY <1>1, <1>4, <1>5 DEF Store
    <2>2. ASSUME next.at = "check", next.by.refKind = "slice"
          PROVE  \A n \in 1..Len(next.refs) : n < next.next => elements[next.refs[n].key].status = "ACTIVE"
      <3>1. \A n \in 1..Len(call.refs) : n < call.next => elements[call.refs[n].key].status = "ACTIVE"
        BY <1>1, <1>3, <1>5, <2>1, <2>2 DEF RefsInv, CalmRight
      <3> QED
        BY <1>3, <2>1, <2>2, <3>1
    <2>3. torn \subseteq torn' /\ call.at # "idle"
      BY <1>1, <1>4
    <2> HIDE DEF next
    <2> QED
      BY <1>2, <1>4, <1>5, <2>1, <2>2, <2>3, CalmStays
  <1>6. storesLeft' \in 0..MaxStores /\ refsCalm' \in BOOLEAN
    BY <1>4 DEF RefsInv, RefsTypeOK
  <1>7. next.at = "check" => /\ next.refs \in RefLists /\ (next.by.refKind = "slice" => next.refs \in SliceRefs)
                            /\ next.next >= 1 /\ \A row \in next.old : row.by = next.by
    BY <1>1, <1>3 DEF CallRight, Store
  <1> QED
    BY <1>1, <1>2, <1>4, <1>5, <1>6, <1>7, CheckKeeps

\* The publication is put: from here on the request answers for its rows.
LEMMA SpecPutKeeps == ASSUME RefsInv, NEW c \in Indexers, SpecPut(c) PROVE RefsInv'
  <1> DEFINE call == stores[c]
             p == stores[c].by
  <1>1. /\ call \in Store /\ CallRight(call) /\ call.at = "check" /\ call.next > Len(call.refs) /\ p \in Publications
        /\ stored' = [stored EXCEPT ![p] = call.refs] /\ stores' = [stores EXCEPT ![c] = [call EXCEPT !.at = "list"]]
        /\ stores \in [Indexers -> Store] /\ stored \in [Publications -> RefLists \cup {<<>>}]
        /\ UNCHANGED <<elements, refRows, stewardships, refsCalm, storesLeft, stewardshipsLeft>>
    BY DEF SpecPut, StoreTo, RefsInv, RefsTypeOK, Store
  <1>2. call.refs \in RefLists /\ (p.refKind = "slice" => call.refs \in SliceRefs) /\ call.next >= 1 /\ \A row \in call.old : row.by = p
    BY <1>1 DEF CallRight
  <1>3. /\ torn' \subseteq torn \cup {p} /\ torn \subseteq torn' \cup {p}
        /\ p \notin torn' => \A d \in Indexers : ~Writes(d, p)
    BY DEF SpecPut
  <1>4. stored'[p] = call.refs /\ \A q \in Publications : q # p => stored'[q] = stored[q]
    BY <1>1
  <1>5. \A d \in Indexers : d # c => stores'[d] = stores[d]
    BY <1>1
  <1>6. stores'[c].at = "list" /\ stores'[c].by = p /\ stores'[c].refs = call.refs /\ stores'[c].next = call.next /\ stores'[c].old = call.old
    BY <1>1 DEF Store
  <1>7. \A d \in Indexers, q \in Publications : q # p \/ d # c => (Writes(d, q)' <=> Writes(d, q))
    BY <1>1, <1>5, <1>6 DEF Writes
  <1>8. RefsTypeOK'
    <2>1. stores' \in [Indexers -> Store] /\ stored' \in [Publications -> RefLists \cup {<<>>}]
      BY <1>1, <1>2 DEF Store
    <2> QED
      BY <1>1, <1>3, <2>1 DEF RefsInv, RefsTypeOK
  <1>9. \A q \in Publications : q.refKind = "slice" => stored'[q] \in SliceRefs \cup {<<>>}
    BY <1>2, <1>4 DEF RefsInv
  <1>10. \A d \in Indexers : CallRight(stores[d])'
    <2> TAKE d \in Indexers
    <2>1. CASE d = c
      BY <1>2, <1>4, <1>6, <2>1 DEF CallRight
    <2>2. CASE d # c
      <3>1. stores[d] \in Store /\ CallRight(stores[d])
        BY <1>1 DEF RefsInv
      <3>2. stores[d].at \in {"list", "rows"} /\ stores[d].by \notin torn' => stores[d].by # p
        BY <1>3 DEF Writes
      <3> QED
        BY <1>3, <1>4, <1>5, <2>2, <3>1, <3>2 DEF CallRight, Store
    <2> QED
      BY <2>1, <2>2
  <1>11. \A d, f \in Indexers : \A q \in Publications \ torn' : Writes(d, q)' /\ Writes(f, q)' => d = f
    BY <1>3, <1>7 DEF RefsInv
  <1>12. ASSUME KeysDiffer PROVE RowsRight'
    <2>1. BeingStored(p)'
      BY <1>6 DEF BeingStored, Writes
    <2>2. \A q \in Publications : q # p => (BeingStored(q)' <=> BeingStored(q))
      BY <1>7 DEF BeingStored
    <2>3. \A q \in Publications : q # p => {RowOf(q, stored[q], n) : n \in DOMAIN stored[q]}' = {RowOf(q, stored[q], n) : n \in DOMAIN stored[q]}
      BY <1>4 DEF RowOf
    <2>4. IndexExact'
      BY <1>1, <1>3, <1>12, <2>1, <2>2, <2>3 DEF RefsInv, RowsRight, IndexExact, RowsBy
    <2>5. \A d \in Indexers : stores'[d].at = "rows" /\ stores'[d].by \notin torn' => d # c /\ stores'[d] = stores[d] /\ stores[d].by \notin torn
      BY <1>1, <1>3, <1>5, <1>6 DEF Writes, Store
    <2> QED
      BY <1>1, <1>12, <2>4, <2>5 DEF RefsInv, RowsRight, RowsBy
  <1>13. ASSUME KeysDiffer, refsCalm' PROVE CalmRight'
    <2>1. CalmRight /\ \A w \in Stewards : stewardships[w].doing = "nothing"
      BY <1>1, <1>13 DEF RefsInv, CalmRight
    <2>2. SlicesWithout("RETIRED")'
      <3> SUFFICES ASSUME NEW q \in Publications \ torn', q.refKind = "slice", NEW n \in DOMAIN stored'[q]
                   PROVE  elements[stored'[q][n].key].status # "RETIRED"
        BY <1>1 DEF SlicesWithout
      <3>1. CASE q = p
        <4>1. n \in 1..Len(call.refs) /\ n < call.next
          BY <1>1, <1>2, <1>4, <3>1, RefListFacts DEF Store
        <4> QED
          BY <1>1, <1>4, <2>1, <3>1, <4>1 DEF CalmRight
      <3>2. CASE q # p
        BY <1>3, <1>4, <2>1, <3>2 DEF CalmRight, SlicesWithout
      <3> QED
        BY <3>1, <3>2
    <2>3. \A d \in Indexers : stores'[d].at = "check" => stores'[d] = stores[d]
      BY <1>5, <1>6
    <2>4. \A w \in Stewards : stewardships'[w].doing = "nothing" /\ Unused(stewardships[w])'
      BY <1>1, <2>1 DEF Unused
    <2> QED
      BY <1>1, <2>1, <2>2, <2>3, <2>4 DEF CalmRight
  <1> QED
    BY <1>8, <1>9, <1>10, <1>11, <1>12, <1>13 DEF RefsInv, KeysDiffer

\* The rows
LEMMA RowsKeep ==
    ASSUME RefsInv, NEW c \in Indexers, NEW call \in Store, StoreTo(c, call), NEW p \in Publications, p = stores[c].by,
           stores[c].at \in {"list", "rows"}, call.at \in {"idle", "rows"}, CallRight(call)', call.at = "rows" => call.by = p,
           UNCHANGED <<elements, stored, stewardships, refsCalm, storesLeft, stewardshipsLeft>>, refRows' \subseteq RefRow,
           torn \subseteq torn', torn' \subseteq Publications,
           KeysDiffer => \A q \in Publications : q # p => RowsBy(q)' = RowsBy(q),
           KeysDiffer /\ p \notin torn' /\ call.at = "idle" => RowsBy(p)' = {RowOf(p, stored[p], n) : n \in DOMAIN stored[p]},
           KeysDiffer /\ p \notin torn' /\ call.at = "rows" =>
               RowsBy(p)' = call.old \cup Indexed(p, call.refs, call.next) /\ (call.old # {} => call.next = 1)
    PROVE  RefsInv'
  <1>1. stores' = [stores EXCEPT ![c] = call] /\ stores \in [Indexers -> Store]
    BY DEF StoreTo, RefsInv, RefsTypeOK, Store
  <1>2. stores'[c] = call /\ \A d \in Indexers : d # c => stores'[d] = stores[d]
    BY <1>1
  <1>3. RefsTypeOK'
    BY <1>1 DEF RefsInv, RefsTypeOK
  <1>4. \A d \in Indexers : CallRight(stores[d])'
    <2> TAKE d \in Indexers
    <2>1. CASE d = c
      BY <1>2, <2>1 DEF CallRight
    <2>2. CASE d # c
      BY <1>2, <2>2 DEF RefsInv, CallRight
    <2> QED
      BY <2>1, <2>2
  <1>5. Writes(c, p) /\ \A d \in Indexers, q \in Publications : Writes(d, q)' => Writes(d, q)
    BY <1>1, <1>2 DEF Writes
  <1>6. \A d, f \in Indexers : \A q \in Publications \ torn' : Writes(d, q)' /\ Writes(f, q)' => d = f
    BY <1>5 DEF RefsInv
  <1>7. \A d \in Indexers : p \notin torn' /\ d # c => ~Writes(d, p)
    BY <1>1, <1>5 DEF RefsInv
  <1>8. ASSUME KeysDiffer PROVE RowsRight'
    <2>1. ASSUME NEW q \in Publications, q \notin torn', ~BeingStored(q)'
          PROVE  RowsBy(q)' = {RowOf(q, stored[q], n) : n \in DOMAIN stored[q]}
      <3>1. CASE q = p
        <4>1. call.at = "idle"
          BY <1>2, <2>1, <3>1 DEF BeingStored, Writes
        <4> QED
          BY <1>8, <2>1, <3>1, <4>1
      <3>2. CASE q # p
        <4>1. ~BeingStored(q)
          BY <1>1, <1>2, <2>1, <3>2 DEF BeingStored, Writes
        <4>2. RowsBy(q) = {RowOf(q, stored[q], n) : n \in DOMAIN stored[q]}
          BY <1>8, <2>1, <4>1 DEF RefsInv, RowsRight, IndexExact
        <4> QED
          BY <1>8, <3>2, <4>2
      <3> QED
        BY <3>1, <3>2
    <2>2. IndexExact'
      BY <2>1 DEF IndexExact, RowOf
    <2>3. ASSUME NEW d \in Indexers, stores'[d].at = "rows", stores'[d].by \notin torn'
          PROVE  /\ {r \in refRows' : r.by = stores'[d].by} = stores'[d].old \cup Indexed(stores'[d].by, stores'[d].refs, stores'[d].next)
                 /\ stores'[d].old # {} => stores'[d].next = 1
      <3>1. CASE d = c
        BY <1>2, <1>8, <2>3, <3>1 DEF RowsBy
      <3>2. CASE d # c
        <4>1. stores'[d] = stores[d] /\ stores[d] \in Store /\ stores[d].by \notin torn
          BY <1>1, <1>2, <2>3, <3>2
        <4>2. stores[d].by # p /\ stores[d].by \in Publications
          BY <1>7, <2>3, <3>2, <4>1 DEF Writes, Store
        <4>3. RowsBy(stores[d].by) = stores[d].old \cup Indexed(stores[d].by, stores[d].refs, stores[d].next)
              /\ (stores[d].old # {} => stores[d].next = 1)
          BY <1>8, <2>3, <4>1 DEF RefsInv, RowsRight
        <4>4. {r \in refRows' : r.by = stores[d].by} = {r \in refRows : r.by = stores[d].by}
          BY <1>8, <4>2 DEF RowsBy
        <4> QED
          BY <4>1, <4>3, <4>4 DEF RowsBy
      <3> QED
        BY <3>1, <3>2
    <2> QED
      BY <2>2, <2>3 DEF RowsRight, RowsBy, Indexed, RowOf
  <1>9. ASSUME KeysDiffer, refsCalm' PROVE CalmRight'
    <2>1. refsCalm /\ stores[c].at # "idle" /\ call.at # "check"
      BY <1>9
    <2> QED
      BY <1>9, <2>1, CalmStays
  <1> QED
    BY <1>3, <1>4, <1>6, <1>8, <1>9 DEF RefsInv, KeysDiffer

LEMMA ListKeeps == ASSUME RefsInv, NEW c \in Indexers, OldRowsListed(c) PROVE RefsInv'
  <1> DEFINE was == stores[c]
             call == [was EXCEPT !.at = "rows", !.old = RowsBy(was.by), !.next = 1]
  <1>1. was \in Store /\ was.at = "list" /\ CallRight(was) /\ refRows \subseteq RefRow
    BY DEF OldRowsListed, RefsInv, RefsTypeOK
  <1>2. StoreTo(c, call) /\ UNCHANGED <<elements, stored, refRows, stewardships, torn, refsCalm, storesLeft, stewardshipsLeft>>
    BY DEF OldRowsListed
  <1>3. /\ call \in Store /\ call.at = "rows" /\ call.by = was.by /\ call.refs = was.refs /\ call.next = 1
        /\ call.old = RowsBy(was.by) /\ \A row \in call.old : row.by = call.by
    BY <1>1 DEF Store, RowsBy
  <1>4. call.refs \in RefLists /\ Len(call.refs) >= 1 /\ (was.by \notin torn => stored[was.by] = call.refs)
        /\ (call.by.refKind = "slice" => call.refs \in SliceRefs)
    BY <1>1, <1>3, RefListFacts DEF CallRight
  <1>5. PICK p \in Publications : p = was.by
    BY <1>1 DEF Store
  <1>6. PICK x \in Store : x = call
    BY <1>3
  <1> HIDE DEF call
  <1>7. CallRight(x)'
    BY <1>2, <1>3, <1>4, <1>6 DEF CallRight
  <1>8. Indexed(p, x.refs, 1) = {}
    BY <1>3, <1>4, <1>6, RefListFacts DEF Indexed
  <1>9. RowsBy(p)' = x.old \cup Indexed(p, x.refs, x.next) /\ \A q \in Publications : RowsBy(q)' = RowsBy(q)
    BY <1>2, <1>3, <1>5, <1>6, <1>8 DEF RowsBy
  <1>10. torn \subseteq torn' /\ torn' \subseteq Publications /\ refRows' \subseteq RefRow /\ StoreTo(c, x)
    BY <1>1, <1>2, <1>6 DEF RefsInv, RefsTypeOK
  <1> QED
    BY <1>1, <1>2, <1>3, <1>5, <1>6, <1>7, <1>9, <1>10, RowsKeep

LEMMA RemoveKeeps == ASSUME RefsInv, NEW c \in Indexers, OldRowRemoved(c) PROVE RefsInv'
  <1> DEFINE was == stores[c]
  <1>1. was \in Store /\ was.at = "rows" /\ CallRight(was) /\ refRows \subseteq RefRow
    BY DEF OldRowRemoved, RefsInv, RefsTypeOK
  <1>2. PICK row \in was.old : /\ refRows' = Without(refRows, row) /\ StoreTo(c, [was EXCEPT !.old = @ \ {row}])
                               /\ UNCHANGED <<elements, stored, stewardships, torn, refsCalm, storesLeft, stewardshipsLeft>>
    BY DEF OldRowRemoved
  <1>3. PICK x \in Store : x = [was EXCEPT !.old = @ \ {row}]
    BY <1>1 DEF Store
  <1>4. x.at = "rows" /\ x.by = was.by /\ x.refs = was.refs /\ x.next = was.next /\ x.old = was.old \ {row}
    BY <1>1, <1>3 DEF Store
  <1>5. PICK p \in Publications : p = was.by
    BY <1>1 DEF Store
  <1>6. CallRight(x)'
    BY <1>1, <1>2, <1>4 DEF CallRight
  <1>7. refRows' \subseteq RefRow /\ row \in RefRow /\ row.by = p
    BY <1>1, <1>2, <1>5 DEF Without, Store, CallRight
  <1>8. ASSUME KeysDiffer
        PROVE  /\ \A q \in Publications : q # p => RowsBy(q)' = RowsBy(q)
               /\ p \notin torn' => RowsBy(p)' = x.old \cup Indexed(p, x.refs, x.next) /\ (x.old # {} => x.next = 1)
    <2>1. refRows' = refRows \ {row}
      BY <1>1, <1>2, <1>7, <1>8, WithoutIsWithout
    <2>2. p \notin torn' => RowsBy(p) = was.old \cup Indexed(p, was.refs, was.next) /\ was.next = 1
      BY <1>1, <1>2, <1>5, <1>8 DEF RefsInv, RowsRight
    <2>3. p \notin torn' => Indexed(p, was.refs, was.next) = {}
      BY <1>1, <2>2, RefListFacts DEF Indexed, CallRight
    <2> QED
      BY <1>4, <1>7, <2>1, <2>2, <2>3 DEF RowsBy
  <1>9. torn \subseteq torn' /\ torn' \subseteq Publications /\ StoreTo(c, x)
    BY <1>2, <1>3 DEF RefsInv, RefsTypeOK
  <1> QED
    BY <1>1, <1>2, <1>4, <1>5, <1>6, <1>7, <1>8, <1>9, RowsKeep

LEMMA IndexKeeps == ASSUME RefsInv, NEW c \in Indexers, RowIndexed(c) PROVE RefsInv'
  <1> DEFINE was == stores[c]
             row == RowOf(was.by, was.refs, was.next)
             call == IF was.next = Len(was.refs) THEN NoStore ELSE [was EXCEPT !.next = @ + 1]
  <1>1. was \in Store /\ was.at = "rows" /\ CallRight(was) /\ refRows \subseteq RefRow /\ was.old = {} /\ was.next <= Len(was.refs)
    BY DEF RowIndexed, RefsInv, RefsTypeOK
  <1>2. /\ refRows' = Without(refRows, row) \cup {row} /\ StoreTo(c, call)
        /\ UNCHANGED <<elements, stored, stewardships, torn, refsCalm, storesLeft, stewardshipsLeft>>
    BY DEF RowIndexed
  <1>3. was.refs \in RefLists /\ DOMAIN was.refs = 1..Len(was.refs) /\ was.next \in DOMAIN was.refs /\ was.next \in Nat /\ Len(was.refs) \in Nat
    BY <1>1, RefListFacts DEF CallRight, Store
  <1>4. PICK p \in Publications : p = was.by
    BY <1>1 DEF Store
  <1>5. row \in RefRow /\ row.by = p
    BY <1>3, <1>4, RowOfType
  <1>6. PICK x \in Store : x = call
    <2>1. [was EXCEPT !.next = @ + 1] \in Store
      BY <1>1, <1>3 DEF Store
    <2> QED
      BY <2>1, NoStoreType
  <1>7. IF was.next = Len(was.refs) THEN x.at = "idle"
        ELSE x.at = "rows" /\ x.by = p /\ x.refs = was.refs /\ x.next = was.next + 1 /\ x.old = {}
    BY <1>1, <1>4, <1>6, NoStoreType DEF Store
  <1> HIDE DEF call, row
  <1>8. CallRight(x)'
    BY <1>1, <1>2, <1>3, <1>4, <1>7 DEF CallRight
  <1>9. refRows' \subseteq RefRow
    BY <1>1, <1>2, <1>5 DEF Without
  <1>10. Indexed(p, was.refs, was.next + 1) = Indexed(p, was.refs, was.next) \cup {row}
    BY <1>3, <1>4 DEF Indexed, row
  <1>11. ASSUME KeysDiffer
         PROVE  /\ \A q \in Publications : q # p => RowsBy(q)' = RowsBy(q)
                /\ p \notin torn' => RowsBy(p)' = Indexed(p, was.refs, was.next + 1)
    <2>1. refRows' = refRows \cup {row}
      BY <1>1, <1>2, <1>5, <1>11, WithoutIsWithout
    <2>2. p \notin torn' => RowsBy(p) = Indexed(p, was.refs, was.next)
      BY <1>1, <1>2, <1>4, <1>11 DEF RefsInv, RowsRight
    <2> QED
      BY <1>5, <1>10, <2>1, <2>2 DEF RowsBy
  <1>12. p \notin torn' /\ was.next = Len(was.refs) => Indexed(p, was.refs, was.next + 1) = {RowOf(p, stored[p], n) : n \in DOMAIN stored[p]}
    <2>1. p \notin torn' => stored[p] = was.refs
      BY <1>1, <1>2, <1>4 DEF CallRight
    <2> QED
      BY <1>3, <2>1 DEF Indexed
  <1>13. torn \subseteq torn' /\ torn' \subseteq Publications /\ StoreTo(c, x)
    BY <1>2, <1>6 DEF RefsInv, RefsTypeOK
  <1> QED
    BY <1>1, <1>2, <1>4, <1>7, <1>8, <1>9, <1>11, <1>12, <1>13, RowsKeep

LEMMA StoreBreakKeeps == ASSUME RefsInv, NEW c \in Indexers, StoreBreaks(c) PROVE RefsInv'
  <1>1. /\ stores[c] \in Store /\ stores[c].at # "idle" /\ StoreTo(c, NoStore)
        /\ torn' = IF stores[c].at = "check" THEN torn ELSE torn \cup {stores[c].by}
        /\ UNCHANGED <<elements, stored, refRows, stewardships, refsCalm, storesLeft, stewardshipsLeft>>
    BY DEF StoreBreaks, RefsInv, RefsTypeOK
  <1>2. PICK x \in Store : x = NoStore
    BY NoStoreType
  <1>3. x.at = "idle" /\ StoreTo(c, x)
    BY <1>1, <1>2, NoStoreType
  <1>4. PICK p \in Publications : p = stores[c].by
    BY <1>1 DEF Store
  <1>5. torn \subseteq torn' /\ torn' \subseteq Publications /\ refRows' \subseteq RefRow /\ storesLeft' \in 0..MaxStores /\ refsCalm' \in BOOLEAN
    BY <1>1, <1>4 DEF RefsInv, RefsTypeOK
  <1>6. CASE stores[c].at = "check"
    <2>1. ASSUME KeysDiffer, refsCalm' PROVE CalmRight'
      BY <1>1, <1>3, <1>5, <2>1, CalmStays
    <2> QED
      BY <1>1, <1>3, <1>5, <1>6, <2>1, CheckKeeps
  <1>7. CASE stores[c].at # "check"
    <2>1. stores[c].at \in {"list", "rows"} /\ p \in torn'
      BY <1>1, <1>4, <1>7 DEF Store
    <2>2. CallRight(x)' /\ \A q \in Publications : RowsBy(q)' = RowsBy(q)
      BY <1>1, <1>3 DEF CallRight, RowsBy
    <2> QED
      BY <1>1, <1>3, <1>4, <1>5, <2>1, <2>2, RowsKeep
  <1> QED
    BY <1>6, <1>7

\* A record is put: the steward has it from before, but what it makes RETIRED nobody uses.
LEMMA ElementPutKeeps == ASSUME RefsInv, NEW w \in Stewards, ElementPut(w) PROVE RefsInv'
  <1>1. /\ stewardships \in [Stewards -> Stewardship] /\ elements \in [Elements -> Element] /\ stewardships[w] \in Stewardship
        /\ stewardships[w].doing # "nothing" /\ stewardships[w].doing # "count"
        /\ UNCHANGED <<stored, refRows, stores, torn, refsCalm, storesLeft, stewardshipsLeft>>
    BY DEF ElementPut, RefsInv, RefsTypeOK
  <1>2. PICK e \in stewardships[w].todo :
          /\ elements' = [elements EXCEPT ![e] = Changed(stewardships[w].doing, e, stewardships[w].copy[e])]
          /\ stewardships' = [stewardships EXCEPT ![w] = [stewardships[w] EXCEPT !.todo = @ \ {e}]]
    BY DEF ElementPut, StewardTo
  <1>3. e \in Elements /\ stewardships[w].copy[e] \in Element
    BY <1>1 DEF Stewardship
  <1>4. Changed(stewardships[w].doing, e, stewardships[w].copy[e]) \in Element
    BY <1>3, NoStoreType DEF Changed, Element
  <1>5. Changed(stewardships[w].doing, e, stewardships[w].copy[e]).status = "RETIRED" =>
            stewardships[w].doing = "retire" \/ stewardships[w].copy[e].status = "RETIRED"
    BY <1>3, NoStoreType DEF Changed, Element
  <1>6. [stewardships[w] EXCEPT !.todo = @ \ {e}] \in Stewardship
    BY <1>1 DEF Stewardship
  <1>7. RefsTypeOK'
    BY <1>1, <1>2, <1>4, <1>6 DEF RefsInv, RefsTypeOK
  <1>8. (\A c \in Indexers : CallRight(stores[c])') /\ (KeysDiffer => RowsRight')
    BY <1>1 DEF RefsInv, CallRight, RowsRight, IndexExact, BeingStored, Writes, RowsBy, RowOf, Indexed
  <1>9. ASSUME KeysDiffer, refsCalm' PROVE CalmRight'
    <2>1. CalmRight /\ \A c \in Indexers : stores[c].at = "idle"
      BY <1>1, <1>9 DEF RefsInv, CalmRight
    <2>2. elements'[e].status = "RETIRED" => ~Used(e)
      BY <1>1, <1>2, <1>3, <1>5, <2>1 DEF CalmRight, Unused
    <2>3. SlicesWithout("RETIRED")'
      <3> SUFFICES ASSUME NEW q \in Publications \ torn, q.refKind = "slice", NEW n \in DOMAIN stored[q]
                   PROVE  elements'[stored[q][n].key].status # "RETIRED"
        BY <1>1 DEF SlicesWithout
      <3>1. stored[q] \in SliceRefs
        BY DEF RefsInv
      <3>2. stored[q][n].key \in Elements
        BY <3>1, SliceRefFacts
      <3>3. CASE stored[q][n].key = e
        BY <2>2, <3>3 DEF Used
      <3>4. CASE stored[q][n].key # e
        BY <1>1, <1>2, <2>1, <3>2, <3>4 DEF CalmRight, SlicesWithout
      <3> QED
        BY <3>3, <3>4
    <2>4. \A v \in Stewards : Unused(stewardships[v])'
      <3> TAKE v \in Stewards
      <3>1. Unused(stewardships[v])
        BY <2>1 DEF CalmRight
      <3>2. CASE v = w
        <4>1. /\ stewardships'[v].todo = stewardships[v].todo \ {e} /\ stewardships'[v].doing = stewardships[v].doing
              /\ stewardships'[v].copy = stewardships[v].copy
          BY <1>1, <1>2, <3>2 DEF Stewardship
        <4> QED
          BY <1>1, <3>1, <4>1 DEF Unused, Used
      <3>3. CASE v # w
        BY <1>1, <1>2, <3>1, <3>3 DEF Unused, Used
      <3> QED
        BY <3>2, <3>3
    <2> QED
      BY <1>1, <2>1, <2>3, <2>4 DEF CalmRight
  <1> QED
    BY <1>1, <1>7, <1>8, <1>9 DEF RefsInv, Writes, KeysDiffer

\* Whoever begins, or goes on, with what it has read.
LEMMA StewardStartKeeps ==
    ASSUME RefsInv, NEW w \in Stewards, NEW s \in Stewardship, StewardStarts(w, s),
           KeysDiffer /\ refsCalm /\ (\A c \in Indexers : stores[c].at = "idle") => Unused(s)
    PROVE  RefsInv'
  <1>1. stewardshipsLeft' \in 0..MaxStewardships /\ refsCalm' \in BOOLEAN
    BY RefsAssumption DEF StewardStarts, RefsInv, RefsTypeOK
  <1>2. /\ StewardTo(w, s) /\ UNCHANGED <<elements, stored, refRows, stores, torn, storesLeft>>
        /\ refsCalm' => refsCalm /\ \A c \in Indexers : stores[c].at = "idle"
    BY DEF StewardStarts
  <1> QED
    BY <1>1, <1>2, StewardKeeps

LEMMA StewardGoesOn ==
    ASSUME RefsInv, NEW w \in Stewards, NEW s \in Stewardship, stewardships[w].doing # "nothing", StewardTo(w, s),
           UNCHANGED <<elements, stored, refRows, stores, torn, refsCalm, storesLeft, stewardshipsLeft>>,
           KeysDiffer /\ refsCalm => Unused(s)
    PROVE  RefsInv'
  <1>1. stewardshipsLeft' \in 0..MaxStewardships /\ refsCalm' \in BOOLEAN
    BY DEF RefsInv, RefsTypeOK
  <1>2. KeysDiffer /\ refsCalm' => refsCalm /\ \A c \in Indexers : stores[c].at = "idle"
    BY DEF RefsInv, CalmRight
  <1>3. KeysDiffer /\ refsCalm' => Unused(s)
    OBVIOUS
  <1> QED
    BY <1>1, <1>2, <1>3, StewardKeeps

LEMMA ReadsType == ASSUME RefsInv, NEW todo \in SUBSET Elements, NEW doing \in {"deprecate", "retire", "change", "publishTypes", "publishLinks"}
                   PROVE  Reads(doing, todo) \in Stewardship
  BY DEF RefsInv, RefsTypeOK, Reads, Stewardship

\* What is put past the index is torn: nothing is said of its rows, nor of what it uses.
LEMMA SlicePutKeeps == ASSUME RefsInv, NEW p \in Publications, NEW refs \in SliceRefs, SlicePutUnindexed(p, refs) PROVE RefsInv'
  <1>1. /\ p.refKind = "slice" /\ storesLeft > 0 /\ storesLeft' = storesLeft - 1 /\ torn' = torn \cup {p}
        /\ stored' = [stored EXCEPT ![p] = refs] /\ stored \in [Publications -> RefLists \cup {<<>>}]
        /\ UNCHANGED <<elements, refRows, stores, stewardships, refsCalm, stewardshipsLeft>>
    BY DEF SlicePutUnindexed, RefsInv, RefsTypeOK
  <1>2. refs \in RefLists /\ stored'[p] = refs /\ \A q \in Publications : q # p => stored'[q] = stored[q]
    BY <1>1 DEF RefLists
  <1>3. RefsTypeOK'
    <2>1. stored' \in [Publications -> RefLists \cup {<<>>}]
      BY <1>1, <1>2
    <2>2. storesLeft' \in 0..MaxStores
      BY <1>1, RefsAssumption DEF RefsInv, RefsTypeOK
    <2> QED
      BY <1>1, <2>1, <2>2 DEF RefsInv, RefsTypeOK
  <1>4. \A q \in Publications : q.refKind = "slice" => stored'[q] \in SliceRefs \cup {<<>>}
    BY <1>2 DEF RefsInv
  <1>5. \A c \in Indexers : CallRight(stores[c])'
    <2> TAKE c \in Indexers
    <2>1. CallRight(stores[c]) /\ stores[c] \in Store /\ stores'[c] = stores[c]
      BY <1>1 DEF RefsInv, RefsTypeOK
    <2>2. stores[c].by \in Publications
      BY <2>1 DEF Store
    <2> QED
      BY <1>1, <1>2, <2>1, <2>2 DEF CallRight
  <1>6. \A c, d \in Indexers : \A q \in Publications \ torn' : Writes(c, q)' /\ Writes(d, q)' => c = d
    BY <1>1 DEF RefsInv, Writes
  <1>7. ASSUME KeysDiffer PROVE RowsRight'
    <2>1. RowsRight
      BY <1>7 DEF RefsInv
    <2>2. ASSUME NEW q \in Publications, q \notin torn', ~BeingStored(q)' PROVE RowsBy(q)' = {RowOf(q, stored[q], n) : n \in DOMAIN stored[q]}'
      <3>1. q # p /\ q \notin torn /\ ~BeingStored(q) /\ stored'[q] = stored[q] /\ RowsBy(q)' = RowsBy(q)
        BY <1>1, <1>2, <2>2 DEF BeingStored, Writes, RowsBy
      <3> QED
        BY <2>1, <3>1 DEF RowsRight, IndexExact, RowOf
    <2>3. IndexExact'
      BY <2>2 DEF IndexExact
    <2> QED
      BY <1>1, <2>1, <2>3 DEF RowsRight, RowsBy, Indexed, RowOf
  <1>8. ASSUME KeysDiffer, refsCalm' PROVE CalmRight'
    <2>1. CalmRight
      BY <1>1, <1>8 DEF RefsInv
    <2>2. \A q \in Publications \ torn' : q \in Publications \ torn /\ stored'[q] = stored[q]
      BY <1>1, <1>2
    <2>3. SlicesWithout("RETIRED")'
      BY <1>1, <2>1, <2>2 DEF CalmRight, SlicesWithout
    <2>4. \A e \in Elements : Used(e)' => Used(e)
      BY <2>2 DEF Used
    <2>5. \A w \in Stewards : Unused(stewardships[w])'
      <3> TAKE w \in Stewards
      <3>1. Unused(stewardships[w]) /\ stewardships'[w] = stewardships[w] /\ stewardships[w].todo \subseteq Elements
        BY <1>1, <2>1 DEF CalmRight, RefsInv, RefsTypeOK, Stewardship
      <3> QED
        BY <2>4, <3>1 DEF Unused
    <2> QED
      BY <1>1, <2>1, <2>3, <2>5 DEF CalmRight
  <1> QED
    BY <1>3, <1>4, <1>5, <1>6, <1>7, <1>8 DEF RefsInv, KeysDiffer

LEMMA NextRefs == RefsInv /\ [RefsNext]_refVars => RefsInv'
  <1> SUFFICES ASSUME RefsInv, [RefsNext]_refVars PROVE RefsInv'
    OBVIOUS
  <1>1. CASE UNCHANGED refVars
    BY <1>1 DEF refVars, RefsInv, RefsTypeOK, CallRight, RowsRight, IndexExact, BeingStored, Writes, RowsBy, RowOf, Indexed,
                CalmRight, SlicesWithout, Unused, Used, KeysDiffer
  <1>2. ASSUME NEW c \in Indexers, \E p \in Publications : \E refs \in RefLists : StoreStarts(c, p, refs) PROVE RefsInv'
    BY <1>2, StoreStartKeeps
  <1>3. ASSUME NEW c \in Indexers, \/ RefChecked(c) \/ SpecPut(c) \/ OldRowsListed(c) \/ OldRowRemoved(c) \/ RowIndexed(c) \/ StoreBreaks(c)
        PROVE  RefsInv'
    BY <1>3, RefCheckKeeps, SpecPutKeeps, ListKeeps, RemoveKeeps, IndexKeeps, StoreBreakKeeps
  <1>11. ASSUME NEW p \in Publications, NEW refs \in SliceRefs, SlicePutUnindexed(p, refs) PROVE RefsInv'
    BY <1>11, SlicePutKeeps
  <1>4. ASSUME NEW w \in Stewards, NEW e \in Elements, NEW doing \in {"deprecate", "change"}, StewardStarts(w, Reads(doing, {e})) PROVE RefsInv'
    <2>1. KeysDiffer /\ refsCalm => Unused(Reads(doing, {e}))
      BY ReadsUnused
    <2> QED
      BY <1>4, <2>1, ReadsType, StewardStartKeeps
  <1>5. ASSUME NEW w \in Stewards, NEW e \in Elements, RetireCounts(w, e) PROVE RefsInv'
    <2>1. PICK s \in Stewardship : s = [NoStewardship EXCEPT !.doing = "count", !.todo = {e}]
      BY NoStoreType DEF Stewardship
    <2>2. s.todo = {e}
      BY <2>1, NoStoreType DEF Stewardship
    <2>3. KeysDiffer /\ (\A c \in Indexers : stores[c].at = "idle") => Unused(s)
      BY <1>5, <2>2, CountedIsUnused DEF RetireCounts, Unused
    <2> QED
      BY <1>5, <2>1, <2>3, StewardStartKeeps DEF RetireCounts
  <1>6. ASSUME NEW w \in Stewards, PublishListsTypes(w) PROVE RefsInv'
    <2> DEFINE todo == {e \in TypeKeys : ~elements[e].published}
    <2>1. todo \in SUBSET Elements
      BY DEF Elements
    <2>2. KeysDiffer /\ refsCalm => Unused(Reads("publishTypes", todo))
      BY <2>1, ReadsUnused
    <2>3. Reads("publishTypes", todo) \in Stewardship
      BY <2>1, ReadsType
    <2> QED
      BY <1>6, <2>2, <2>3, StewardStartKeeps DEF PublishListsTypes
  <1>7. ASSUME NEW w \in Stewards, RetireReads(w) PROVE RefsInv'
    <2> DEFINE todo == stewardships[w].todo
    <2>1. todo \in SUBSET Elements /\ stewardships[w].doing = "count"
      BY <1>7 DEF RetireReads, RefsInv, RefsTypeOK, Stewardship
    <2>2. KeysDiffer /\ refsCalm => \A e \in todo : ~Used(e)
      BY <2>1 DEF RefsInv, CalmRight, Unused
    <2>3. KeysDiffer /\ refsCalm => Unused(Reads("retire", todo))
      BY <2>1, <2>2, ReadsUnused
    <2>4. Reads("retire", todo) \in Stewardship
      BY <2>1, ReadsType
    <2> QED
      BY <1>7, <2>1, <2>3, <2>4, StewardGoesOn DEF RetireReads
  <1>8. ASSUME NEW w \in Stewards, PublishListsLinks(w) PROVE RefsInv'
    <2> DEFINE todo == {e \in LinkKeys : ~elements[e].published}
    <2>1. todo \in SUBSET Elements
      BY DEF Elements
    <2>2. KeysDiffer /\ refsCalm => Unused(Reads("publishLinks", todo))
      BY <2>1, ReadsUnused
    <2>3. Reads("publishLinks", todo) \in Stewardship
      BY <2>1, ReadsType
    <2> QED
      BY <1>8, <2>2, <2>3, StewardGoesOn DEF PublishListsLinks
  <1>9. ASSUME NEW w \in Stewards, StewardEnds(w) \/ StewardBreaks(w) PROVE RefsInv'
    <2>1. Unused(NoStewardship)
      BY NoStoreType DEF Unused
    <2>2. StewardTo(w, NoStewardship) /\ UNCHANGED <<elements, stored, refRows, stores, torn, refsCalm, storesLeft, stewardshipsLeft>>
      BY <1>9 DEF StewardEnds, StewardBreaks
    <2>3. stewardshipsLeft' \in 0..MaxStewardships /\ refsCalm' \in BOOLEAN
      BY <2>2 DEF RefsInv, RefsTypeOK
    <2> QED
      BY <2>1, <2>2, <2>3, NoStoreType, StewardKeeps
  <1>10. ASSUME NEW w \in Stewards, ElementPut(w) PROVE RefsInv'
    BY <1>10, ElementPutKeeps
  <1> QED
    BY <1>1, <1>2, <1>3, <1>4, <1>5, <1>6, <1>7, <1>8, <1>9, <1>10, <1>11 DEF RefsNext, DeprecateReads, ChangeReads

\* The index tells what is stored, and what the index shows unused is: for any number of requests, of
\* publications and of elements, whatever breaks off.
THEOREM ReferencesSoundAlways == RefsSpec => []ReferencesSound
  <1>1. RefsSpec => []RefsInv
    BY InitRefs, NextRefs, PTL DEF RefsSpec
  <1>2. RefsInv => ReferencesSound
    BY DEF RefsInv, RowsRight, CalmRight, ReferencesSound, RetiredIsUnused
  <1> QED
    BY <1>1, <1>2, PTL

-----------------------------------------------------------------------------
(* Ontology workflows: Kahn's algorithm *)

LEMMA LeastNumber ==
    ASSUME NEW S \in SUBSET Nat, S # {}
    PROVE  \E m \in S : \A n \in S : m <= n
  <1> DEFINE R == {p \in Nat \X Nat : p[1] < p[2]}
  <1>1. IsWellFoundedOn(R, Nat)
    BY NatLessThanWellFounded DEF OpToRel
  <1>2. PICK m \in S : \A n \in S : ~(<<n, m>> \in R)
    <2> HIDE DEF R
    <2> QED
      BY <1>1, WFMin
  <1>3. \A n \in S : ~(n < m)
    BY <1>2
  <1> QED
    BY <1>3

LEMMA UpTo ==
    ASSUME NEW n \in Nat, NEW Good, 0 \in Good, \A k \in 0..n : k \in Good /\ k < n => k + 1 \in Good
    PROVE  \A k \in 0..n : k \in Good
  <1> DEFINE Wrong == (0..n) \ Good
  <1>1. SUFFICES ASSUME Wrong # {} PROVE FALSE
    OBVIOUS
  <1>2. PICK m \in Wrong : \A k \in Wrong : m <= k
    <2>1. Wrong \in SUBSET Nat
      OBVIOUS
    <2> HIDE DEF Wrong
    <2> QED
      BY <1>1, <2>1, LeastNumber
  <1>3. m \in 0..n /\ m # 0 /\ m \notin Good
    OBVIOUS
  <1>4. m - 1 \in 0..n /\ m - 1 \notin Wrong /\ m - 1 < n /\ (m - 1) + 1 = m
    BY <1>2, <1>3
  <1>5. m - 1 \in Good
    BY <1>4
  <1> QED
    BY <1>3, <1>4, <1>5

\* What is iterated from a base a bounded number of times exists.
Iterates(f, n, base, G) == f = [k \in 0..n |-> IF k = 0 THEN base ELSE G[f[k - 1]]]

LEMMA IterationExists ==
    ASSUME NEW n \in Nat, NEW W, NEW base \in W, NEW G \in [W -> W]
    PROVE  \E f \in [0..n -> W] : Iterates(f, n, base, G)
  <1> DEFINE Has(k) == \E f \in [0..k -> W] : Iterates(f, k, base, G)
             Good == {k \in 0..n : Has(k)}
  <1>1. Has(0)
    <2> DEFINE f0 == [k \in 0..0 |-> base]
    <2>1. f0 \in [0..0 -> W] /\ Iterates(f0, 0, base, G)
      BY DEF Iterates
    <2> QED
      BY <2>1
  <1>2. ASSUME NEW k \in Nat, k < n, Has(k) PROVE Has(k + 1)
    <2>1. PICK f \in [0..k -> W] : Iterates(f, k, base, G)
      BY <1>2
    <2> DEFINE h == [j \in 0..k + 1 |-> IF j = 0 THEN base ELSE G[f[j - 1]]]
    <2>2. \A j \in 0..k + 1 : j # 0 => j - 1 \in 0..k
      OBVIOUS
    <2>3. h \in [0..k + 1 -> W]
      BY <2>2
    <2>4. ASSUME NEW j \in 0..k PROVE h[j] = f[j]
      <3>1. f[j] = IF j = 0 THEN base ELSE G[f[j - 1]]
        BY <2>1 DEF Iterates
      <3>2. j \in 0..k + 1
        OBVIOUS
      <3> QED
        BY <3>1, <3>2
    <2>5. \A j \in 0..k + 1 : h[j] = IF j = 0 THEN base ELSE G[h[j - 1]]
      BY <2>2, <2>4
    <2>6. Iterates(h, k + 1, base, G)
      <3> HIDE DEF h
      <3> QED
        BY <2>3, <2>5 DEF Iterates
    <2> QED
      BY <2>3, <2>6
  <1> HIDE DEF Has
  <1>3. 0 \in Good
    BY <1>1
  <1>4. \A k \in 0..n : k \in Good /\ k < n => k + 1 \in Good
    BY <1>2
  <1>5. n \in Good
    <2> HIDE DEF Good
    <2> QED
      BY <1>3, <1>4, UpTo
  <1> QED
    BY <1>5 DEF Has

\* The nodes a turn finds: queued are those not visited whose predecessors all are.
QueueOf(g, visited) == {v \in Ids(g) \ visited : \A e \in Inner(g) : e[2] = v => e[1] \in visited}

KahnState(g) == [visited : SUBSET Ids(g), queue : SUBSET Ids(g)]

\* Where Kahn's algorithm is after n turns.
KahnFits(g, n, k) ==
    /\ k \in KahnState(g) /\ k.queue = QueueOf(g, k.visited)
    /\ IsFiniteSet(k.visited) /\ (Cardinality(k.visited) = n \/ k.queue = {})

LEMMA KahnStarts ==
    ASSUME NEW g
    PROVE  KahnFits(g, 0, KahnStart(g))
  <1>1. KahnStart(g) \in KahnState(g)
    BY DEF KahnStart, KahnState
  <1>2. KahnStart(g).visited = {} /\ KahnStart(g).queue = {v \in Ids(g) : \A e \in Inner(g) : e[2] # v}
    BY DEF KahnStart
  <1>3. KahnStart(g).queue = QueueOf(g, KahnStart(g).visited)
    BY <1>2 DEF QueueOf
  <1> QED
    BY <1>1, <1>2, <1>3, FS_EmptySet DEF KahnFits

\* A turn visits one node whose predecessors all have been.
LEMMA KahnTurns ==
    ASSUME NEW g, NEW n \in Nat, NEW k, KahnFits(g, n, k)
    PROVE  /\ KahnFits(g, n + 1, KahnTurn(g, k))
           /\ \A v \in KahnTurn(g, k).visited : v \in k.visited \/ v \in k.queue
  <1>1. CASE k.queue = {}
    BY <1>1 DEF KahnTurn, KahnFits
  <1>2. CASE k.queue # {}
    <2>1. PICK u : u = CHOOSE v \in k.queue : TRUE
      OBVIOUS
    <2>2. u \in k.queue
      BY <1>2, <2>1
    <2>3. PICK w : w = k.visited \cup {u}
      OBVIOUS
    <2>4. PICK freed : freed = {v \in Ids(g) \ (w \cup k.queue) : \A e \in Inner(g) : e[2] = v => e[1] \in w}
      OBVIOUS
    <2>5. KahnTurn(g, k) = [visited |-> w, queue |-> (k.queue \ {u}) \cup freed]
      BY <1>2, <2>1, <2>3, <2>4 DEF KahnTurn
    <2>6. k.visited \subseteq Ids(g) /\ k.queue \subseteq Ids(g) /\ k.queue = QueueOf(g, k.visited)
      BY DEF KahnFits, KahnState
    <2>7. u \in Ids(g) /\ u \notin k.visited
      BY <2>2, <2>6 DEF QueueOf
    <2>8. KahnTurn(g, k) \in KahnState(g)
      BY <2>2, <2>3, <2>4, <2>5, <2>6 DEF KahnState
    <2>9. KahnTurn(g, k).queue = QueueOf(g, w)
      <3>1. KahnTurn(g, k).queue = (k.queue \ {u}) \cup freed
        BY <2>5
      <3>2. ASSUME NEW v \in QueueOf(g, w) PROVE v \in (k.queue \ {u}) \cup freed
        BY <2>3, <2>4 DEF QueueOf
      <3>3. ASSUME NEW v \in k.queue \ {u} PROVE v \in QueueOf(g, w)
        BY <2>3, <2>6 DEF QueueOf
      <3>4. ASSUME NEW v \in freed PROVE v \in QueueOf(g, w)
        BY <2>4 DEF QueueOf
      <3> QED
        BY <3>1, <3>2, <3>3, <3>4
    <2>10. IsFiniteSet(w) /\ Cardinality(w) = Cardinality(k.visited) + 1
      BY <2>3, <2>7, FS_AddElement DEF KahnFits
    <2>11. Cardinality(w) = n + 1
      BY <1>2, <2>10 DEF KahnFits
    <2> QED
      BY <2>2, <2>3, <2>5, <2>8, <2>9, <2>10, <2>11 DEF KahnFits
  <1> QED
    BY <1>1, <1>2

LEMMA KahnTurnState ==
    ASSUME NEW g, NEW k \in KahnState(g)
    PROVE  KahnTurn(g, k) \in KahnState(g)
  <1>1. CASE k.queue = {}
    BY <1>1 DEF KahnTurn
  <1>2. CASE k.queue # {}
    <2>1. PICK u : u = CHOOSE v \in k.queue : TRUE
      OBVIOUS
    <2>2. u \in k.queue
      BY <1>2, <2>1
    <2>3. PICK freed \in SUBSET Ids(g) : KahnTurn(g, k) = [visited |-> k.visited \cup {u}, queue |-> (k.queue \ {u}) \cup freed]
      BY <1>2, <2>1 DEF KahnTurn
    <2> QED
      BY <2>2, <2>3 DEF KahnState
  <1> QED
    BY <1>1, <1>2

\* The recursive function is what its definition says.
LEMMA KahnComputes ==
    ASSUME NEW g, Len(g.nodes) \in Nat
    PROVE  /\ Kahn(g)[0] = KahnStart(g)
           /\ \A n \in 1..Len(g.nodes) : Kahn(g)[n] = KahnTurn(g, Kahn(g)[n - 1])
  <1>1. PICK size \in Nat : size = Len(g.nodes)
    OBVIOUS
  <1>2. PICK G \in [KahnState(g) -> KahnState(g)] : \A k \in KahnState(g) : G[k] = KahnTurn(g, k)
    <2> DEFINE G == [k \in KahnState(g) |-> KahnTurn(g, k)]
    <2>1. G \in [KahnState(g) -> KahnState(g)]
      BY KahnTurnState
    <2> QED
      BY <2>1
  <1>3. KahnStart(g) \in KahnState(g)
    BY KahnStarts DEF KahnFits
  <1>4. PICK f \in [0..size -> KahnState(g)] : Iterates(f, size, KahnStart(g), G)
    BY <1>1, <1>2, <1>3, IterationExists
  <1>5. \A n \in 0..size : n # 0 => f[n - 1] \in KahnState(g)
    BY <1>1, <1>4
  <1>6. f = [n \in 0..size |-> IF n = 0 THEN KahnStart(g) ELSE KahnTurn(g, f[n - 1])]
    <2>1. f = [n \in 0..size |-> IF n = 0 THEN KahnStart(g) ELSE G[f[n - 1]]]
      BY <1>4 DEF Iterates
    <2>2. \A n \in 0..size : (IF n = 0 THEN KahnStart(g) ELSE G[f[n - 1]]) = IF n = 0 THEN KahnStart(g) ELSE KahnTurn(g, f[n - 1])
      BY <1>2, <1>5
    <2> QED
      BY <2>1, <2>2
  <1>7. Kahn(g) = CHOOSE after : after = [n \in 0..Len(g.nodes) |-> IF n = 0 THEN KahnStart(g) ELSE KahnTurn(g, after[n - 1])]
    BY DEF Kahn
  <1>8. Kahn(g) = [n \in 0..Len(g.nodes) |-> IF n = 0 THEN KahnStart(g) ELSE KahnTurn(g, Kahn(g)[n - 1])]
    <2>1. \E after : after = [n \in 0..Len(g.nodes) |-> IF n = 0 THEN KahnStart(g) ELSE KahnTurn(g, after[n - 1])]
      BY <1>1, <1>6
    <2> QED
      BY <1>7, <2>1
  <1>9. 0 \in 0..size /\ \A n \in 1..size : n \in 0..size /\ n # 0
    BY <1>1
  <1> QED
    BY <1>1, <1>8, <1>9

LEMMA KahnGoesOn ==
    ASSUME NEW g, Len(g.nodes) \in Nat
    PROVE  \A n \in 0..Len(g.nodes) : KahnFits(g, n, Kahn(g)[n])
  <1>1. PICK size \in Nat : size = Len(g.nodes)
    OBVIOUS
  <1> DEFINE Good == {n \in 0..size : KahnFits(g, n, Kahn(g)[n])}
  <1>2. 0 \in Good
    BY <1>1, KahnComputes, KahnStarts
  <1>3. ASSUME NEW n \in 0..size, n \in Good, n < size PROVE n + 1 \in Good
    <2>1. n \in Nat /\ n + 1 \in 1..size /\ n + 1 \in 0..size /\ (n + 1) - 1 = n
      BY <1>1, <1>3
    <2>2. KahnFits(g, n, Kahn(g)[n])
      BY <1>3
    <2>3. Kahn(g)[n + 1] = KahnTurn(g, Kahn(g)[n])
      BY <1>1, <2>1, KahnComputes
    <2> QED
      BY <2>1, <2>2, <2>3, KahnTurns
  <1>4. \A n \in 0..size : n \in Good
    <2> HIDE DEF Good
    <2> QED
      BY <1>1, <1>2, <1>3, UpTo
  <1> QED
    BY <1>1, <1>4

\* A cycle is never visited: each of its nodes waits for another.
LEMMA KahnAvoids ==
    ASSUME NEW g, Len(g.nodes) \in Nat, NEW S \in SUBSET Ids(g),
           \A v \in S : \E e \in Inner(g) : e[2] = v /\ e[1] \in S
    PROVE  \A n \in 0..Len(g.nodes) : Kahn(g)[n].visited \cap S = {}
  <1>1. PICK size \in Nat : size = Len(g.nodes)
    OBVIOUS
  <1> DEFINE Good == {n \in 0..size : Kahn(g)[n].visited \cap S = {}}
  <1>2. 0 \in Good
    <2>1. Kahn(g)[0] = KahnStart(g) /\ KahnStart(g).visited = {} /\ 0 \in 0..size
      BY <1>1, KahnComputes DEF KahnStart
    <2>2. Kahn(g)[0].visited \cap S = {}
      BY <2>1
    <2> QED
      BY <2>1, <2>2
  <1>3. ASSUME NEW n \in 0..size, n \in Good, n < size PROVE n + 1 \in Good
    <2>1. n \in Nat /\ n + 1 \in 1..size /\ n + 1 \in 0..size /\ (n + 1) - 1 = n /\ n \in 0..Len(g.nodes)
      BY <1>1, <1>3
    <2>2. Kahn(g)[n + 1] = KahnTurn(g, Kahn(g)[n])
      BY <1>1, <2>1, KahnComputes
    <2>3. KahnFits(g, n, Kahn(g)[n])
      BY <2>1, KahnGoesOn
    <2>4. PICK k : k = Kahn(g)[n]
      OBVIOUS
    <2>5. \A v \in KahnTurn(g, k).visited : v \in k.visited \/ v \in k.queue
      BY <2>1, <2>3, <2>4, KahnTurns
    <2>6. k.visited \cap S = {} /\ k.queue = QueueOf(g, k.visited)
      BY <1>3, <2>3, <2>4 DEF KahnFits
    <2>7. ASSUME NEW v \in k.queue, v \in S PROVE FALSE
      <3>1. PICK e \in Inner(g) : e[2] = v /\ e[1] \in S
        BY <2>7
      <3>2. e[1] \in k.visited
        BY <2>6, <2>7, <3>1 DEF QueueOf
      <3> QED
        BY <2>6, <3>1, <3>2
    <2>8. KahnTurn(g, k).visited \cap S = {}
      BY <2>5, <2>6, <2>7
    <2> QED
      BY <2>1, <2>2, <2>4, <2>8
  <1>4. \A n \in 0..size : n \in Good
    <2> HIDE DEF Good
    <2> QED
      BY <1>1, <1>2, <1>3, UpTo
  <1> QED
    BY <1>1, <1>4

\* Validation finds a cycle exactly if there is one, in a graph whose ids are unique.
THEOREM KahnDecides ==
    ASSUME NEW g, NEW N, g.nodes \in Seq(N), Cardinality(Ids(g)) = Len(g.nodes)
    PROVE  HasCycle(g) = Cyclic(g)
  <1>1. PICK size \in Nat : size = Len(g.nodes) /\ DOMAIN g.nodes = 1..size
    OBVIOUS
  <1>2. IsFiniteSet(Ids(g))
    <2>1. IsFiniteSet(1..size)
      BY <1>1, FS_Interval
    <2>2. Ids(g) = {g.nodes[i] : i \in 1..size}
      BY <1>1 DEF Ids
    <2>3. g.nodes \in Surjection(1..size, Ids(g))
      BY <1>1, <2>2 DEF Surjection
    <2> QED
      BY <2>1, <2>3, FS_Surjection
  <1>3. PICK k : k = Kahn(g)[size]
    OBVIOUS
  <1>4. KahnFits(g, size, k)
    BY <1>1, <1>3, KahnGoesOn
  <1>5. k.visited \subseteq Ids(g) /\ k.queue = QueueOf(g, k.visited) /\ IsFiniteSet(k.visited)
        /\ (Cardinality(k.visited) = size \/ k.queue = {})
    BY <1>4 DEF KahnFits, KahnState
  <1>6. HasCycle(g) <=> Cardinality(k.visited) < size
    BY <1>1, <1>3 DEF HasCycle
  <1>7. Cardinality(k.visited) \in Nat /\ Cardinality(k.visited) <= size
    BY <1>1, <1>2, <1>5, FS_Subset, FS_CardinalityType
  <1>8. ASSUME Cyclic(g) PROVE Cardinality(k.visited) < size
    <2>1. PICK S \in (SUBSET Ids(g)) \ {{}} : \A v \in S : \E e \in Inner(g) : e[2] = v /\ e[1] \in S
      BY <1>8 DEF Cyclic
    <2>2. k.visited \cap S = {}
      <3>1. S \in SUBSET Ids(g) /\ Len(g.nodes) \in Nat /\ size \in 0..Len(g.nodes)
        BY <1>1, <2>1
      <3>2. \A n \in 0..Len(g.nodes) : Kahn(g)[n].visited \cap S = {}
        BY <2>1, <3>1, KahnAvoids
      <3> QED
        BY <1>3, <3>1, <3>2
    <2>3. k.visited # Ids(g)
      BY <2>1, <2>2
    <2> QED
      BY <1>1, <1>2, <1>5, <1>7, <2>3, FS_Subset
  <1>9. ASSUME Cardinality(k.visited) < size PROVE Cyclic(g)
    <2>1. k.queue = {} /\ k.visited # Ids(g)
      BY <1>1, <1>5, <1>7, <1>9
    <2>2. PICK S : S = Ids(g) \ k.visited
      OBVIOUS
    <2>3. S \in (SUBSET Ids(g)) \ {{}}
      BY <1>5, <2>1, <2>2
    <2>4. ASSUME NEW v \in S PROVE \E e \in Inner(g) : e[2] = v /\ e[1] \in S
      <3>1. PICK e \in Inner(g) : e[2] = v /\ e[1] \notin k.visited
        BY <1>5, <2>1, <2>2, <2>4 DEF QueueOf
      <3>2. e[1] \in S
        BY <2>2, <3>1 DEF Inner
      <3> QED
        BY <3>1, <3>2
    <2> QED
      BY <2>3, <2>4 DEF Cyclic
  <1>10. HasCycle(g) \in BOOLEAN /\ Cyclic(g) \in BOOLEAN
    BY DEF HasCycle, Cyclic
  <1> QED
    BY <1>6, <1>8, <1>9, <1>10

-----------------------------------------------------------------------------
(* Ontology workflows: publication *)

\* While nobody saves the graph between them, the steps of a publication are all about one that is valid.
FlowInv ==
    /\ FlowTypeOK
    /\ \A l \in ontology.links : LinkEnds[l] \subseteq ontology.types
    /\ publishing.pc = "idle" => publishing = NotPublishing
    /\ publishing.pc = "validated" => Issues(flow.graph) = {}
    /\ publishing.pc \in {"types", "version"} => Issues(publishing.graph) = {}
    /\ Issues(lastGraph) = {} \/ lastGraph = NoGraph

LEMMA GraphNodes == \A g \in Graph \cup {NoGraph} : g.nodes \in Seq(Nat)
  <1>1. \A g \in Graph : g.nodes \in Seq(Nat)
    BY FlowAssumption DEF Graph
  <1>2. NoGraph.nodes \in Seq(Nat)
    <2>1. NoGraph.nodes = <<>> /\ <<>> \in Seq(Nat)
      BY DEF NoGraph
    <2> QED
      BY <2>1
  <1> QED
    BY <1>1, <1>2

\* What a graph without issues is.
LEMMA ValidGraph ==
    ASSUME NEW g, g.nodes \in Seq(Nat), Issues(g) = {}
    PROVE  /\ ~Cyclic(g) /\ Inner(g) = g.edges
           /\ \A l \in LinksOf(g) : LinkEnds[l] \subseteq EntitiesOf(g)
  <1>1. Cardinality(Ids(g)) = Len(g.nodes) /\ Inner(g) = g.edges /\ ~HasCycle(g)
        /\ ~(\E l \in LinksOf(g) : ~(LinkEnds[l] \subseteq EntitiesOf(g)))
    BY DEF Issues
  <1>2. HasCycle(g) = Cyclic(g)
    BY <1>1, KahnDecides
  <1> QED
    BY <1>1, <1>2

LEMMA FlowStarts == FlowInit => FlowInv
  BY DEF FlowInit, FlowInv, FlowTypeOK, Flow, NotPublishing, NoGraph, PublishSteps, MaxVersions

LEMMA FlowKeeps ==
    ASSUME ~UpdatesDuringPublish
    PROVE  FlowInv /\ [FlowNext]_flowVars => FlowInv'
  <1> SUFFICES ASSUME FlowInv, [FlowNext]_flowVars PROVE FlowInv'
    OBVIOUS
  <1> USE DEF FlowInv
  <1>1. CASE FlowUpdated
    BY <1>1 DEF FlowUpdated, FlowTypeOK, Flow, NotPublishing
  <1>2. ASSUME NEW n \in Entities, Promoted(n) PROVE FlowInv'
    <2>1. flow' = [flow EXCEPT !.graph = [flow.graph EXCEPT !.static = @ \ {n}]]
          /\ publishing = NotPublishing /\ n \in EntitiesOf(flow.graph) /\ UNCHANGED <<publishing, ontology, lastGraph>>
      BY <1>2 DEF Promoted
    <2>2. flow.graph \in Graph
      BY <2>1 DEF FlowTypeOK, Flow, EntitiesOf, Ids, NoGraph
    <2>3. [flow.graph EXCEPT !.static = @ \ {n}] \in Graph
      BY <2>2 DEF Graph
    <2>4. flow' \in Flow
      BY <2>1, <2>3 DEF FlowTypeOK, Flow
    <2> QED
      BY <2>1, <2>4 DEF FlowTypeOK, NotPublishing
  <1>3. CASE PublishValidates
    BY <1>3 DEF PublishValidates, FlowTypeOK, PublishSteps, NotPublishing
  <1>4. CASE PublishReadsAgain
    BY <1>4 DEF PublishReadsAgain, FlowTypeOK, Flow, PublishSteps, NotPublishing
  <1>5. CASE TypeUpserted
    <2>1. PICK n \in EntitiesOf(publishing.graph) \ ontology.types :
             ontology' = [ontology EXCEPT !.types = @ \cup {n}] /\ UNCHANGED <<flow, publishing, lastGraph>>
      BY <1>5 DEF TypeUpserted
    <2>2. n \in Entities
      BY <2>1 DEF EntitiesOf
    <2>3. ontology'.types = ontology.types \cup {n} /\ ontology'.links = ontology.links
          /\ ontology' \in [types : SUBSET Entities, links : SUBSET (DOMAIN LinkEnds), versions : 0..MaxVersions]
      BY <2>1, <2>2 DEF FlowTypeOK
    <2> QED
      BY <2>1, <2>3 DEF FlowTypeOK
  <1>6. CASE LinkUpserted
    <2>1. PICK n \in LinksOf(publishing.graph) \ ontology.links :
             /\ publishing.pc = "types" /\ EntitiesOf(publishing.graph) \subseteq ontology.types
             /\ ontology' = [ontology EXCEPT !.links = @ \cup {n}] /\ UNCHANGED <<flow, publishing, lastGraph>>
      BY <1>6 DEF LinkUpserted
    <2>2. n \in DOMAIN LinkEnds
      BY <2>1 DEF LinksOf
    <2>3. ontology'.types = ontology.types /\ ontology'.links = ontology.links \cup {n}
          /\ ontology' \in [types : SUBSET Entities, links : SUBSET (DOMAIN LinkEnds), versions : 0..MaxVersions]
      BY <2>1, <2>2 DEF FlowTypeOK
    <2>4. publishing.graph.nodes \in Seq(Nat) /\ Issues(publishing.graph) = {}
      BY <2>1, GraphNodes DEF FlowTypeOK
    <2>5. LinkEnds[n] \subseteq ontology.types
      BY <2>1, <2>4, ValidGraph
    <2> QED
      BY <2>1, <2>3, <2>5 DEF FlowTypeOK
  <1>7. CASE VersionPublished
    <2>1. ontology'.types = ontology.types /\ ontology'.links = ontology.links
          /\ ontology' \in [types : SUBSET Entities, links : SUBSET (DOMAIN LinkEnds), versions : 0..MaxVersions]
      BY <1>7 DEF VersionPublished, FlowTypeOK, MaxVersions
    <2> QED
      BY <1>7, <2>1 DEF VersionPublished, FlowTypeOK, PublishSteps
  <1>8. CASE FlowPublished
    BY <1>8 DEF FlowPublished, FlowTypeOK, Flow, NotPublishing, PublishSteps
  <1>9. CASE PublishBreaks
    BY <1>9 DEF PublishBreaks, FlowTypeOK, NotPublishing, PublishSteps
  <1>10. CASE UNCHANGED flowVars
    BY <1>10 DEF flowVars, FlowTypeOK
  <1> QED
    BY <1>1, <1>2, <1>3, <1>4, <1>5, <1>6, <1>7, <1>8, <1>9, <1>10 DEF FlowNext

\* For any graphs and wherever publications break off: validation finds every cycle and sees none where
\* there is none, a link of the ontology has its types, and the graph published last is one without
\* cycles and loose ends.
THEOREM PublishedIsSoundAlways ==
    ASSUME ~UpdatesDuringPublish
    PROVE  FlowSpec => []PublishedIsSound
  <1>1. FlowSpec => []FlowInv
    BY FlowStarts, FlowKeeps, PTL DEF FlowSpec
  <1>2. FlowInv => PublishedIsSound
    <2> SUFFICES ASSUME FlowInv PROVE PublishedIsSound
      OBVIOUS
    <2>1. flow.graph.nodes \in Seq(Nat) /\ lastGraph.nodes \in Seq(Nat)
      BY GraphNodes DEF FlowInv, FlowTypeOK, Flow
    <2>2. Cardinality(Ids(flow.graph)) = Len(flow.graph.nodes) => HasCycle(flow.graph) = Cyclic(flow.graph)
      BY <2>1, KahnDecides
    <2>3. lastGraph # NoGraph =>
             /\ ~Cyclic(lastGraph) /\ Inner(lastGraph) = lastGraph.edges
             /\ \A l \in LinksOf(lastGraph) : LinkEnds[l] \subseteq EntitiesOf(lastGraph)
      BY <2>1, ValidGraph DEF FlowInv
    <2> QED
      BY <2>2, <2>3 DEF FlowInv, PublishedIsSound
  <1> QED
    BY <1>1, <1>2, PTL

-----------------------------------------------------------------------------
(* Connections *)

\* What a dataset's record and rows say, whatever is under way.
RecordFits(d) ==
    /\ d.rows <= d.head /\ syncJobs[d.head] # "none" /\ conn.lastSync <= d.rows
    /\ d.head # d.rows => syncJobs[d.head] # "SUCCEEDED"

\* Dataset n is what sync j has made it.
MadeBy(n, j) == rawSets[n] # <<>> /\ rawSets[n][1].head = j /\ rawSets[n][1].rows = j

\* A sync is the latest; the datasets before the one it is at are its own, and no other is half its own.
SyncerFits(y) ==
    /\ y.pc = "idle" => y = NoSync
    /\ y.pc # "idle" =>
          /\ y.job \in SyncNos /\ y.had = conn /\ conn.lastSync < y.job /\ syncJobs[y.job] # "none"
          /\ \A i \in SyncNos : i > y.job => syncJobs[i] = "none"
    /\ y.pc \in {"fetch", "record", "rows"} =>
          /\ y.at >= 1 /\ syncJobs[y.job] = "RUNNING"
          /\ \A n \in Names : rawSets[n] # <<>> /\ rawSets[n][1].head = y.job =>
                rawSets[n][1].rows = y.job \/ (y.pc = "rows" /\ n = Datasets[y.at])
    /\ y.pc \in {"record", "rows"} => y.at <= Len(Datasets)
    /\ y.pc = "record" => y.record = RecordOf(Datasets[y.at])
    /\ y.pc = "rows" => y.record = 1 /\ rawSets[Datasets[y.at]] # <<>> /\ rawSets[Datasets[y.at]][1].head = y.job
    /\ y.pc \in {"fetch", "record", "rows", "done"} =>
          \A i \in 1..Len(Datasets) : i < y.at => MadeBy(Datasets[i], y.job)
    /\ y.pc = "done" => y.at > Len(Datasets) /\ syncJobs[y.job] = "SUCCEEDED"

ConnInv ==
    /\ ConnTypeOK
    /\ \A n \in Names : Len(rawSets[n]) <= 1 /\ \A i \in DOMAIN rawSets[n] : RecordFits(rawSets[n][i])
    /\ \A i, j \in SyncNos : i < j /\ syncJobs[i] = "none" => syncJobs[j] = "none"
    /\ conn.lastSync # 0 => syncJobs[conn.lastSync] = "SUCCEEDED" /\ \A n \in Names : rawSets[n] # <<>>
    /\ edit.pc = "idle" => edit = NoEditOp
    /\ edit.pc # "idle" => (\A s \in Syncers : syncers[s] = NoSync) /\ edit.had = [conn EXCEPT !.schedule = edit.had.schedule]
    /\ edit.pc = "put" => cronJob = edit.had.schedule
    /\ ScheduleRuns
    /\ \A s \in Syncers : SyncerFits(syncers[s])

LEMMA ConnStarts == ConnInit => ConnInv
  <1> SUFFICES ASSUME ConnInit PROVE ConnInv
    OBVIOUS
  <1>1. FreshConn \in Conn /\ FreshConn.lastSync = 0 /\ FreshConn.schedule = NoCron
    BY DEF FreshConn, Conn
  <1>2. NoEditOp \in EditOp /\ NoEditOp.pc = "idle"
    BY <1>1 DEF NoEditOp, EditOp
  <1>3. NoSync \in Syncer /\ NoSync.pc = "idle"
    BY <1>1 DEF NoSync, Syncer
  <1>4. rawSets \in [Names -> Seq([head : SyncNos, rows : {0} \cup SyncNos])] /\ \A n \in Names : rawSets[n] = <<>>
    BY DEF ConnInit
  <1>5. ConnTypeOK
    BY <1>1, <1>2, <1>3, <1>4 DEF ConnInit, ConnTypeOK
  <1>6. \A s \in Syncers : SyncerFits(syncers[s])
    BY <1>3 DEF ConnInit, SyncerFits
  <1>7. \A i \in SyncNos : syncJobs[i] = "none"
    BY DEF ConnInit
  <1> QED
    BY <1>1, <1>2, <1>4, <1>5, <1>6, <1>7 DEF ConnInit, ConnInv, ScheduleRuns

LEMMA SyncNumbers == MaxSyncs \in Nat /\ SyncNos = 1..MaxSyncs /\ Len(Datasets) \in Nat /\ \A i \in 1..Len(Datasets) : Datasets[i] \in Names
  BY ConnectorAssumption DEF SyncNos, Names

\* The edits: no sync is under way, and of the connection only the schedule changes.
LEMMA EditsKeep ==
    ASSUME ~EditsDuringSync, ConnInv, EditRead \/ CronRegistered \/ EditPut \/ ConnEditBreaks
    PROVE  ConnInv'
  <1>1. UNCHANGED <<rawSets, syncJobs, syncers>>
    BY DEF EditRead, CronRegistered, EditPut, ConnEditBreaks
  <1>2. conn'.lastSync = conn.lastSync /\ conn' \in Conn /\ cronJob' \in Crons \cup {NoCron} /\ edit' \in EditOp /\ editBroke' \in BOOLEAN
    <2>1. conn \in Conn /\ FreshConn \in Conn /\ edit \in EditOp /\ NoEditOp \in EditOp /\ cronJob \in Crons \cup {NoCron}
          /\ editBroke \in BOOLEAN
      BY DEF ConnInv, ConnTypeOK, FreshConn, Conn, NoEditOp, EditOp
    <2>2. CASE EditRead
      <3>1. PICK cron \in Crons \cup {NoCron} : edit' = [pc |-> "register", had |-> [conn EXCEPT !.schedule = cron]]
                                              /\ UNCHANGED <<conn, cronJob, editBroke>>
        BY <2>2 DEF EditRead
      <3>2. [conn EXCEPT !.schedule = cron] \in Conn
        BY <2>1 DEF Conn
      <3> QED
        BY <2>1, <3>1, <3>2 DEF EditOp
    <2>3. CASE CronRegistered
      <3>1. edit.had \in Conn /\ edit.had.schedule \in Crons \cup {NoCron}
        BY <2>1 DEF EditOp, Conn
      <3> QED
        BY <2>1, <2>3, <3>1 DEF CronRegistered, EditOp
    <2>4. CASE EditPut
      <3>1. conn' = edit.had /\ edit' = NoEditOp /\ editBroke' = FALSE /\ cronJob' = cronJob /\ edit.pc # "idle"
        BY <2>4 DEF EditPut
      <3>2. edit.had \in Conn /\ edit.had = [conn EXCEPT !.schedule = edit.had.schedule]
        BY <2>1, <3>1 DEF EditOp, ConnInv
      <3>3. edit.had.lastSync = conn.lastSync
        BY <2>1, <3>2 DEF Conn
      <3> QED
        BY <2>1, <3>1, <3>2, <3>3
    <2>5. CASE ConnEditBreaks
      BY <2>1, <2>5 DEF ConnEditBreaks
    <2> QED
      BY <2>2, <2>3, <2>4, <2>5
  <1>3. ConnTypeOK'
    BY <1>1, <1>2 DEF ConnTypeOK, ConnInv
  <1>4. /\ edit'.pc = "idle" => edit' = NoEditOp
        /\ edit'.pc # "idle" => (\A s \in Syncers : syncers'[s] = NoSync) /\ edit'.had = [conn' EXCEPT !.schedule = edit'.had.schedule]
        /\ edit'.pc = "put" => cronJob' = edit'.had.schedule
        /\ ScheduleRuns'
    <2>1. CASE EditRead
      BY <2>1 DEF EditRead, ConnInv, ConnTypeOK, Conn, ScheduleRuns, NoEditOp
    <2>2. CASE CronRegistered
      BY <2>2 DEF CronRegistered, ConnInv, ConnTypeOK, EditOp, ScheduleRuns, NoEditOp
    <2>3. CASE EditPut
      BY <2>3 DEF EditPut, ConnInv, ConnTypeOK, EditOp, ScheduleRuns, NoEditOp
    <2>4. CASE ConnEditBreaks
      BY <2>4 DEF ConnEditBreaks, ConnInv, ScheduleRuns, NoEditOp
    <2> QED
      BY <2>1, <2>2, <2>3, <2>4
  <1>5. \A s \in Syncers : syncers'[s] = NoSync \/ conn' = conn
    BY DEF EditRead, CronRegistered, EditPut, ConnEditBreaks, ConnInv
  <1>6. ASSUME NEW s \in Syncers PROVE SyncerFits(syncers[s])'
    <2>1. SyncerFits(syncers[s])
      BY DEF ConnInv
    <2>2. CASE syncers[s] = NoSync
      BY <1>1, <2>2 DEF SyncerFits, NoSync
    <2>3. CASE conn' = conn
      BY <1>1, <2>1, <2>3 DEF SyncerFits, MadeBy, RecordOf
    <2> QED
      BY <1>1, <1>5, <2>2, <2>3
  <1>7. \A n \in Names : Len(rawSets'[n]) <= 1 /\ \A i \in DOMAIN rawSets'[n] : RecordFits(rawSets[n][i])'
    BY <1>1, <1>2 DEF ConnInv, RecordFits
  <1> QED
    BY <1>1, <1>2, <1>3, <1>4, <1>6, <1>7 DEF ConnInv

LEMMA ElementIn ==
    ASSUME NEW S, NEW q \in Seq(S), NEW i \in DOMAIN q
    PROVE  q[i] \in S
  OBVIOUS

LEMMA Idles == NoSync \in Syncer /\ NoSync.pc = "idle"
  BY DEF NoSync, Syncer, FreshConn, Conn

\* A sync that is under way: nobody edits, and the records are of this sync or of earlier ones.
LEMMA Underway ==
    ASSUME ConnInv, NEW s \in Syncers, syncers[s] # NoSync
    PROVE  /\ edit = NoEditOp /\ syncers[s] \in Syncer /\ syncers[s].pc # "idle" /\ SyncerFits(syncers[s])
           /\ syncers[s].job \in SyncNos /\ syncers[s].had = conn /\ conn \in Conn
           /\ \A n \in Names : \A i \in DOMAIN rawSets[n] :
                 rawSets[n][i].head <= syncers[s].job /\ rawSets[n][i].rows <= syncers[s].job
  <1>1. edit = NoEditOp /\ syncers[s] \in Syncer /\ SyncerFits(syncers[s]) /\ conn \in Conn
    BY DEF ConnInv, ConnTypeOK
  <1>2. syncers[s].pc # "idle"
    BY <1>1 DEF SyncerFits
  <1>3. syncers[s].job \in SyncNos /\ syncers[s].had = conn
    BY <1>1, <1>2 DEF SyncerFits
  <1>4. ASSUME NEW n \in Names, NEW i \in DOMAIN rawSets[n]
        PROVE  rawSets[n][i].head <= syncers[s].job /\ rawSets[n][i].rows <= syncers[s].job
    <2>1. rawSets[n] \in Seq([head : SyncNos, rows : {0} \cup SyncNos])
      BY DEF ConnInv, ConnTypeOK
    <2>2. rawSets[n][i] \in [head : SyncNos, rows : {0} \cup SyncNos]
      BY <2>1, ElementIn
    <2>3. RecordFits(rawSets[n][i])
      BY DEF ConnInv
    <2>4. syncJobs[rawSets[n][i].head] # "none" /\ rawSets[n][i].rows <= rawSets[n][i].head
      BY <2>3 DEF RecordFits
    <2>5. ~(rawSets[n][i].head > syncers[s].job)
      BY <1>1, <1>2, <2>2, <2>4 DEF SyncerFits
    <2> QED
      BY <1>3, <2>2, <2>4, <2>5, SyncNumbers
  <1> QED
    BY <1>1, <1>2, <1>3, <1>4

\* What is to be shown of the step of a sync that is alone.
LEMMA SyncStepKeeps ==
    ASSUME ConnInv, NEW s \in Syncers, \A t \in Syncers : t = s,
           edit = NoEditOp, UNCHANGED <<cronJob, edit, editBroke>>,
           NEW y \in Syncer, syncers' = [syncers EXCEPT ![s] = y],
           conn' \in Conn, conn'.schedule = conn.schedule,
           rawSets' \in [Names -> Seq([head : SyncNos, rows : {0} \cup SyncNos])],
           syncJobs' \in [SyncNos -> {"none", "RUNNING", "SUCCEEDED", "FAILED"}],
           \A n \in Names : Len(rawSets'[n]) <= 1 /\ \A i \in DOMAIN rawSets'[n] : RecordFits(rawSets[n][i])',
           \A i, j \in SyncNos : i < j /\ syncJobs'[i] = "none" => syncJobs'[j] = "none",
           conn'.lastSync # 0 => syncJobs'[conn'.lastSync] = "SUCCEEDED" /\ \A n \in Names : rawSets'[n] # <<>>,
           SyncerFits(y)'
    PROVE  ConnInv'
  <1>1. ConnTypeOK'
    BY DEF ConnInv, ConnTypeOK
  <1>2. \A t \in Syncers : syncers'[t] = y
    BY DEF ConnInv, ConnTypeOK
  <1>3. y' = y
    OBVIOUS
  <1>4. \A t \in Syncers : SyncerFits(syncers[t])'
    BY <1>2 DEF SyncerFits
  <1>5. ScheduleRuns'
    BY DEF ConnInv, ScheduleRuns
  <1>6. edit'.pc = "idle" /\ edit' = NoEditOp
    BY DEF NoEditOp
  <1> QED
    BY <1>1, <1>4, <1>5, <1>6 DEF ConnInv

LEMMA SyncStartsKeeps ==
    ASSUME ConnInv, ~EditsDuringSync, NEW s \in Syncers, \A t \in Syncers : t = s, SyncStarts(s)
    PROVE  ConnInv'
  <1>1. PICK j \in SyncNos :
           /\ syncJobs[j] = "none" /\ \A i \in 1..(j - 1) : syncJobs[i] # "none"
           /\ edit = NoEditOp /\ syncJobs' = [syncJobs EXCEPT ![j] = "RUNNING"]
           /\ syncers' = [syncers EXCEPT ![s] = [pc |-> "fetch", job |-> j, had |-> conn, at |-> 1, record |-> 0]]
           /\ UNCHANGED <<conn, cronJob, edit, editBroke, rawSets>>
    BY DEF SyncStarts
  <1>2. PICK y : y = [pc |-> "fetch", job |-> j, had |-> conn, at |-> 1, record |-> 0]
    OBVIOUS
  <1>3. conn \in Conn /\ syncJobs \in [SyncNos -> {"none", "RUNNING", "SUCCEEDED", "FAILED"}]
        /\ rawSets \in [Names -> Seq([head : SyncNos, rows : {0} \cup SyncNos])]
    BY DEF ConnInv, ConnTypeOK
  <1>4. y \in Syncer
    BY <1>2, <1>3 DEF Syncer
  <1>5. \A i \in SyncNos : i > j => syncJobs[i] = "none"
    BY <1>1, SyncNumbers DEF ConnInv
  <1>6. conn.lastSync < j
    <2>1. conn.lastSync \in {0} \cup SyncNos /\ (conn.lastSync # 0 => syncJobs[conn.lastSync] # "none")
      BY <1>3 DEF Conn, ConnInv
    <2> QED
      BY <1>1, <1>5, <2>1, SyncNumbers
  <1>7. ASSUME NEW n \in Names
        PROVE  Len(rawSets'[n]) <= 1 /\ \A i \in DOMAIN rawSets'[n] : RecordFits(rawSets[n][i])'
    <2>1. ASSUME NEW i \in DOMAIN rawSets[n] PROVE RecordFits(rawSets[n][i])'
      <3>1. RecordFits(rawSets[n][i]) /\ rawSets[n][i] \in [head : SyncNos, rows : {0} \cup SyncNos]
        BY <1>3, ElementIn DEF ConnInv
      <3>2. rawSets[n][i].head # j
        BY <1>1, <3>1 DEF RecordFits
      <3> QED
        BY <1>1, <1>3, <3>1, <3>2 DEF RecordFits
    <2> QED
      BY <1>1, <2>1 DEF ConnInv
  <1>8. \A n \in Names : rawSets[n] # <<>> => rawSets[n][1].head # j
    <2> SUFFICES ASSUME NEW n \in Names, rawSets[n] # <<>> PROVE rawSets[n][1].head # j
      OBVIOUS
    <2>1. 1 \in DOMAIN rawSets[n]
      BY <1>3
    <2>2. RecordFits(rawSets[n][1])
      BY <2>1 DEF ConnInv
    <2> QED
      BY <1>1, <2>2 DEF RecordFits
  <1>9. SyncerFits(y)'
    <2>1. syncJobs'[j] = "RUNNING" /\ \A i \in SyncNos : i > j => syncJobs'[i] = "none"
      BY <1>1, <1>3, <1>5, SyncNumbers
    <2> QED
      BY <1>1, <1>2, <1>6, <1>8, <2>1, SyncNumbers DEF SyncerFits
  <1>10. \A i, k \in SyncNos : i < k /\ syncJobs'[i] = "none" => syncJobs'[k] = "none"
    BY <1>1, <1>3, <1>5, SyncNumbers DEF ConnInv
  <1>11. conn'.lastSync # 0 => syncJobs'[conn'.lastSync] = "SUCCEEDED" /\ \A n \in Names : rawSets'[n] # <<>>
    BY <1>1, <1>3 DEF ConnInv, Conn
  <1>12. syncJobs' \in [SyncNos -> {"none", "RUNNING", "SUCCEEDED", "FAILED"}]
    BY <1>1, <1>3
  <1>13. edit = NoEditOp /\ UNCHANGED <<cronJob, edit, editBroke>> /\ syncers' = [syncers EXCEPT ![s] = y]
         /\ conn' \in Conn /\ conn'.schedule = conn.schedule
         /\ rawSets' \in [Names -> Seq([head : SyncNos, rows : {0} \cup SyncNos])]
    BY <1>1, <1>2, <1>3
  <1> QED
    BY <1>4, <1>7, <1>9, <1>10, <1>11, <1>12, <1>13, SyncStepKeeps

LEMMA DatasetFetchedKeeps ==
    ASSUME ConnInv, NEW s \in Syncers, \A t \in Syncers : t = s, DatasetFetched(s)
    PROVE  ConnInv'
  <1>1. syncers[s].pc = "fetch" /\ syncers[s].at <= Len(Datasets)
        /\ UNCHANGED <<conn, cronJob, edit, editBroke, rawSets, syncJobs>>
    BY DEF DatasetFetched
  <1>2. PICK y : y = [syncers[s] EXCEPT !.pc = "record", !.record = RecordOf(NameOf(s))]
    OBVIOUS
  <1>3. syncers' = [syncers EXCEPT ![s] = y]
    BY <1>2 DEF DatasetFetched
  <1>4. syncers[s] # NoSync
    BY <1>1, Idles
  <1>5. edit = NoEditOp /\ syncers[s] \in Syncer /\ SyncerFits(syncers[s])
    BY <1>4, Underway
  <1>6. y \in Syncer
    BY <1>2, <1>5 DEF Syncer, RecordOf
  <1>7. y.job = syncers[s].job /\ y.had = syncers[s].had /\ y.at = syncers[s].at /\ y.pc = "record"
        /\ y.record = RecordOf(Datasets[y.at])
    BY <1>2, <1>5 DEF Syncer, NameOf
  <1>8. SyncerFits(y)'
    BY <1>1, <1>5, <1>7 DEF SyncerFits, MadeBy, RecordOf
  <1>9. conn' \in Conn /\ conn'.schedule = conn.schedule
        /\ rawSets' \in [Names -> Seq([head : SyncNos, rows : {0} \cup SyncNos])]
        /\ syncJobs' \in [SyncNos -> {"none", "RUNNING", "SUCCEEDED", "FAILED"}]
    BY <1>1 DEF ConnInv, ConnTypeOK
  <1>10. \A n \in Names : Len(rawSets'[n]) <= 1 /\ \A i \in DOMAIN rawSets'[n] : RecordFits(rawSets[n][i])'
    BY <1>1 DEF ConnInv, RecordFits
  <1>11. \A i, j \in SyncNos : i < j /\ syncJobs'[i] = "none" => syncJobs'[j] = "none"
    BY <1>1 DEF ConnInv
  <1>12. conn'.lastSync # 0 => syncJobs'[conn'.lastSync] = "SUCCEEDED" /\ \A n \in Names : rawSets'[n] # <<>>
    BY <1>1 DEF ConnInv
  <1> QED
    BY <1>1, <1>3, <1>5, <1>6, <1>8, <1>9, <1>10, <1>11, <1>12, SyncStepKeeps

\* The records of a job that ends or stops: none of it is half its own if it has succeeded.
LEMMA SyncEndsKeeps ==
    ASSUME ConnInv, NEW s \in Syncers, \A t \in Syncers : t = s,
           JobSucceeds(s) \/ SyncFails(s) \/ SyncStops(s)
    PROVE  ConnInv'
  <1>1. syncers[s] # NoSync /\ UNCHANGED <<conn, cronJob, edit, editBroke, rawSets>>
    BY Idles DEF JobSucceeds, SyncFails, SyncStops
  <1>2. edit = NoEditOp /\ syncers[s] \in Syncer /\ SyncerFits(syncers[s]) /\ syncers[s].pc # "idle" /\ syncers[s].job \in SyncNos
    BY <1>1, Underway
  <1>3. PICK j \in SyncNos : j = syncers[s].job
    BY <1>2
  <1>4. conn.lastSync < j /\ syncJobs[j] # "none" /\ \A i \in SyncNos : i > j => syncJobs[i] = "none"
    BY <1>2, <1>3 DEF SyncerFits
  <1>5. syncJobs \in [SyncNos -> {"none", "RUNNING", "SUCCEEDED", "FAILED"}] /\ conn \in Conn
        /\ rawSets \in [Names -> Seq([head : SyncNos, rows : {0} \cup SyncNos])]
    BY DEF ConnInv, ConnTypeOK
  <1>6. PICK y \in Syncer : /\ syncers' = [syncers EXCEPT ![s] = y] /\ SyncerFits(y)'
                            /\ \/ syncJobs' = syncJobs
                               \/ syncJobs' = [syncJobs EXCEPT ![j] = "FAILED"]
                               \/ syncJobs' = [syncJobs EXCEPT ![j] = "SUCCEEDED"] /\ syncers[s].pc = "fetch" /\ syncers[s].at > Len(Datasets)
    <2>1. CASE SyncStops(s)
      <3>1. SyncerFits(NoSync)'
        BY Idles DEF SyncerFits
      <3> QED
        BY <2>1, <3>1, Idles DEF SyncStops
    <2>2. CASE SyncFails(s)
      <3>1. PICK y : y = [syncers[s] EXCEPT !.pc = "failed"]
        OBVIOUS
      <3>2. y \in Syncer /\ y.job = j /\ y.had = syncers[s].had /\ y.pc = "failed"
        BY <1>2, <1>3, <3>1 DEF Syncer
      <3>3. syncJobs' = [syncJobs EXCEPT ![j] = "FAILED"] /\ syncers' = [syncers EXCEPT ![s] = y]
        BY <1>3, <2>2, <3>1 DEF SyncFails, Moves
      <3>4. syncJobs'[j] = "FAILED" /\ \A i \in SyncNos : i > j => syncJobs'[i] = "none"
        BY <1>4, <1>5, <3>3, SyncNumbers
      <3>5. SyncerFits(y)'
        BY <1>1, <1>2, <1>3, <1>4, <3>2, <3>4 DEF SyncerFits
      <3> QED
        BY <3>2, <3>3, <3>5
    <2>3. CASE JobSucceeds(s)
      <3>1. PICK y : y = [syncers[s] EXCEPT !.pc = "done"]
        OBVIOUS
      <3>2. y \in Syncer /\ y.job = j /\ y.had = syncers[s].had /\ y.pc = "done" /\ y.at = syncers[s].at
        BY <1>2, <1>3, <3>1 DEF Syncer
      <3>3. syncJobs' = [syncJobs EXCEPT ![j] = "SUCCEEDED"] /\ syncers' = [syncers EXCEPT ![s] = y]
            /\ syncers[s].pc = "fetch" /\ syncers[s].at > Len(Datasets)
        BY <1>3, <2>3, <3>1 DEF JobSucceeds, Moves
      <3>4. syncJobs'[j] = "SUCCEEDED" /\ \A i \in SyncNos : i > j => syncJobs'[i] = "none"
        BY <1>4, <1>5, <3>3, SyncNumbers
      <3>5. SyncerFits(y)'
        BY <1>1, <1>2, <1>3, <1>4, <3>2, <3>3, <3>4 DEF SyncerFits, MadeBy
      <3> QED
        BY <3>2, <3>3, <3>5
    <2> QED
      BY <2>1, <2>2, <2>3
  <1>7. \A i \in SyncNos : i # j => syncJobs'[i] = syncJobs[i]
    BY <1>5, <1>6
  <1>8. syncJobs' \in [SyncNos -> {"none", "RUNNING", "SUCCEEDED", "FAILED"}] /\ syncJobs'[j] # "none"
    BY <1>4, <1>5, <1>6
  <1>9. ASSUME NEW n \in Names
        PROVE  Len(rawSets'[n]) <= 1 /\ \A i \in DOMAIN rawSets'[n] : RecordFits(rawSets[n][i])'
    <2>1. ASSUME NEW i \in DOMAIN rawSets[n] PROVE RecordFits(rawSets[n][i])'
      <3>1. PICK d \in [head : SyncNos, rows : {0} \cup SyncNos] : d = rawSets[n][i]
        BY <1>5, ElementIn
      <3>2. RecordFits(rawSets[n][i])
        BY DEF ConnInv
      <3>3. syncJobs'[d.head] # "none"
        BY <1>7, <1>8, <3>1, <3>2 DEF RecordFits
      <3>4. ASSUME d.head # d.rows PROVE syncJobs'[d.head] # "SUCCEEDED"
        <4>1. CASE d.head # j
          BY <1>7, <3>1, <3>2, <3>4, <4>1 DEF RecordFits
        <4>2. CASE d.head = j /\ syncJobs' = [syncJobs EXCEPT ![j] = "SUCCEEDED"] /\ syncers[s].pc = "fetch"
          <5>1. i = 1 /\ rawSets[n] # <<>>
            BY <1>5 DEF ConnInv
          <5>2. d.rows = j
            BY <1>2, <1>3, <3>1, <4>2, <5>1 DEF SyncerFits
          <5> QED
            BY <3>4, <4>2, <5>2
        <4>3. CASE d.head = j /\ syncJobs' = [syncJobs EXCEPT ![j] = "FAILED"]
          BY <1>5, <4>3
        <4>4. CASE syncJobs' = syncJobs
          BY <3>1, <3>2, <3>4, <4>4 DEF RecordFits
        <4> QED
          BY <1>6, <4>1, <4>2, <4>3, <4>4
      <3>5. rawSets'[n][i] = d /\ conn' = conn
        BY <1>1, <3>1
      <3> QED
        BY <3>1, <3>2, <3>3, <3>4, <3>5 DEF RecordFits
    <2> QED
      BY <1>1, <2>1 DEF ConnInv
  <1>10. \A i, k \in SyncNos : i < k /\ syncJobs'[i] = "none" => syncJobs'[k] = "none"
    BY <1>4, <1>7, <1>8, SyncNumbers DEF ConnInv
  <1>11. conn'.lastSync # 0 => syncJobs'[conn'.lastSync] = "SUCCEEDED" /\ \A n \in Names : rawSets'[n] # <<>>
    <2>1. conn.lastSync \in {0} \cup SyncNos /\ conn.lastSync # j
      BY <1>4, <1>5, SyncNumbers DEF Conn
    <2> QED
      BY <1>1, <1>7, <2>1 DEF ConnInv
  <1>12. conn' \in Conn /\ conn'.schedule = conn.schedule /\ UNCHANGED <<cronJob, edit, editBroke>>
         /\ rawSets' \in [Names -> Seq([head : SyncNos, rows : {0} \cup SyncNos])]
    BY <1>1, <1>5
  <1> QED
    BY <1>2, <1>6, <1>8, <1>9, <1>10, <1>11, <1>12, SyncStepKeeps

\* The connection is put as the sync has read it: with this sync if it succeeded.
LEMMA ConnPutKeeps ==
    ASSUME ConnInv, NEW s \in Syncers, \A t \in Syncers : t = s, ConnPut(s) \/ FailurePut(s)
    PROVE  ConnInv'
  <1>1. syncers[s].pc \in {"done", "failed"} /\ syncers' = [syncers EXCEPT ![s] = NoSync]
        /\ UNCHANGED <<cronJob, edit, editBroke, rawSets, syncJobs>>
    BY DEF ConnPut, FailurePut
  <1>2. syncers[s] # NoSync
    BY <1>1, Idles
  <1>3. edit = NoEditOp /\ syncers[s] \in Syncer /\ SyncerFits(syncers[s]) /\ syncers[s].job \in SyncNos /\ syncers[s].had = conn
        /\ conn \in Conn
    BY <1>2, Underway
  <1>4. PICK j \in SyncNos : j = syncers[s].job
    BY <1>3
  <1>5. rawSets \in [Names -> Seq([head : SyncNos, rows : {0} \cup SyncNos])]
        /\ syncJobs \in [SyncNos -> {"none", "RUNNING", "SUCCEEDED", "FAILED"}]
    BY DEF ConnInv, ConnTypeOK
  <1>6. conn' \in Conn /\ conn'.schedule = conn.schedule
        /\ (conn'.lastSync = conn.lastSync \/ (conn'.lastSync = j /\ syncers[s].pc = "done"))
    BY <1>3, <1>4 DEF ConnPut, FailurePut, Conn
  <1>7. SyncerFits(NoSync)'
    BY Idles DEF SyncerFits
  <1>8. ASSUME syncers[s].pc = "done" PROVE syncJobs[j] = "SUCCEEDED" /\ \A n \in Names : MadeBy(n, j)
    <2>1. syncJobs[j] = "SUCCEEDED" /\ syncers[s].at > Len(Datasets) /\ \A i \in 1..Len(Datasets) : i < syncers[s].at => MadeBy(Datasets[i], j)
      BY <1>3, <1>4, <1>8 DEF SyncerFits
    <2>2. syncers[s].at \in Nat
      BY <1>3 DEF Syncer
    <2>3. ASSUME NEW n \in Names PROVE MadeBy(n, j)
      <3>1. PICK i \in 1..Len(Datasets) : n = Datasets[i]
        BY ConnectorAssumption DEF Names
      <3>2. i < syncers[s].at
        BY <2>1, <2>2, SyncNumbers
      <3> QED
        BY <2>1, <3>1, <3>2
    <2> QED
      BY <2>1, <2>3
  <1>9. ASSUME NEW n \in Names
        PROVE  Len(rawSets'[n]) <= 1 /\ \A i \in DOMAIN rawSets'[n] : RecordFits(rawSets[n][i])'
    <2>1. ASSUME NEW i \in DOMAIN rawSets[n] PROVE RecordFits(rawSets[n][i])'
      <3>1. RecordFits(rawSets[n][i])
        BY DEF ConnInv
      <3>2. conn'.lastSync <= rawSets[n][i].rows
        <4>1. CASE conn'.lastSync = conn.lastSync
          BY <3>1, <4>1 DEF RecordFits
        <4>2. CASE conn'.lastSync = j /\ syncers[s].pc = "done"
          <5>1. i = 1
            BY <1>5 DEF ConnInv
          <5>2. rawSets[n][i].rows = j
            BY <1>8, <4>2, <5>1 DEF MadeBy
          <5> QED
            BY <4>2, <5>2, SyncNumbers
        <4> QED
          BY <1>6, <4>1, <4>2
      <3> QED
        BY <1>1, <3>1, <3>2 DEF RecordFits
    <2> QED
      BY <1>1, <2>1 DEF ConnInv
  <1>10. \A i, k \in SyncNos : i < k /\ syncJobs'[i] = "none" => syncJobs'[k] = "none"
    BY <1>1 DEF ConnInv
  <1>11. conn'.lastSync # 0 => syncJobs'[conn'.lastSync] = "SUCCEEDED" /\ \A n \in Names : rawSets'[n] # <<>>
    <2>1. CASE conn'.lastSync = conn.lastSync
      BY <1>1, <2>1 DEF ConnInv
    <2>2. CASE conn'.lastSync = j /\ syncers[s].pc = "done"
      BY <1>1, <1>8, <2>2 DEF MadeBy
    <2> QED
      BY <1>6, <2>1, <2>2
  <1>12. UNCHANGED <<cronJob, edit, editBroke>> /\ NoSync \in Syncer
         /\ rawSets' \in [Names -> Seq([head : SyncNos, rows : {0} \cup SyncNos])]
         /\ syncJobs' \in [SyncNos -> {"none", "RUNNING", "SUCCEEDED", "FAILED"}]
    BY <1>1, <1>5, Idles
  <1> QED
    BY <1>1, <1>3, <1>6, <1>7, <1>9, <1>10, <1>11, <1>12, SyncStepKeeps

\* What a sync writes of one dataset: first its record, then its rows.
LEMMA DatasetWrittenKeeps ==
    ASSUME ConnInv, NEW s \in Syncers, \A t \in Syncers : t = s, RecordPut(s) \/ RowsReplaced(s)
    PROVE  ConnInv'
  <1>1. syncers[s].pc \in {"record", "rows"} /\ UNCHANGED <<conn, cronJob, edit, editBroke, syncJobs>>
    BY DEF RecordPut, RowsReplaced
  <1>2. syncers[s] # NoSync
    BY <1>1, Idles
  <1>3. edit = NoEditOp /\ syncers[s] \in Syncer /\ SyncerFits(syncers[s]) /\ syncers[s].job \in SyncNos /\ syncers[s].had = conn
        /\ conn \in Conn /\ \A m \in Names : \A i \in DOMAIN rawSets[m] :
              rawSets[m][i].head <= syncers[s].job /\ rawSets[m][i].rows <= syncers[s].job
    BY <1>2, Underway
  <1>4. PICK j \in SyncNos : j = syncers[s].job
    BY <1>3
  <1>5. PICK at \in Nat : at = syncers[s].at
    BY <1>3 DEF Syncer
  <1>6. at \in 1..Len(Datasets) /\ syncJobs[j] = "RUNNING"
    BY <1>1, <1>3, <1>4, <1>5, SyncNumbers DEF SyncerFits
  <1>7. PICK n \in Names : n = Datasets[at]
    BY <1>6, SyncNumbers
  <1>8. rawSets \in [Names -> Seq([head : SyncNos, rows : {0} \cup SyncNos])]
        /\ syncJobs \in [SyncNos -> {"none", "RUNNING", "SUCCEEDED", "FAILED"}]
    BY DEF ConnInv, ConnTypeOK
  <1>9. NameOf(s) = n
    BY <1>5, <1>7 DEF NameOf
  <1>10. Len(rawSets[n]) <= 1 /\ Len(rawSets[n]) \in Nat /\ DOMAIN rawSets[n] = 1..Len(rawSets[n])
    BY <1>8 DEF ConnInv
  <1>11. \A m \in Names : rawSets[m] # <<>> => 1 \in DOMAIN rawSets[m]
    BY <1>8
  <1>12. PICK d \in [head : SyncNos, rows : {0} \cup SyncNos] :
            /\ rawSets' = [rawSets EXCEPT ![n] = <<d>>] /\ d.head = j
            /\ d.rows <= j /\ (syncers[s].pc = "rows" => d.rows = j)
            /\ syncers[s].pc = "record" =>
                  (rawSets[n] = <<>> /\ d.rows = 0) \/ (rawSets[n] # <<>> /\ d.rows = rawSets[n][1].rows)
    <2>1. CASE RecordPut(s) /\ rawSets[n] = <<>>
      <3>1. syncers[s].record = 0 /\ syncers[s].pc = "record"
        BY <1>3, <1>5, <1>7, <2>1 DEF RecordPut, SyncerFits, RecordOf
      <3>2. rawSets' = [rawSets EXCEPT ![n] = Append(rawSets[n], [head |-> j, rows |-> 0])]
        BY <1>4, <1>9, <2>1, <3>1 DEF RecordPut
      <3>3. PICK d \in [head : SyncNos, rows : {0} \cup SyncNos] : d = [head |-> j, rows |-> 0]
        OBVIOUS
      <3>4. Append(rawSets[n], d) = <<d>>
        BY <2>1
      <3>5. rawSets' = [rawSets EXCEPT ![n] = <<d>>]
        BY <3>2, <3>3, <3>4
      <3>6. d.head = j /\ d.rows = 0 /\ 0 <= j
        BY <3>3, SyncNumbers
      <3> QED
        BY <2>1, <3>1, <3>5, <3>6
    <2>2. CASE RecordPut(s) /\ rawSets[n] # <<>>
      <3>1. syncers[s].record = 1 /\ syncers[s].pc = "record"
        BY <1>3, <1>5, <1>7, <2>2 DEF RecordPut, SyncerFits, RecordOf
      <3>2. rawSets' = [rawSets EXCEPT ![n] = [rawSets[n] EXCEPT ![1].head = j]]
        BY <1>4, <1>9, <2>2, <3>1 DEF RecordPut
      <3>3. PICK c \in [head : SyncNos, rows : {0} \cup SyncNos] : c = rawSets[n][1]
        BY <1>8, <1>11, <2>2, ElementIn
      <3>4. PICK d \in [head : SyncNos, rows : {0} \cup SyncNos] : d = [c EXCEPT !.head = j]
        OBVIOUS
      <3>5. [rawSets[n] EXCEPT ![1].head = j] = <<d>>
        <4>1. DOMAIN rawSets[n] = 1..1
          BY <1>10, <1>11, <2>2
        <4> QED
          BY <1>8, <3>3, <3>4, <4>1
      <3>6. c.rows <= j
        BY <1>3, <1>4, <1>11, <2>2, <3>3
      <3> QED
        BY <2>2, <3>1, <3>2, <3>3, <3>4, <3>5, <3>6
    <2>3. CASE RowsReplaced(s)
      <3>1. syncers[s].pc = "rows" /\ syncers[s].record = 1 /\ rawSets[n] # <<>> /\ rawSets[n][1].head = j
        BY <1>3, <1>4, <1>5, <1>7, <2>3 DEF RowsReplaced, SyncerFits
      <3>2. rawSets' = [rawSets EXCEPT ![n] = [rawSets[n] EXCEPT ![1].rows = j]]
        BY <1>4, <1>8, <1>9, <2>3, <3>1 DEF RowsReplaced
      <3>3. PICK c \in [head : SyncNos, rows : {0} \cup SyncNos] : c = rawSets[n][1]
        BY <1>8, <1>11, <3>1, ElementIn
      <3>4. PICK d \in [head : SyncNos, rows : {0} \cup SyncNos] : d = [c EXCEPT !.rows = j]
        OBVIOUS
      <3>5. [rawSets[n] EXCEPT ![1].rows = j] = <<d>>
        <4>1. DOMAIN rawSets[n] = 1..1
          BY <1>10, <1>11, <3>1
        <4>2. rawSets[n] \in Seq([head : SyncNos, rows : {0} \cup SyncNos])
          BY <1>8
        <4>3. rawSets[n] = <<c>>
          BY <3>3, <4>1, <4>2
        <4> QED
          BY <3>4, <4>3
      <3>6. d.head = j /\ d.rows = j /\ j <= j
        BY <3>1, <3>3, <3>4, SyncNumbers
      <3>7. rawSets' = [rawSets EXCEPT ![n] = <<d>>]
        BY <3>2, <3>5
      <3> QED
        BY <3>1, <3>6, <3>7
    <2> QED
      BY <2>1, <2>2, <2>3
  <1>13. rawSets'[n] = <<d>> /\ \A m \in Names : m # n => rawSets'[m] = rawSets[m]
    BY <1>8, <1>12
  <1>14. PICK y \in Syncer :
            /\ syncers' = [syncers EXCEPT ![s] = y] /\ y.job = j /\ y.had = conn
            /\ \/ syncers[s].pc = "record" /\ y.pc = "rows" /\ y.at = at /\ y.record = 1
               \/ syncers[s].pc = "rows" /\ y.pc = "fetch" /\ y.at = at + 1
    <2>1. CASE RecordPut(s)
      <3>1. (rawSets[n] = <<>> => syncers[s].record = 0 /\ Len(rawSets[n]) = 0) /\ (rawSets[n] # <<>> => syncers[s].record = 1)
        BY <1>3, <1>5, <1>7, <2>1 DEF RecordPut, SyncerFits, RecordOf
      <3>2. PICK y : y = [syncers[s] EXCEPT !.pc = "rows", !.record = 1]
        OBVIOUS
      <3>3. (IF syncers[s].record = 0 THEN Len(rawSets[NameOf(s)]) + 1 ELSE syncers[s].record) = 1
        <4>1. rawSets[n] = <<>> \/ rawSets[n] # <<>>
          OBVIOUS
        <4> QED
          BY <1>9, <3>1, <4>1
      <3>4. syncers' = [syncers EXCEPT ![s].pc = "rows", ![s].record = 1] /\ syncers[s].pc = "record"
        BY <2>1, <3>3 DEF RecordPut
      <3>5. syncers' = [syncers EXCEPT ![s] = y]
        BY <3>2, <3>4
      <3>6. y \in Syncer /\ y.job = j /\ y.had = conn /\ y.pc = "rows" /\ y.at = at /\ y.record = 1
        BY <1>3, <1>4, <1>5, <3>2 DEF Syncer
      <3> QED
        BY <3>4, <3>5, <3>6
    <2>2. CASE RowsReplaced(s)
      <3>1. PICK y : y = [syncers[s] EXCEPT !.pc = "fetch", !.at = @ + 1, !.record = 0]
        OBVIOUS
      <3>2. syncers' = [syncers EXCEPT ![s] = y] /\ syncers[s].pc = "rows"
        BY <2>2, <3>1 DEF RowsReplaced
      <3>3. PICK x \in Syncer : x = syncers[s]
        BY <1>3
      <3>4. y = [x EXCEPT !.pc = "fetch", !.at = at + 1, !.record = 0]
        BY <1>5, <3>1, <3>3
      <3>5. at + 1 \in Nat
        OBVIOUS
      <3>6. y \in Syncer
        BY <3>3, <3>4, <3>5 DEF Syncer
      <3>7. y.job = j /\ y.had = conn /\ y.pc = "fetch" /\ y.at = at + 1
        BY <1>3, <1>4, <3>3, <3>4 DEF Syncer
      <3> QED
        BY <3>2, <3>6, <3>7
    <2> QED
      BY <2>1, <2>2
  <1>15. conn.lastSync < j /\ conn.lastSync \in {0} \cup SyncNos /\ \A i \in SyncNos : i > j => syncJobs[i] = "none"
    BY <1>1, <1>3, <1>4 DEF SyncerFits, Conn
  <1>16. conn.lastSync <= d.rows
    <2>1. CASE syncers[s].pc = "rows"
      BY <1>12, <1>15, <2>1, SyncNumbers
    <2>2. CASE syncers[s].pc = "record" /\ rawSets[n] = <<>>
      BY <1>12, <2>2 DEF ConnInv
    <2>3. CASE syncers[s].pc = "record" /\ rawSets[n] # <<>>
      BY <1>11, <1>12, <2>3 DEF ConnInv, RecordFits
    <2> QED
      BY <1>1, <2>1, <2>2, <2>3
  <1>17. ASSUME NEW m \in Names
         PROVE  Len(rawSets'[m]) <= 1 /\ \A i \in DOMAIN rawSets'[m] : RecordFits(rawSets[m][i])'
    <2>1. CASE m = n
      <3>1. Len(<<d>>) = 1 /\ DOMAIN <<d>> = {1} /\ <<d>>[1] = d
        OBVIOUS
      <3>2. rawSets'[m] = <<d>>
        BY <1>13, <2>1
      <3>3. \A i \in DOMAIN rawSets'[m] : rawSets'[m][i] = d
        BY <3>1, <3>2
      <3> QED
        BY <1>1, <1>6, <1>12, <1>16, <3>1, <3>2, <3>3 DEF RecordFits
    <2>2. CASE m # n
      BY <1>1, <1>13, <2>2 DEF ConnInv, RecordFits
    <2> QED
      BY <2>1, <2>2
  <1>18. SyncerFits(y)'
    <2>1. <<d>> # <<>> /\ <<d>>[1] = d
      OBVIOUS
    <2>2. \A m \in Names : MadeBy(m, j) /\ (m = n => d.rows = j) => MadeBy(m, j)'
      BY <1>12, <1>13, <2>1 DEF MadeBy
    <2>3. \A i \in 1..Len(Datasets) : i < at => MadeBy(Datasets[i], j)
      BY <1>1, <1>3, <1>4, <1>5 DEF SyncerFits
    <2>4. \A m \in Names : rawSets[m] # <<>> /\ rawSets[m][1].head = j =>
             rawSets[m][1].rows = j \/ (syncers[s].pc = "rows" /\ m = n)
      BY <1>1, <1>3, <1>4, <1>5, <1>7 DEF SyncerFits
    <2>5. CASE syncers[s].pc = "record"
      <3>1. y.pc = "rows" /\ y.at = at /\ y.record = 1
        BY <1>14, <2>5
      <3>2. ASSUME NEW i \in 1..Len(Datasets), i < at PROVE MadeBy(Datasets[i], j)'
        <4>1. Datasets[i] \in Names /\ MadeBy(Datasets[i], j)
          BY <2>3, <3>2, SyncNumbers
        <4>2. Datasets[i] = n => d.rows = j
          BY <1>12, <2>5, <4>1 DEF MadeBy
        <4> QED
          BY <2>2, <4>1, <4>2
      <3>3. \A m \in Names : rawSets'[m] # <<>> /\ rawSets'[m][1].head = j => rawSets'[m][1].rows = j \/ m = Datasets[at]
        BY <1>7, <1>13, <2>4, <2>5
      <3> QED
        BY <1>1, <1>6, <1>7, <1>12, <1>13, <1>14, <1>15, <2>1, <3>1, <3>2, <3>3, SyncNumbers DEF SyncerFits
    <2>6. CASE syncers[s].pc = "rows"
      <3>1. y.pc = "fetch" /\ y.at = at + 1 /\ d.rows = j
        BY <1>12, <1>14, <2>6
      <3>2. ASSUME NEW i \in 1..Len(Datasets), i < at + 1 PROVE MadeBy(Datasets[i], j)'
        <4>1. CASE i = at
          BY <1>7, <1>12, <1>13, <2>1, <3>1, <4>1 DEF MadeBy
        <4>2. CASE i < at
          BY <2>2, <2>3, <3>1, <4>2, SyncNumbers
        <4> QED
          BY <3>2, <4>1, <4>2
      <3>3. \A m \in Names : rawSets'[m] # <<>> /\ rawSets'[m][1].head = j => rawSets'[m][1].rows = j
        BY <1>12, <1>13, <2>1, <2>4, <3>1
      <3> QED
        BY <1>1, <1>6, <1>14, <1>15, <3>1, <3>2, <3>3, SyncNumbers DEF SyncerFits
    <2> QED
      BY <1>1, <2>5, <2>6
  <1>19. \A i, k \in SyncNos : i < k /\ syncJobs'[i] = "none" => syncJobs'[k] = "none"
    BY <1>1 DEF ConnInv
  <1>20. conn'.lastSync # 0 => syncJobs'[conn'.lastSync] = "SUCCEEDED" /\ \A m \in Names : rawSets'[m] # <<>>
    <2>1. <<d>> # <<>>
      OBVIOUS
    <2> QED
      BY <1>1, <1>13, <2>1 DEF ConnInv
  <1>21. rawSets' \in [Names -> Seq([head : SyncNos, rows : {0} \cup SyncNos])]
    <2>1. <<d>> \in Seq([head : SyncNos, rows : {0} \cup SyncNos])
      OBVIOUS
    <2> QED
      BY <1>8, <1>12, <2>1
  <1>22. conn' \in Conn /\ conn'.schedule = conn.schedule /\ UNCHANGED <<cronJob, edit, editBroke>>
         /\ syncJobs' \in [SyncNos -> {"none", "RUNNING", "SUCCEEDED", "FAILED"}]
    BY <1>1, <1>3, <1>8
  <1> QED
    BY <1>3, <1>14, <1>17, <1>18, <1>19, <1>20, <1>21, <1>22, SyncStepKeeps

LEMMA ConnKeeps ==
    ASSUME ~EditsDuringSync, \A s, t \in Syncers : s = t
    PROVE  ConnInv /\ [ConnNext]_connVars => ConnInv'
  <1> SUFFICES ASSUME ConnInv, [ConnNext]_connVars PROVE ConnInv'
    OBVIOUS
  <1>1. CASE EditRead \/ CronRegistered \/ EditPut \/ ConnEditBreaks
    BY <1>1, EditsKeep
  <1>2. ASSUME NEW s \in Syncers, SyncStarts(s) PROVE ConnInv'
    BY <1>2, SyncStartsKeeps
  <1>3. ASSUME NEW s \in Syncers, DatasetFetched(s) PROVE ConnInv'
    BY <1>3, DatasetFetchedKeeps
  <1>4. ASSUME NEW s \in Syncers, RecordPut(s) \/ RowsReplaced(s) PROVE ConnInv'
    BY <1>4, DatasetWrittenKeeps
  <1>5. ASSUME NEW s \in Syncers, JobSucceeds(s) \/ SyncFails(s) \/ SyncStops(s) PROVE ConnInv'
    BY <1>5, SyncEndsKeeps
  <1>6. ASSUME NEW s \in Syncers, ConnPut(s) \/ FailurePut(s) PROVE ConnInv'
    BY <1>6, ConnPutKeeps
  <1>7. CASE UNCHANGED connVars
    <2>1. UNCHANGED <<conn, cronJob, edit, editBroke, rawSets, syncJobs, syncers>>
      BY <1>7 DEF connVars
    <2>2. \A s \in Syncers : SyncerFits(syncers[s])'
      BY <2>1 DEF ConnInv, SyncerFits, MadeBy, RecordOf
    <2>3. \A n \in Names : Len(rawSets'[n]) <= 1 /\ \A i \in DOMAIN rawSets'[n] : RecordFits(rawSets[n][i])'
      BY <2>1 DEF ConnInv, RecordFits
    <2> QED
      BY <2>1, <2>2, <2>3 DEF ConnInv, ConnTypeOK, ScheduleRuns
  <1> QED
    BY <1>1, <1>2, <1>3, <1>4, <1>5, <1>6, <1>7 DEF ConnNext

\* For any datasets and any number of syncs, one at a time and not while the connection is edited: what
\* the datasets, the jobs and the connection say tells how the last sync ended, wherever one broke off, and
\* the schedule that is shown is the one that runs.
THEOREM SyncExplainedAlways ==
    ASSUME ~EditsDuringSync, \A s, t \in Syncers : s = t
    PROVE  ConnSpec => []SyncExplained
  <1>1. ConnSpec => []ConnInv
    BY ConnStarts, ConnKeeps, PTL DEF ConnSpec
  <1>2. ConnInv => SyncExplained
    <2> SUFFICES ASSUME ConnInv PROVE SyncExplained
      OBVIOUS
    <2>1. ASSUME NEW n \in Names, NEW i \in DOMAIN rawSets[n]
          PROVE  /\ rawSets[n][i].head # rawSets[n][i].rows =>
                       syncJobs[rawSets[n][i].head] # "SUCCEEDED" /\ rawSets[n][i].rows < rawSets[n][i].head
                 /\ conn.lastSync <= rawSets[n][i].rows
      <3>1. RecordFits(rawSets[n][i])
        BY DEF ConnInv
      <3>2. PICK d \in [head : SyncNos, rows : {0} \cup SyncNos] : d = rawSets[n][i]
        BY ElementIn DEF ConnInv, ConnTypeOK
      <3> QED
        BY <3>1, <3>2, SyncNumbers DEF RecordFits
    <2> QED
      BY <2>1 DEF ConnInv, SyncExplained, DatasetsExplained
  <1> QED
    BY <1>1, <1>2, PTL

\* Both, and what ReferencesSoundAlways says of the index of references.
THEOREM ImportsSoundAlways ==
    ASSUME ~EditsDuringSync, \A s, t \in Syncers : s = t, ~UpdatesDuringPublish
    PROVE  ConnSpec /\ FlowSpec /\ RefsSpec => []ImportsSound
  <1>1. SyncExplained /\ PublishedIsSound /\ ReferencesSound <=> ImportsSound
    BY DEF ImportsSound
  <1> QED
    BY <1>1, SyncExplainedAlways, PublishedIsSoundAlways, ReferencesSoundAlways, PTL

-----------------------------------------------------------------------------
(* Features: the walk of isOn *)

WalkState == [ahead : Seq(AllFeatures), seen : SUBSET AllFeatures, on : BOOLEAN]

\* A sequence of what is required is one of features.
LEMMA RequiredIsSeq ==
    ASSUME NEW key \in AllFeatures
    PROVE  Required(key) \in Seq(AllFeatures)
  <1>1. CASE key \in BuiltIn
    <2>1. Requires[key] \in Seq(BuiltIn)
      BY <1>1, FeatureConfigAssumption
    <2>2. BuiltIn \subseteq AllFeatures
      BY DEF AllFeatures
    <2>3. Requires[key] \in Seq(AllFeatures)
      BY <2>1, <2>2, SeqMonotonic
    <2> QED
      BY <1>1, <2>3 DEF Required
  <1>2. CASE key \notin BuiltIn
    BY <1>2, EmptySeq DEF Required
  <1> QED
    BY <1>1, <1>2

\* A turn that goes on, from walk to next: the first key is seen, and the m keys it requires come before
\* what is left of the l keys.
WentOn(walk, next, first, m, l) ==
    /\ first = walk.ahead[1] /\ first \in AllFeatures
    /\ next \in WalkState
    /\ next.on /\ next.seen = walk.seen \cup {first}
    /\ m \in Nat /\ l \in Nat \ {0}
    /\ Len(next.ahead) = m + (l - 1)
    /\ \A i \in 1..Len(next.ahead) : next.ahead[i] = IF i <= m THEN Required(first)[i] ELSE walk.ahead[(i - m) + 1]

LEMMA WalkGoesOn ==
    ASSUME NEW walk \in WalkState, NEW on, walk.ahead # <<>>, walk.on,
           Head(walk.ahead) \notin walk.seen, Head(walk.ahead) \in on
    PROVE  WentOn(walk, WalkTurn(walk, on), Head(walk.ahead), Len(Required(Head(walk.ahead))), Len(walk.ahead))
  <1>1. PICK key : key = Head(walk.ahead)
    OBVIOUS
  <1>2. walk.ahead \in Seq(AllFeatures) /\ walk.seen \subseteq AllFeatures
    BY DEF WalkState
  <1>3. PICK rest : rest = Tail(walk.ahead)
    OBVIOUS
  <1>4. /\ key \in AllFeatures /\ rest \in Seq(AllFeatures) /\ Len(rest) = Len(walk.ahead) - 1
        /\ \A i \in 1..Len(rest) : rest[i] = walk.ahead[i + 1]
    BY <1>1, <1>2, <1>3, HeadTailProperties
  <1>5. key = walk.ahead[1]
    BY <1>1, <1>2
  <1>6. Len(walk.ahead) \in Nat \ {0} /\ Len(rest) \in Nat
    BY <1>2, <1>4, EmptySeq, LenProperties
  <1>7. PICK needs : needs = Required(key)
    OBVIOUS
  <1>8. needs \in Seq(AllFeatures) /\ Len(needs) \in Nat
    BY <1>4, <1>7, RequiredIsSeq, LenProperties
  <1>9. PICK ahead : ahead = needs \o rest
    OBVIOUS
  <1>10. /\ ahead \in Seq(AllFeatures) /\ Len(ahead) = Len(needs) + Len(rest)
         /\ \A i \in 1..Len(needs) + Len(rest) : ahead[i] = IF i <= Len(needs) THEN needs[i] ELSE rest[i - Len(needs)]
    BY <1>4, <1>8, <1>9, ConcatProperties
  <1>11. WalkTurn(walk, on) = [walk EXCEPT !.ahead = ahead, !.seen = walk.seen \cup {key}]
    BY <1>1, <1>3, <1>7, <1>9 DEF WalkTurn
  <1>12. WalkTurn(walk, on) = [ahead |-> ahead, seen |-> walk.seen \cup {key}, on |-> TRUE]
    BY <1>11 DEF WalkState
  <1>13. WalkTurn(walk, on) \in WalkState
    BY <1>2, <1>4, <1>10, <1>12 DEF WalkState
  <1>14. ASSUME NEW i \in 1..Len(ahead), ~(i <= Len(needs))
         PROVE  rest[i - Len(needs)] = walk.ahead[(i - Len(needs)) + 1]
    <2>1. i - Len(needs) \in 1..Len(rest)
      BY <1>6, <1>8, <1>10, <1>14
    <2> QED
      BY <1>4, <2>1
  <1>15. \A i \in 1..Len(ahead) : ahead[i] = IF i <= Len(needs) THEN needs[i] ELSE walk.ahead[(i - Len(needs)) + 1]
    BY <1>10, <1>14
  <1>16. Len(ahead) = Len(needs) + (Len(walk.ahead) - 1)
    BY <1>4, <1>10
  <1>17. /\ WalkTurn(walk, on).ahead = ahead /\ WalkTurn(walk, on).on
         /\ WalkTurn(walk, on).seen = walk.seen \cup {key}
    BY <1>12
  <1>18. WentOn(walk, WalkTurn(walk, on), key, Len(needs), Len(walk.ahead))
    BY <1>4, <1>5, <1>6, <1>7, <1>8, <1>13, <1>15, <1>16, <1>17 DEF WentOn
  <1> QED
    BY ONLY <1>1, <1>7, <1>18

\* A turn leaves a state of the walk, one of a start too.
LEMMA WalkTurnState ==
    ASSUME NEW walk \in WalkState, NEW on
    PROVE  WalkTurn(walk, on) \in WalkState
  <1>1. CASE walk.ahead = <<>> \/ ~walk.on
    BY <1>1 DEF WalkTurn
  <1>2. CASE ~(walk.ahead = <<>> \/ ~walk.on) /\ (Head(walk.ahead) \in walk.seen \/ Head(walk.ahead) \notin on)
    <2>1. WalkTurn(walk, on) = [walk EXCEPT !.on = FALSE]
      BY <1>2 DEF WalkTurn
    <2> QED
      BY <2>1 DEF WalkState
  <1>3. CASE ~(walk.ahead = <<>> \/ ~walk.on) /\ ~(Head(walk.ahead) \in walk.seen \/ Head(walk.ahead) \notin on)
    <2>1. WentOn(walk, WalkTurn(walk, on), Head(walk.ahead), Len(Required(Head(walk.ahead))), Len(walk.ahead))
      BY <1>3, WalkGoesOn
    <2> QED
      BY <2>1 DEF WentOn
  <1> QED
    BY <1>1, <1>2, <1>3

LEMMA WalkStartState ==
    ASSUME NEW key \in AllFeatures
    PROVE  /\ WalkStart(key) \in WalkState
           /\ WalkStart(key).ahead = <<key>> /\ WalkStart(key).seen = {} /\ WalkStart(key).on
  BY DEF WalkStart, WalkState

\* The recursive function is what its definition says.
LEMMA WalkComputes ==
    ASSUME NEW key \in AllFeatures, NEW on
    PROVE  /\ Cardinality(AllFeatures) \in Nat
           /\ Walk(key, on)[0] = WalkStart(key)
           /\ \A n \in 1..Cardinality(AllFeatures) : Walk(key, on)[n] = WalkTurn(Walk(key, on)[n - 1], on)
           /\ \A n \in 0..Cardinality(AllFeatures) : Walk(key, on)[n] \in WalkState
  <1>1. PICK size \in Nat : size = Cardinality(AllFeatures)
    BY FeatureConfigAssumption, FS_CardinalityType
  <1>2. PICK G \in [WalkState -> WalkState] : \A walk \in WalkState : G[walk] = WalkTurn(walk, on)
    <2> DEFINE G == [walk \in WalkState |-> WalkTurn(walk, on)]
    <2>1. G \in [WalkState -> WalkState]
      BY WalkTurnState
    <2> QED
      BY <2>1
  <1>3. WalkStart(key) \in WalkState
    BY WalkStartState
  <1>4. PICK f \in [0..size -> WalkState] : Iterates(f, size, WalkStart(key), G)
    BY <1>1, <1>2, <1>3, IterationExists
  <1>5. \A n \in 0..size : n # 0 => f[n - 1] \in WalkState
    BY <1>1, <1>4
  <1>6. f = [n \in 0..size |-> IF n = 0 THEN WalkStart(key) ELSE WalkTurn(f[n - 1], on)]
    <2>1. f = [n \in 0..size |-> IF n = 0 THEN WalkStart(key) ELSE G[f[n - 1]]]
      BY <1>4 DEF Iterates
    <2>2. \A n \in 0..size : (IF n = 0 THEN WalkStart(key) ELSE G[f[n - 1]]) = IF n = 0 THEN WalkStart(key) ELSE WalkTurn(f[n - 1], on)
      BY <1>2, <1>5
    <2> QED
      BY <2>1, <2>2
  <1>7. Walk(key, on) = CHOOSE after : after = [n \in 0..Cardinality(AllFeatures) |-> IF n = 0 THEN WalkStart(key) ELSE WalkTurn(after[n - 1], on)]
    BY DEF Walk
  <1>8. PICK walk : walk = Walk(key, on)
    OBVIOUS
  <1>9. walk = [n \in 0..size |-> IF n = 0 THEN WalkStart(key) ELSE WalkTurn(walk[n - 1], on)]
    <2>1. \E after : after = [n \in 0..Cardinality(AllFeatures) |-> IF n = 0 THEN WalkStart(key) ELSE WalkTurn(after[n - 1], on)]
      BY <1>1, <1>6
    <2> QED
      BY <1>1, <1>7, <1>8, <2>1
  <1>10. 0 \in 0..size /\ \A n \in 1..size : n \in 0..size /\ n # 0
    BY <1>1
  <1>11. walk[0] = WalkStart(key) /\ \A n \in 1..size : walk[n] = WalkTurn(walk[n - 1], on)
    BY <1>9, <1>10
  <1> DEFINE Good == {n \in 0..size : walk[n] \in WalkState}
  <1>12. 0 \in Good
    BY <1>3, <1>10, <1>11
  <1>13. \A n \in 0..size : n \in Good /\ n < size => n + 1 \in Good
    <2> SUFFICES ASSUME NEW n \in 0..size, n \in Good, n < size PROVE n + 1 \in Good
      OBVIOUS
    <2>1. n + 1 \in 1..size /\ n + 1 \in 0..size /\ (n + 1) - 1 = n
      BY <1>1
    <2>2. walk[n + 1] = WalkTurn(walk[n], on)
      BY <1>11, <2>1
    <2> QED
      BY <2>1, <2>2, WalkTurnState
  <1>14. \A n \in 0..size : n \in Good
    <2> HIDE DEF Good
    <2> QED
      BY <1>1, <1>12, <1>13, UpTo
  <1> QED
    BY <1>1, <1>8, <1>11, <1>14

\* While a walk goes on, what the keys it has seen require has been seen or is ahead.
WalkOwes(walk, key, on) ==
    walk.on =>
        /\ walk.seen \subseteq on
        /\ key \in walk.seen \/ \E i \in 1..Len(walk.ahead) : walk.ahead[i] = key
        /\ \A k \in walk.seen : \A i \in 1..Len(Required(k)) :
              Required(k)[i] \in walk.seen \/ \E j \in 1..Len(walk.ahead) : walk.ahead[j] = Required(k)[i]

\* A turn keeps it: what is seen is on, and what it requires is seen too or still ahead.
LEMMA WalkOwesOn ==
    ASSUME NEW key, NEW on, NEW walk \in WalkState, WalkOwes(walk, key, on)
    PROVE  WalkOwes(WalkTurn(walk, on), key, on)
  <1>1. CASE walk.ahead = <<>> \/ ~walk.on
    BY <1>1 DEF WalkTurn
  <1>2. CASE ~(walk.ahead = <<>> \/ ~walk.on) /\ (Head(walk.ahead) \in walk.seen \/ Head(walk.ahead) \notin on)
    <2>1. WalkTurn(walk, on) = [walk EXCEPT !.on = FALSE]
      BY <1>2 DEF WalkTurn
    <2>2. ~WalkTurn(walk, on).on
      BY <2>1 DEF WalkState
    <2> QED
      BY <2>2 DEF WalkOwes
  <1>3. CASE ~(walk.ahead = <<>> \/ ~walk.on) /\ ~(Head(walk.ahead) \in walk.seen \/ Head(walk.ahead) \notin on)
    <2>1. PICK first : first = Head(walk.ahead)
      OBVIOUS
    <2>2. PICK next : next = WalkTurn(walk, on)
      OBVIOUS
    <2>3. PICK m : m = Len(Required(first))
      OBVIOUS
    <2>4. PICK l : l = Len(walk.ahead)
      OBVIOUS
    <2>5. /\ first = walk.ahead[1] /\ next.on /\ next.seen = walk.seen \cup {first}
          /\ m \in Nat /\ l \in Nat \ {0} /\ Len(next.ahead) = m + (l - 1)
          /\ \A i \in 1..Len(next.ahead) : next.ahead[i] = IF i <= m THEN Required(first)[i] ELSE walk.ahead[(i - m) + 1]
      <3>1. WentOn(walk, WalkTurn(walk, on), Head(walk.ahead), Len(Required(Head(walk.ahead))), Len(walk.ahead))
        BY <1>3, WalkGoesOn
      <3>2. WentOn(walk, next, first, m, l)
        BY ONLY <2>1, <2>2, <2>3, <2>4, <3>1
      <3> QED
        BY ONLY <3>2 DEF WentOn
    <2>6. ASSUME NEW j \in 1..l PROVE walk.ahead[j] \in next.seen \/ \E i \in 1..Len(next.ahead) : next.ahead[i] = walk.ahead[j]
      <3>1. CASE j = 1
        BY <2>5, <3>1
      <3>2. CASE j # 1
        <4>1. (j - 1) + m \in 1..Len(next.ahead) /\ ~((j - 1) + m <= m) /\ (((j - 1) + m) - m) + 1 = j
          BY <2>5, <3>2
        <4>2. next.ahead[(j - 1) + m] = walk.ahead[j]
          BY <2>5, <4>1
        <4> QED
          BY <4>1, <4>2
      <3> QED
        BY <3>1, <3>2
    <2>7. ASSUME NEW i \in 1..m PROVE \E j \in 1..Len(next.ahead) : next.ahead[j] = Required(first)[i]
      <3>1. i \in 1..Len(next.ahead) /\ i <= m
        BY <2>5
      <3> QED
        BY <2>5, <3>1
    <2>8. /\ walk.seen \subseteq on /\ first \in on
          /\ key \in walk.seen \/ \E i \in 1..l : walk.ahead[i] = key
          /\ \A k \in walk.seen : \A i \in 1..Len(Required(k)) :
                Required(k)[i] \in walk.seen \/ \E j \in 1..l : walk.ahead[j] = Required(k)[i]
      BY <1>3, <2>1, <2>4 DEF WalkOwes
    <2>9. next.seen \subseteq on
      BY <2>5, <2>8
    <2>10. key \in next.seen \/ \E i \in 1..Len(next.ahead) : next.ahead[i] = key
      BY <2>5, <2>6, <2>8
    <2>11. ASSUME NEW k \in next.seen, NEW i \in 1..Len(Required(k))
           PROVE  Required(k)[i] \in next.seen \/ \E j \in 1..Len(next.ahead) : next.ahead[j] = Required(k)[i]
      <3>1. CASE k = first
        BY <2>3, <2>7, <3>1
      <3>2. CASE k # first
        <4>1. k \in walk.seen
          BY <2>5, <3>2
        <4>2. CASE Required(k)[i] \in walk.seen
          BY <2>5, <4>2
        <4>3. CASE \E j \in 1..l : walk.ahead[j] = Required(k)[i]
          <5>1. PICK j \in 1..l : walk.ahead[j] = Required(k)[i]
            BY <4>3
          <5> QED
            BY <2>6, <5>1
        <4> QED
          BY <2>8, <4>1, <4>2, <4>3
      <3> QED
        BY <3>1, <3>2
    <2> QED
      BY <2>2, <2>9, <2>10, <2>11 DEF WalkOwes
  <1> QED
    BY <1>1, <1>2, <1>3

\* What isOn finds on has with it all it requires, within what is on.
LEMMA OnIsClosed ==
    ASSUME NEW key \in AllFeatures, NEW on, IsOn(key, on)
    PROVE  \E keys \in SUBSET on : key \in keys /\ Closed(keys)
  <1>1. PICK size : size = Cardinality(AllFeatures)
    OBVIOUS
  <1>2. PICK walk : walk = Walk(key, on)
    OBVIOUS
  <1>3. /\ size \in Nat /\ walk[0] = WalkStart(key)
        /\ \A n \in 1..size : walk[n] = WalkTurn(walk[n - 1], on)
        /\ \A n \in 0..size : walk[n] \in WalkState
    BY <1>1, <1>2, WalkComputes
  <1> DEFINE Good == {n \in 0..size : WalkOwes(walk[n], key, on)}
  <1>4. 0 \in Good
    <2>1. WalkStart(key).ahead = <<key>> /\ WalkStart(key).seen = {}
      BY DEF WalkStart
    <2>2. Len(<<key>>) = 1 /\ <<key>>[1] = key /\ 1 \in 1..1
      OBVIOUS
    <2>3. WalkOwes(WalkStart(key), key, on)
      BY <2>1, <2>2 DEF WalkOwes
    <2> QED
      BY <1>3, <2>3
  <1>5. \A n \in 0..size : n \in Good /\ n < size => n + 1 \in Good
    <2> SUFFICES ASSUME NEW n \in 0..size, n \in Good, n < size PROVE n + 1 \in Good
      OBVIOUS
    <2>1. n + 1 \in 1..size /\ n + 1 \in 0..size /\ (n + 1) - 1 = n
      BY <1>3
    <2>2. walk[n + 1] = WalkTurn(walk[n], on) /\ walk[n] \in WalkState
      BY <1>3, <2>1
    <2>3. WalkOwes(walk[n + 1], key, on)
      BY <2>2, WalkOwesOn
    <2> QED
      BY <2>1, <2>3
  <1>6. \A n \in 0..size : n \in Good
    <2> HIDE DEF Good
    <2> QED
      BY <1>3, <1>4, <1>5, UpTo
  <1>7. size \in 0..size
    BY <1>3
  <1>8. PICK end : end = walk[size]
    OBVIOUS
  <1>9. WalkOwes(end, key, on) /\ end.on /\ end.ahead = <<>> /\ end \in WalkState
    BY <1>1, <1>2, <1>3, <1>6, <1>7, <1>8 DEF IsOn
  <1>10. Len(end.ahead) = 0 /\ 1..0 = {}
    BY <1>9
  <1>11. /\ end.seen \subseteq on /\ key \in end.seen
         /\ \A k \in end.seen : \A i \in 1..Len(Required(k)) : Required(k)[i] \in end.seen
    BY <1>9, <1>10 DEF WalkOwes
  <1>12. Closed(end.seen)
    <2> SUFFICES ASSUME NEW k \in end.seen \cap BuiltIn, NEW i \in DOMAIN Requires[k] PROVE Requires[k][i] \in end.seen
      BY DEF Closed
    <2>1. Required(k) = Requires[k]
      BY DEF Required
    <2>2. Requires[k] \in Seq(BuiltIn)
      BY FeatureConfigAssumption
    <2>3. i \in 1..Len(Required(k))
      BY <2>1, <2>2, LenProperties
    <2> QED
      BY <1>11, <2>1, <2>3
  <1> QED
    BY <1>11, <1>12

\* While a walk goes on that starts in a closed part of what is on: what is ahead lies in it, in trees
\* that do not meet and of which nothing is seen; and every turn sees one more.
WalkWithin(walk, keys, below, n) ==
    /\ walk.on
    /\ \A i \in 1..Len(walk.ahead) : walk.ahead[i] \in keys /\ below[walk.ahead[i]] \cap walk.seen = {}
    /\ \A i, j \in 1..Len(walk.ahead) : i # j => below[walk.ahead[i]] \cap below[walk.ahead[j]] = {}
    /\ IsFiniteSet(walk.seen) /\ (walk.ahead = <<>> \/ Cardinality(walk.seen) = n)

\* Every feature with what it requires, directly or not.
Trees(below) ==
    /\ below \in [AllFeatures -> SUBSET AllFeatures]
    /\ \A k \in AllFeatures :
        /\ k \in below[k]
        /\ \A i \in 1..Len(Required(k)) : below[Required(k)[i]] \subseteq below[k] \ {k}
        /\ \A i, j \in 1..Len(Required(k)) : i # j => below[Required(k)[i]] \cap below[Required(k)[j]] = {}

\* The trees of what entries require, together with new features, which require nothing.
LEMMA TreesExist == \E below : Trees(below)
  <1>1. PICK under \in [BuiltIn -> SUBSET BuiltIn] : \A k \in BuiltIn :
           /\ k \in under[k]
           /\ \A i \in DOMAIN Requires[k] : under[Requires[k][i]] \subseteq under[k] \ {k}
           /\ \A i, j \in DOMAIN Requires[k] : i # j => under[Requires[k][i]] \cap under[Requires[k][j]] = {}
    BY RequirementsAssumption DEF RequirementsAreTrees
  <1>2. PICK below : below = [k \in AllFeatures |-> IF k \in BuiltIn THEN under[k] ELSE {k}]
    OBVIOUS
  <1>3. below \in [AllFeatures -> SUBSET AllFeatures]
    BY <1>1, <1>2 DEF AllFeatures
  <1>4. ASSUME NEW k \in BuiltIn
        PROVE  /\ k \in below[k]
               /\ \A i \in 1..Len(Required(k)) : below[Required(k)[i]] \subseteq below[k] \ {k}
               /\ \A i, j \in 1..Len(Required(k)) : i # j => below[Required(k)[i]] \cap below[Required(k)[j]] = {}
    <2>1. Required(k) = Requires[k] /\ Requires[k] \in Seq(BuiltIn)
      BY FeatureConfigAssumption DEF Required
    <2>2. DOMAIN Requires[k] = 1..Len(Required(k)) /\ \A i \in 1..Len(Required(k)) : Required(k)[i] \in BuiltIn
      BY <2>1, LenProperties, ElementOfSeq
    <2>3. \A x \in BuiltIn : below[x] = under[x]
      BY <1>2 DEF AllFeatures
    <2> QED
      BY <1>1, <2>1, <2>2, <2>3
  <1>5. ASSUME NEW k \in AllFeatures, k \notin BuiltIn
        PROVE  /\ k \in below[k] /\ Len(Required(k)) = 0 /\ 1..0 = {}
    BY <1>2, <1>5 DEF Required
  <1>6. Trees(below)
    <2> SUFFICES ASSUME NEW k \in AllFeatures
                 PROVE  /\ k \in below[k]
                        /\ \A i \in 1..Len(Required(k)) : below[Required(k)[i]] \subseteq below[k] \ {k}
                        /\ \A i, j \in 1..Len(Required(k)) : i # j => below[Required(k)[i]] \cap below[Required(k)[j]] = {}
      BY <1>3 DEF Trees
    <2> QED
      BY <1>4, <1>5
  <1> QED
    BY <1>6

\* A closed set holds what each of its features requires.
LEMMA ClosedHolds ==
    ASSUME NEW keys \in SUBSET AllFeatures, Closed(keys), NEW k \in keys
    PROVE  \A i \in 1..Len(Required(k)) : Required(k)[i] \in keys
  <1>1. CASE k \in BuiltIn
    <2>1. Required(k) = Requires[k] /\ Requires[k] \in Seq(BuiltIn)
      BY <1>1, FeatureConfigAssumption DEF Required
    <2>2. DOMAIN Requires[k] = 1..Len(Required(k))
      BY <2>1, LenProperties
    <2> QED
      BY <1>1, <2>1, <2>2 DEF Closed
  <1>2. CASE k \notin BuiltIn
    BY <1>2 DEF Required
  <1> QED
    BY <1>1, <1>2

\* A turn keeps the trees ahead apart from each other and from what is seen: no key is found twice.
LEMMA WalkWithinOn ==
    ASSUME NEW on, NEW keys \in SUBSET AllFeatures, keys \subseteq on, Closed(keys),
           NEW below, Trees(below), NEW n \in Nat,
           NEW walk \in WalkState, WalkWithin(walk, keys, below, n)
    PROVE  WalkWithin(WalkTurn(walk, on), keys, below, n + 1)
  <1>1. CASE walk.ahead = <<>>
    BY <1>1 DEF WalkTurn, WalkWithin
  <1>2. CASE walk.ahead # <<>>
    <2>1. PICK first : first = Head(walk.ahead)
      OBVIOUS
    <2>2. PICK l : l = Len(walk.ahead)
      OBVIOUS
    <2>3. walk.ahead \in Seq(AllFeatures) /\ walk.seen \subseteq AllFeatures
      BY DEF WalkState
    <2>4. first = walk.ahead[1] /\ l \in Nat \ {0} /\ 1 \in 1..l
      <3>1. l \in Nat \ {0}
        BY <1>2, <2>2, <2>3, EmptySeq
      <3> QED
        BY <1>2, <2>1, <2>3, <3>1
    <2>5. /\ walk.on /\ IsFiniteSet(walk.seen) /\ Cardinality(walk.seen) = n
          /\ \A i \in 1..l : walk.ahead[i] \in keys /\ below[walk.ahead[i]] \cap walk.seen = {}
          /\ \A i, j \in 1..l : i # j => below[walk.ahead[i]] \cap below[walk.ahead[j]] = {}
      BY <1>2, <2>2 DEF WalkWithin
    <2>6. first \in keys /\ below[first] \cap walk.seen = {}
      BY <2>4, <2>5
    <2>7. first \in AllFeatures /\ first \in below[first] /\ first \in on
      BY <2>6 DEF Trees
    <2>8. first \notin walk.seen
      BY <2>6, <2>7
    <2>9. PICK next : next = WalkTurn(walk, on)
      OBVIOUS
    <2>10. PICK m : m = Len(Required(first))
      OBVIOUS
    <2>11. /\ next.on /\ next.seen = walk.seen \cup {first}
           /\ m \in Nat /\ Len(next.ahead) = m + (l - 1)
           /\ \A i \in 1..Len(next.ahead) : next.ahead[i] = IF i <= m THEN Required(first)[i] ELSE walk.ahead[(i - m) + 1]
      <3>1. walk.on /\ Head(walk.ahead) \notin walk.seen /\ Head(walk.ahead) \in on
        BY <2>1, <2>5, <2>7, <2>8
      <3> QED
        <4>1. WentOn(walk, WalkTurn(walk, on), Head(walk.ahead), Len(Required(Head(walk.ahead))), Len(walk.ahead))
          BY <1>2, <3>1, WalkGoesOn
        <4>2. WentOn(walk, next, first, m, l)
          BY ONLY <2>1, <2>2, <2>9, <2>10, <4>1
        <4> QED
          BY ONLY <4>2 DEF WentOn
    <2>12. /\ \A i \in 1..m : Required(first)[i] \in keys
           /\ \A i \in 1..m : below[Required(first)[i]] \subseteq below[first] \ {first}
           /\ \A i, j \in 1..m : i # j => below[Required(first)[i]] \cap below[Required(first)[j]] = {}
      BY <2>6, <2>7, <2>10, ClosedHolds DEF Trees
    <2>13. ASSUME NEW i \in 1..Len(next.ahead), i <= m
           PROVE  i \in 1..m /\ next.ahead[i] = Required(first)[i]
      BY <2>11, <2>13
    <2>14. ASSUME NEW i \in 1..Len(next.ahead), ~(i <= m)
           PROVE  /\ (i - m) + 1 \in 2..l /\ (i - m) + 1 \in 1..l /\ (i - m) + 1 # 1
                  /\ next.ahead[i] = walk.ahead[(i - m) + 1]
      BY <2>4, <2>11, <2>14
    <2>15. ASSUME NEW i \in 1..Len(next.ahead)
           PROVE  next.ahead[i] \in keys /\ below[next.ahead[i]] \cap next.seen = {}
      <3>1. CASE i <= m
        <4>1. PICK k : k = next.ahead[i]
          OBVIOUS
        <4>2. k \in keys /\ below[k] \subseteq below[first] \ {first}
          BY <2>12, <2>13, <3>1, <4>1
        <4>3. below[k] \cap next.seen = {}
          BY <2>6, <2>11, <4>2
        <4> QED
          BY <4>1, <4>2, <4>3
      <3>2. CASE ~(i <= m)
        <4>1. PICK k : k = next.ahead[i]
          OBVIOUS
        <4>2. k \in keys /\ below[k] \cap walk.seen = {} /\ below[k] \cap below[first] = {}
          BY <2>4, <2>5, <2>14, <3>2, <4>1
        <4>3. below[k] \cap next.seen = {}
          BY <2>7, <2>11, <4>2
        <4> QED
          BY <4>1, <4>2, <4>3
      <3> QED
        BY <3>1, <3>2
    <2>16. ASSUME NEW i \in 1..Len(next.ahead), NEW j \in 1..Len(next.ahead), i # j
           PROVE  below[next.ahead[i]] \cap below[next.ahead[j]] = {}
      <3>1. CASE i <= m /\ j <= m
        BY <2>12, <2>13, <2>16, <3>1
      <3>2. CASE ~(i <= m) /\ ~(j <= m)
        <4>1. (i - m) + 1 # (j - m) + 1
          BY <2>11, <2>16
        <4> QED
          BY <2>5, <2>14, <3>2, <4>1
      <3>3. ASSUME NEW x \in 1..Len(next.ahead), NEW y \in 1..Len(next.ahead), x <= m, ~(y <= m)
            PROVE  below[next.ahead[x]] \cap below[next.ahead[y]] = {}
        <4>1. below[next.ahead[x]] \subseteq below[first]
          BY <2>12, <2>13, <3>3
        <4>2. below[next.ahead[y]] \cap below[first] = {}
          BY <2>4, <2>5, <2>14, <3>3
        <4> QED
          BY <4>1, <4>2
      <3> QED
        BY <3>1, <3>2, <3>3
    <2>17. IsFiniteSet(next.seen) /\ Cardinality(next.seen) = n + 1
      <3>1. PICK seen : seen = walk.seen
        OBVIOUS
      <3>2. IsFiniteSet(seen) /\ first \notin seen /\ Cardinality(seen) = n
        BY <2>5, <2>8, <3>1
      <3>3. IsFiniteSet(seen \cup {first}) /\ Cardinality(seen \cup {first}) = n + 1
        BY <3>2, FS_AddElement
      <3> QED
        BY <2>11, <3>1, <3>3
    <2> QED
      BY <2>9, <2>11, <2>15, <2>16, <2>17 DEF WalkWithin
  <1> QED
    BY <1>1, <1>2

\* Nothing in a closed part of what is on is taken for off.
LEMMA ClosedIsOn ==
    ASSUME NEW on, NEW keys \in SUBSET AllFeatures, keys \subseteq on, Closed(keys), NEW key \in keys
    PROVE  IsOn(key, on)
  <1>1. PICK below : Trees(below)
    BY TreesExist
  <1>2. PICK size : size = Cardinality(AllFeatures)
    OBVIOUS
  <1>3. PICK walk : walk = Walk(key, on)
    OBVIOUS
  <1>4. /\ size \in Nat /\ walk[0] = WalkStart(key)
        /\ \A n \in 1..size : walk[n] = WalkTurn(walk[n - 1], on)
        /\ \A n \in 0..size : walk[n] \in WalkState
    BY <1>2, <1>3, WalkComputes
  <1> DEFINE Good == {n \in 0..size : WalkWithin(walk[n], keys, below, n)}
  <1>5. 0 \in Good
    <2>1. /\ WalkStart(key).ahead = <<key>> /\ WalkStart(key).seen = {} /\ WalkStart(key).on
      BY DEF WalkStart
    <2>2. Len(<<key>>) = 1 /\ <<key>>[1] = key /\ 1..1 = {1}
      OBVIOUS
    <2>3. WalkWithin(WalkStart(key), keys, below, 0)
      BY <2>1, <2>2, FS_EmptySet DEF WalkWithin
    <2> QED
      BY <1>4, <2>3
  <1>6. \A n \in 0..size : n \in Good /\ n < size => n + 1 \in Good
    <2> SUFFICES ASSUME NEW n \in 0..size, n \in Good, n < size PROVE n + 1 \in Good
      OBVIOUS
    <2>1. n \in Nat /\ n + 1 \in 1..size /\ n + 1 \in 0..size /\ (n + 1) - 1 = n
      BY <1>4
    <2>2. walk[n + 1] = WalkTurn(walk[n], on) /\ walk[n] \in WalkState
      BY <1>4, <2>1
    <2>3. WalkWithin(walk[n + 1], keys, below, n + 1)
      BY <1>1, <2>1, <2>2, WalkWithinOn
    <2> QED
      BY <2>1, <2>3
  <1>7. \A n \in 0..size : n \in Good
    <2> HIDE DEF Good
    <2> QED
      BY <1>4, <1>5, <1>6, UpTo
  <1>8. size \in 0..size
    BY <1>4
  <1>9. PICK end : end = walk[size]
    OBVIOUS
  <1>10. WalkWithin(end, keys, below, size) /\ end \in WalkState
    BY <1>4, <1>7, <1>8, <1>9
  <1>11. end.ahead = <<>>
    <2> SUFFICES ASSUME end.ahead # <<>> PROVE FALSE
      OBVIOUS
    <2>1. end.ahead \in Seq(AllFeatures) /\ end.seen \subseteq AllFeatures
      BY <1>10 DEF WalkState
    <2>2. 1 \in 1..Len(end.ahead)
      <3>1. Len(end.ahead) \in Nat \ {0}
        BY <2>1, EmptySeq
      <3> QED
        BY <3>1
    <2>3. Cardinality(end.seen) = Cardinality(AllFeatures)
      BY <1>2, <1>10 DEF WalkWithin
    <2>4. end.seen = AllFeatures
      BY <2>1, <2>3, FeatureConfigAssumption, FS_Subset
    <2>5. PICK k : k = end.ahead[1]
      OBVIOUS
    <2>6. k \in AllFeatures /\ below[k] \cap end.seen = {}
      BY <1>10, <2>2, <2>5 DEF WalkWithin
    <2> QED
      BY <1>1, <2>4, <2>6 DEF Trees
  <1> QED
    BY <1>2, <1>3, <1>9, <1>10, <1>11 DEF IsOn, WalkWithin

\* The cascade leaves the largest closed part of what is on.
LEMMA CascadeIsLargest ==
    ASSUME NEW on \in SUBSET AllFeatures
    PROVE  Cascade(on) = UNION {keys \in SUBSET on : Closed(keys)}
  <1>1. ASSUME NEW k \in Cascade(on) PROVE k \in UNION {keys \in SUBSET on : Closed(keys)}
    <2>1. k \in AllFeatures /\ IsOn(k, on)
      BY DEF Cascade
    <2>2. PICK keys \in SUBSET on : k \in keys /\ Closed(keys)
      BY <2>1, OnIsClosed
    <2> QED
      BY <2>2
  <1>2. ASSUME NEW keys \in SUBSET on, Closed(keys), NEW k \in keys PROVE k \in Cascade(on)
    <2>1. IsOn(k, on)
      BY <1>2, ClosedIsOn
    <2> QED
      BY <2>1 DEF Cascade
  <1> QED
    BY <1>1, <1>2

\* What is on by more layers stays on.
LEMMA CascadeMonotonic ==
    ASSUME NEW on \in SUBSET AllFeatures, NEW less \in SUBSET on
    PROVE  Cascade(less) \subseteq Cascade(on) /\ Cascade(less) \subseteq less /\ Closed(Cascade(less))
  <1>1. Cascade(less) = UNION {keys \in SUBSET less : Closed(keys)} /\ Cascade(on) = UNION {keys \in SUBSET on : Closed(keys)}
    BY CascadeIsLargest
  <1>2. Closed(Cascade(less))
    BY <1>1 DEF Closed
  <1> QED
    BY <1>1, <1>2

-----------------------------------------------------------------------------
(* Features: records *)

\* The entries of an override switch features of AllFeatures.
LEMMA OverridesAre ==
    /\ \A K \in SUBSET AllFeatures : \A f \in [K -> BOOLEAN] : f \in Overrides
    /\ \A f \in Overrides : f \in [DOMAIN f -> BOOLEAN] /\ DOMAIN f \subseteq AllFeatures
  BY DEF Overrides

\* What the administrator's request has still to do for a view that was created.
SavingRight ==
    LET v == saving.view
        listed == saving.add # {} \/ (saving.drop = {} /\ viewRoles[v] # {}) IN
    /\ saving.pc = "docs" =>
        /\ saving.op = "create" => v \notin registered /\ listed
        /\ saving.op = "save" => v \in registered /\ listed
        /\ saving.op = "delete" => v \in registered /\ saving.add = {} /\ viewRoles[v] \subseteq saving.drop
    /\ saving.pc = "merge" =>
        IF saving.op = "delete" THEN v \notin registered /\ viewRoles[v] = {} ELSE v \in registered /\ viewRoles[v] # {}

\* Outside of the request and of what broke off, listed is registered, and what is on is.
RecordsAgree ==
    /\ \A v \in NewViews : saving.pc = "idle" \/ v # saving.view => (viewRoles[v] # {} <=> v \in registered)
    /\ \A k \in On(tenantCfg) : k \in BuiltIn \cup registered \/ (saving.pc = "merge" /\ saving.op = "delete" /\ k = saving.view)
    /\ saving.view \in NewViews => SavingRight

SavingShape ==
    /\ saving.pc \in {"idle", "docs", "merge"}
    /\ saving.pc = "idle" => saving = NoSave
    /\ saving.pc # "idle" => saving.view \in Views /\ saving.op \in {"create", "save", "delete"}

FeatInvariant == FeatTypeOK /\ SavingShape /\ (~halfDone => RecordsAgree)

LEMMA ViewsAreFeatures ==
    /\ Views \subseteq AllFeatures
    /\ \A v \in Views : v \in BuiltIn \/ v \in NewViews
    /\ \A v \in NewViews : v \notin BuiltIn /\ v \in Views
  BY FeatureConfigAssumption DEF Views, AllFeatures, RoleSets

\* The invariant holds before any request.
LEMMA InitFeat == FeatInit => FeatInvariant
  <1> SUFFICES ASSUME FeatInit PROVE FeatInvariant
    OBVIOUS
  <1>1. NoOverrides \in Overrides /\ On(NoOverrides) = {}
    <2>1. NoOverrides \in [{} -> BOOLEAN] /\ DOMAIN NoOverrides = {}
      BY DEF NoOverrides
    <2>2. NoOverrides \in Overrides
      BY <2>1, OverridesAre
    <2> QED
      BY <2>1, <2>2 DEF On
  <1>2. NoSave \in Save /\ NoSave.pc = "idle" /\ NoSave.view = "none"
    BY DEF NoSave, Save
  <1>3. FeatTypeOK
    <2>1. roleCfg \in [FeatureRoles -> Overrides]
      BY <1>1 DEF FeatInit
    <2>2. viewRoles \in [Views -> SUBSET FeatureRoles]
      BY DEF FeatInit
    <2> QED
      BY <1>1, <1>2, <2>1, <2>2 DEF FeatInit, FeatTypeOK
  <1>4. SavingShape
    BY <1>2 DEF FeatInit, SavingShape
  <1>5. \A v \in NewViews : viewRoles[v] = {} /\ v \notin registered
    BY FeatureConfigAssumption, ViewsAreFeatures DEF FeatInit
  <1>6. SavingRight
    BY <1>2 DEF FeatInit, SavingRight
  <1>7. RecordsAgree
    BY <1>1, <1>5, <1>6 DEF FeatInit, RecordsAgree
  <1> QED
    BY <1>3, <1>4, <1>7 DEF FeatInvariant

\* Each write of a request keeps it, wherever the request breaks off.
LEMMA NextFeat == FeatInvariant /\ [FeatNext]_featVars => FeatInvariant'
  <1> SUFFICES ASSUME FeatInvariant, [FeatNext]_featVars PROVE FeatInvariant'
    OBVIOUS
  <1> USE DEF FeatInvariant
  <1>0. /\ FeatTypeOK /\ SavingShape /\ (~halfDone => RecordsAgree)
        /\ NoSave \in Save /\ NoSave.pc = "idle" /\ NoSave.view = "none" /\ NoSave.op = "none"
    BY DEF NoSave, Save
  <1>1. CASE TenantConfigPut
    <2>1. PICK overrides \in TenantConfigs : KnownKeys(overrides) /\ tenantCfg' = overrides
      BY <1>1 DEF TenantConfigPut
    <2>2. /\ saving = NoSave /\ saving' = saving /\ halfDone' = halfDone /\ template' = template /\ registered' = registered
          /\ roleCfg' = roleCfg /\ viewRoles' = viewRoles
      BY <1>1 DEF TenantConfigPut
    <2>3. overrides \in Overrides
      BY FeatureConfigAssumption
    <2>4. FeatTypeOK'
      BY <1>0, <2>1, <2>2, <2>3 DEF FeatTypeOK
    <2>5. SavingShape'
      BY <1>0, <2>2 DEF SavingShape
    <2>6. \A k \in On(tenantCfg') : k \in BuiltIn \cup registered
      BY <2>1 DEF On, KnownKeys
    <2>7. RecordsAgree => RecordsAgree'
      BY <2>2, <2>6 DEF RecordsAgree, SavingRight, On
    <2> QED
      BY <1>0, <2>2, <2>4, <2>5, <2>7
  <1>2. ASSUME NEW r \in FeatureRoles, RoleConfigPut(r) PROVE FeatInvariant'
    <2>1. PICK overrides \in RoleConfigs : roleCfg' = [roleCfg EXCEPT ![r] = overrides]
      BY <1>2 DEF RoleConfigPut
    <2>2. /\ saving' = saving /\ halfDone' = halfDone /\ template' = template /\ registered' = registered
          /\ tenantCfg' = tenantCfg /\ viewRoles' = viewRoles
      BY <1>2 DEF RoleConfigPut
    <2>3. overrides \in Overrides
      BY FeatureConfigAssumption
    <2>4. FeatTypeOK'
      BY <1>0, <2>1, <2>2, <2>3 DEF FeatTypeOK
    <2>5. SavingShape'
      BY <1>0, <2>2 DEF SavingShape
    <2>6. RecordsAgree => RecordsAgree'
      BY <2>2 DEF RecordsAgree, SavingRight, On
    <2> QED
      BY <1>0, <2>2, <2>4, <2>5, <2>6
  <1>3. ASSUME NEW v \in Views, NEW roles \in RoleSets, ViewCreated(v, roles) PROVE FeatInvariant'
    <2>1. /\ saving = NoSave /\ viewRoles[v] = {} /\ halfDone' = halfDone /\ template' = template /\ registered' = registered
          /\ tenantCfg' = tenantCfg /\ roleCfg' = roleCfg /\ viewRoles' = viewRoles
          /\ saving' = [pc |-> "docs", view |-> v, drop |-> {}, add |-> roles, op |-> "create"]
      BY <1>3 DEF ViewCreated
    <2>2. /\ saving'.pc = "docs" /\ saving'.view = v /\ saving'.drop = {} /\ saving'.add = roles /\ saving'.op = "create"
          /\ saving' \in Save
      BY <2>1 DEF Save, RoleSets
    <2>3. roles # {}
      BY DEF RoleSets
    <2>4. FeatTypeOK'
      BY <1>0, <2>1, <2>2 DEF FeatTypeOK
    <2>5. SavingShape'
      BY <2>2 DEF SavingShape
    <2>6. ASSUME RecordsAgree PROVE RecordsAgree'
      <3>1. \A u \in NewViews : viewRoles[u] # {} <=> u \in registered
        BY <1>0, <2>1, <2>6 DEF RecordsAgree
      <3>2. \A k \in On(tenantCfg) : k \in BuiltIn \cup registered
        BY <1>0, <2>1, <2>6 DEF RecordsAgree
      <3>3. v \in NewViews => SavingRight'
        BY <2>1, <2>2, <2>3, <3>1 DEF SavingRight
      <3> QED
        BY <2>1, <2>2, <3>1, <3>2, <3>3 DEF RecordsAgree, On
    <2> QED
      BY <1>0, <2>1, <2>4, <2>5, <2>6
  <1>4. ASSUME NEW v \in Views, NEW roles \in RoleSets, ViewSaved(v, roles) PROVE FeatInvariant'
    <2>1. /\ saving = NoSave /\ viewRoles[v] # {} /\ halfDone' = halfDone /\ template' = template /\ registered' = registered
          /\ tenantCfg' = tenantCfg /\ roleCfg' = roleCfg /\ viewRoles' = viewRoles
          /\ saving' = [pc |-> "docs", view |-> v, drop |-> viewRoles[v] \ roles, add |-> roles, op |-> "save"]
      BY <1>4 DEF ViewSaved
    <2>2. viewRoles[v] \subseteq FeatureRoles
      BY <1>0 DEF FeatTypeOK
    <2>3. /\ saving'.pc = "docs" /\ saving'.view = v /\ saving'.add = roles /\ saving'.op = "save"
          /\ saving' \in Save
      BY <2>1, <2>2 DEF Save, RoleSets
    <2>4. roles # {}
      BY DEF RoleSets
    <2>5. FeatTypeOK'
      BY <1>0, <2>1, <2>3 DEF FeatTypeOK
    <2>6. SavingShape'
      BY <2>3 DEF SavingShape
    <2>7. ASSUME RecordsAgree PROVE RecordsAgree'
      <3>1. \A u \in NewViews : viewRoles[u] # {} <=> u \in registered
        BY <1>0, <2>1, <2>7 DEF RecordsAgree
      <3>2. \A k \in On(tenantCfg) : k \in BuiltIn \cup registered
        BY <1>0, <2>1, <2>7 DEF RecordsAgree
      <3>3. v \in NewViews => SavingRight'
        BY <2>1, <2>3, <2>4, <3>1 DEF SavingRight
      <3> QED
        BY <2>1, <2>3, <3>1, <3>2, <3>3 DEF RecordsAgree, On
    <2> QED
      BY <1>0, <2>1, <2>5, <2>6, <2>7
  <1>5. ASSUME NEW v \in Views, ViewDeleted(v) PROVE FeatInvariant'
    <2>1. /\ saving = NoSave /\ viewRoles[v] # {} /\ halfDone' = halfDone /\ template' = template /\ registered' = registered
          /\ tenantCfg' = tenantCfg /\ roleCfg' = roleCfg /\ viewRoles' = viewRoles
          /\ saving' = [pc |-> "docs", view |-> v, drop |-> viewRoles[v], add |-> {}, op |-> "delete"]
      BY <1>5 DEF ViewDeleted
    <2>2. viewRoles[v] \subseteq FeatureRoles
      BY <1>0 DEF FeatTypeOK
    <2>3. /\ saving'.pc = "docs" /\ saving'.view = v /\ saving'.drop = viewRoles[v] /\ saving'.add = {} /\ saving'.op = "delete"
          /\ saving' \in Save
      BY <2>1, <2>2 DEF Save
    <2>4. FeatTypeOK'
      BY <1>0, <2>1, <2>3 DEF FeatTypeOK
    <2>5. SavingShape'
      BY <2>3 DEF SavingShape
    <2>6. ASSUME RecordsAgree PROVE RecordsAgree'
      <3>1. \A u \in NewViews : viewRoles[u] # {} <=> u \in registered
        BY <1>0, <2>1, <2>6 DEF RecordsAgree
      <3>2. \A k \in On(tenantCfg) : k \in BuiltIn \cup registered
        BY <1>0, <2>1, <2>6 DEF RecordsAgree
      <3>3. v \in NewViews => SavingRight'
        BY <2>1, <2>3, <3>1 DEF SavingRight
      <3> QED
        BY <2>1, <2>3, <3>1, <3>2, <3>3 DEF RecordsAgree, On
    <2> QED
      BY <1>0, <2>1, <2>4, <2>5, <2>6
  <1>6. CASE DocPut
    <2>1. PICK r \in (IF saving.drop # {} THEN saving.drop ELSE saving.add) :
            /\ viewRoles' = [viewRoles EXCEPT ![saving.view] = IF saving.drop # {} THEN @ \ {r} ELSE @ \cup {r}]
            /\ saving' = [saving EXCEPT !.drop = @ \ {r}, !.add = IF saving.drop # {} THEN @ ELSE @ \ {r}]
      BY <1>6 DEF DocPut
    <2>2. /\ saving.pc = "docs" /\ halfDone' = halfDone /\ template' = template /\ registered' = registered
          /\ tenantCfg' = tenantCfg /\ roleCfg' = roleCfg
      BY <1>6 DEF DocPut
    <2>3. PICK v : v = saving.view
      OBVIOUS
    <2>4. v \in Views /\ saving \in Save /\ viewRoles \in [Views -> SUBSET FeatureRoles] /\ r \in FeatureRoles
      BY <1>0, <2>1, <2>2, <2>3 DEF SavingShape, FeatTypeOK, Save
    <2>5. PICK listed : listed = IF saving.drop # {} THEN viewRoles[v] \ {r} ELSE viewRoles[v] \cup {r}
      OBVIOUS
    <2>6. viewRoles' = [viewRoles EXCEPT ![v] = listed]
      BY <2>1, <2>3, <2>5
    <2>7. listed \subseteq FeatureRoles /\ viewRoles'[v] = listed /\ \A u \in Views \ {v} : viewRoles'[u] = viewRoles[u]
      BY <2>4, <2>5, <2>6
    <2>8. /\ saving' \in Save /\ saving'.pc = "docs" /\ saving'.view = v /\ saving'.op = saving.op
          /\ saving'.drop = saving.drop \ {r} /\ saving'.add = IF saving.drop # {} THEN saving.add ELSE saving.add \ {r}
      BY <2>1, <2>2, <2>3, <2>4 DEF Save
    <2>9. FeatTypeOK'
      <3>1. viewRoles' \in [Views -> SUBSET FeatureRoles]
        BY <2>4, <2>6, <2>7
      <3> QED
        BY <1>0, <2>2, <2>8, <3>1 DEF FeatTypeOK
    <2>10. SavingShape'
      BY <1>0, <2>2, <2>3, <2>8 DEF SavingShape
    <2>11. ASSUME RecordsAgree PROVE RecordsAgree'
      <3>1. \A u \in NewViews : u # v => (viewRoles'[u] # {} <=> u \in registered)
        BY <2>2, <2>3, <2>7, <2>11, ViewsAreFeatures DEF RecordsAgree
      <3>2. v \in NewViews => SavingRight'
        <4>1. ASSUME v \in NewViews PROVE SavingRight
          BY <2>3, <2>11, <4>1 DEF RecordsAgree
        <4>2. CASE saving.drop # {}
          BY <2>1, <2>2, <2>3, <2>5, <2>7, <2>8, <4>1, <4>2 DEF SavingRight
        <4>3. CASE saving.drop = {}
          <5>1. r \in saving.add /\ r \in listed /\ saving'.drop = {}
            BY <2>1, <2>5, <2>8, <4>3
          <5> QED
            BY <2>2, <2>3, <2>7, <2>8, <4>1, <4>3, <5>1 DEF SavingRight
        <4> QED
          BY <4>2, <4>3
      <3>3. \A k \in On(tenantCfg) : k \in BuiltIn \cup registered
        BY <2>2, <2>11 DEF RecordsAgree
      <3> QED
        BY <2>2, <2>8, <3>1, <3>2, <3>3 DEF RecordsAgree, On
    <2> QED
      BY <1>0, <2>2, <2>9, <2>10, <2>11
  <1>7. CASE FeaturePut
    <2>1. PICK v : v = saving.view
      OBVIOUS
    <2>2. /\ saving.pc = "docs" /\ saving.drop = {} /\ saving.add = {}
          /\ halfDone' = halfDone /\ template' = template /\ tenantCfg' = tenantCfg /\ roleCfg' = roleCfg /\ viewRoles' = viewRoles
      BY <1>7 DEF FeaturePut
    <2>3. v \in Views /\ saving \in Save /\ registered \subseteq NewViews /\ saving.op \in {"create", "save", "delete"}
      BY <1>0, <2>1, <2>2 DEF SavingShape, FeatTypeOK
    <2>4. registered' = IF v \in BuiltIn THEN registered
                        ELSE IF saving.op = "create" THEN registered \cup {v}
                        ELSE IF saving.op = "delete" THEN registered \ {v} ELSE registered
      <3>1. registered' = IF v \in BuiltIn THEN registered
                     ELSE CASE saving.op = "create" -> registered \cup {v}
                            [] saving.op = "delete" -> registered \ {v}
                            [] OTHER -> registered
        BY <1>7, <2>1 DEF FeaturePut
      <3> QED
        BY <2>3, <3>1
    <2>5. saving' = IF v \in BuiltIn /\ saving.op # "save" THEN NoSave
                    ELSE IF saving.op = "save" /\ v \notin BuiltIn \cup registered THEN NoSave
                    ELSE [saving EXCEPT !.pc = "merge"]
      BY <1>7, <2>1 DEF FeaturePut
    <2>6. PICK merging : merging = [saving EXCEPT !.pc = "merge"]
      OBVIOUS
    <2>7. merging \in Save /\ merging.pc = "merge" /\ merging.view = v /\ merging.op = saving.op
      BY <2>1, <2>3, <2>6 DEF Save
    <2>8. saving' \in {NoSave, merging}
      BY <2>5, <2>6
    <2>9. registered' \subseteq NewViews
      BY <2>3, <2>4, ViewsAreFeatures
    <2>10. FeatTypeOK'
      BY <1>0, <2>2, <2>7, <2>8, <2>9 DEF FeatTypeOK
    <2>11. SavingShape'
      BY <1>0, <2>3, <2>7, <2>8 DEF SavingShape
    <2>12. ASSUME RecordsAgree PROVE RecordsAgree'
      <3>1. \A u \in NewViews : u # v => (viewRoles[u] # {} <=> u \in registered) /\ (u \in registered' <=> u \in registered)
        BY <2>1, <2>2, <2>4, <2>12 DEF RecordsAgree
      <3>2. \A k \in On(tenantCfg) : k \in BuiltIn \cup registered
        BY <2>2, <2>12 DEF RecordsAgree
      <3>3. CASE v \in BuiltIn
        <4>1. v \notin NewViews /\ registered' = registered
          BY <2>4, <3>3, ViewsAreFeatures
        <4>2. saving'.view \in NewViews => SavingRight'
          BY <1>0, <2>7, <2>8, <4>1 DEF SavingRight
        <4>3. \A u \in NewViews : viewRoles'[u] # {} <=> u \in registered'
          BY <2>2, <3>1, <4>1
        <4> QED
          BY <2>2, <3>2, <4>1, <4>2, <4>3 DEF RecordsAgree, On
      <3>4. CASE v \notin BuiltIn
        <4>1. v \in NewViews
          BY <2>3, <3>4, ViewsAreFeatures
        <4>2. SavingRight
          BY <2>1, <2>12, <4>1 DEF RecordsAgree
        <4>3. /\ saving.op = "create" => v \notin registered /\ viewRoles[v] # {}
              /\ saving.op = "save" => v \in registered /\ viewRoles[v] # {}
              /\ saving.op = "delete" => v \in registered /\ viewRoles[v] = {}
          BY <2>1, <2>2, <4>2 DEF SavingRight
        <4>4. saving' = merging
          BY <2>3, <2>5, <2>6, <3>4, <4>3
        <4>5. SavingRight'
          BY <2>2, <2>3, <2>4, <2>7, <3>4, <4>3, <4>4 DEF SavingRight
        <4>6. \A u \in NewViews : u # saving'.view => (viewRoles'[u] # {} <=> u \in registered')
          BY <2>2, <2>7, <3>1, <4>4
        <4>7. \A k \in On(tenantCfg) : k \in BuiltIn \cup registered' \/ (saving'.pc = "merge" /\ saving'.op = "delete" /\ k = saving'.view)
          BY <2>3, <2>4, <2>7, <3>2, <4>4
        <4> QED
          BY <2>2, <2>7, <4>4, <4>5, <4>6, <4>7 DEF RecordsAgree, On
      <3> QED
        BY <3>3, <3>4
    <2> QED
      BY <1>0, <2>2, <2>10, <2>11, <2>12
  <1>8. CASE OverrideMerged
    <2>1. PICK v : v = saving.view
      OBVIOUS
    <2>2. /\ saving.pc = "merge" /\ saving' = NoSave
          /\ halfDone' = halfDone /\ template' = template /\ registered' = registered /\ roleCfg' = roleCfg /\ viewRoles' = viewRoles
      BY <1>8 DEF OverrideMerged
    <2>3. /\ v \in Views /\ v \in AllFeatures /\ tenantCfg \in [DOMAIN tenantCfg -> BOOLEAN] /\ DOMAIN tenantCfg \subseteq AllFeatures
          /\ saving.op \in {"create", "save", "delete"}
      BY <1>0, <2>1, <2>2, OverridesAre, ViewsAreFeatures DEF SavingShape, FeatTypeOK
    <2>4. CASE saving.op = "delete"
      <3>1. tenantCfg' = [k \in DOMAIN tenantCfg \ {v} |-> tenantCfg[k]]
        BY <1>8, <2>1, <2>4 DEF OverrideMerged
      <3>2. tenantCfg' \in [DOMAIN tenantCfg \ {v} -> BOOLEAN]
        BY <2>3, <3>1
      <3>3. DOMAIN tenantCfg \ {v} \in SUBSET AllFeatures
        BY <2>3
      <3>4. tenantCfg' \in Overrides
        BY <3>2, <3>3, OverridesAre
      <3>5. \A k \in On(tenantCfg') : k \in On(tenantCfg) /\ k # v
        BY <3>1 DEF On
      <3>6. RecordsAgree => RecordsAgree'
        <4> SUFFICES ASSUME RecordsAgree PROVE RecordsAgree'
          OBVIOUS
        <4>1. \A k \in On(tenantCfg') : k \in BuiltIn \cup registered
          BY <2>1, <3>5 DEF RecordsAgree
        <4>2. v \in NewViews => v \notin registered /\ viewRoles[v] = {}
          BY <2>1, <2>2, <2>4 DEF RecordsAgree, SavingRight
        <4>3. \A u \in NewViews : viewRoles[u] # {} <=> u \in registered
          BY <2>1, <4>2 DEF RecordsAgree
        <4>4. SavingRight'
          BY <1>0, <2>2 DEF SavingRight
        <4> QED
          BY <2>2, <4>1, <4>3, <4>4 DEF RecordsAgree, On
      <3>7. FeatTypeOK'
        BY <1>0, <2>2, <3>4 DEF FeatTypeOK
      <3>8. SavingShape'
        BY <1>0, <2>2 DEF SavingShape
      <3> QED
        BY <1>0, <2>2, <3>6, <3>7, <3>8
    <2>5. CASE saving.op # "delete"
      <3>1. tenantCfg' = [k \in DOMAIN tenantCfg \cup {v} |-> k = v \/ tenantCfg[k]]
        BY <1>8, <2>1, <2>5 DEF OverrideMerged
      <3>2. \A k \in DOMAIN tenantCfg \cup {v} : (k = v \/ tenantCfg[k]) \in BOOLEAN
        OBVIOUS
      <3>3. tenantCfg' \in [DOMAIN tenantCfg \cup {v} -> BOOLEAN]
        BY <3>1, <3>2
      <3>4. DOMAIN tenantCfg \cup {v} \in SUBSET AllFeatures
        BY <2>3
      <3>5. tenantCfg' \in Overrides
        BY <3>3, <3>4, OverridesAre
      <3>6. \A k \in On(tenantCfg') : k \in On(tenantCfg) \/ k = v
        BY <3>1 DEF On
      <3>7. RecordsAgree => RecordsAgree'
        <4> SUFFICES ASSUME RecordsAgree PROVE RecordsAgree'
          OBVIOUS
        <4>1. v \in NewViews => v \in registered /\ viewRoles[v] # {}
          BY <2>1, <2>2, <2>5 DEF RecordsAgree, SavingRight
        <4>2. v \in BuiltIn \cup registered
          BY <2>3, <4>1, ViewsAreFeatures
        <4>3. \A k \in On(tenantCfg') : k \in BuiltIn \cup registered
          BY <2>5, <3>6, <4>2 DEF RecordsAgree
        <4>4. \A u \in NewViews : viewRoles[u] # {} <=> u \in registered
          BY <2>1, <4>1 DEF RecordsAgree
        <4>5. SavingRight'
          BY <1>0, <2>2 DEF SavingRight
        <4> QED
          BY <2>2, <4>3, <4>4, <4>5 DEF RecordsAgree, On
      <3>8. FeatTypeOK'
        BY <1>0, <2>2, <3>5 DEF FeatTypeOK
      <3>9. SavingShape'
        BY <1>0, <2>2 DEF SavingShape
      <3> QED
        BY <1>0, <2>2, <3>7, <3>8, <3>9
    <2> QED
      BY <2>4, <2>5
  <1>9. CASE SaveBreaks
    <2>1. /\ saving' = NoSave /\ halfDone' = TRUE /\ template' = template /\ registered' = registered
          /\ tenantCfg' = tenantCfg /\ roleCfg' = roleCfg /\ viewRoles' = viewRoles
      BY <1>9 DEF SaveBreaks
    <2>2. FeatTypeOK'
      BY <1>0, <2>1 DEF FeatTypeOK
    <2>3. SavingShape'
      BY <1>0, <2>1 DEF SavingShape
    <2> QED
      BY <2>1, <2>2, <2>3
  <1>10. CASE UNCHANGED featVars
    BY <1>0, <1>10 DEF featVars, FeatTypeOK, SavingShape, RecordsAgree, SavingRight, On
  <1> QED
    BY <1>1, <1>2, <1>3, <1>4, <1>5, <1>6, <1>7, <1>8, <1>9, <1>10 DEF FeatNext

\* It says what a tenant's and a role's features are.
LEMMA FeatInvariantSound == FeatInvariant => ConfigurationSound
  <1> SUFFICES ASSUME FeatInvariant PROVE ConfigurationSound
    OBVIOUS
  <1>1. TenantLayers \in SUBSET AllFeatures
    <2>1. template \subseteq BuiltIn
      BY FeatureConfigAssumption DEF FeatInvariant, FeatTypeOK
    <2>2. On(tenantCfg) \subseteq AllFeatures
      BY OverridesAre DEF FeatInvariant, FeatTypeOK, On
    <2> QED
      BY <2>1, <2>2 DEF TenantLayers, AllFeatures
  <1>2. \A r \in FeatureRoles : RoleLayers(r) \in SUBSET TenantLayers /\ RoleLayers(r) \in SUBSET AllFeatures
    BY <1>1 DEF RoleLayers
  <1>3. \A r \in FeatureRoles : RoleFeatures(r) = UNION {keys \in SUBSET RoleLayers(r) : Closed(keys)}
    BY <1>2, CascadeIsLargest DEF RoleFeatures
  <1>4. ASSUME NEW roles \in RoleSets PROVE UserFeatures(roles) \subseteq TenantFeatures /\ Closed(UserFeatures(roles))
    <2>1. UserFeatures(roles) = UNION {RoleFeatures(r) : r \in roles} /\ roles \subseteq FeatureRoles
      BY DEF UserFeatures, RoleSets
    <2>2. \A r \in roles : RoleFeatures(r) \subseteq TenantFeatures /\ Closed(RoleFeatures(r))
      BY <1>1, <1>2, <2>1, CascadeMonotonic DEF RoleFeatures, TenantFeatures
    <2>3. UserFeatures(roles) \subseteq TenantFeatures
      BY <2>1, <2>2
    <2>4. Closed(UserFeatures(roles))
      <3> SUFFICES ASSUME NEW k \in UserFeatures(roles) \cap BuiltIn, NEW i \in DOMAIN Requires[k]
                   PROVE  Requires[k][i] \in UserFeatures(roles)
        BY DEF Closed
      <3>1. PICK r \in roles : k \in RoleFeatures(r)
        BY <2>1
      <3>2. Requires[k][i] \in RoleFeatures(r)
        BY <2>2, <3>1 DEF Closed
      <3> QED
        BY <2>1, <3>2
    <2> QED
      BY <2>3, <2>4
  <1>5. ASSUME saving = NoSave, ~halfDone
        PROVE  /\ \A v \in NewViews : viewRoles[v] # {} <=> v \in registered
               /\ TenantFeatures \subseteq BuiltIn \cup registered
    <2>1. saving.pc = "idle" /\ RecordsAgree
      BY <1>5 DEF NoSave, FeatInvariant
    <2>2. On(tenantCfg) \subseteq BuiltIn \cup registered
      BY <2>1 DEF RecordsAgree
    <2>3. TenantFeatures \subseteq TenantLayers
      BY DEF TenantFeatures, Cascade
    <2>4. template \subseteq BuiltIn
      BY FeatureConfigAssumption DEF FeatInvariant, FeatTypeOK
    <2> QED
      BY <2>1, <2>2, <2>3, <2>4 DEF RecordsAgree, TenantLayers
  <1> QED
    BY <1>3, <1>4, <1>5 DEF ConfigurationSound

\* The features of a tenant, and of each of its roles, are those its layers leave on, with everything they
\* require, for any registry whose entries form trees, any templates and overrides; views and their features
\* agree whenever no request of the administrator is under way or has broken off (features.ts, adminplatform.ts).
THEOREM ConfigurationSoundAlways == FeatSpec => []ConfigurationSound
  <1>1. FeatSpec => []FeatInvariant
    BY InitFeat, NextFeat, PTL DEF FeatSpec
  <1> QED
    BY <1>1, FeatInvariantSound, PTL

-----------------------------------------------------------------------------
(* Time series *)

\* A bounded set of numbers that is not empty has a greatest one.
LEMMA GreatestNumber ==
    ASSUME NEW bound \in Nat, NEW S \in SUBSET (0..bound), S # {}
    PROVE  \E m \in S : \A n \in S : n <= m
  <1> DEFINE T == {bound - n : n \in S}
  <1>1. T \in SUBSET Nat /\ T # {}
    <2>1. \A n \in S : bound - n \in Nat
      OBVIOUS
    <2> QED
      BY <2>1
  <1>2. PICK t \in T : \A u \in T : t <= u
    <2> HIDE DEF T
    <2> QED
      BY <1>1, LeastNumber
  <1>3. PICK m \in S : t = bound - m
    OBVIOUS
  <1>4. ASSUME NEW n \in S PROVE n <= m
    <2>1. bound - n \in T
      OBVIOUS
    <2>2. bound - m <= bound - n
      BY <1>2, <1>3, <2>1
    <2> QED
      BY <2>2
  <1> QED
    BY <1>4

LEMMA SeriesNumbers ==
    /\ LastDay \in Nat /\ Rolling \in Nat /\ Rolling >= 1 /\ MaxBatches \in Nat
    /\ SeriesDays \subseteq Nat /\ \A d \in SeriesDays : d >= 1 /\ d <= LastDay
  BY SeriesAssumption DEF SeriesDays

LEMMA LatestIs ==
    ASSUME NEW pts, With(pts) # {}
    PROVE  Latest(pts) \in With(pts) /\ \A e \in With(pts) : e <= Latest(pts)
  <1>1. With(pts) \in SUBSET (0..LastDay)
    BY SeriesNumbers DEF With, SeriesDays
  <1>2. \E d \in With(pts) : \A e \in With(pts) : e <= d
    BY <1>1, SeriesNumbers, GreatestNumber
  <1> QED
    BY <1>2 DEF Latest

LEMMA HighestIs ==
    ASSUME NEW numbers \in SUBSET Instants, numbers # {}
    PROVE  Highest(numbers) \in numbers /\ \A m \in numbers : m <= Highest(numbers)
  <1>1. \E n \in numbers : \A m \in numbers : m <= n
    BY SeriesNumbers, GreatestNumber DEF Instants
  <1> QED
    BY <1>1 DEF Highest

Covers(d, end) == d <= end /\ end < d + Rolling

LEMMA CoversItself == \A d \in SeriesDays : Covers(d, d)
  BY SeriesNumbers DEF Covers

\* Windows of two states of the points differ only by a day of theirs.
LEMMA WindowsDiffer ==
    ASSUME NEW p, NEW q, NEW end \in SeriesDays, InWindow(p, end) # InWindow(q, end)
    PROVE  \E d \in SeriesDays : p[d] # q[d] /\ Covers(d, end)
  <1> SUFFICES ASSUME \A d \in SeriesDays : Covers(d, end) => p[d] = q[d]
               PROVE  InWindow(p, end) = InWindow(q, end)
    OBVIOUS
  <1>1. \A d \in SeriesDays : d <= end /\ d + Rolling > end => Covers(d, end)
    BY SeriesNumbers DEF Covers
  <1>2. {e \in With(p) : e <= end /\ e + Rolling > end} = {e \in With(q) : e <= end /\ e + Rolling > end}
    BY <1>1 DEF With
  <1>3. \A d \in {e \in With(p) : e <= end /\ e + Rolling > end} : p[d] = q[d]
    BY <1>1 DEF With
  <1> QED
    BY <1>2, <1>3 DEF InWindow

\* A point the aggregation that reads from cut on will touch.
NewSince(pts, d, cut) == d \in With(pts) /\ (cut = 0 \/ pts[d].at > cut)

\* How far windows and snapshot may be behind: by what is fresh after cut, and by the ends still to be
\* computed; the object's window is due with that of its day.
Behind(pts, wins, snap, cut, ends, due) ==
    /\ \A end \in SeriesDays : wins[end] # {} /\ wins[end] # InWindow(pts, end) =>
          end \in ends \/ \E d \in SeriesDays : NewSince(pts, d, cut) /\ Covers(d, end)
    /\ \A d \in With(pts) : wins[d] = {} => d \in ends \/ NewSince(pts, d, cut)
    /\ With(pts) # {} /\ snap # InWindow(pts, Latest(pts)) =>
          due \in ends \/ \E d \in SeriesDays : NewSince(pts, d, cut) /\ Covers(d, Latest(pts))

\* What is upserted after cut is fresh.
LEMMA UpsertIsNew ==
    ASSUME NEW p, NEW q, NEW wins, NEW snap, NEW cut, NEW ends, NEW due,
           \A d \in SeriesDays : q[d] # p[d] => NewSince(q, d, cut), With(p) \subseteq With(q),
           Behind(p, wins, snap, cut, ends, due)
    PROVE  Behind(q, wins, snap, cut, ends, due)
  <1>1. \A d \in SeriesDays : NewSince(p, d, cut) => NewSince(q, d, cut)
    BY DEF NewSince
  <1>2. ASSUME NEW end \in SeriesDays, InWindow(p, end) # InWindow(q, end)
        PROVE  \E d \in SeriesDays : NewSince(q, d, cut) /\ Covers(d, end)
    BY <1>2, WindowsDiffer
  <1>3. \A end \in SeriesDays : wins[end] # {} /\ wins[end] # InWindow(q, end) =>
          end \in ends \/ \E d \in SeriesDays : NewSince(q, d, cut) /\ Covers(d, end)
    BY <1>1, <1>2 DEF Behind
  <1>4. \A d \in With(q) : wins[d] = {} => d \in ends \/ NewSince(q, d, cut)
    BY <1>1 DEF Behind, With
  <1>5. ASSUME With(q) # {}, snap # InWindow(q, Latest(q))
        PROVE  due \in ends \/ \E d \in SeriesDays : NewSince(q, d, cut) /\ Covers(d, Latest(q))
    <2>1. PICK last : last = Latest(q)
      OBVIOUS
    <2>2. last \in With(q) /\ last \in SeriesDays /\ \A e \in With(q) : e <= last
      BY <1>5, <2>1, LatestIs DEF With
    <2>3. CASE last \in With(p)
      <3>1. Latest(p) \in With(p) /\ \A e \in With(p) : e <= Latest(p)
        BY <2>3, LatestIs
      <3>2. Latest(p) = last
        <4>1. Latest(p) <= last /\ last <= Latest(p) /\ Latest(p) \in SeriesDays
          BY <2>2, <2>3, <3>1 DEF With
        <4>2. Latest(p) \in Nat /\ last \in Nat
          BY <2>2, <4>1, SeriesNumbers
        <4> QED
          BY <4>1, <4>2
      <3>3. CASE InWindow(p, last) = InWindow(q, last)
        BY <1>1, <1>5, <2>1, <2>3, <3>2, <3>3 DEF Behind
      <3>4. CASE InWindow(p, last) # InWindow(q, last)
        BY <1>2, <2>1, <2>2, <3>4
      <3> QED
        BY <3>3, <3>4
    <2>4. CASE last \notin With(p)
      <3>1. q[last] # p[last]
        BY <2>2, <2>4 DEF With
      <3>2. NewSince(q, last, cut) /\ Covers(last, last)
        BY <2>2, <3>1, CoversItself
      <3> QED
        BY <2>1, <2>2, <3>2
    <2> QED
      BY <2>3, <2>4
  <1> QED
    BY <1>3, <1>4, <1>5 DEF Behind

\* A window that is computed of points all, which are behind pts by what is fresh after cut.
LEMMA ComputedIsBehind ==
    ASSUME NEW pts, NEW all, NEW wins \in [SeriesDays -> Content], NEW snap, NEW cut, NEW ends, NEW due,
           \A d \in SeriesDays : pts[d] # all[d] => NewSince(pts, d, cut), With(all) \subseteq With(pts), With(all) # {},
           Behind(pts, wins, snap, cut, ends, due),
           NEW end \in SeriesDays, InWindow(all, end) # {},
           NEW news, news = snap \/ (end = Latest(all) /\ news = InWindow(all, end)),
           due \in ends /\ due = end => end = Latest(all) /\ news = InWindow(all, end)
    PROVE  Behind(pts, [wins EXCEPT ![end] = InWindow(all, end)], news, cut, ends \ {end}, due)
  <1>1. PICK after : after = [wins EXCEPT ![end] = InWindow(all, end)]
    OBVIOUS
  <1>2. after[end] = InWindow(all, end) /\ \A e \in SeriesDays : e # end => after[e] = wins[e]
    BY <1>1
  <1>3. ASSUME NEW e \in SeriesDays, InWindow(all, e) # InWindow(pts, e)
        PROVE  \E d \in SeriesDays : NewSince(pts, d, cut) /\ Covers(d, e)
    BY <1>3, WindowsDiffer
  <1>4. ASSUME NEW e \in SeriesDays, after[e] # {} /\ after[e] # InWindow(pts, e)
        PROVE  e \in ends \ {end} \/ \E d \in SeriesDays : NewSince(pts, d, cut) /\ Covers(d, e)
    BY <1>2, <1>3, <1>4 DEF Behind
  <1>5. \A d \in With(pts) : after[d] = {} => d \in ends \ {end} \/ NewSince(pts, d, cut)
    BY <1>2 DEF Behind, With
  <1>6. ASSUME With(pts) # {}, news # InWindow(pts, Latest(pts))
        PROVE  due \in ends \ {end} \/ \E d \in SeriesDays : NewSince(pts, d, cut) /\ Covers(d, Latest(pts))
    <2>1. PICK last : last = Latest(pts)
      OBVIOUS
    <2>2. last \in With(pts) /\ last \in SeriesDays /\ \A e \in With(pts) : e <= last
      BY <1>6, <2>1, LatestIs DEF With
    <2>3. CASE end = Latest(all) /\ news = InWindow(all, end)
      <3>1. Latest(all) \in With(all) /\ \A e \in With(all) : e <= Latest(all)
        BY LatestIs
      <3>2. CASE last \in With(all)
        <4>1. last = end
          <5>1. last <= end /\ end <= last
            BY <2>2, <2>3, <3>1, <3>2
          <5> QED
            BY <2>2, <5>1, SeriesNumbers
        <4> QED
          BY <1>3, <1>6, <2>1, <2>2, <2>3, <4>1
      <3>3. CASE last \notin With(all)
        <4>1. pts[last] # all[last]
          BY <2>2, <3>3 DEF With
        <4> QED
          BY <2>1, <2>2, <4>1, CoversItself
      <3> QED
        BY <3>2, <3>3
    <2>4. CASE ~(end = Latest(all) /\ news = InWindow(all, end))
      BY <1>6, <2>4 DEF Behind
    <2> QED
      BY <2>3, <2>4
  <1> QED
    BY <1>1, <1>4, <1>5, <1>6 DEF Behind

\* An instant is used by one batch at a time, and what has been read is older than what is being written.
WritesInOrder ==
    /\ \A d \in SeriesDays : points[d].at <= instant /\ (points[d].batch # 0 => points[d].at > 0)
    /\ lastRunAt <= instant /\ \A a \in Aggregators : aggs[a].since <= instant /\ aggs[a].seen <= instant
    /\ \A w \in Writers : writing[w].batch # 0 =>
        /\ writing[w].at = instant /\ lastRunAt < instant
        /\ \A d \in SeriesDays : points[d].at < instant
        /\ \A a \in Aggregators : aggs[a].seen < instant
        /\ \A v \in Writers : writing[v].batch # 0 => v = w

\* What an aggregation under way knows and has still to do.
AggregationKnows(a) ==
    LET g == aggs[a] IN
    /\ g.at = "spec" => g.since = lastRunAt
    /\ g.at \in {"touched", "windows"} =>
        /\ g.touched # {} /\ g.touched \subseteq With(points) /\ g.seen > 0 /\ g.seen >= lastRunAt
        /\ \A d \in SeriesDays : NewSince(points, d, lastRunAt) => d \in g.touched \/ points[d].at > g.seen
    /\ g.at = "windows" =>
        /\ \A d \in SeriesDays : points[d] # g.all[d] => NewSince(points, d, g.seen)
        /\ With(g.all) \subseteq With(points) /\ With(g.all) # {}
        /\ \A e \in g.ends : InWindow(g.all, e) # {} /\ \E d \in With(g.all) : e <= d
        /\ Latest(g.all) \in g.ends => g.had = snapshot
        /\ Behind(points, windows, snapshot, g.seen, g.ends, Latest(g.all))

\* No window ends after the last day with a point.
WindowsReach == \A e \in SeriesDays : windows[e] # {} => \E d \in With(points) : e <= d

SeriesInvariant ==
    /\ SeriesTypeOK /\ WritesInOrder /\ WindowsReach
    /\ Behind(points, windows, snapshot, lastRunAt, {}, 0)
    /\ \A a \in Aggregators : AggregationKnows(a)

\* Nothing has arrived and nothing is aggregated.
LEMMA InitSeries == SeriesInit => SeriesInvariant
  <1> SUFFICES ASSUME SeriesInit PROVE SeriesInvariant
    OBVIOUS
  <1>1. 0 \in 0..MaxBatches /\ NoPoint \in Point /\ NoWriting \in Writing
    BY SeriesNumbers DEF NoPoint, Point, NoWriting, Writing, Instants
  <1>2. NoAgg \in Agg /\ NoAgg.at = "idle" /\ NoAgg.since = 0 /\ NoAgg.seen = 0
    <2>1. [d \in SeriesDays |-> NoPoint] \in [SeriesDays -> Point] /\ {} \in Content
      BY <1>1 DEF Content
    <2> QED
      BY <1>1, <2>1 DEF NoAgg, Agg, Instants
  <1>3. SeriesTypeOK
    BY <1>1, <1>2 DEF SeriesInit, SeriesTypeOK, Instants, Content
  <1>4. With(points) = {}
    BY DEF SeriesInit, With, NoPoint
  <1>5. WritesInOrder
    BY <1>2 DEF SeriesInit, WritesInOrder, NoPoint, NoWriting
  <1>6. Behind(points, windows, snapshot, lastRunAt, {}, 0)
    BY <1>4 DEF SeriesInit, Behind
  <1>7. WindowsReach /\ \A a \in Aggregators : AggregationKnows(a)
    BY <1>2 DEF SeriesInit, WindowsReach, AggregationKnows
  <1> QED
    BY <1>3, <1>5, <1>6, <1>7 DEF SeriesInvariant

\* Without races every batch has an instant of its own.
LEMMA StampKeeps ==
    ASSUME ~WritersRace, SeriesInvariant, NEW w \in Writers, WriteStamps(w)
    PROVE  SeriesInvariant'
  <1>1. PICK days \in Batches, at \in {instant, instant + 1} \cap Instants :
            LET late == IF With(points) = {} THEN {} ELSE {d \in days : d + LateTolerance < Latest(points)} IN
            /\ batchCount < MaxBatches /\ (at = instant => WritersRace /\ instant > 0)
            /\ WritersRace \/ \A v \in Writers : writing[v].batch = 0
            /\ batchCount' = batchCount + 1 /\ instant' = at
            /\ lateRows' = lateRows \cup {<<d, batchCount + 1>> : d \in late}
            /\ writing' = [writing EXCEPT ![w] = [batch |-> batchCount + 1, days |-> days \ late, at |-> at]]
    BY DEF WriteStamps
  <1>2. points' = points /\ windows' = windows /\ snapshot' = snapshot /\ lastRunAt' = lastRunAt /\ aggs' = aggs
    BY DEF WriteStamps
  <1>3. SeriesTypeOK /\ WritesInOrder
    BY DEF SeriesInvariant
  <1>4. at = instant + 1 /\ instant \in Nat /\ at \in Instants /\ \A v \in Writers : writing[v].batch = 0
    BY <1>1, <1>3 DEF SeriesTypeOK, Instants
  <1>5. batchCount + 1 \in 1..MaxBatches /\ days \subseteq SeriesDays
    BY <1>1, <1>3, SeriesAssumption DEF SeriesTypeOK, SeriesDays
  <1>6. PICK late : late = IF With(points) = {} THEN {} ELSE {d \in days : d + LateTolerance < Latest(points)}
    OBVIOUS
  <1>7. late \subseteq days
    BY <1>6
  <1>8. PICK new : new = [batch |-> batchCount + 1, days |-> days \ late, at |-> at]
    OBVIOUS
  <1>9. new \in Writing /\ new.at = at
    BY <1>4, <1>5, <1>8 DEF Writing
  <1>10. writing' = [writing EXCEPT ![w] = new]
    BY <1>1, <1>6, <1>8
  <1>11. SeriesTypeOK'
    <2>1. lateRows' \in SUBSET (SeriesDays \X (1..MaxBatches))
      <3>1. lateRows' = lateRows \cup {<<d, batchCount + 1>> : d \in late}
        BY <1>1, <1>6
      <3>2. lateRows \subseteq SeriesDays \X (1..MaxBatches)
        BY <1>3 DEF SeriesTypeOK
      <3> QED
        BY <1>5, <1>7, <3>1, <3>2
    <2>2. writing' \in [Writers -> Writing]
      BY <1>3, <1>9, <1>10 DEF SeriesTypeOK
    <2>3. batchCount' \in 0..MaxBatches /\ instant' \in Instants
      BY <1>1, <1>4, <1>5
    <2> QED
      BY <1>2, <1>3, <2>1, <2>2, <2>3 DEF SeriesTypeOK
  <1>12. WritesInOrder'
    <2>1. \A v \in Writers : v # w => writing'[v].batch = 0
      BY <1>3, <1>4, <1>10 DEF SeriesTypeOK
    <2>2. writing'[w] = new
      BY <1>3, <1>10 DEF SeriesTypeOK
    <2>3. instant' = instant + 1
      BY <1>1, <1>4
    <2>4. \A d \in SeriesDays : points[d].at \in Nat /\ points[d].at < instant + 1
      BY <1>3, <1>4, SeriesNumbers DEF SeriesTypeOK, WritesInOrder, Point, Instants
    <2>5. lastRunAt \in Nat /\ lastRunAt < instant + 1
      BY <1>3, <1>4, SeriesNumbers DEF SeriesTypeOK, WritesInOrder, Instants
    <2>6. \A a \in Aggregators : aggs[a].since \in Nat /\ aggs[a].seen \in Nat /\ aggs[a].since < instant + 1 /\ aggs[a].seen < instant + 1
      BY <1>3, <1>4, SeriesNumbers DEF SeriesTypeOK, WritesInOrder, Agg, Instants
    <2>7. \A v \in Writers : writing'[v].batch # 0 => v = w
      BY <2>1
    <2>8. \A v \in Writers : writing'[v].batch # 0 => writing'[v].at = instant'
      BY <1>4, <1>9, <2>2, <2>3, <2>7
    <2> QED
      BY <1>2, <1>3, <1>4, <2>3, <2>4, <2>5, <2>6, <2>7, <2>8 DEF WritesInOrder
  <1>13. \A a \in Aggregators : AggregationKnows(a)'
    BY <1>2 DEF SeriesInvariant, AggregationKnows
  <1> QED
    BY <1>2, <1>11, <1>12, <1>13 DEF SeriesInvariant, WindowsReach

\* A stored batch is new to whatever has been read.
LEMMA UpsertKeeps ==
    ASSUME SeriesInvariant, NEW w \in Writers, WriteUpserts(w)
    PROVE  SeriesInvariant'
  <1>1. PICK b : b = writing[w]
    OBVIOUS
  <1>2. /\ b.batch # 0 /\ writing' = [writing EXCEPT ![w] = NoWriting]
        /\ points' = [d \in SeriesDays |-> IF d \in b.days THEN [batch |-> b.batch, at |-> b.at] ELSE points[d]]
    BY <1>1 DEF WriteUpserts
  <1>3. /\ lateRows' = lateRows /\ batchCount' = batchCount /\ instant' = instant /\ windows' = windows
        /\ snapshot' = snapshot /\ lastRunAt' = lastRunAt /\ aggs' = aggs
    BY DEF WriteUpserts
  <1>4. SeriesTypeOK /\ WritesInOrder /\ WindowsReach
    BY DEF SeriesInvariant
  <1>5. b \in Writing /\ b.at = instant /\ lastRunAt < instant /\ \A a \in Aggregators : aggs[a].seen < instant
    BY <1>1, <1>2, <1>4 DEF SeriesTypeOK, WritesInOrder
  <1>6. PICK q : q = points'
    OBVIOUS
  <1>7. PICK point : point = [batch |-> b.batch, at |-> b.at]
    OBVIOUS
  <1>8. point \in Point /\ point.batch # 0 /\ point.at = instant
    BY <1>2, <1>5, <1>7 DEF Point, Writing
  <1>9. \A d \in SeriesDays : q[d] = IF d \in b.days THEN point ELSE points[d]
    BY <1>2, <1>6, <1>7
  <1>10. q \in [SeriesDays -> Point]
    <2>1. points \in [SeriesDays -> Point]
      BY <1>4 DEF SeriesTypeOK
    <2>2. q = [d \in SeriesDays |-> IF d \in b.days THEN point ELSE points[d]]
      BY <1>2, <1>6, <1>7
    <2> QED
      BY <1>8, <2>1, <2>2
  <1>11. NoWriting \in Writing /\ NoWriting.batch = 0
    BY SeriesNumbers DEF NoWriting, Writing, Instants
  <1>12. SeriesTypeOK'
    BY <1>2, <1>3, <1>4, <1>6, <1>10, <1>11 DEF SeriesTypeOK
  <1>13. With(points) \subseteq With(q)
    BY <1>8, <1>9 DEF With
  <1>14. instant \in Nat /\ instant > 0
    <2>1. instant \in Nat /\ lastRunAt \in Nat
      BY <1>4, SeriesNumbers DEF SeriesTypeOK, Instants
    <2> QED
      BY <1>5, <2>1
  <1>15. ASSUME NEW cut, cut < instant
         PROVE  \A d \in SeriesDays : q[d] # points[d] => NewSince(q, d, cut)
    BY <1>8, <1>9, <1>15 DEF NewSince, With
  <1>16. WritesInOrder'
    <2>1. \A v \in Writers : writing'[v].batch # 0 => v # w /\ writing[v].batch # 0
      BY <1>2, <1>4, <1>11 DEF SeriesTypeOK
    <2>2. \A v \in Writers : writing'[v].batch = 0
      BY <1>1, <1>2, <1>4, <2>1 DEF WritesInOrder
    <2>3. \A d \in SeriesDays : q[d].at <= instant /\ (q[d].batch # 0 => q[d].at > 0)
      BY <1>4, <1>8, <1>9, <1>14 DEF WritesInOrder
    <2> QED
      BY <1>3, <1>4, <1>6, <2>2, <2>3 DEF WritesInOrder
  <1>17. WindowsReach'
    BY <1>3, <1>4, <1>6, <1>13 DEF WindowsReach
  <1>18. Behind(q, windows, snapshot, lastRunAt, {}, 0)
    BY <1>5, <1>13, <1>15, UpsertIsNew DEF SeriesInvariant
  <1>19. ASSUME NEW a \in Aggregators PROVE AggregationKnows(a)'
    <2>1. PICK g : g = aggs[a]
      OBVIOUS
    <2>2. AggregationKnows(a) /\ g.seen < instant /\ aggs'[a] = g
      BY <1>3, <1>5, <2>1 DEF SeriesInvariant
    <2>3. g.at = "spec" => g.since = lastRunAt
      BY <2>1, <2>2 DEF AggregationKnows
    <2>4. ASSUME g.at \in {"touched", "windows"}
          PROVE  /\ g.touched # {} /\ g.touched \subseteq With(q) /\ g.seen > 0 /\ g.seen >= lastRunAt
                 /\ \A d \in SeriesDays : NewSince(q, d, lastRunAt) => d \in g.touched \/ q[d].at > g.seen
      <3>1. /\ g.touched # {} /\ g.touched \subseteq With(points) /\ g.seen > 0 /\ g.seen >= lastRunAt
            /\ \A d \in SeriesDays : NewSince(points, d, lastRunAt) => d \in g.touched \/ points[d].at > g.seen
        BY <2>1, <2>2, <2>4 DEF AggregationKnows
      <3>2. ASSUME NEW d \in SeriesDays, NewSince(q, d, lastRunAt) PROVE d \in g.touched \/ q[d].at > g.seen
        <4>1. CASE d \in b.days
          BY <1>8, <1>9, <1>14, <2>2, <4>1
        <4>2. CASE d \notin b.days
          <5>1. q[d] = points[d] /\ NewSince(points, d, lastRunAt)
            BY <1>9, <3>2, <4>2 DEF NewSince, With
          <5> QED
            BY <3>1, <5>1
        <4> QED
          BY <4>1, <4>2
      <3> QED
        BY <1>13, <3>1, <3>2
    <2>5. ASSUME g.at = "windows"
          PROVE  /\ \A d \in SeriesDays : q[d] # g.all[d] => NewSince(q, d, g.seen)
                 /\ With(g.all) \subseteq With(q) /\ With(g.all) # {}
                 /\ \A e \in g.ends : InWindow(g.all, e) # {} /\ \E d \in With(g.all) : e <= d
                 /\ Latest(g.all) \in g.ends => g.had = snapshot
                 /\ Behind(q, windows, snapshot, g.seen, g.ends, Latest(g.all))
      <3>1. /\ \A d \in SeriesDays : points[d] # g.all[d] => NewSince(points, d, g.seen)
            /\ With(g.all) \subseteq With(points) /\ With(g.all) # {}
            /\ \A e \in g.ends : InWindow(g.all, e) # {} /\ \E d \in With(g.all) : e <= d
            /\ Latest(g.all) \in g.ends => g.had = snapshot
            /\ Behind(points, windows, snapshot, g.seen, g.ends, Latest(g.all))
        BY <2>1, <2>2, <2>5 DEF AggregationKnows
      <3>2. Behind(q, windows, snapshot, g.seen, g.ends, Latest(g.all))
        BY <1>13, <1>15, <2>2, <3>1, UpsertIsNew
      <3>3. ASSUME NEW d \in SeriesDays, q[d] # g.all[d] PROVE NewSince(q, d, g.seen)
        <4>1. CASE q[d] = points[d]
          BY <3>1, <3>3, <4>1 DEF NewSince, With
        <4>2. CASE q[d] # points[d]
          BY <1>15, <2>2, <4>2
        <4> QED
          BY <4>1, <4>2
      <3> QED
        BY <1>13, <3>1, <3>2, <3>3
    <2> QED
      BY <1>3, <1>6, <2>2, <2>3, <2>4, <2>5 DEF AggregationKnows
  <1> QED
    BY <1>3, <1>6, <1>12, <1>16, <1>17, <1>18, <1>19 DEF SeriesInvariant

\* A write that fails half-way leaves points without a window, and they stay newer than lastRunAt.
LEMMA LossKeeps ==
    ASSUME SeriesInvariant, NEW w \in Writers, BatchLost(w)
    PROVE  SeriesInvariant'
  <1>1. /\ writing' = [writing EXCEPT ![w] = NoWriting]
        /\ points' = points /\ lateRows' = lateRows /\ batchCount' = batchCount /\ instant' = instant /\ windows' = windows
        /\ snapshot' = snapshot /\ lastRunAt' = lastRunAt /\ aggs' = aggs
    BY DEF BatchLost
  <1>2. NoWriting \in Writing /\ NoWriting.batch = 0
    BY SeriesNumbers DEF NoWriting, Writing, Instants
  <1>3. SeriesTypeOK'
    BY <1>1, <1>2 DEF SeriesInvariant, SeriesTypeOK
  <1>4. \A v \in Writers : writing'[v].batch # 0 => v # w /\ writing'[v] = writing[v]
    BY <1>1, <1>2 DEF SeriesInvariant, SeriesTypeOK
  <1>5. WritesInOrder'
    BY <1>1, <1>4 DEF SeriesInvariant, WritesInOrder
  <1>6. \A a \in Aggregators : AggregationKnows(a)'
    BY <1>1 DEF SeriesInvariant, AggregationKnows
  <1> QED
    BY <1>1, <1>3, <1>5, <1>6 DEF SeriesInvariant, WindowsReach

LEMMA NoAggType == NoAgg \in Agg /\ NoAgg.at = "idle" /\ NoAgg.since = 0 /\ NoAgg.seen = 0
  <1>1. 0 \in 0..MaxBatches /\ NoPoint \in Point
    BY SeriesNumbers DEF NoPoint, Point, Instants
  <1>2. [d \in SeriesDays |-> NoPoint] \in [SeriesDays -> Point] /\ {} \in Content
    BY <1>1 DEF Content
  <1> QED
    BY <1>1, <1>2 DEF NoAgg, Agg, Instants

\* A step of the aggregation that only goes on in its own record.
LEMMA AggregatorGoesOn ==
    ASSUME OneAggregator, SeriesInvariant, NEW a \in Aggregators, NEW g \in Agg,
           aggs' = [aggs EXCEPT ![a] = g], AggregationKnows(a)',
           g.since <= instant, g.seen <= instant, \A w \in Writers : writing[w].batch # 0 => g.seen < instant,
           UNCHANGED <<points, lateRows, writing, batchCount, instant, windows, snapshot, lastRunAt>>
    PROVE  SeriesInvariant'
  <1>1. aggs' \in [Aggregators -> Agg] /\ aggs'[a] = g /\ \A b \in Aggregators : b = a
    BY DEF SeriesInvariant, SeriesTypeOK, OneAggregator
  <1>2. SeriesTypeOK'
    BY <1>1 DEF SeriesInvariant, SeriesTypeOK
  <1>3. WritesInOrder'
    BY <1>1 DEF SeriesInvariant, WritesInOrder
  <1>4. \A b \in Aggregators : AggregationKnows(b)'
    BY <1>1
  <1> QED
    BY <1>2, <1>3, <1>4 DEF SeriesInvariant, WindowsReach

LEMMA NumbersOfAgg ==
    ASSUME SeriesInvariant
    PROVE  /\ instant \in Nat /\ lastRunAt \in Nat /\ lastRunAt <= instant /\ 0 <= instant
           /\ \A a \in Aggregators : aggs[a] \in Agg /\ aggs[a].since \in Nat /\ aggs[a].seen \in Nat
           /\ \A d \in SeriesDays : points[d] \in Point /\ points[d].at \in Nat
           /\ \A w \in Writers : writing[w].batch # 0 => 0 < instant
  <1>1. instant \in Nat /\ lastRunAt \in Nat /\ lastRunAt <= instant
    BY SeriesNumbers DEF SeriesInvariant, SeriesTypeOK, WritesInOrder, Instants
  <1>2. \A a \in Aggregators : aggs[a] \in Agg /\ aggs[a].since \in Nat /\ aggs[a].seen \in Nat
    BY SeriesNumbers DEF SeriesInvariant, SeriesTypeOK, Agg, Instants
  <1>3. \A d \in SeriesDays : points[d] \in Point /\ points[d].at \in Nat
    BY SeriesNumbers DEF SeriesInvariant, SeriesTypeOK, Point, Instants
  <1>4. \A w \in Writers : writing[w].batch # 0 => lastRunAt < instant
    BY DEF SeriesInvariant, WritesInOrder
  <1> QED
    BY <1>1, <1>2, <1>3, <1>4

\* Without an aggregation under way there is nothing it must know.
LEMMA IdleKeeps ==
    ASSUME OneAggregator, SeriesInvariant, NEW a \in Aggregators, aggs' = [aggs EXCEPT ![a] = NoAgg],
           UNCHANGED <<points, lateRows, writing, batchCount, instant, windows, snapshot, lastRunAt>>
    PROVE  SeriesInvariant'
  <1>1. aggs'[a] = NoAgg
    BY DEF SeriesInvariant, SeriesTypeOK
  <1>2. AggregationKnows(a)'
    BY <1>1, NoAggType DEF AggregationKnows
  <1> QED
    BY <1>2, NoAggType, NumbersOfAgg, AggregatorGoesOn

LEMMA ReadsSpecKeeps ==
    ASSUME OneAggregator, SeriesInvariant, NEW a \in Aggregators, AggReadsSpec(a)
    PROVE  SeriesInvariant'
  <1>1. PICK g : g = [NoAgg EXCEPT !.at = "spec", !.since = lastRunAt]
    OBVIOUS
  <1>2. aggs' = [aggs EXCEPT ![a] = g] /\ UNCHANGED <<points, lateRows, writing, batchCount, instant, windows, snapshot, lastRunAt>>
    BY <1>1 DEF AggReadsSpec
  <1>3. lastRunAt \in Instants
    BY DEF SeriesInvariant, SeriesTypeOK
  <1>4. g \in Agg /\ g.at = "spec" /\ g.since = lastRunAt /\ g.seen = 0
    BY <1>1, <1>3, NoAggType DEF Agg
  <1>5. aggs'[a] = g
    BY <1>2 DEF SeriesInvariant, SeriesTypeOK
  <1>6. AggregationKnows(a)'
    BY <1>2, <1>4, <1>5 DEF AggregationKnows
  <1> QED
    BY <1>2, <1>4, <1>6, NumbersOfAgg, AggregatorGoesOn

\* An incremental aggregation takes the days that points since lastRunAt touch.
LEMMA ReadsTouchedKeeps ==
    ASSUME OneAggregator, SeriesInvariant, NEW a \in Aggregators, AggReadsTouched(a)
    PROVE  SeriesInvariant'
  <1>1. PICK since : since = aggs[a].since
    OBVIOUS
  <1>2. PICK touched : touched = {d \in With(points) : since = 0 \/ points[d].at > since}
    OBVIOUS
  <1>3. PICK read : read = {since} \cup {points[d].at : d \in touched}
    OBVIOUS
  <1>4. PICK g : g = [aggs[a] EXCEPT !.at = "touched", !.touched = touched, !.seen = Highest(read)]
    OBVIOUS
  <1>5. /\ aggs[a].at = "spec"
        /\ UNCHANGED <<points, lateRows, writing, batchCount, instant, windows, snapshot, lastRunAt>>
    BY DEF AggReadsTouched
  <1>6. aggs' = [aggs EXCEPT ![a] = IF touched = {} THEN NoAgg ELSE g]
    BY <1>1, <1>2, <1>3, <1>4 DEF AggReadsTouched
  <1>7. CASE touched = {}
    <2>1. aggs' = [aggs EXCEPT ![a] = NoAgg]
      BY <1>6, <1>7
    <2> QED
      BY <1>5, <2>1, IdleKeeps
  <1>8. CASE touched # {}
    <2>1. aggs' = [aggs EXCEPT ![a] = g]
      BY <1>6, <1>8
    <2>2. since = lastRunAt
      BY <1>1, <1>5 DEF SeriesInvariant, AggregationKnows
    <2>3. touched \subseteq SeriesDays /\ touched \subseteq With(points)
      BY <1>2 DEF With
    <2>4. read \in SUBSET Instants /\ read # {}
      <3>1. \A d \in SeriesDays : points[d].at \in Instants
        BY DEF SeriesInvariant, SeriesTypeOK, Point
      <3>2. since \in Instants
        BY <2>2 DEF SeriesInvariant, SeriesTypeOK
      <3> QED
        BY <1>3, <2>3, <3>1, <3>2
    <2>5. PICK seen : seen = Highest(read)
      OBVIOUS
    <2>6. seen \in read /\ seen \in Instants /\ \A n \in read : n <= seen
      BY <2>4, <2>5, HighestIs
    <2>7. seen >= lastRunAt
      <3>1. lastRunAt <= seen
        BY <1>3, <2>2, <2>6
      <3>2. seen \in Nat /\ lastRunAt \in Nat
        BY <2>6, NumbersOfAgg, SeriesNumbers DEF Instants
      <3> QED
        BY <3>1, <3>2
    <2>8. seen > 0
      <3>1. PICK d \in touched : TRUE
        BY <1>8
      <3>2. points[d].at > 0 /\ points[d].at \in Nat
        BY <2>3, <3>1, NumbersOfAgg DEF With, SeriesInvariant, WritesInOrder
      <3>3. points[d].at <= seen
        BY <1>3, <2>6, <3>1
      <3>4. seen \in Nat
        BY <2>6, SeriesNumbers DEF Instants
      <3> QED
        BY <3>2, <3>3, <3>4
    <2>9. g \in Agg /\ g.at = "touched" /\ g.touched = touched /\ g.seen = seen /\ g.since = since
      <3>1. aggs[a] \in Agg
        BY DEF SeriesInvariant, SeriesTypeOK
      <3> QED
        BY <1>1, <1>4, <2>3, <2>5, <2>6, <3>1 DEF Agg
    <2>10. seen <= instant /\ since <= instant /\ \A w \in Writers : writing[w].batch # 0 => seen < instant
      <3>1. \A d \in SeriesDays : points[d].at <= instant
        BY DEF SeriesInvariant, WritesInOrder
      <3>2. seen <= instant
        BY <1>3, <2>2, <2>3, <2>6, <3>1, NumbersOfAgg
      <3>3. ASSUME NEW w \in Writers, writing[w].batch # 0 PROVE seen < instant
        <4>1. lastRunAt < instant /\ \A d \in SeriesDays : points[d].at < instant
          BY <3>3 DEF SeriesInvariant, WritesInOrder
        <4> QED
          BY <1>3, <2>2, <2>3, <2>6, <4>1
      <3> QED
        BY <2>2, <3>2, <3>3, NumbersOfAgg
    <2>11. \A d \in SeriesDays : NewSince(points, d, lastRunAt) => d \in touched
      BY <1>2, <2>2 DEF NewSince
    <2>12. aggs'[a] = g
      BY <2>1 DEF SeriesInvariant, SeriesTypeOK
    <2>13. AggregationKnows(a)'
      BY <1>5, <1>8, <2>3, <2>7, <2>8, <2>9, <2>11, <2>12 DEF AggregationKnows
    <2> QED
      BY <1>5, <2>1, <2>9, <2>10, <2>13, AggregatorGoesOn
  <1> QED
    BY <1>7, <1>8

\* It reads all points of those days and of the days before that their windows cover.
LEMMA ReadsAllKeeps ==
    ASSUME OneAggregator, SeriesInvariant, NEW a \in Aggregators, AggReadsAll(a)
    PROVE  SeriesInvariant'
  <1>1. PICK last : last = Latest(points)
    OBVIOUS
  <1>2. PICK touched : touched = aggs[a].touched
    OBVIOUS
  <1>3. PICK seen : seen = aggs[a].seen
    OBVIOUS
  <1>4. PICK ends : ends = UNION {EndsTouched(d, last) : d \in touched}
    OBVIOUS
  <1>5. PICK g : g = [aggs[a] EXCEPT !.at = "windows", !.all = points, !.had = snapshot, !.ends = ends]
    OBVIOUS
  <1>6. /\ aggs[a].at = "touched"
        /\ UNCHANGED <<points, lateRows, writing, batchCount, instant, windows, snapshot, lastRunAt>>
    BY DEF AggReadsAll
  <1>7. aggs' = [aggs EXCEPT ![a] = g]
    <2>1. aggs' = [aggs EXCEPT ![a].at = "windows", ![a].all = points, ![a].had = snapshot, ![a].ends = ends]
      BY <1>1, <1>2, <1>4 DEF AggReadsAll
    <2>2. aggs \in [Aggregators -> Agg]
      BY DEF SeriesInvariant, SeriesTypeOK
    <2>3. aggs[a] \in Agg
      BY <2>2
    <2> QED
      BY <1>5, <2>1, <2>2, <2>3 DEF Agg
  <1>8. /\ touched # {} /\ touched \subseteq With(points) /\ seen > 0 /\ seen >= lastRunAt
        /\ \A d \in SeriesDays : NewSince(points, d, lastRunAt) => d \in touched \/ points[d].at > seen
    BY <1>2, <1>3, <1>6 DEF SeriesInvariant, AggregationKnows
  <1>9. touched \subseteq SeriesDays
    BY <1>8 DEF With
  <1>10. last \in With(points) /\ last \in SeriesDays /\ last \in Nat /\ \A e \in With(points) : e <= last
    <2>1. With(points) # {}
      BY <1>8
    <2>2. last \in With(points) /\ \A e \in With(points) : e <= last
      BY <1>1, <2>1, LatestIs
    <2>3. last \in SeriesDays
      BY <2>2 DEF With
    <2> QED
      BY <2>2, <2>3, SeriesNumbers
  <1>11. \A e : e \in ends <=> \E d \in touched : e \in Nat /\ d <= e /\ e < d + Rolling /\ e >= 1 /\ e <= last
    <2>1. \A d \in touched : d \in Nat
      BY <1>9, SeriesNumbers
    <2>2. \A d \in touched : \A e : e \in EndsTouched(d, last) <=> e \in Nat /\ d <= e /\ e < d + Rolling /\ e >= 1 /\ e <= last
      BY <1>10, <2>1, SeriesNumbers DEF EndsTouched
    <2> QED
      BY <1>4, <2>2
  <1>12. ends \subseteq SeriesDays
    BY <1>10, <1>11, SeriesNumbers DEF SeriesDays
  <1>13. \A e \in ends : InWindow(points, e) # {} /\ \E d \in With(points) : e <= d
    <2> SUFFICES ASSUME NEW e \in ends PROVE InWindow(points, e) # {} /\ \E d \in With(points) : e <= d
      OBVIOUS
    <2>1. PICK d \in touched : e \in Nat /\ d <= e /\ e < d + Rolling /\ e <= last
      BY <1>11
    <2>2. d \in Nat /\ d \in With(points) /\ d + Rolling > e
      BY <1>8, <1>9, <2>1, SeriesNumbers
    <2>3. <<d, points[d].batch>> \in InWindow(points, e)
      BY <2>1, <2>2 DEF InWindow
    <2> QED
      BY <1>10, <2>1, <2>3
  <1>14. \A d \in touched : \A e \in SeriesDays : Covers(d, e) /\ e <= last => e \in ends
    BY <1>9, <1>11, SeriesNumbers DEF Covers
  <1>15. \A d \in SeriesDays : NewSince(points, d, lastRunAt) => d \in touched \/ NewSince(points, d, seen)
    BY <1>8 DEF NewSince
  <1>16. Behind(points, windows, snapshot, lastRunAt, {}, 0)
    BY DEF SeriesInvariant
  <1>17. \A e \in SeriesDays : windows[e] # {} => e <= last
    <2> SUFFICES ASSUME NEW e \in SeriesDays, windows[e] # {} PROVE e <= last
      OBVIOUS
    <2>1. PICK d \in With(points) : e <= d
      BY DEF SeriesInvariant, WindowsReach
    <2>2. d <= last /\ d \in Nat /\ e \in Nat
      BY <1>10, SeriesNumbers DEF With
    <2> QED
      BY <1>10, <2>1, <2>2
  <1>18. Behind(points, windows, snapshot, seen, ends, last)
    <2>1. ASSUME NEW e \in SeriesDays, windows[e] # {} /\ windows[e] # InWindow(points, e)
          PROVE  e \in ends \/ \E d \in SeriesDays : NewSince(points, d, seen) /\ Covers(d, e)
      <3>1. PICK d \in SeriesDays : NewSince(points, d, lastRunAt) /\ Covers(d, e)
        BY <1>16, <2>1 DEF Behind
      <3> QED
        BY <1>14, <1>15, <1>17, <2>1, <3>1
    <2>2. ASSUME NEW d \in With(points), windows[d] = {} PROVE d \in ends \/ NewSince(points, d, seen)
      <3>1. NewSince(points, d, lastRunAt) /\ d \in SeriesDays /\ d <= last /\ Covers(d, d)
        BY <1>10, <1>16, <2>2, CoversItself DEF Behind, With
      <3> QED
        BY <1>14, <1>15, <3>1
    <2>3. ASSUME snapshot # InWindow(points, last)
          PROVE  last \in ends \/ \E d \in SeriesDays : NewSince(points, d, seen) /\ Covers(d, last)
      <3>1. PICK d \in SeriesDays : NewSince(points, d, lastRunAt) /\ Covers(d, last)
        BY <1>1, <1>10, <1>16, <2>3 DEF Behind
      <3>2. last <= last
        BY <1>10
      <3> QED
        BY <1>10, <1>14, <1>15, <3>1, <3>2
    <2> QED
      BY <1>1, <2>1, <2>2, <2>3 DEF Behind
  <1>19. g \in Agg /\ g.at = "windows" /\ g.touched = touched /\ g.seen = seen /\ g.all = points /\ g.ends = ends /\ g.had = snapshot /\ g.since = aggs[a].since
    <2>1. aggs[a] \in Agg /\ points \in [SeriesDays -> Point] /\ snapshot \in Content
      BY DEF SeriesInvariant, SeriesTypeOK
    <2> QED
      BY <1>2, <1>3, <1>5, <1>12, <2>1 DEF Agg
  <1>20. aggs'[a] = g
    BY <1>7 DEF SeriesInvariant, SeriesTypeOK
  <1>21. AggregationKnows(a)'
    BY <1>1, <1>6, <1>8, <1>13, <1>18, <1>19, <1>20 DEF AggregationKnows
  <1>22. g.since <= instant /\ g.seen <= instant /\ \A w \in Writers : writing[w].batch # 0 => g.seen < instant
    BY <1>3, <1>19 DEF SeriesInvariant, WritesInOrder
  <1> QED
    BY <1>6, <1>7, <1>19, <1>21, <1>22, AggregatorGoesOn

\* The windows it computes are what the points it read give.
LEMMA ComputesKeeps ==
    ASSUME OneAggregator, SeriesInvariant, NEW a \in Aggregators, AggComputes(a)
    PROVE  SeriesInvariant'
  <1>1. PICK g : g = aggs[a]
    OBVIOUS
  <1>2. PICK end : end = CHOOSE e \in g.ends : \A f \in g.ends : e <= f
    OBVIOUS
  <1>3. PICK value : value = InWindow(g.all, end)
    OBVIOUS
  <1>4. /\ g.at = "windows" /\ g.ends # {}
        /\ windows' = [windows EXCEPT ![end] = value]
        /\ snapshot' = IF end = Latest(g.all) /\ g.had # value THEN value ELSE snapshot
        /\ aggs' = [aggs EXCEPT ![a].ends = @ \ {end}]
        /\ UNCHANGED <<points, lateRows, writing, batchCount, instant, lastRunAt>>
    BY <1>1, <1>2, <1>3 DEF AggComputes
  <1>5. SeriesTypeOK /\ g \in Agg /\ aggs \in [Aggregators -> Agg] /\ windows \in [SeriesDays -> Content] /\ snapshot \in Content
    BY <1>1 DEF SeriesInvariant, SeriesTypeOK
  <1>6. g.ends \subseteq SeriesDays /\ g.all \in [SeriesDays -> Point]
    BY <1>5 DEF Agg
  <1>7. end \in g.ends /\ end \in SeriesDays
    <2>1. g.ends \in SUBSET Nat
      BY <1>6, SeriesNumbers
    <2>2. \E e \in g.ends : \A f \in g.ends : e <= f
      BY <1>4, <2>1, LeastNumber
    <2> QED
      BY <1>2, <1>6, <2>2
  <1>8. /\ g.touched # {} /\ g.touched \subseteq With(points) /\ g.seen > 0 /\ g.seen >= lastRunAt
        /\ \A d \in SeriesDays : NewSince(points, d, lastRunAt) => d \in g.touched \/ points[d].at > g.seen
        /\ \A d \in SeriesDays : points[d] # g.all[d] => NewSince(points, d, g.seen)
        /\ With(g.all) \subseteq With(points) /\ With(g.all) # {}
        /\ \A e \in g.ends : InWindow(g.all, e) # {} /\ \E d \in With(g.all) : e <= d
        /\ Latest(g.all) \in g.ends => g.had = snapshot
        /\ Behind(points, windows, snapshot, g.seen, g.ends, Latest(g.all))
    BY <1>1, <1>4 DEF SeriesInvariant, AggregationKnows
  <1>9. value \in Content /\ value # {}
    <2>1. \A d \in With(g.all) : d \in SeriesDays /\ g.all[d].batch \in 1..MaxBatches
      BY <1>6, SeriesNumbers DEF With, Point
    <2>2. value \subseteq SeriesDays \X (1..MaxBatches)
      BY <1>3, <2>1 DEF InWindow
    <2> QED
      BY <1>3, <1>7, <1>8, <2>2 DEF Content
  <1>10. PICK next : next = [g EXCEPT !.ends = g.ends \ {end}]
    OBVIOUS
  <1>11. /\ next \in Agg /\ next.at = "windows" /\ next.touched = g.touched /\ next.seen = g.seen /\ next.all = g.all
         /\ next.ends = g.ends \ {end} /\ next.had = g.had /\ next.since = g.since
    BY <1>4, <1>5, <1>6, <1>10 DEF Agg
  <1>12. aggs' = [aggs EXCEPT ![a] = next] /\ aggs'[a] = next /\ aggs' \in [Aggregators -> Agg]
    <2>1. aggs' = [aggs EXCEPT ![a] = next]
      BY <1>1, <1>4, <1>5, <1>10 DEF Agg
    <2> QED
      BY <1>5, <1>11, <2>1
  <1>13. snapshot' = snapshot \/ (end = Latest(g.all) /\ snapshot' = value)
    BY <1>4
  <1>14. end = Latest(g.all) => snapshot' = value
    BY <1>4, <1>7, <1>8
  <1>15. \A d \in SeriesDays : points[d] # g.all[d] => NewSince(points, d, lastRunAt)
    <2> SUFFICES ASSUME NEW d \in SeriesDays, points[d] # g.all[d] PROVE NewSince(points, d, lastRunAt)
      OBVIOUS
    <2>1. d \in With(points) /\ (g.seen = 0 \/ points[d].at > g.seen)
      BY <1>8 DEF NewSince
    <2>2. points[d].at \in Nat /\ g.seen \in Nat /\ lastRunAt \in Nat
      BY <1>1, NumbersOfAgg
    <2>3. points[d].at > lastRunAt
      BY <1>8, <2>1, <2>2
    <2> QED
      BY <2>1, <2>3 DEF NewSince
  <1>16. Behind(points, windows', snapshot', lastRunAt, {}, 0)
    <2>1. Behind(points, windows, snapshot, lastRunAt, {}, Latest(g.all))
      BY DEF SeriesInvariant, Behind
    <2>2. Behind(points, [windows EXCEPT ![end] = InWindow(g.all, end)], snapshot', lastRunAt, {} \ {end}, Latest(g.all))
      BY <1>3, <1>5, <1>7, <1>8, <1>9, <1>13, <1>15, <2>1, ComputedIsBehind
    <2>3. {} \ {end} = {}
      OBVIOUS
    <2> QED
      BY <1>3, <1>4, <2>2, <2>3 DEF Behind
  <1>17. Behind(points, windows', snapshot', g.seen, g.ends \ {end}, Latest(g.all))
    <2>1. Latest(g.all) \in g.ends /\ Latest(g.all) = end => end = Latest(g.all) /\ snapshot' = InWindow(g.all, end)
      BY <1>3, <1>14
    <2>2. Behind(points, [windows EXCEPT ![end] = InWindow(g.all, end)], snapshot', g.seen, g.ends \ {end}, Latest(g.all))
      BY <1>3, <1>5, <1>7, <1>8, <1>9, <1>13, <2>1, ComputedIsBehind
    <2> QED
      BY <1>3, <1>4, <2>2
  <1>18. Latest(g.all) \in g.ends \ {end} => g.had = snapshot'
    BY <1>4, <1>8
  <1>19. AggregationKnows(a)'
    BY <1>4, <1>8, <1>11, <1>12, <1>17, <1>18 DEF AggregationKnows
  <1>20. \A b \in Aggregators : AggregationKnows(b)'
    BY <1>19 DEF OneAggregator
  <1>21. windows' \in [SeriesDays -> Content] /\ snapshot' \in Content
    BY <1>4, <1>5, <1>9
  <1>22. SeriesTypeOK'
    BY <1>4, <1>5, <1>12, <1>21 DEF SeriesTypeOK
  <1>23. WritesInOrder'
    <2>1. \A b \in Aggregators : aggs'[b].since = aggs[b].since /\ aggs'[b].seen = aggs[b].seen
      BY <1>1, <1>5, <1>11, <1>12
    <2> QED
      BY <1>4, <2>1 DEF SeriesInvariant, WritesInOrder
  <1>24. WindowsReach'
    <2>1. \A e \in SeriesDays : windows'[e] # {} => e = end \/ windows[e] # {}
      BY <1>4, <1>5
    <2>2. \E d \in With(points) : end <= d
      BY <1>7, <1>8
    <2> QED
      BY <1>4, <2>1, <2>2 DEF SeriesInvariant, WindowsReach
  <1> QED
    BY <1>4, <1>16, <1>20, <1>22, <1>23, <1>24 DEF SeriesInvariant

\* At its end nothing is behind but what was written since.
LEMMA EndsKeeps ==
    ASSUME OneAggregator, SeriesInvariant, NEW a \in Aggregators, AggEnds(a)
    PROVE  SeriesInvariant'
  <1>1. PICK g : g = aggs[a]
    OBVIOUS
  <1>2. /\ g.at = "windows" /\ g.ends = {} /\ lastRunAt' = g.seen /\ aggs' = [aggs EXCEPT ![a] = NoAgg]
        /\ UNCHANGED <<points, lateRows, writing, batchCount, instant, windows, snapshot>>
    BY <1>1 DEF AggEnds
  <1>3. Behind(points, windows, snapshot, g.seen, g.ends, Latest(g.all))
    BY <1>1, <1>2 DEF SeriesInvariant, AggregationKnows
  <1>5. Behind(points, windows, snapshot, g.seen, {}, 0)
    BY <1>2, <1>3 DEF Behind
  <1>6. aggs'[a] = NoAgg /\ aggs' \in [Aggregators -> Agg] /\ g \in Agg
    BY <1>1, <1>2, NoAggType DEF SeriesInvariant, SeriesTypeOK
  <1>7. SeriesTypeOK'
    BY <1>2, <1>6 DEF SeriesInvariant, SeriesTypeOK, Agg
  <1>8. \A b \in Aggregators : aggs'[b] = NoAgg
    BY <1>6 DEF OneAggregator
  <1>9. g.seen <= instant /\ \A w \in Writers : writing[w].batch # 0 => g.seen < instant
    BY <1>1 DEF SeriesInvariant, WritesInOrder
  <1>10. WritesInOrder'
    BY <1>2, <1>8, <1>9, NoAggType, NumbersOfAgg DEF SeriesInvariant, WritesInOrder
  <1>11. \A b \in Aggregators : AggregationKnows(b)'
    BY <1>8, NoAggType DEF AggregationKnows
  <1> QED
    BY <1>2, <1>5, <1>7, <1>10, <1>11 DEF SeriesInvariant, WindowsReach

\* When nothing is left to aggregate, no exception of the invariant applies.
LEMMA SeriesSuffices == SeriesInvariant => SeriesExact
  <1> SUFFICES ASSUME SeriesInvariant, UpToDate
               PROVE  /\ \A d \in SeriesDays : windows[d] # {} => windows[d] = InWindow(points, d)
                      /\ \A d \in With(points) : windows[d] # {}
                      /\ With(points) # {} => snapshot = InWindow(points, Latest(points))
    BY DEF SeriesExact
  <1>1. \A d \in SeriesDays : ~NewSince(points, d, lastRunAt)
    <2> SUFFICES ASSUME NEW d \in SeriesDays, NewSince(points, d, lastRunAt) PROVE FALSE
      OBVIOUS
    <2>1. d \in With(points) /\ points[d].at <= lastRunAt /\ points[d].at > 0
      BY DEF NewSince, UpToDate, With, SeriesInvariant, WritesInOrder
    <2>2. points[d].at \in Nat /\ lastRunAt \in Nat
      BY NumbersOfAgg
    <2> QED
      BY <2>1, <2>2 DEF NewSince
  <1>2. Behind(points, windows, snapshot, lastRunAt, {}, 0)
    BY DEF SeriesInvariant
  <1> QED
    BY <1>1, <1>2 DEF Behind, With

\* Every step of writers and of the one aggregation keeps the invariant.
LEMMA NextSeries ==
    ASSUME ~WritersRace, OneAggregator
    PROVE  SeriesInvariant /\ [SeriesNext]_seriesVars => SeriesInvariant'
  <1> SUFFICES ASSUME SeriesInvariant, [SeriesNext]_seriesVars PROVE SeriesInvariant'
    OBVIOUS
  <1>1. CASE UNCHANGED seriesVars
    <2>1. \A a \in Aggregators : AggregationKnows(a)'
      BY <1>1 DEF seriesVars, SeriesInvariant, AggregationKnows
    <2> QED
      BY <1>1, <2>1 DEF seriesVars, SeriesInvariant, SeriesTypeOK, WritesInOrder, WindowsReach
  <1>2. ASSUME NEW a \in Aggregators, AggBreaks(a) PROVE SeriesInvariant'
    BY <1>2, IdleKeeps DEF AggBreaks
  <1>3. CASE SeriesNext
    BY <1>2, <1>3, StampKeeps, UpsertKeeps, LossKeeps, ReadsSpecKeeps, ReadsTouchedKeeps, ReadsAllKeeps, ComputesKeeps,
       EndsKeeps DEF SeriesNext
  <1> QED
    BY <1>1, <1>3

\* When nothing is left to aggregate, the windows and the object's property are what the points give:
\* for any days, batches and windows, whatever arrives during an aggregation and wherever one breaks
\* off, if batches do not race and aggregations do not overlap.
THEOREM SeriesExactAlways ==
    ASSUME ~WritersRace, OneAggregator
    PROVE  SeriesSpec => []SeriesExact
  <1>1. SeriesInvariant /\ [SeriesNext]_seriesVars => SeriesInvariant'
    BY NextSeries
  <1>2. SeriesSpec => []SeriesInvariant
    BY <1>1, InitSeries, PTL DEF SeriesSpec
  <1> QED
    BY <1>2, SeriesSuffices, PTL

-----------------------------------------------------------------------------
(* Derived properties *)

CompiledSpecs == UNION {{Compiled(SpecBatches[i])[j] : j \in DOMAIN SpecBatches[i]} :
    i \in {k \in DOMAIN SpecBatches : /\ Sortable(Compiled(SpecBatches[k]))
                                      /\ \A j \in DOMAIN SpecBatches[k] : LinksKnown(SpecBatches[k][j].ast)}}

Linked(nav, o, x) ==
    \/ nav.direction = "out" /\ [key |-> nav.link, from |-> o, to |-> x] \in Links
    \/ nav.direction = "in" /\ [key |-> nav.link, from |-> x, to |-> o] \in Links

\* The definitions of the module, of specs ss.
At(ss, n) == ss[CHOOSE j \in DOMAIN ss : Node(ss[j]) = n /\ \A k \in DOMAIN ss : Node(ss[k]) = n => k <= j]
Holds(ss, n, o, objs, runs) ==
    /\ objs[o][n[2]] = Evaluate(At(ss, n).ast, o, objs)
    /\ <<o, n[2]>> \in DOMAIN runs
    /\ runs[<<o, n[2]>>].value = objs[o][n[2]]
    /\ Given(runs[<<o, n[2]>>].inputs) = Given(Inputs(At(ss, n), o, objs))

\* A node and an object it is to be computed for.
IsTarget(ss, n, o, objs) == n \in Nodes(ss) /\ o \in DOMAIN objs /\ TypeOf[o] = n[1] /\ HasInput(At(ss, n), o, objs)

\* A change of x may be one for o, by the links that a spec uses.
Reaches(s, o, x) == \E d \in s.deps : IF d.via = "own" THEN o = x ELSE Linked(Nav(d), o, x)
MarkedBy(ss, c, objs) ==
    {k \in Nodes(ss) \X DOMAIN objs :
        /\ c[3] \in DOMAIN objs /\ TypeOf[k[2]] = k[1][1]
        /\ \E j \in DOMAIN ss : /\ Node(ss[j]) = k[1] /\ Reaches(ss[j], k[2], c[3])
                                /\ \E d \in ss[j].deps : d.type = c[1] /\ d.prop \in {c[2], "*"}}
Owed(ss, changes, objs) == UNION {MarkedBy(ss, c, objs) : c \in changes}
Merged(old, new) == [k \in DOMAIN old \cup DOMAIN new |-> IF k \in DOMAIN new THEN new[k] ELSE old[k]]

ObjectsShaped ==
    /\ DOMAIN instances \subseteq ObjectIds /\ Seeded \subseteq DOMAIN instances
    /\ instances = [o \in DOMAIN instances |-> [p \in Props |-> instances[o][p]]]

\* As long as no target has been put, each is as it should be or a change that reaches it is still to be reported.
Pending == recompute.runs = <<>> =>
    \A n \in Nodes(specs), o \in DOMAIN instances : IsTarget(specs, n, o, instances) =>
        Holds(specs, n, o, instances, valueRuns) \/ <<n, o>> \in Owed(specs, toReport, instances)

\* What a recompute has before it: nothing that is left or being computed is read by what is done.
RunShaped ==
    /\ \A k \in recompute.dirty : k \in Nodes(specs) \X DOMAIN instances /\ TypeOf[k[2]] = k[1][1]
    /\ recompute # NoRecompute =>
        /\ recompute.index = instances
        /\ recompute.left \subseteq Nodes(specs)
        /\ recompute.todo # {} => recompute.node \in Nodes(specs) \ recompute.left
        /\ \A o \in recompute.todo : o \in DOMAIN instances /\ TypeOf[o] = recompute.node[1]
        /\ \A m \in Nodes(specs) \ recompute.left : \A n \in recompute.left \cup {recompute.node} : <<n, m>> \notin Before(specs)

\* During a recompute each target is as it should be, or still to come, or owed to another recompute.
RunUnderway == recompute # NoRecompute =>
    \A n \in Nodes(specs), o \in DOMAIN instances : IsTarget(specs, n, o, instances) =>
        \/ Holds(specs, n, o, instances, Merged(valueRuns, recompute.runs))
        \/ n \in recompute.left /\ <<n, o>> \in recompute.dirty
        \/ n = recompute.node /\ o \in recompute.todo
        \/ <<n, o>> \in Owed(specs, toReport \ recompute.changes, instances)

\* Records with the fields they have.
RunRecord ==
    recompute = [changes |-> recompute.changes, index |-> recompute.index, dirty |-> recompute.dirty, left |-> recompute.left,
                 node |-> recompute.node, todo |-> recompute.todo, runs |-> recompute.runs]

DerivationInvariant ==
    ObjectsShaped /\ specs \in Seq(CompiledSpecs) /\ RunRecord /\ Pending /\ RunShaped /\ RunUnderway

-----------------------------------------------------------------------------
-----------------------------------------------------------------------------
(* What a formula reads *)

Key(d) == <<d.type, d.prop, d.via>>

LEMMA ReadIs ==
    ASSUME NEW a, NEW type, NEW d \in Read(a, type)
    PROVE  \/ a.kind = "propref" /\ d = Dep(type, a.prop, Own)
           \/ /\ a.kind = "agg"
              /\ \E p \in {a.prop} \cup (IF a.where = <<>> THEN {} ELSE {a.where[1]}) : d = Dep(TypeAt(a.nav), p, a.nav)
  <1>1. CASE a.kind = "propref"
    BY <1>1 DEF Read
  <1>2. CASE a.kind = "agg"
    BY <1>2 DEF Read
  <1>3. CASE a.kind \notin {"propref", "agg"}
    BY <1>3 DEF Read
  <1> QED
    BY <1>1, <1>2, <1>3

LEMMA SameKeySameDep ==
    ASSUME LinksLeadElsewhere, NEW f, NEW type, LinksKnown(f), PlainFormula(f), NEW i \in DOMAIN f, NEW j \in DOMAIN f,
           NEW d \in Read(f[i], type), NEW e \in Read(f[j], type), Key(d) = Key(e)
    PROVE  d = e
  <1> DEFINE a == f[i]
             b == f[j]
  <1>1. "own" \notin DOMAIN LinkTypes
    BY DerivationAssumption
  <1>2. /\ a.kind = "agg" => a.nav.link \in DOMAIN LinkTypes /\ a.nav.direction \in {"in", "out"}
        /\ b.kind = "agg" => b.nav.link \in DOMAIN LinkTypes /\ b.nav.direction \in {"in", "out"}
    BY DEF LinksKnown, PlainFormula
  <1>3. d.type = e.type /\ d.prop = e.prop /\ d.via = e.via
    BY DEF Key
  <1>4. \/ a.kind = "propref" /\ d = Dep(type, a.prop, Own)
        \/ a.kind = "agg" /\ \E p : d = Dep(TypeAt(a.nav), p, a.nav)
    BY ReadIs
  <1>5. \/ b.kind = "propref" /\ e = Dep(type, b.prop, Own)
        \/ b.kind = "agg" /\ \E p : e = Dep(TypeAt(b.nav), p, b.nav)
    BY ReadIs
  <1> HIDE DEF a, b
  <1>6. CASE a.kind = "propref" /\ b.kind = "propref"
    BY <1>3, <1>4, <1>5, <1>6 DEF Dep, Own
  <1>7. CASE a.kind = "propref" /\ b.kind = "agg"
    BY <1>1, <1>2, <1>3, <1>4, <1>5, <1>7 DEF Dep, Own
  <1>8. CASE a.kind = "agg" /\ b.kind = "propref"
    BY <1>1, <1>2, <1>3, <1>4, <1>5, <1>8 DEF Dep, Own
  <1>9. CASE a.kind = "agg" /\ b.kind = "agg"
    <2>1. PICK p : d = Dep(TypeAt(a.nav), p, a.nav)
      BY <1>4, <1>9
    <2>2. PICK q : e = Dep(TypeAt(b.nav), q, b.nav)
      BY <1>5, <1>9
    <2>3. a.nav.link = b.nav.link /\ TypeAt(a.nav) = TypeAt(b.nav) /\ p = q
      BY <1>3, <2>1, <2>2 DEF Dep
    <2>4. LinkTypes[a.nav.link][1] # LinkTypes[a.nav.link][2]
      BY <1>2, <1>9 DEF LinksLeadElsewhere
    <2>5. a.nav.direction = b.nav.direction
      <3>1. CASE a.nav.direction = "out" /\ b.nav.direction = "in"
        BY <2>3, <2>4, <3>1 DEF TypeAt
      <3>2. CASE a.nav.direction = "in" /\ b.nav.direction = "out"
        BY <2>3, <2>4, <3>2 DEF TypeAt
      <3> QED
        BY <1>2, <1>9, <3>1, <3>2
    <2> QED
      BY <2>1, <2>2, <2>3, <2>5 DEF Dep
  <1> QED
    BY <1>4, <1>5, <1>6, <1>7, <1>8, <1>9

\* Every property that is read is among the dependencies: none is lost among those that agree with it.
LEMMA ReadsAreDeps ==
    ASSUME LinksLeadElsewhere, NEW f, NEW type, LinksKnown(f), PlainFormula(f), Len(f) \in Nat, DOMAIN f = 1..Len(f),
           NEW i \in DOMAIN f, NEW d \in Read(f[i], type)
    PROVE  d \in ExtractDeps(f, type)
  <1> DEFINE S == {j \in DOMAIN f : \E e \in Read(f[j], type) : Key(e) = Key(d)}
  <1>1. S \in SUBSET Nat /\ S # {}
    <2>1. i \in S
      OBVIOUS
    <2> QED
      BY <2>1
  <1>2. PICK m \in S : \A n \in S : m <= n
    <2> HIDE DEF S
    <2> QED
      BY <1>1, LeastNumber
  <1>3. m \in DOMAIN f
    OBVIOUS
  <1>4. PICK e \in Read(f[m], type) : Key(e) = Key(d)
    OBVIOUS
  <1>5. e = d
    BY <1>3, <1>4, SameKeySameDep
  <1>6. ASSUME NEW j \in 1..(m - 1), NEW g \in Read(f[j], type), Key(g) = Key(d) PROVE FALSE
    <2>1. j \in DOMAIN f /\ ~(m <= j)
      BY <1>3
    <2>2. j \in S
      BY <2>1, <1>6
    <2> QED
      BY <1>2, <2>1, <2>2
  <1> QED
    BY <1>3, <1>5, <1>6 DEF ExtractDeps, Key

\* Whatever a formula reads of an object, or navigates to, is a dependency of its spec.
LEMMA DepsAreRead ==
    ASSUME NEW f, NEW type, NEW d \in ExtractDeps(f, type)
    PROVE  \E i \in DOMAIN f : d \in Read(f[i], type)
  BY DEF ExtractDeps

-----------------------------------------------------------------------------
(* What a formula gives depends on what it reads *)

LEMMA NavigatedIs ==
    ASSUME NEW nav, NEW o, NEW objs, NEW x
    PROVE  x \in Navigated(nav, o, objs) <=> x \in DOMAIN objs /\ Linked(nav, o, x)
  BY DEF Navigated, Linked

Val(objs, x, p) == IF x \in DOMAIN objs THEN objs[x][p] ELSE Undef

\* Two states of the objects in which o and what it navigates to agree in dependency d.
AlikeFor(d, o, X, Y) ==
    IF d.via = "own" THEN X[o][d.prop] = Y[o][d.prop]
    ELSE \A x : Linked(Nav(d), o, x) =>
            IF d.prop = "*" THEN x \in DOMAIN X <=> x \in DOMAIN Y ELSE Val(X, x, d.prop) = Val(Y, x, d.prop)

LEMMA LiteralIs ==
    ASSUME NEW f, Literal(f), NEW o, NEW objs
    PROVE  Operand(f, o, objs) = f[1].value
  <1> DEFINE val == CHOOSE v : v = [i \in DOMAIN f |-> PlainValue(f[i], v, o, objs)]
             w == [i \in DOMAIN f |-> f[1].value]
  <1>1. \A v : PlainValue(f[1], v, o, objs) = f[1].value
    BY DEF PlainValue, Combined, Literal
  <1>2. \A v : [i \in DOMAIN f |-> PlainValue(f[i], v, o, objs)] = w
    BY <1>1 DEF Literal
  <1>3. w = [i \in DOMAIN f |-> PlainValue(f[i], w, o, objs)]
    BY <1>2
  <1>4. val = [i \in DOMAIN f |-> PlainValue(f[i], val, o, objs)]
    <2> HIDE DEF w
    <2> QED
      BY <1>3
  <1>5. val = w
    <2> HIDE DEF val
    <2> QED
      BY <1>2, <1>4
  <1>6. val[Len(f)] = f[1].value
    <2> HIDE DEF val
    <2> QED
      BY <1>5 DEF Literal
  <1> QED
    BY <1>6 DEF Operand

LEMMA ChosenAlike ==
    ASSUME NEW nav, nav.link # "own", NEW w \in Props, NEW f, Literal(f),
           NEW o, NEW X, NEW Y, AlikeFor(Dep(TypeAt(nav), w, nav), o, X, Y),
           NEW x \in Navigated(nav, o, X), x \in Navigated(nav, o, Y)
    PROVE  X[x][w] = Y[x][w] /\ Operand(f, o, X) = Operand(f, o, Y)
  <1> DEFINE d == Dep(TypeAt(nav), w, nav)
  <1>2. AlikeFor(d, o, X, Y)
    OBVIOUS
  <1>3. d.via # "own" /\ d.prop = w /\ Nav(d).link = nav.link /\ Nav(d).direction = nav.direction
    BY DEF Dep, Nav
  <1>4. Linked(Nav(d), o, x)
    <2>1. Linked(nav, o, x)
      BY NavigatedIs
    <2> QED
      BY <1>3, <2>1 DEF Linked
  <1>5. w # "*"
    BY DerivationAssumption DEF Props, Types
  <1>6. Val(X, x, w) = Val(Y, x, w)
    <2> HIDE DEF d
    <2> QED
      BY <1>2, <1>3, <1>4, <1>5 DEF AlikeFor
  <1>7. x \in DOMAIN X /\ x \in DOMAIN Y
    BY NavigatedIs
  <1>8. X[x][w] = Y[x][w]
    BY <1>6, <1>7 DEF Val
  <1>9. Operand(f, o, X) = Operand(f, o, Y)
    BY LiteralIs
  <1> QED
    BY <1>8, <1>9

\* An aggregate over objects that agree on what it reads of them has one value.
LEMMA AggregateAlike ==
    ASSUME NEW type, NEW a, a.kind = "agg", a.nav.link # "own", NEW o, NEW X, NEW Y,
           \A d \in Read(a, type) : AlikeFor(d, o, X, Y),
           IF a.fn = "COUNT" THEN a.prop = "*" ELSE a.prop \in Props,
           a.where = <<>> \/ (a.where[1] \in Props /\ Literal(a.where[2]))
    PROVE  AggregateValue(a, o, X) = AggregateValue(a, o, Y)
  <1> DEFINE Chosen(objs) ==
                {x \in Navigated(a.nav, o, objs) : a.where = <<>> \/ objs[x][a.where[1]] = Operand(a.where[2], o, objs)}
             Amounts(objs) == [x \in {y \in Chosen(objs) : IsNum(objs[y][a.prop])} |-> objs[x][a.prop][2]]
             d == Dep(TypeAt(a.nav), a.prop, a.nav)
  <1>1. AlikeFor(d, o, X, Y)
    <2>1. d \in Read(a, type)
      BY DEF Read
    <2> QED
      BY <2>1
  <1>2. d.via # "own" /\ d.prop = a.prop /\ Nav(d).link = a.nav.link /\ Nav(d).direction = a.nav.direction
    BY DEF Dep, Nav
  <1>3. \A x : Linked(Nav(d), o, x) <=> Linked(a.nav, o, x)
    <2> HIDE DEF d
    <2> QED
      BY <1>2 DEF Linked
  <1>4. \A x : Linked(a.nav, o, x) =>
            IF a.prop = "*" THEN x \in DOMAIN X <=> x \in DOMAIN Y ELSE Val(X, x, a.prop) = Val(Y, x, a.prop)
    <2> HIDE DEF d
    <2> QED
      BY <1>1, <1>2, <1>3 DEF AlikeFor
  <1>5. \A x : x \in Navigated(a.nav, o, X) /\ x \in Navigated(a.nav, o, Y) => (x \in Chosen(X) <=> x \in Chosen(Y))
    <2> SUFFICES ASSUME NEW x \in Navigated(a.nav, o, X), x \in Navigated(a.nav, o, Y)
                 PROVE  x \in Chosen(X) <=> x \in Chosen(Y)
      OBVIOUS
    <2>1. a.where = <<>> \/ (X[x][a.where[1]] = Y[x][a.where[1]] /\ Operand(a.where[2], o, X) = Operand(a.where[2], o, Y))
      <3> SUFFICES ASSUME a.where # <<>>
                   PROVE  X[x][a.where[1]] = Y[x][a.where[1]] /\ Operand(a.where[2], o, X) = Operand(a.where[2], o, Y)
        OBVIOUS
      <3>1. Dep(TypeAt(a.nav), a.where[1], a.nav) \in Read(a, type)
        BY DEF Read
      <3>2. PICK w : w = a.where[1]
        OBVIOUS
      <3>3. PICK f : f = a.where[2]
        OBVIOUS
      <3>4. w \in Props /\ Literal(f) /\ AlikeFor(Dep(TypeAt(a.nav), w, a.nav), o, X, Y)
        BY <3>1, <3>2, <3>3
      <3> HIDE DEF Chosen, Amounts, d
      <3>5. X[x][w] = Y[x][w] /\ Operand(f, o, X) = Operand(f, o, Y)
        BY <3>4, ChosenAlike
      <3> QED
        BY <3>2, <3>3, <3>5
    <2> QED
      BY <2>1
  <1>6. \A x : /\ x \in Navigated(a.nav, o, X) <=> x \in DOMAIN X /\ Linked(a.nav, o, x)
               /\ x \in Navigated(a.nav, o, Y) <=> x \in DOMAIN Y /\ Linked(a.nav, o, x)
    BY NavigatedIs
  <1>7. Chosen(X) \subseteq Navigated(a.nav, o, X) /\ Chosen(Y) \subseteq Navigated(a.nav, o, Y)
    OBVIOUS
  <1>8. CASE a.fn = "COUNT"
    <2>1. a.prop = "*"
      BY <1>8
    <2> HIDE DEF Chosen
    <2>2. Chosen(X) = Chosen(Y)
      BY <1>4, <1>5, <1>6, <1>7, <2>1
    <2> USE DEF Chosen
    <2>3. AggregateValue(a, o, X) = Num(Scale * Cardinality(Chosen(X)))
      BY <1>8 DEF AggregateValue
    <2>4. AggregateValue(a, o, Y) = Num(Scale * Cardinality(Chosen(Y)))
      BY <1>8 DEF AggregateValue
    <2> HIDE DEF Chosen
    <2> QED
      BY <2>2, <2>3, <2>4
  <1>9. CASE a.fn # "COUNT"
    <2>1. a.prop # "*"
      BY <1>9, DerivationAssumption DEF Props, Types
    <2> DEFINE CX == {y \in Chosen(X) : IsNum(X[y][a.prop])}
               CY == {y \in Chosen(Y) : IsNum(Y[y][a.prop])}
    <2> HIDE DEF Chosen
    <2>2. ~IsNum(Undef)
      BY DEF IsNum, Undef
    <2>3. \A x \in CX : x \in CY /\ X[x][a.prop] = Y[x][a.prop]
      <3> TAKE x \in CX
      <3>1. x \in DOMAIN X /\ Linked(a.nav, o, x) /\ IsNum(X[x][a.prop]) /\ x \in Chosen(X)
        BY <1>6, <1>7
      <3>2. Val(X, x, a.prop) = Val(Y, x, a.prop)
        BY <1>4, <2>1, <3>1
      <3>3. x \in DOMAIN Y /\ X[x][a.prop] = Y[x][a.prop]
        BY <2>2, <3>1, <3>2 DEF Val
      <3>4. x \in Chosen(Y)
        BY <1>5, <1>6, <3>1, <3>3
      <3> QED
        BY <3>1, <3>3, <3>4
    <2>4. \A x \in CY : x \in CX /\ X[x][a.prop] = Y[x][a.prop]
      <3> TAKE x \in CY
      <3>1. x \in DOMAIN Y /\ Linked(a.nav, o, x) /\ IsNum(Y[x][a.prop]) /\ x \in Chosen(Y)
        BY <1>6, <1>7
      <3>2. Val(X, x, a.prop) = Val(Y, x, a.prop)
        BY <1>4, <2>1, <3>1
      <3>3. x \in DOMAIN X /\ X[x][a.prop] = Y[x][a.prop]
        BY <2>2, <3>1, <3>2 DEF Val
      <3>4. x \in Chosen(X)
        BY <1>5, <1>6, <3>1, <3>3
      <3> QED
        BY <3>1, <3>3, <3>4
    <2> HIDE DEF CX, CY
    <2>5. CX = CY
      BY <2>3, <2>4
    <2>6. [x \in CX |-> X[x][a.prop][2]] = [x \in CY |-> Y[x][a.prop][2]]
      BY <2>3, <2>5
    <2> USE DEF CX, CY
    <2>7. Amounts(X) = Amounts(Y)
      BY <2>6
    <2> USE DEF Chosen
    <2>8. AggregateValue(a, o, X) = Aggregated(a.fn, Amounts(X))
      BY <1>9 DEF AggregateValue
    <2>9. AggregateValue(a, o, Y) = Aggregated(a.fn, Amounts(Y))
      BY <1>9 DEF AggregateValue
    <2> HIDE DEF Amounts
    <2> QED
      BY <2>7, <2>8, <2>9
  <1> QED
    BY <1>8, <1>9

\* A formula gives the same for two states of the objects that agree in all that it reads.
LEMMA EvaluateAlike ==
    ASSUME NEW f, NEW type, PlainFormula(f), LinksKnown(f), NEW o, NEW X, NEW Y,
           \A i \in DOMAIN f : \A d \in Read(f[i], type) : AlikeFor(d, o, X, Y)
    PROVE  Evaluate(f, o, X) = Evaluate(f, o, Y)
  <1>1. \A i \in DOMAIN f : \A v : NodeValue(f[i], v, o, X) = NodeValue(f[i], v, o, Y)
    <2> TAKE i \in DOMAIN f
    <2> DEFINE a == f[i]
    <2>1. CASE a.kind = "agg"
      <3>1. a.nav.link # "own"
        BY <2>1, DerivationAssumption DEF LinksKnown
      <3>2. /\ IF a.fn = "COUNT" THEN a.prop = "*" ELSE a.prop \in Props
            /\ a.where = <<>> \/ (a.where[1] \in Props /\ Literal(a.where[2]))
        BY <2>1 DEF PlainFormula
      <3>3. \A d \in Read(a, type) : AlikeFor(d, o, X, Y)
        OBVIOUS
      <3> HIDE DEF a
      <3>4. AggregateValue(a, o, X) = AggregateValue(a, o, Y)
        BY <2>1, <3>1, <3>2, <3>3, AggregateAlike
      <3>5. \A v : NodeValue(a, v, o, X) = NodeValue(a, v, o, Y)
        BY <2>1, <3>4 DEF NodeValue
      <3> QED
        BY <3>5 DEF a
    <2>2. CASE a.kind = "propref"
      <3>1. Dep(type, a.prop, Own) \in Read(a, type)
        BY <2>2 DEF Read
      <3>2. AlikeFor(Dep(type, a.prop, Own), o, X, Y)
        BY <3>1
      <3>3. X[o][a.prop] = Y[o][a.prop]
        BY <3>2 DEF AlikeFor, Dep, Own
      <3> QED
        BY <2>2, <3>3 DEF NodeValue, PlainValue
    <2>3. CASE a.kind \notin {"agg", "propref"}
      BY <2>3 DEF NodeValue, PlainValue
    <2> QED
      BY <2>1, <2>2, <2>3
  <1>2. \A v : [i \in DOMAIN f |-> NodeValue(f[i], v, o, X)] = [i \in DOMAIN f |-> NodeValue(f[i], v, o, Y)]
    BY <1>1
  <1>3. (CHOOSE v : v = [i \in DOMAIN f |-> NodeValue(f[i], v, o, X)])
        = (CHOOSE v : v = [i \in DOMAIN f |-> NodeValue(f[i], v, o, Y)])
    BY <1>2, Zenon
  <1> QED
    BY <1>3 DEF Evaluate

LEMMA AlikeBack ==
    ASSUME NEW d, NEW o, NEW X, NEW Y, AlikeFor(d, o, X, Y)
    PROVE  AlikeFor(d, o, Y, X)
  BY DEF AlikeFor

LEMMA LinkedByDep ==
    ASSUME NEW d, NEW o, NEW X, NEW Y, AlikeFor(d, o, X, Y), d.via # "own",
           NEW x \in Navigated(Nav(d), o, X), d.prop # "*" => X[x][d.prop] # Undef
    PROVE  x \in Navigated(Nav(d), o, Y) /\ (d.prop # "*" => X[x][d.prop] = Y[x][d.prop])
  <1>1. x \in DOMAIN X /\ Linked(Nav(d), o, x)
    BY NavigatedIs
  <1>2. IF d.prop = "*" THEN x \in DOMAIN X <=> x \in DOMAIN Y ELSE Val(X, x, d.prop) = Val(Y, x, d.prop)
    BY <1>1 DEF AlikeFor
  <1>3. x \in DOMAIN Y
    BY <1>1, <1>2 DEF Val
  <1>4. d.prop # "*" => X[x][d.prop] = Y[x][d.prop]
    BY <1>1, <1>2, <1>3 DEF Val
  <1> QED
    BY <1>1, <1>3, <1>4, NavigatedIs

\* The inputs of a value run come from the dependencies of its spec.
LEMMA InputsWithin ==
    ASSUME NEW s, NEW o, NEW X, NEW Y, \A d \in s.deps : AlikeFor(d, o, X, Y)
    PROVE  Given(Inputs(s, o, X)) \subseteq Given(Inputs(s, o, Y))
  <1> SUFFICES ASSUME NEW v \in Given(Inputs(s, o, X))
               PROVE  v \in Inputs(s, o, Y)
    BY DEF Given
  <1>1. v[3] # Undef
    BY DEF Given
  <1>2. CASE \E d \in {e \in s.deps : e.via = "own"} : v = <<o, d.prop, X[o][d.prop]>>
    <2>1. PICK d \in s.deps : d.via = "own" /\ v = <<o, d.prop, X[o][d.prop]>>
      BY <1>2
    <2>2. AlikeFor(d, o, X, Y)
      OBVIOUS
    <2>3. v = <<o, d.prop, Y[o][d.prop]>>
      BY <2>1, <2>2 DEF AlikeFor
    <2> QED
      BY <2>1, <2>3 DEF Inputs
  <1>3. CASE \E d \in {e \in s.deps : e.via # "own" /\ e.prop # "*"} :
                \E x \in Navigated(Nav(d), o, X) : v = <<x, d.prop, X[x][d.prop]>>
    <2>1. PICK d \in s.deps : d.via # "own" /\ d.prop # "*" /\ \E x \in Navigated(Nav(d), o, X) : v = <<x, d.prop, X[x][d.prop]>>
      BY <1>3
    <2>2. PICK x \in Navigated(Nav(d), o, X) : v = <<x, d.prop, X[x][d.prop]>>
      BY <2>1
    <2>3. AlikeFor(d, o, X, Y)
      OBVIOUS
    <2>4. X[x][d.prop] # Undef
      BY <1>1, <2>2
    <2>5. x \in Navigated(Nav(d), o, Y) /\ X[x][d.prop] = Y[x][d.prop]
      BY <2>1, <2>3, <2>4, LinkedByDep
    <2>6. v = <<x, d.prop, Y[x][d.prop]>>
      BY <2>2, <2>5
    <2> QED
      BY <2>1, <2>5, <2>6 DEF Inputs
  <1> QED
    BY <1>2, <1>3 DEF Given, Inputs

\* What the value run keeps differs only if something that the formula reads does.
LEMMA InputsAlike ==
    ASSUME NEW s, NEW o, NEW X, NEW Y, \A d \in s.deps : AlikeFor(d, o, X, Y)
    PROVE  Given(Inputs(s, o, X)) = Given(Inputs(s, o, Y))
  <1>1. \A d \in s.deps : AlikeFor(d, o, Y, X)
    BY AlikeBack
  <1>2. Given(Inputs(s, o, X)) \subseteq Given(Inputs(s, o, Y))
    BY InputsWithin
  <1>3. Given(Inputs(s, o, Y)) \subseteq Given(Inputs(s, o, X))
    BY <1>1, InputsWithin
  <1> QED
    BY <1>2, <1>3

\* Objects that agree on the dependencies of a spec have something to compute from together.
LEMMA HasInputAlike ==
    ASSUME NEW s, NEW o, NEW X, NEW Y, \A d \in s.deps : AlikeFor(d, o, X, Y), HasInput(s, o, X)
    PROVE  HasInput(s, o, Y)
  <1>1. PICK d \in s.deps :
            IF d.via = "own" THEN X[o][d.prop] # Undef
            ELSE \E x \in Navigated(Nav(d), o, X) : d.prop = "*" \/ X[x][d.prop] # Undef
    BY DEF HasInput
  <1>2. AlikeFor(d, o, X, Y)
    OBVIOUS
  <1>3. CASE d.via = "own"
    <2>1. Y[o][d.prop] # Undef
      BY <1>1, <1>2, <1>3 DEF AlikeFor
    <2> QED
      BY <1>3, <2>1 DEF HasInput
  <1>4. CASE d.via # "own"
    <2>1. PICK x \in Navigated(Nav(d), o, X) : d.prop = "*" \/ X[x][d.prop] # Undef
      BY <1>1, <1>4
    <2>2. x \in Navigated(Nav(d), o, Y) /\ (d.prop # "*" => X[x][d.prop] = Y[x][d.prop])
      BY <1>2, <1>4, <2>1, LinkedByDep
    <2>3. \E z \in Navigated(Nav(d), o, Y) : d.prop = "*" \/ Y[z][d.prop] # Undef
      BY <2>1, <2>2
    <2> QED
      BY <1>4, <2>3 DEF HasInput
  <1> QED
    BY <1>3, <1>4

-----------------------------------------------------------------------------
(* Specs *)

\* compileSpecs puts every spec of a batch in order with its dependencies.
LEMMA CompiledIs ==
    ASSUME FormulasPlain, NEW s \in CompiledSpecs
    PROVE  /\ s.type \in Types /\ s.prop \in DerivedProps
           /\ PlainFormula(s.ast) /\ LinksKnown(s.ast) /\ Len(s.ast) \in Nat /\ DOMAIN s.ast = 1..Len(s.ast)
           /\ s.deps = ExtractDeps(s.ast, s.type)
  <1>1. PICK i \in DOMAIN SpecBatches :
            /\ \A j \in DOMAIN SpecBatches[i] : LinksKnown(SpecBatches[i][j].ast)
            /\ \E j \in DOMAIN SpecBatches[i] : s = Compiled(SpecBatches[i])[j]
    BY DEF CompiledSpecs
  <1>2. PICK j \in DOMAIN SpecBatches[i] : s = Compiled(SpecBatches[i])[j]
    BY <1>1
  <1> DEFINE t == SpecBatches[i][j]
  <1>3. s = [key |-> t.key, type |-> t.type, prop |-> t.prop, ast |-> t.ast, deps |-> ExtractDeps(t.ast, t.type)]
    BY <1>2 DEF Compiled
  <1>4. s.type = t.type /\ s.prop = t.prop /\ s.ast = t.ast /\ s.deps = ExtractDeps(t.ast, t.type)
    <2> HIDE DEF t
    <2> QED
      BY <1>3
  <1>5. t.type \in Types /\ t.prop \in DerivedProps /\ Len(t.ast) \in Nat /\ DOMAIN t.ast = 1..Len(t.ast)
    BY DerivationAssumption DEF Types
  <1>6. PlainFormula(t.ast) /\ LinksKnown(t.ast)
    BY <1>1 DEF FormulasPlain
  <1> HIDE DEF t
  <1> QED
    BY <1>4, <1>5, <1>6

\* A new object of the type comes with something that the formula reads.
LEMMA CompiledReport ==
    ASSUME NewcomersReport, FormulasPlain, LinksLeadElsewhere, NEW s \in CompiledSpecs,
           NEW o \in ObjectIds \ Seeded, TypeOf[o] = s.type
    PROVE  \E d \in s.deps : d.via = "own" /\ d.type = s.type /\ d.prop \in BaseProps[TypeOf[o]]
  <1>1. PICK i \in DOMAIN SpecBatches :
            /\ Sortable(Compiled(SpecBatches[i]))
            /\ \E j \in DOMAIN SpecBatches[i] : s = Compiled(SpecBatches[i])[j]
    BY DEF CompiledSpecs
  <1>2. PICK j \in DOMAIN SpecBatches[i] : s = Compiled(SpecBatches[i])[j]
    BY <1>1
  <1> DEFINE t == SpecBatches[i][j]
  <1>3. s.type = t.type /\ s.ast = t.ast
    BY <1>2 DEF Compiled
  <1>4. PICK k \in DOMAIN t.ast : t.ast[k].kind = "propref" /\ t.ast[k].prop \in BaseProps[TypeOf[o]]
    BY <1>1, <1>3 DEF NewcomersReport
  <1> HIDE DEF t
  <1>5. PICK d : d = Dep(s.type, s.ast[k].prop, Own)
    OBVIOUS
  <1>6. d \in Read(s.ast[k], s.type)
    BY <1>3, <1>4, <1>5 DEF Read
  <1>7. k \in DOMAIN s.ast
    BY <1>3, <1>4
  <1>8. d \in s.deps
    <2>1. PICK f : f = s.ast
      OBVIOUS
    <2>2. PICK type : type = s.type
      OBVIOUS
    <2>3. PlainFormula(f) /\ LinksKnown(f) /\ Len(f) \in Nat /\ DOMAIN f = 1..Len(f) /\ s.deps = ExtractDeps(f, type)
      BY <2>1, <2>2, CompiledIs
    <2>4. k \in DOMAIN f /\ d \in Read(f[k], type)
      BY <1>6, <1>7, <2>1, <2>2
    <2> QED
      BY <2>3, <2>4, ReadsAreDeps
  <1>9. d.via = "own" /\ d.type = s.type /\ d.prop = s.ast[k].prop
    BY <1>5 DEF Dep, Own
  <1> QED
    BY <1>3, <1>4, <1>8, <1>9

LEMMA DepShape ==
    ASSUME FormulasPlain, NEW s \in CompiledSpecs, NEW d \in s.deps
    PROVE  \/ d.via = "own" /\ d.type = s.type /\ d.prop \in Props
           \/ d.via # "own" /\ d.via \in DOMAIN LinkTypes /\ d.type = TypeAt(Nav(d)) /\ d.prop \in Props \cup {"*"}
  <1>1. PICK f : f = s.ast
    OBVIOUS
  <1>2. PlainFormula(f) /\ LinksKnown(f) /\ s.deps = ExtractDeps(f, s.type)
    BY <1>1, CompiledIs
  <1>3. PICK i \in DOMAIN f : d \in Read(f[i], s.type)
    BY <1>2, DepsAreRead
  <1>4. PICK a : a = f[i]
    OBVIOUS
  <1>5. CASE a.kind = "propref" /\ d = Dep(s.type, a.prop, Own)
    <2>1. a.prop \in Props
      BY <1>2, <1>4, <1>5 DEF PlainFormula
    <2> QED
      BY <1>5, <2>1 DEF Dep, Own
  <1>6. CASE /\ a.kind = "agg"
             /\ \E p \in {a.prop} \cup (IF a.where = <<>> THEN {} ELSE {a.where[1]}) : d = Dep(TypeAt(a.nav), p, a.nav)
    <2>1. PICK p \in {a.prop} \cup (IF a.where = <<>> THEN {} ELSE {a.where[1]}) : d = Dep(TypeAt(a.nav), p, a.nav)
      BY <1>6
    <2>2. a.nav.link \in DOMAIN LinkTypes /\ a.nav.link # "own"
      BY <1>2, <1>4, <1>6, DerivationAssumption DEF LinksKnown
    <2>3. a.prop \in Props \cup {"*"} /\ (a.where = <<>> \/ a.where[1] \in Props)
      BY <1>2, <1>4, <1>6 DEF PlainFormula
    <2>4. p \in Props \cup {"*"}
      BY <2>1, <2>3
    <2>5. d.via = a.nav.link /\ d.direction = a.nav.direction /\ d.type = TypeAt(a.nav) /\ d.prop = p
      BY <2>1 DEF Dep
    <2>6. TypeAt(Nav(d)) = TypeAt(a.nav)
      BY <2>5 DEF TypeAt, Nav
    <2> QED
      BY <2>2, <2>4, <2>5, <2>6
  <1> QED
    BY <1>3, <1>4, <1>5, <1>6, ReadIs

LEMMA LinkedType ==
    ASSUME NEW d, d.type = TypeAt(Nav(d)), NEW o, NEW x, Linked(Nav(d), o, x)
    PROVE  TypeOf[x] = d.type
  <1>1. CASE d.direction = "out" /\ [key |-> d.via, from |-> o, to |-> x] \in Links
    <2>1. PICK l \in Links : l = [key |-> d.via, from |-> o, to |-> x]
      BY <1>1
    <2>2. LinkTypes[l.key] = <<TypeOf[l.from], TypeOf[l.to]>>
      BY DerivationAssumption
    <2>3. LinkTypes[d.via] = <<TypeOf[o], TypeOf[x]>>
      BY <2>1, <2>2
    <2> QED
      BY <1>1, <2>3 DEF TypeAt, Nav
  <1>2. CASE d.direction = "in" /\ [key |-> d.via, from |-> x, to |-> o] \in Links
    <2>1. PICK l \in Links : l = [key |-> d.via, from |-> x, to |-> o]
      BY <1>2
    <2>2. LinkTypes[l.key] = <<TypeOf[l.from], TypeOf[l.to]>>
      BY DerivationAssumption
    <2>3. LinkTypes[d.via] = <<TypeOf[x], TypeOf[o]>>
      BY <2>1, <2>2
    <2> QED
      BY <1>2, <2>3 DEF TypeAt, Nav
  <1> QED
    BY <1>1, <1>2 DEF Linked, Nav

\* What compiled spec s gives for o, in two states that agree in all that it reads.
LEMMA FormulaAlike ==
    ASSUME FormulasPlain, LinksLeadElsewhere, NEW s \in CompiledSpecs, NEW o, NEW X, NEW Y,
           \A d \in s.deps : AlikeFor(d, o, X, Y)
    PROVE  Evaluate(s.ast, o, X) = Evaluate(s.ast, o, Y)
  <1>1. PICK f : f = s.ast
    OBVIOUS
  <1>2. PICK type : type = s.type
    OBVIOUS
  <1>3. PlainFormula(f) /\ LinksKnown(f) /\ Len(f) \in Nat /\ DOMAIN f = 1..Len(f) /\ s.deps = ExtractDeps(f, type)
    BY <1>1, <1>2, CompiledIs
  <1>4. \A i \in DOMAIN f : \A d \in Read(f[i], type) : AlikeFor(d, o, X, Y)
    BY <1>3, ReadsAreDeps
  <1>5. PlainFormula(f) /\ LinksKnown(f)
    BY <1>3
  <1>6. Evaluate(f, o, X) = Evaluate(f, o, Y)
    BY ONLY <1>4, <1>5, EvaluateAlike
  <1> QED
    BY <1>1, <1>6

\* A node of the module has a spec, the last one of its key.
LEMMA AtIs ==
    ASSUME NEW S, NEW ss \in Seq(S), NEW n \in Nodes(ss)
    PROVE  \E j \in DOMAIN ss : /\ At(ss, n) = ss[j] /\ Node(ss[j]) = n
                                /\ \A k \in DOMAIN ss : Node(ss[k]) = n => k <= j
  <1>1. Len(ss) \in Nat /\ DOMAIN ss = 1..Len(ss)
    BY LenProperties
  <1> DEFINE J == {j \in DOMAIN ss : Node(ss[j]) = n}
  <1>2. J \in SUBSET (0..Len(ss)) /\ J # {}
    BY <1>1 DEF Nodes
  <1>3. PICK m \in J : \A k \in J : k <= m
    <2> HIDE DEF J
    <2> QED
      BY <1>1, <1>2, GreatestNumber
  <1>4. \E j \in DOMAIN ss : Node(ss[j]) = n /\ \A k \in DOMAIN ss : Node(ss[k]) = n => k <= j
    BY <1>3
  <1> DEFINE c == CHOOSE j \in DOMAIN ss : Node(ss[j]) = n /\ \A k \in DOMAIN ss : Node(ss[k]) = n => k <= j
  <1>5. c \in DOMAIN ss /\ Node(ss[c]) = n /\ \A k \in DOMAIN ss : Node(ss[k]) = n => k <= c
    <2> HIDE DEF J
    <2> QED
      BY <1>4
  <1>6. At(ss, n) = ss[c]
    BY DEF At
  <1> HIDE DEF c
  <1> QED
    BY <1>5, <1>6

LEMMA AtSpec ==
    ASSUME NEW S, NEW ss \in Seq(S), NEW n \in Nodes(ss)
    PROVE  At(ss, n) \in S /\ Node(At(ss, n)) = n
  <1>1. PICK j \in DOMAIN ss : At(ss, n) = ss[j] /\ Node(ss[j]) = n
    BY AtIs
  <1> QED
    BY <1>1, ElementOfSeq, LenProperties

LEMMA AtLast ==
    ASSUME NEW S, NEW ss \in Seq(S), NEW j \in DOMAIN ss, \A k \in DOMAIN ss : Node(ss[k]) = Node(ss[j]) => k <= j
    PROVE  At(ss, Node(ss[j])) = ss[j]
  <1>1. Node(ss[j]) \in Nodes(ss)
    BY DEF Nodes
  <1>2. PICK n : n = Node(ss[j])
    OBVIOUS
  <1>3. PICK i \in DOMAIN ss : At(ss, n) = ss[i] /\ Node(ss[i]) = n /\ \A k \in DOMAIN ss : Node(ss[k]) = n => k <= i
    BY <1>1, <1>2, AtIs
  <1>4. i <= j /\ j <= i
    BY <1>2, <1>3
  <1>5. i \in Nat /\ j \in Nat
    BY LenProperties
  <1>6. i = j
    BY <1>4, <1>5
  <1> QED
    BY <1>2, <1>3, <1>6

\* What a change marks, put in terms of the specs and of the objects.
LEMMA MarkedIs ==
    ASSUME NEW c, NEW objs
    PROVE  Marked(c[1], c[2], c[3], objs) = MarkedBy(specs, c, objs)
  <1>1. ASSUME NEW k \in Marked(c[1], c[2], c[3], objs) PROVE k \in MarkedBy(specs, c, objs)
    <2>1. c[3] \in DOMAIN objs
      BY <1>1 DEF Marked
    <2>2. PICK s \in Readers(c[1], c[2]) : k \in {Node(s)} \X Reached(s, c[3], objs)
      BY <1>1, <2>1 DEF Marked
    <2>3. PICK j \in DOMAIN specs : s = specs[j] /\ \E d \in s.deps : d.type = c[1] /\ d.prop \in {c[2], "*"}
      BY <2>2 DEF Readers
    <2>4. k[1] = Node(s) /\ k[2] \in Reached(s, c[3], objs) /\ k = <<k[1], k[2]>>
      BY <2>2
    <2>5. k[2] \in DOMAIN objs /\ TypeOf[k[2]] = s.type
      BY <2>4 DEF Reached
    <2>6. Reaches(s, k[2], c[3])
      BY <2>4, NavigatedIs DEF Reached, Reaches
    <2>7. k[1] \in Nodes(specs) /\ k[1][1] = s.type
      BY <2>3, <2>4 DEF Nodes, Node
    <2> QED
      BY <2>1, <2>3, <2>4, <2>5, <2>6, <2>7 DEF MarkedBy
  <1>2. ASSUME NEW k \in MarkedBy(specs, c, objs) PROVE k \in Marked(c[1], c[2], c[3], objs)
    <2>1. c[3] \in DOMAIN objs /\ k \in Nodes(specs) \X DOMAIN objs /\ TypeOf[k[2]] = k[1][1]
      BY <1>2 DEF MarkedBy
    <2>2. PICK j \in DOMAIN specs : /\ Node(specs[j]) = k[1] /\ Reaches(specs[j], k[2], c[3])
                                    /\ \E d \in specs[j].deps : d.type = c[1] /\ d.prop \in {c[2], "*"}
      BY <1>2 DEF MarkedBy
    <2>3. PICK s : s = specs[j]
      OBVIOUS
    <2>4. s \in Readers(c[1], c[2])
      BY <2>2, <2>3 DEF Readers
    <2>5. k[2] \in Reached(s, c[3], objs)
      <3>1. TypeOf[k[2]] = s.type
        BY <2>1, <2>2, <2>3 DEF Node
      <3>2. PICK d \in s.deps : IF d.via = "own" THEN k[2] = c[3] ELSE Linked(Nav(d), k[2], c[3])
        BY <2>2, <2>3 DEF Reaches
      <3> QED
        BY <2>1, <3>1, <3>2, NavigatedIs DEF Reached
    <2>6. k \in {Node(s)} \X Reached(s, c[3], objs)
      BY <2>1, <2>2, <2>3, <2>5
    <2> QED
      BY <2>1, <2>4, <2>6 DEF Marked
  <1> QED
    BY <1>1, <1>2

\* A change in what the formula of a node reads marks the node.
LEMMA DepMarks ==
    ASSUME FormulasPlain, NEW ss \in Seq(CompiledSpecs), NEW n \in Nodes(ss), NEW objs, NEW o \in DOMAIN objs, TypeOf[o] = n[1],
           NEW d \in At(ss, n).deps, NEW x \in DOMAIN objs, NEW prop, d.prop \in {prop, "*"},
           IF d.via = "own" THEN o = x ELSE Linked(Nav(d), o, x)
    PROVE  <<n, o>> \in MarkedBy(ss, <<TypeOf[x], prop, x>>, objs)
  <1>1. PICK j \in DOMAIN ss : At(ss, n) = ss[j] /\ Node(ss[j]) = n
    BY AtIs
  <1>2. PICK s \in CompiledSpecs : s = ss[j]
    BY <1>1, AtSpec
  <1>3. d.type = TypeOf[x]
    <2>1. s.type = n[1] /\ d \in s.deps
      BY <1>1, <1>2 DEF Node
    <2>2. CASE d.via = "own"
      BY <2>1, <2>2, DepShape
    <2>3. CASE d.via # "own"
      BY <2>1, <2>3, DepShape, LinkedType
    <2> QED
      BY <2>2, <2>3
  <1>4. Reaches(ss[j], o, x)
    BY <1>1 DEF Reaches
  <1>5. PICK c : c = <<TypeOf[x], prop, x>>
    OBVIOUS
  <1>6. PICK k : k = <<n, o>>
    OBVIOUS
  <1>7. k \in Nodes(ss) \X DOMAIN objs /\ c[3] \in DOMAIN objs /\ TypeOf[k[2]] = k[1][1]
    BY <1>5, <1>6
  <1>8. Node(ss[j]) = k[1] /\ Reaches(ss[j], k[2], c[3]) /\ \E e \in ss[j].deps : e.type = c[1] /\ e.prop \in {c[2], "*"}
    BY <1>1, <1>3, <1>4, <1>5, <1>6
  <1>9. k \in MarkedBy(ss, c, objs)
    BY <1>7, <1>8 DEF MarkedBy
  <1> QED
    BY <1>5, <1>6, <1>9

\* More specs, more objects and more changes leave marked what is.
LEMMA OwedMonotonic ==
    ASSUME NEW ss, NEW tt, \A j \in DOMAIN ss : j \in DOMAIN tt /\ tt[j] = ss[j],
           NEW C, NEW D, C \subseteq D, NEW X, NEW Y, DOMAIN X \subseteq DOMAIN Y, NEW k \in Owed(ss, C, X)
    PROVE  k \in Owed(tt, D, Y)
  <1>1. PICK c \in C : k \in MarkedBy(ss, c, X)
    BY DEF Owed
  <1>2. Nodes(ss) \subseteq Nodes(tt)
    BY DEF Nodes
  <1>3. k \in Nodes(ss) \X DOMAIN X /\ c[3] \in DOMAIN X /\ TypeOf[k[2]] = k[1][1]
    BY <1>1 DEF MarkedBy
  <1>4. PICK j \in DOMAIN ss : /\ Node(ss[j]) = k[1] /\ Reaches(ss[j], k[2], c[3])
                               /\ \E d \in ss[j].deps : d.type = c[1] /\ d.prop \in {c[2], "*"}
    BY <1>1 DEF MarkedBy
  <1>5. k \in Nodes(tt) \X DOMAIN Y /\ c[3] \in DOMAIN Y
    BY <1>2, <1>3
  <1>6. j \in DOMAIN tt /\ tt[j] = ss[j]
    OBVIOUS
  <1>7. \E i \in DOMAIN tt : /\ Node(tt[i]) = k[1] /\ Reaches(tt[i], k[2], c[3])
                             /\ \E d \in tt[i].deps : d.type = c[1] /\ d.prop \in {c[2], "*"}
    BY <1>4, <1>6
  <1>8. k \in MarkedBy(tt, c, Y)
    BY <1>3, <1>5, <1>7 DEF MarkedBy
  <1> QED
    BY <1>8 DEF Owed

\* What was right stays so as long as nothing that is read differs, nor the value itself.
LEMMA HoldsAlike ==
    ASSUME FormulasPlain, LinksLeadElsewhere, NEW ss \in Seq(CompiledSpecs), NEW n \in Nodes(ss), NEW o, NEW X, NEW Y,
           \A d \in At(ss, n).deps : AlikeFor(d, o, X, Y), X[o][n[2]] = Y[o][n[2]],
           NEW runs, Holds(ss, n, o, X, runs)
    PROVE  Holds(ss, n, o, Y, runs)
  <1>1. PICK s \in CompiledSpecs : s = At(ss, n)
    BY AtSpec
  <1>2. \A d \in s.deps : AlikeFor(d, o, X, Y)
    BY <1>1
  <1>3. Evaluate(s.ast, o, X) = Evaluate(s.ast, o, Y)
    BY <1>2, FormulaAlike
  <1>4. Given(Inputs(s, o, X)) = Given(Inputs(s, o, Y))
    BY <1>2, InputsAlike
  <1> QED
    BY <1>1, <1>3, <1>4 DEF Holds

LEMMA HoldsRuns ==
    ASSUME NEW ss, NEW n, NEW o, NEW X, NEW old, NEW new, Holds(ss, n, o, X, old),
           <<o, n[2]>> \in DOMAIN new, new[<<o, n[2]>>] = old[<<o, n[2]>>]
    PROVE  Holds(ss, n, o, X, new)
  BY DEF Holds

\* What a recompute holds when there is none.
LEMMA NoRecomputeIs ==
    /\ NoRecompute.changes = {} /\ NoRecompute.dirty = {} /\ NoRecompute.left = {} /\ NoRecompute.todo = {}
    /\ NoRecompute.runs = <<>> /\ NoRecompute.node = NoNode
    /\ NoRecompute = [changes |-> NoRecompute.changes, index |-> NoRecompute.index, dirty |-> NoRecompute.dirty,
                      left |-> NoRecompute.left, node |-> NoRecompute.node, todo |-> NoRecompute.todo, runs |-> NoRecompute.runs]
  BY DEF NoRecompute

\* Between recomputes the invariant says no more than that what is not right is owed.
LEMMA Resting ==
    ASSUME recompute = NoRecompute
    PROVE  RunRecord /\ RunShaped /\ RunUnderway
  BY NoRecomputeIs DEF RunRecord, RunShaped, RunUnderway

LEMMA RestingNext ==
    ASSUME recompute' = NoRecompute
    PROVE  RunRecord' /\ RunShaped' /\ RunUnderway'
  BY NoRecomputeIs DEF RunRecord, RunShaped, RunUnderway

\* Without specs nothing is owed a value.
LEMMA InitDerivation ==
    ASSUME DerivationInit
    PROVE  DerivationInvariant
  <1>1. PICK v : instances = [o \in Seeded |-> [p \in Props |-> IF p \in BaseProps[TypeOf[o]] THEN v[p] ELSE Undef]]
    BY DEF DerivationInit
  <1>2. DOMAIN instances = Seeded /\ Seeded \subseteq ObjectIds
    BY <1>1, DerivationAssumption
  <1>3. instances = [o \in DOMAIN instances |-> [p \in Props |-> instances[o][p]]]
    BY <1>1, <1>2
  <1>4. ObjectsShaped
    BY <1>2, <1>3 DEF ObjectsShaped
  <1>5. specs = <<>> /\ recompute = NoRecompute
    BY DEF DerivationInit
  <1>6. Nodes(specs) = {}
    BY <1>5 DEF Nodes
  <1>7. Pending
    BY <1>6 DEF Pending
  <1>8. specs \in Seq(CompiledSpecs)
    BY <1>5
  <1> QED
    BY <1>4, <1>5, <1>7, <1>8, Resting DEF DerivationInvariant

\* A value is owed for each reported or unreported change that reaches it.
LEMMA OwedIs ==
    ASSUME NEW C, NEW objs
    PROVE  UNION {Marked(c[1], c[2], c[3], objs) : c \in C} = Owed(specs, C, objs)
  <1>1. \A c \in C : Marked(c[1], c[2], c[3], objs) = MarkedBy(specs, c, objs)
    BY MarkedIs
  <1>2. {Marked(c[1], c[2], c[3], objs) : c \in C} = {MarkedBy(specs, c, objs) : c \in C}
    BY <1>1
  <1> QED
    BY <1>2 DEF Owed

LEMMA OwedShape ==
    ASSUME NEW ss, NEW C, NEW objs, NEW k \in Owed(ss, C, objs)
    PROVE  k \in Nodes(ss) \X DOMAIN objs /\ TypeOf[k[2]] = k[1][1]
  BY DEF Owed, MarkedBy

LEMMA OwedParts ==
    ASSUME NEW ss, NEW C, NEW D, NEW objs, NEW k \in Owed(ss, C, objs), k \notin Owed(ss, D, objs)
    PROVE  k \in Owed(ss, C \ D, objs)
  BY DEF Owed

LEMMA MergedIs ==
    ASSUME NEW old, NEW new, NEW k
    PROVE  /\ k \in DOMAIN new => k \in DOMAIN Merged(old, new) /\ Merged(old, new)[k] = new[k]
           /\ k \in DOMAIN old /\ k \notin DOMAIN new => k \in DOMAIN Merged(old, new) /\ Merged(old, new)[k] = old[k]
  BY DEF Merged

\* A recompute starts with the changes it was told of.
LEMMA StartSteps ==
    ASSUME DerivationInvariant, RecomputeStarts
    PROVE  DerivationInvariant'
  <1> USE DEF DerivationInvariant
  <1>1. PICK changes \in {toReport} \cup {{c \in toReport : c[3] = o} : o \in ObjectIds} :
            /\ recompute = NoRecompute
            /\ recompute' = [NoRecompute EXCEPT !.changes = changes, !.index = instances, !.left = Nodes(specs),
                                !.dirty = UNION {Marked(c[1], c[2], c[3], instances) : c \in changes}]
            /\ UNCHANGED <<instances, specs, valueRuns, toReport, upserts>>
    BY DEF RecomputeStarts
  <1> DEFINE dirty == UNION {Marked(c[1], c[2], c[3], instances) : c \in changes}
  <1>2. recompute' = [changes |-> changes, index |-> instances, dirty |-> dirty, left |-> Nodes(specs), node |-> NoNode,
                      todo |-> {}, runs |-> <<>>]
    BY <1>1 DEF NoRecompute
  <1>3. dirty = Owed(specs, changes, instances)
    BY OwedIs
  <1> HIDE DEF dirty
  <1>4. /\ recompute'.changes = changes /\ recompute'.index = instances /\ recompute'.dirty = dirty
        /\ recompute'.left = Nodes(specs) /\ recompute'.node = NoNode /\ recompute'.todo = {} /\ recompute'.runs = <<>>
    BY <1>2
  <1>5. ObjectsShaped' /\ specs' \in Seq(CompiledSpecs)
    BY <1>1 DEF ObjectsShaped
  <1>6. RunRecord'
    BY <1>2 DEF RunRecord
  <1>7. \A n \in Nodes(specs), o \in DOMAIN instances : IsTarget(specs, n, o, instances) =>
            Holds(specs, n, o, instances, valueRuns) \/ <<n, o>> \in Owed(specs, toReport, instances)
    BY <1>1, NoRecomputeIs DEF Pending
  <1>8. Pending'
    BY <1>1, <1>7 DEF Pending
  <1>9. RunShaped'
    <2>1. \A k \in dirty : k \in Nodes(specs) \X DOMAIN instances /\ TypeOf[k[2]] = k[1][1]
      BY <1>3, OwedShape
    <2> QED
      BY <1>1, <1>4, <2>1 DEF RunShaped
  <1>10. RunUnderway'
    <2>1. ASSUME NEW n \in Nodes(specs), NEW o \in DOMAIN instances, IsTarget(specs, n, o, instances)
          PROVE  \/ Holds(specs, n, o, instances, Merged(valueRuns, <<>>))
                 \/ <<n, o>> \in dirty
                 \/ <<n, o>> \in Owed(specs, toReport \ changes, instances)
      <3>1. CASE Holds(specs, n, o, instances, valueRuns)
        <4>1. <<o, n[2]>> \in DOMAIN valueRuns /\ <<o, n[2]>> \notin DOMAIN <<>>
          BY <3>1 DEF Holds
        <4>2. <<o, n[2]>> \in DOMAIN Merged(valueRuns, <<>>) /\ Merged(valueRuns, <<>>)[<<o, n[2]>>] = valueRuns[<<o, n[2]>>]
          BY <4>1, MergedIs
        <4> QED
          BY <3>1, <4>2, HoldsRuns
      <3>2. CASE <<n, o>> \in Owed(specs, toReport, instances)
        BY <1>3, <3>2, OwedParts
      <3> QED
        BY <1>7, <2>1, <3>1, <3>2
    <2> QED
      BY <1>1, <1>4, <2>1 DEF RunUnderway
  <1> QED
    BY <1>5, <1>6, <1>8, <1>9, <1>10

\* It ends when no node is left to compute.
LEMMA EndSteps ==
    ASSUME DerivationInvariant, RecomputeEnds
    PROVE  DerivationInvariant'
  <1> USE DEF DerivationInvariant
  <1>1. /\ recompute # NoRecompute /\ recompute.left = {} /\ recompute.todo = {}
        /\ valueRuns' = Merged(valueRuns, recompute.runs)
        /\ toReport' = toReport \ recompute.changes
        /\ recompute' = NoRecompute
        /\ instances' = instances /\ specs' = specs
    BY DEF RecomputeEnds, Merged
  <1>2. ObjectsShaped' /\ specs' \in Seq(CompiledSpecs)
    BY <1>1 DEF ObjectsShaped
  <1>3. \A n \in Nodes(specs), o \in DOMAIN instances : IsTarget(specs, n, o, instances) =>
            \/ Holds(specs, n, o, instances, Merged(valueRuns, recompute.runs))
            \/ <<n, o>> \in Owed(specs, toReport \ recompute.changes, instances)
    BY <1>1 DEF RunUnderway
  <1>4. Pending'
    BY <1>1, <1>3 DEF Pending
  <1> QED
    BY <1>1, <1>2, <1>4, RestingNext

\* One that breaks off hands its changes back to be reported again.
LEMMA BreakSteps ==
    ASSUME ~RecomputeOverlaps, DerivationInvariant, RecomputeBreaks
    PROVE  DerivationInvariant'
  <1> USE DEF DerivationInvariant
  <1>1. /\ recompute.runs = <<>> /\ recompute' = NoRecompute
        /\ instances' = instances /\ specs' = specs /\ valueRuns' = valueRuns /\ toReport' = toReport
    BY DEF RecomputeBreaks
  <1>2. ObjectsShaped' /\ specs' \in Seq(CompiledSpecs)
    BY <1>1 DEF ObjectsShaped
  <1>3. Pending'
    BY <1>1 DEF Pending
  <1> QED
    BY <1>1, <1>2, <1>3, RestingNext

\* It takes the first node, in the order of dependencies, among those still marked.
LEMMA TakenSteps ==
    ASSUME DerivationInvariant, NEW node \in recompute.left, NodeTaken(node)
    PROVE  DerivationInvariant'
  <1> USE DEF DerivationInvariant
  <1> DEFINE todo == {o \in ObjectIds : <<node, o>> \in recompute.dirty}
  <1>1. /\ recompute.todo = {}
        /\ \A n \in recompute.left : <<n, node>> \notin Before(specs)
        /\ recompute' = [recompute EXCEPT !.left = @ \ {node}, !.node = node, !.todo = todo]
        /\ instances' = instances /\ specs' = specs /\ valueRuns' = valueRuns /\ toReport' = toReport
    BY DEF NodeTaken
  <1>2. recompute # NoRecompute
    BY NoRecomputeIs
  <1> HIDE DEF todo
  <1>3. recompute' = [changes |-> recompute.changes, index |-> recompute.index, dirty |-> recompute.dirty,
                      left |-> recompute.left \ {node}, node |-> node, todo |-> todo, runs |-> recompute.runs]
    BY <1>1 DEF RunRecord
  <1>4. /\ recompute'.changes = recompute.changes /\ recompute'.index = recompute.index /\ recompute'.dirty = recompute.dirty
        /\ recompute'.left = recompute.left \ {node} /\ recompute'.node = node /\ recompute'.todo = todo
        /\ recompute'.runs = recompute.runs
    BY <1>3
  <1>5. ObjectsShaped' /\ specs' \in Seq(CompiledSpecs)
    BY <1>1 DEF ObjectsShaped
  <1>6. RunRecord'
    BY <1>3 DEF RunRecord
  <1>7. Pending'
    BY <1>1, <1>4 DEF Pending
  <1>8. RunShaped'
    <2>1. recompute.left \subseteq Nodes(specs) /\ recompute.index = instances
      BY <1>2 DEF RunShaped
    <2>2. \A k \in recompute.dirty : k \in Nodes(specs) \X DOMAIN instances /\ TypeOf[k[2]] = k[1][1]
      BY DEF RunShaped
    <2>3. \A o \in todo : o \in DOMAIN instances /\ TypeOf[o] = node[1]
      <3> TAKE o \in todo
      <3>1. <<node, o>> \in recompute.dirty
        BY DEF todo
      <3> QED
        BY <2>2, <3>1
    <2>4. node \in Nodes(specs) \ (recompute.left \ {node})
      BY <2>1
    <2>5. \A m \in Nodes(specs) \ (recompute.left \ {node}) : \A n \in (recompute.left \ {node}) \cup {node} :
            <<n, m>> \notin Before(specs)
      BY <1>1, <1>2 DEF RunShaped
    <2> QED
      BY <1>1, <1>4, <2>1, <2>2, <2>3, <2>4, <2>5 DEF RunShaped
  <1>9. RunUnderway'
    <2>1. ASSUME NEW n \in Nodes(specs), NEW o \in DOMAIN instances, IsTarget(specs, n, o, instances)
          PROVE  \/ Holds(specs, n, o, instances, Merged(valueRuns, recompute.runs))
                 \/ n \in recompute.left \ {node} /\ <<n, o>> \in recompute.dirty
                 \/ n = node /\ o \in todo
                 \/ <<n, o>> \in Owed(specs, toReport \ recompute.changes, instances)
      <3>1. \/ Holds(specs, n, o, instances, Merged(valueRuns, recompute.runs))
            \/ n \in recompute.left /\ <<n, o>> \in recompute.dirty
            \/ <<n, o>> \in Owed(specs, toReport \ recompute.changes, instances)
        BY <1>1, <1>2, <2>1 DEF RunUnderway
      <3>2. o \in ObjectIds
        BY DEF ObjectsShaped
      <3> QED
        BY <3>1, <3>2 DEF todo
    <2> QED
      BY <1>1, <1>4, <2>1 DEF RunUnderway
  <1> QED
    BY <1>5, <1>6, <1>7, <1>8, <1>9

LEMMA SpecFacts ==
    ASSUME FormulasPlain, NEW ss \in Seq(CompiledSpecs), NEW n \in Nodes(ss)
    PROVE  /\ At(ss, n) \in CompiledSpecs /\ At(ss, n).type = n[1] /\ At(ss, n).prop = n[2] /\ n = <<n[1], n[2]>>
           /\ n[2] \in DerivedProps /\ n[2] \in Props
  <1>1. At(ss, n) \in CompiledSpecs /\ Node(At(ss, n)) = n
    BY AtSpec
  <1>2. At(ss, n).prop \in DerivedProps
    BY <1>1, CompiledIs
  <1> QED
    BY <1>1, <1>2 DEF Node, Props

\* An object is upserted: what a formula reads of it is reported, the rest is as it was.
LEMMA UpsertSteps ==
    ASSUME FormulasPlain, LinksLeadElsewhere, DerivedSeparate, NewcomersReport, ~RecomputeOverlaps,
           DerivationInvariant, NEW o \in ObjectIds, ObjectUpserted(o)
    PROVE  DerivationInvariant'
  <1> USE DEF DerivationInvariant
  <1>1. PICK given \in (IF o \in DOMAIN instances THEN {{p} : p \in BaseProps[TypeOf[o]]} ELSE {BaseProps[TypeOf[o]]}) :
          \E v \in [given -> UNION {BaseValues[p] : p \in given}] :
            /\ recompute = NoRecompute
            /\ instances' = [x \in DOMAIN instances \cup {o} |->
                    IF x = o THEN [p \in Props |-> IF p \in given THEN v[p]
                                                   ELSE (IF o \in DOMAIN instances THEN instances[o] ELSE [q \in Props |-> Undef])[p]]
                    ELSE instances[x]]
            /\ toReport' = toReport \cup {<<TypeOf[o], p, o>> : p \in given}
            /\ UNCHANGED <<specs, recompute, valueRuns>>
    BY DEF ObjectUpserted
  <1>2. PICK v : instances' = [x \in DOMAIN instances \cup {o} |->
                    IF x = o THEN [p \in Props |-> IF p \in given THEN v[p]
                                                   ELSE (IF o \in DOMAIN instances THEN instances[o] ELSE [q \in Props |-> Undef])[p]]
                    ELSE instances[x]]
    BY <1>1
  <1>3. /\ recompute = NoRecompute /\ toReport' = toReport \cup {<<TypeOf[o], p, o>> : p \in given}
        /\ specs' = specs /\ recompute' = recompute /\ valueRuns' = valueRuns
    BY <1>1
  <1>4. given \subseteq BaseProps[TypeOf[o]] /\ (o \notin DOMAIN instances => given = BaseProps[TypeOf[o]])
    BY <1>1
  <1>5. PICK Y : Y = instances'
    OBVIOUS
  <1>6. /\ DOMAIN Y = DOMAIN instances \cup {o}
        /\ \A x \in DOMAIN instances \ {o} : Y[x] = instances[x]
        /\ Y[o] = [p \in Props |-> IF p \in given THEN v[p]
                                   ELSE (IF o \in DOMAIN instances THEN instances[o] ELSE [q \in Props |-> Undef])[p]]
        /\ Y = [x \in DOMAIN Y |-> Y[x]]
    BY <1>2, <1>5
  <1>7. \A p \in Props \ given : Y[o][p] = Val(instances, o, p)
    BY <1>6 DEF Val
  <1>8. ObjectsShaped'
    <2>1. instances = [x \in DOMAIN instances |-> [p \in Props |-> instances[x][p]]]
      BY DEF ObjectsShaped
    <2>2. \A x \in DOMAIN Y : Y[x] = [p \in Props |-> Y[x][p]]
      BY <1>6, <2>1
    <2>3. Y = [x \in DOMAIN Y |-> [p \in Props |-> Y[x][p]]]
      BY <1>6, <2>2
    <2>4. DOMAIN Y \subseteq ObjectIds /\ Seeded \subseteq DOMAIN Y
      BY <1>6 DEF ObjectsShaped
    <2> QED
      BY <1>5, <2>3, <2>4 DEF ObjectsShaped
  <1>9. specs \in Seq(CompiledSpecs)
    OBVIOUS
  <1>10. \A n \in Nodes(specs), t \in DOMAIN instances : IsTarget(specs, n, t, instances) =>
            Holds(specs, n, t, instances, valueRuns) \/ <<n, t>> \in Owed(specs, toReport, instances)
    BY <1>3, NoRecomputeIs DEF Pending
  <1> HIDE DEF DerivationInvariant
  <1>11. ASSUME NEW n \in Nodes(specs), NEW t \in DOMAIN Y, TypeOf[t] = n[1], NEW d \in At(specs, n).deps, NEW prop \in given,
                d.prop \in {prop, "*"}, IF d.via = "own" THEN t = o ELSE Linked(Nav(d), t, o)
         PROVE  <<n, t>> \in Owed(specs, toReport', Y)
    <2>1. o \in DOMAIN Y
      BY <1>6
    <2>2. <<n, t>> \in MarkedBy(specs, <<TypeOf[o], prop, o>>, Y)
      BY <1>9, <1>11, <2>1, DepMarks
    <2>3. <<TypeOf[o], prop, o>> \in toReport'
      BY <1>3
    <2> QED
      BY <2>2, <2>3 DEF Owed
  <1>12. ASSUME NEW n \in Nodes(specs), NEW t \in DOMAIN Y, IsTarget(specs, n, t, Y)
         PROVE  Holds(specs, n, t, Y, valueRuns) \/ <<n, t>> \in Owed(specs, toReport', Y)
    <2>1. PICK s \in CompiledSpecs : s = At(specs, n) /\ s.type = n[1] /\ s.prop = n[2]
      BY <1>9, SpecFacts
    <2>2. TypeOf[t] = n[1] /\ HasInput(s, t, Y)
      BY <1>12, <2>1 DEF IsTarget
    <2>3. CASE t \notin DOMAIN instances
      <3>1. t = o /\ o \notin DOMAIN instances
        BY <1>6, <2>3
      <3>2. o \in ObjectIds \ Seeded
        BY <1>9, <3>1 DEF ObjectsShaped, DerivationInvariant
      <3>3. PICK d \in s.deps : d.via = "own" /\ d.prop \in BaseProps[TypeOf[o]]
        BY <2>1, <2>2, <3>1, <3>2, CompiledReport
      <3>4. d.prop \in given /\ d \in At(specs, n).deps
        BY <1>4, <2>1, <3>1, <3>3
      <3> QED
        BY <1>11, <2>2, <3>1, <3>3, <3>4
    <2>4. CASE /\ t \in DOMAIN instances
               /\ \E d \in s.deps : \E p \in given : d.prop \in {p, "*"} /\ (IF d.via = "own" THEN t = o ELSE Linked(Nav(d), t, o))
                                                     /\ (d.prop = "*" => o \notin DOMAIN instances)
      BY <1>11, <2>1, <2>2, <2>4
    <2>5. CASE /\ t \in DOMAIN instances
               /\ \A d \in s.deps : \A p \in given : d.prop \in {p, "*"} /\ (IF d.via = "own" THEN t = o ELSE Linked(Nav(d), t, o))
                                                     => d.prop = "*" /\ o \in DOMAIN instances
      <3>1. ASSUME NEW d \in s.deps PROVE AlikeFor(d, t, instances, Y)
        <4>1. CASE d.via = "own"
          <5>1. d.prop \in Props /\ d.prop # "*"
            BY <2>1, <4>1, DepShape, DerivationAssumption DEF Props, Types
          <5>2. CASE t # o
            BY <1>6, <2>5, <4>1, <5>2 DEF AlikeFor
          <5>3. CASE t = o
            <6>1. d.prop \notin given
              BY <2>5, <4>1, <5>1, <5>3
            <6>2. Y[o][d.prop] = instances[o][d.prop]
              BY <1>7, <2>5, <5>1, <5>3, <6>1 DEF Val
            <6> QED
              BY <4>1, <5>3, <6>2 DEF AlikeFor
          <5> QED
            BY <5>2, <5>3
        <4>2. CASE d.via # "own"
          <5>1. d.prop \in Props \cup {"*"}
            BY <2>1, <4>2, DepShape
          <5>2. ASSUME NEW x, Linked(Nav(d), t, x)
                PROVE  IF d.prop = "*" THEN x \in DOMAIN instances <=> x \in DOMAIN Y ELSE Val(instances, x, d.prop) = Val(Y, x, d.prop)
            <6>1. CASE x # o
              BY <1>6, <6>1 DEF Val
            <6>2. CASE x = o /\ d.prop = "*"
              <7>1. CASE o \in DOMAIN instances
                BY <1>6, <6>2, <7>1
              <7>2. CASE o \notin DOMAIN instances
                <8>1. o \in ObjectIds \ Seeded
                  BY <7>2 DEF ObjectsShaped, DerivationInvariant
                <8>2. BaseProps[TypeOf[o]] # {}
                  BY <8>1 DEF NewcomersReport
                <8>3. PICK p \in given : TRUE
                  BY <1>4, <7>2, <8>2
                <8> QED
                  BY <2>5, <4>2, <5>2, <6>2, <7>2, <8>3
              <7> QED
                BY <7>1, <7>2
            <6>3. CASE x = o /\ d.prop # "*"
              <7>1. d.prop \notin given
                BY <2>5, <4>2, <5>2, <6>3
              <7>2. Y[o][d.prop] = Val(instances, o, d.prop)
                BY <1>7, <5>1, <6>3, <7>1
              <7>3. o \in DOMAIN Y
                BY <1>6
              <7> QED
                BY <6>3, <7>2, <7>3 DEF Val
            <6> QED
              BY <6>1, <6>2, <6>3
          <5> QED
            BY <4>2, <5>2 DEF AlikeFor
        <4> QED
          BY <4>1, <4>2
      <3>2. instances[t][n[2]] = Y[t][n[2]]
        <4>1. n[2] \in DerivedProps /\ n[2] \in Props
          BY <1>9, SpecFacts
        <4>2. BaseProps[TypeOf[o]] \cap DerivedProps = {}
          BY DEF DerivedSeparate, Types
        <4>3. n[2] \notin given
          BY <1>4, <4>1, <4>2
        <4>4. CASE t # o
          BY <1>6, <2>5, <4>4
        <4>5. CASE t = o
          BY <1>7, <2>5, <4>1, <4>3, <4>5 DEF Val
        <4> QED
          BY <4>4, <4>5
      <3>3. HasInput(s, t, instances)
        <4>1. \A d \in s.deps : AlikeFor(d, t, Y, instances)
          BY <3>1, AlikeBack
        <4> QED
          BY <2>2, <4>1, HasInputAlike
      <3>4. IsTarget(specs, n, t, instances)
        BY <2>1, <2>2, <2>5, <3>3 DEF IsTarget
      <3>5. CASE Holds(specs, n, t, instances, valueRuns)
        <4>1. \A d \in At(specs, n).deps : AlikeFor(d, t, instances, Y)
          BY <2>1, <3>1
        <4> QED
          BY <1>9, <3>2, <3>5, <4>1, HoldsAlike
      <3>6. CASE <<n, t>> \in Owed(specs, toReport, instances)
        <4>1. toReport \subseteq toReport' /\ DOMAIN instances \subseteq DOMAIN Y
          BY <1>3, <1>6
        <4> QED
          BY <3>6, <4>1, OwedMonotonic
      <3> QED
        BY <1>10, <2>5, <3>4, <3>5, <3>6
    <2> QED
      BY <2>3, <2>4, <2>5
  <1>13. Pending'
    BY <1>3, <1>5, <1>12 DEF Pending
  <1> QED
    BY <1>3, <1>8, <1>9, <1>13, RestingNext DEF DerivationInvariant

\* Specs are compiled: what a new one reads is reported, what an old one gives is as it was.
LEMMA CompileSteps ==
    ASSUME FormulasPlain, DerivationInvariant, NEW i \in DOMAIN SpecBatches, SpecsCompiled(i)
    PROVE  DerivationInvariant'
  <1> DEFINE batch == Compiled(SpecBatches[i])
             news == {<<TypeOf[c[2]], c[1].prop, c[2]>> :
                        c \in {e \in (UNION {batch[j].deps : j \in DOMAIN batch}) \X DOMAIN instances : e[1].type = TypeOf[e[2]]}}
  <1>1. /\ recompute = NoRecompute /\ Sortable(batch)
        /\ \A j \in DOMAIN batch : LinksKnown(SpecBatches[i][j].ast)
        /\ specs' = specs \o batch /\ toReport' = toReport \cup news
        /\ instances' = instances /\ recompute' = recompute /\ valueRuns' = valueRuns
    BY DEF SpecsCompiled
  <1>2. batch \in Seq(CompiledSpecs)
    <2>1. Len(SpecBatches[i]) \in Nat /\ DOMAIN SpecBatches[i] = 1..Len(SpecBatches[i])
      BY DerivationAssumption
    <2>2. DOMAIN batch = DOMAIN SpecBatches[i]
      BY DEF Compiled
    <2>3. \A j \in DOMAIN batch : batch[j] \in CompiledSpecs
      BY <1>1, <2>2 DEF CompiledSpecs
    <2>4. batch = [j \in 1..Len(SpecBatches[i]) |-> batch[j]]
      BY <2>1 DEF Compiled
    <2>5. PICK m \in Nat : m = Len(SpecBatches[i])
      BY <2>1
    <2> HIDE DEF batch
    <2>6. batch \in [1..m -> CompiledSpecs]
      BY <2>1, <2>2, <2>3, <2>4, <2>5
    <2> QED
      BY <2>6, SeqDef
  <1>3. specs \in Seq(CompiledSpecs)
    BY DEF DerivationInvariant
  <1> HIDE DEF batch, news
  <1>4. PICK all : all = specs \o batch
    OBVIOUS
  <1>5. /\ all \in Seq(CompiledSpecs) /\ Len(all) = Len(specs) + Len(batch)
        /\ \A j \in 1..Len(specs) : all[j] = specs[j]
        /\ \A j \in (Len(specs) + 1)..Len(all) : all[j] = batch[j - Len(specs)]
    BY <1>2, <1>3, <1>4, ConcatProperties
  <1>6. /\ Len(specs) \in Nat /\ Len(batch) \in Nat
        /\ DOMAIN specs = 1..Len(specs) /\ DOMAIN batch = 1..Len(batch) /\ DOMAIN all = 1..Len(all)
    BY <1>2, <1>3, <1>5, LenProperties
  <1>7. \A j \in DOMAIN specs : j \in DOMAIN all /\ all[j] = specs[j]
    BY <1>5, <1>6
  <1>8. \A n \in Nodes(specs), o \in DOMAIN instances : IsTarget(specs, n, o, instances) =>
            Holds(specs, n, o, instances, valueRuns) \/ <<n, o>> \in Owed(specs, toReport, instances)
    BY <1>1, NoRecomputeIs DEF Pending, DerivationInvariant
  <1>9. ASSUME NEW n \in Nodes(all), NEW o \in DOMAIN instances, IsTarget(all, n, o, instances)
        PROVE  Holds(all, n, o, instances, valueRuns) \/ <<n, o>> \in Owed(all, toReport', instances)
    <2>1. PICK j \in DOMAIN all : /\ At(all, n) = all[j] /\ Node(all[j]) = n
                                  /\ \A k \in DOMAIN all : Node(all[k]) = n => k <= j
      BY <1>5, AtIs
    <2>2. TypeOf[o] = n[1] /\ HasInput(all[j], o, instances)
      BY <1>9, <2>1 DEF IsTarget
    <2>3. CASE j \in DOMAIN specs
      <3>1. all[j] = specs[j]
        BY <1>7, <2>3
      <3>2. \A k \in DOMAIN specs : Node(specs[k]) = Node(specs[j]) => k <= j
        BY <1>7, <2>1, <3>1
      <3>3. At(specs, n) = specs[j]
        BY <1>3, <2>1, <2>3, <3>1, <3>2, AtLast
      <3>4. n \in Nodes(specs)
        BY <2>1, <2>3, <3>1 DEF Nodes
      <3>5. IsTarget(specs, n, o, instances)
        BY <2>2, <3>1, <3>3, <3>4 DEF IsTarget
      <3>6. CASE Holds(specs, n, o, instances, valueRuns)
        BY <2>1, <3>1, <3>3, <3>6 DEF Holds
      <3>7. CASE <<n, o>> \in Owed(specs, toReport, instances)
        <4>1. toReport \subseteq toReport'
          BY <1>1
        <4> QED
          BY <1>7, <3>7, <4>1, OwedMonotonic
      <3> QED
        BY <1>8, <3>4, <3>5, <3>6, <3>7
    <2>4. CASE j \notin DOMAIN specs
      <3>1. j \in (Len(specs) + 1)..Len(all) /\ j - Len(specs) \in DOMAIN batch
        BY <1>5, <1>6, <2>4
      <3>2. PICK m \in DOMAIN batch : all[j] = batch[m]
        BY <1>5, <3>1
      <3>3. PICK s \in CompiledSpecs : s = all[j] /\ s.type = n[1]
        BY <1>5, <2>1, SpecFacts
      <3>4. PICK d \in s.deps :
                IF d.via = "own" THEN TRUE ELSE \E x \in Navigated(Nav(d), o, instances) : TRUE
        <4>1. HasInput(s, o, instances)
          BY <2>2, <3>3
        <4> QED
          BY <4>1 DEF HasInput
      <3>5. d \in At(all, n).deps /\ d \in batch[m].deps
        BY <2>1, <3>2, <3>3
      <3>6. PICK x \in DOMAIN instances : d.type = TypeOf[x] /\ (IF d.via = "own" THEN o = x ELSE Linked(Nav(d), o, x))
        <4>1. CASE d.via = "own"
          <5>1. d.type = TypeOf[o]
            BY <2>2, <3>3, <4>1, DepShape
          <5> QED
            BY <4>1, <5>1
        <4>2. CASE d.via # "own"
          <5>1. PICK x \in Navigated(Nav(d), o, instances) : TRUE
            BY <3>4, <4>2
          <5>2. x \in DOMAIN instances /\ Linked(Nav(d), o, x)
            BY NavigatedIs
          <5>3. d.type = TypeAt(Nav(d))
            BY <4>2, DepShape
          <5>4. TypeOf[x] = d.type
            BY <5>2, <5>3, LinkedType
          <5> QED
            BY <4>2, <5>2, <5>4
        <4> QED
          BY <4>1, <4>2
      <3>7. <<n, o>> \in MarkedBy(all, <<TypeOf[x], d.prop, x>>, instances)
        BY <1>5, <2>2, <3>5, <3>6, DepMarks
      <3>8. <<TypeOf[x], d.prop, x>> \in news
        <4>1. PICK c : c = <<d, x>>
          OBVIOUS
        <4>2. c \in (UNION {batch[k].deps : k \in DOMAIN batch}) \X DOMAIN instances /\ c[1].type = TypeOf[c[2]]
          BY <3>5, <3>6, <4>1
        <4>3. <<TypeOf[c[2]], c[1].prop, c[2]>> \in news
          BY <4>2 DEF news
        <4> QED
          BY <4>1, <4>3
      <3>9. <<TypeOf[x], d.prop, x>> \in toReport'
        BY <1>1, <3>8
      <3> QED
        BY <3>7, <3>9 DEF Owed
    <2> QED
      BY <2>3, <2>4
  <1>10. Pending'
    BY <1>1, <1>4, <1>9 DEF Pending
  <1>11. ObjectsShaped' /\ specs' \in Seq(CompiledSpecs)
    BY <1>1, <1>4, <1>5 DEF ObjectsShaped, DerivationInvariant
  <1> QED
    BY <1>1, <1>10, <1>11, RestingNext DEF DerivationInvariant

\* A target is computed: what reads it is marked if its value changed, and is still to come.
LEMMA ComputeSteps ==
    ASSUME FormulasPlain, LinksLeadElsewhere, DerivationInvariant, NEW o \in ObjectIds, TargetComputed(o)
    PROVE  DerivationInvariant'
  <1> USE DEF DerivationInvariant
  <1> DEFINE node == recompute.node
             s == SpecAt(recompute.node)
             value == Evaluate(s.ast, o, recompute.index)
             after == [recompute.index EXCEPT ![o][s.prop] = value]
             marks == IF recompute.index[o][s.prop] = value THEN {} ELSE Marked(s.type, s.prop, o, after)
             runs == [k \in DOMAIN recompute.runs \cup {<<o, s.prop>>} |->
                        IF k = <<o, s.prop>> THEN [value |-> value, inputs |-> Inputs(s, o, recompute.index)]
                        ELSE recompute.runs[k]]
  <1>1. /\ o \in recompute.todo
        /\ instances' = [instances EXCEPT ![o] = after[o]]
        /\ recompute' = [recompute EXCEPT !.index = after, !.todo = @ \ {o}, !.dirty = @ \cup marks, !.runs = runs]
        /\ specs' = specs /\ valueRuns' = valueRuns /\ toReport' = toReport
    BY DEF TargetComputed
  <1>2. recompute # NoRecompute
    BY <1>1, NoRecomputeIs
  <1>3. /\ recompute.index = instances /\ recompute.left \subseteq Nodes(specs)
        /\ node \in Nodes(specs) \ recompute.left /\ o \in DOMAIN instances /\ TypeOf[o] = node[1]
        /\ \A m \in Nodes(specs) \ recompute.left : \A n \in recompute.left \cup {node} : <<n, m>> \notin Before(specs)
    BY <1>1, <1>2 DEF RunShaped
  <1>4. specs \in Seq(CompiledSpecs)
    OBVIOUS
  <1>5. s = At(specs, node)
    BY DEF SpecAt, At
  <1>6. /\ s \in CompiledSpecs /\ s.type = node[1] /\ s.prop = node[2] /\ node = <<node[1], node[2]>>
        /\ node[2] \in DerivedProps /\ node[2] \in Props
    <2>1. PICK n \in Nodes(specs) : n = node
      BY <1>3
    <2> HIDE DEF node, s
    <2>2. /\ At(specs, n) \in CompiledSpecs /\ At(specs, n).type = n[1] /\ At(specs, n).prop = n[2] /\ n = <<n[1], n[2]>>
          /\ n[2] \in DerivedProps /\ n[2] \in Props
      BY <1>4, SpecFacts
    <2> QED
      BY <1>5, <2>1, <2>2
  <1>7. instances = [x \in DOMAIN instances |-> [p \in Props |-> instances[x][p]]]
    BY DEF ObjectsShaped
  <1> HIDE DEF s, value, node
  <1>8. PICK Y : Y = after
    OBVIOUS
  <1>9. Y = [x \in DOMAIN instances |-> IF x = o THEN [instances[o] EXCEPT ![node[2]] = value] ELSE instances[x]]
    <2>1. PICK X : X = instances
      OBVIOUS
    <2>2. PICK p : p = node[2]
      OBVIOUS
    <2>3. Y = [X EXCEPT ![o][p] = value]
      BY <1>3, <1>6, <1>8, <2>1, <2>2
    <2>4. X = [x \in DOMAIN X |-> X[x]] /\ o \in DOMAIN X
      BY <1>3, <1>7, <2>1
    <2>5. Y = [x \in DOMAIN X |-> IF x = o THEN [X[o] EXCEPT ![p] = value] ELSE X[x]]
      BY <2>3, <2>4
    <2> QED
      BY <2>1, <2>2, <2>5
  <1>10. /\ DOMAIN Y = DOMAIN instances
         /\ \A x \in DOMAIN instances \ {o} : Y[x] = instances[x]
         /\ Y[o] = [p \in Props |-> IF p = node[2] THEN value ELSE instances[o][p]]
         /\ Y[o][node[2]] = value
    <2>1. DOMAIN Y = DOMAIN instances /\ \A x \in DOMAIN instances \ {o} : Y[x] = instances[x]
      BY <1>9
    <2>2. Y[o] = [instances[o] EXCEPT ![node[2]] = value]
      BY <1>3, <1>9
    <2>3. PICK f : f = instances[o] /\ f = [p \in Props |-> f[p]]
      BY <1>3, <1>7
    <2>4. [f EXCEPT ![node[2]] = value] = [p \in Props |-> IF p = node[2] THEN value ELSE f[p]]
      BY <2>3
    <2>5. Y[o] = [p \in Props |-> IF p = node[2] THEN value ELSE instances[o][p]]
      BY <2>2, <2>3, <2>4
    <2> QED
      BY <1>6, <2>1, <2>5
  <1>11. instances' = Y
    <2>1. instances' = [instances EXCEPT ![o] = Y[o]]
      BY <1>1, <1>8
    <2>2. Y = [x \in DOMAIN Y |-> Y[x]]
      BY <1>9
    <2>3. instances = [x \in DOMAIN instances |-> instances[x]]
      BY <1>7
    <2> QED
      BY <1>10, <2>1, <2>2, <2>3
  <1> HIDE DEF after, marks, runs
  <1>12. recompute' = [changes |-> recompute.changes, index |-> Y, dirty |-> recompute.dirty \cup marks, left |-> recompute.left,
                       node |-> node, todo |-> recompute.todo \ {o}, runs |-> runs]
    BY <1>1, <1>8 DEF RunRecord, node
  <1>13. /\ recompute'.changes = recompute.changes /\ recompute'.index = Y /\ recompute'.dirty = recompute.dirty \cup marks
         /\ recompute'.left = recompute.left /\ recompute'.node = node /\ recompute'.todo = recompute.todo \ {o}
         /\ recompute'.runs = runs
    BY <1>12
  <1>14. RunRecord'
    BY <1>12 DEF RunRecord
  <1>15. ObjectsShaped'
    <2>1. \A x \in DOMAIN Y : Y[x] = [p \in Props |-> Y[x][p]]
      BY <1>7, <1>10
    <2>2. Y = [x \in DOMAIN Y |-> [p \in Props |-> Y[x][p]]]
      BY <1>9, <2>1
    <2>3. DOMAIN Y \subseteq ObjectIds /\ Seeded \subseteq DOMAIN Y
      BY <1>10 DEF ObjectsShaped
    <2> QED
      BY <1>11, <2>2, <2>3 DEF ObjectsShaped
  <1>16. marks = (IF instances[o][node[2]] = value THEN {} ELSE MarkedBy(specs, <<node[1], node[2], o>>, Y))
    <2>1. PICK c : c = <<node[1], node[2], o>>
      OBVIOUS
    <2>2. Marked(c[1], c[2], c[3], Y) = MarkedBy(specs, c, Y)
      BY MarkedIs
    <2> QED
      BY <1>3, <1>6, <1>8, <2>1, <2>2 DEF marks
  <1>17. runs = [k \in DOMAIN recompute.runs \cup {<<o, node[2]>>} |->
                   IF k = <<o, node[2]>> THEN [value |-> value, inputs |-> Inputs(s, o, instances)] ELSE recompute.runs[k]]
    BY <1>3, <1>6 DEF runs
  <1>18. Pending'
    <2>1. <<o, node[2]>> \in DOMAIN runs
      BY <1>17
    <2>2. runs # <<>>
      BY <2>1
    <2> QED
      BY <1>13, <2>2 DEF Pending
  <1>19. RunShaped'
    <2>1. \A k \in recompute.dirty : k \in Nodes(specs) \X DOMAIN instances /\ TypeOf[k[2]] = k[1][1]
      BY DEF RunShaped
    <2>2. \A k \in marks : k \in Nodes(specs) \X DOMAIN instances /\ TypeOf[k[2]] = k[1][1]
      BY <1>10, <1>16 DEF MarkedBy
    <2>3. \A x \in recompute.todo : x \in DOMAIN instances /\ TypeOf[x] = node[1]
      BY <1>2 DEF RunShaped, node
    <2> QED
      BY <1>1, <1>3, <1>10, <1>11, <1>13, <2>1, <2>2, <2>3 DEF RunShaped
  <1> DEFINE Touches(d, t) == d.prop = node[2] /\ (IF d.via = "own" THEN t = o ELSE Linked(Nav(d), t, o))
  \* What does not read the value put gives what it gave.
  <1>20. ASSUME NEW r \in CompiledSpecs, NEW t \in DOMAIN instances, TypeOf[t] = r.type, NEW d \in r.deps,
                Touches(d, t) => instances[o][node[2]] = value
         PROVE  AlikeFor(d, t, instances, Y)
    <2>1. \A p \in Props : p # node[2] \/ instances[o][node[2]] = value => Y[o][p] = instances[o][p]
      BY <1>10
    <2>2. CASE d.via = "own"
      <3>1. d.prop \in Props
        BY <1>20, <2>2, DepShape, DerivationAssumption DEF Props, Types
      <3>2. CASE t # o
        BY <1>10, <2>2, <3>2 DEF AlikeFor
      <3>3. CASE t = o
        BY <1>20, <2>1, <2>2, <3>1, <3>3 DEF AlikeFor
      <3> QED
        BY <3>2, <3>3
    <2>3. CASE d.via # "own"
      <3>1. d.prop \in Props \cup {"*"}
        BY <1>20, <2>3, DepShape
      <3>2. ASSUME NEW x, Linked(Nav(d), t, x)
            PROVE  IF d.prop = "*" THEN x \in DOMAIN instances <=> x \in DOMAIN Y ELSE Val(instances, x, d.prop) = Val(Y, x, d.prop)
        <4>1. CASE x # o
          BY <1>10, <4>1 DEF Val
        <4>2. CASE x = o
          BY <1>3, <1>10, <1>20, <2>1, <2>3, <3>1, <3>2, <4>2 DEF Val
        <4> QED
          BY <4>1, <4>2
      <3> QED
        BY <2>3, <3>2 DEF AlikeFor
    <2> QED
      BY <2>2, <2>3
  \* What reads it comes after it.
  <1>21. ASSUME NEW n \in Nodes(specs), NEW t \in DOMAIN instances, TypeOf[t] = n[1], NEW d \in At(specs, n).deps, Touches(d, t)
         PROVE  n \in recompute.left /\ <<n, t>> \in MarkedBy(specs, <<node[1], node[2], o>>, Y)
    <2>1. PICK r \in CompiledSpecs : r = At(specs, n) /\ r.type = n[1] /\ Node(r) = n
      BY <1>4, SpecFacts, AtSpec
    <2>2. d \in r.deps
      BY <1>21, <2>1
    <2>3. d.type = TypeOf[o]
      <3>1. CASE d.via = "own"
        BY <1>21, <2>1, <2>2, <3>1, DepShape
      <3>2. CASE d.via # "own"
        BY <1>21, <2>2, <3>2, DepShape, LinkedType
      <3> QED
        BY <3>1, <3>2
    <2>4. <<d.type, d.prop>> = node
      BY <1>3, <1>6, <1>21, <2>3
    <2>5. <<node, n>> \in Before(specs)
      <3>1. PICK j \in DOMAIN specs : At(specs, n) = specs[j] /\ Node(specs[j]) = n
        BY <1>4, AtIs
      <3>2. PICK e : e = <<node, n>>
        OBVIOUS
      <3>3. e \in Nodes(specs) \X Nodes(specs) /\ Node(specs[j]) = e[2] /\ \E c \in specs[j].deps : <<c.type, c.prop>> = e[1]
        BY <1>3, <2>1, <2>2, <2>4, <3>1, <3>2
      <3>4. e \in Before(specs)
        BY <3>3 DEF Before
      <3> QED
        BY <3>2, <3>4
    <2>6. n \in recompute.left
      BY <1>3, <2>5
    <2>7. t \in DOMAIN Y /\ o \in DOMAIN Y
      BY <1>3, <1>10
    <2>8. d.prop \in {node[2], "*"} /\ (IF d.via = "own" THEN t = o ELSE Linked(Nav(d), t, o))
      BY <1>21
    <2> HIDE DEF Touches
    <2>9. <<n, t>> \in MarkedBy(specs, <<TypeOf[o], node[2], o>>, Y)
      BY <1>4, <1>21, <2>7, <2>8, DepMarks
    <2> QED
      BY <1>3, <2>6, <2>9
  <1>22. RunUnderway'
    <2>1. ASSUME NEW n \in Nodes(specs), NEW t \in DOMAIN Y, IsTarget(specs, n, t, Y)
          PROVE  \/ Holds(specs, n, t, Y, Merged(valueRuns, runs))
                 \/ n \in recompute.left /\ <<n, t>> \in recompute.dirty \cup marks
                 \/ n = node /\ t \in recompute.todo \ {o}
                 \/ <<n, t>> \in Owed(specs, toReport \ recompute.changes, Y)
      <3>1. PICK r \in CompiledSpecs : r = At(specs, n) /\ r.type = n[1] /\ r.prop = n[2] /\ n = <<n[1], n[2]>>
        BY <1>4, SpecFacts
      <3>2. TypeOf[t] = n[1] /\ HasInput(r, t, Y) /\ t \in DOMAIN instances
        BY <1>10, <2>1, <3>1 DEF IsTarget
      <3>3. CASE \E d \in r.deps : Touches(d, t) /\ instances[o][node[2]] # value
        <4>1. PICK d \in r.deps : Touches(d, t) /\ instances[o][node[2]] # value
          BY <3>3
        <4>2. d \in At(specs, n).deps
          BY <3>1
        <4> HIDE DEF Touches
        <4>3. n \in recompute.left /\ <<n, t>> \in MarkedBy(specs, <<node[1], node[2], o>>, Y)
          BY <1>21, <3>2, <4>1, <4>2
        <4> QED
          BY <1>16, <4>1, <4>3
      <3>4. CASE \A d \in r.deps : Touches(d, t) => instances[o][node[2]] = value
        <4> HIDE DEF Touches
        <4>1. \A d \in r.deps : AlikeFor(d, t, instances, Y)
          BY <1>20, <3>1, <3>2, <3>4
        <4>2. CASE n = node /\ t = o
          <5>1. Evaluate(r.ast, t, instances) = Evaluate(r.ast, t, Y)
            BY <4>1, FormulaAlike
          <5>2. Given(Inputs(r, t, instances)) = Given(Inputs(r, t, Y))
            BY <4>1, InputsAlike
          <5>3. r = s
            BY <1>5, <3>1, <4>2
          <5>4. value = Evaluate(r.ast, t, instances)
            BY <1>3, <4>2, <5>3 DEF value
          <5>5. <<t, n[2]>> \in DOMAIN runs /\ runs[<<t, n[2]>>] = [value |-> value, inputs |-> Inputs(r, t, instances)]
            BY <1>17, <4>2, <5>3
          <5>6. <<t, n[2]>> \in DOMAIN Merged(valueRuns, runs)
                /\ Merged(valueRuns, runs)[<<t, n[2]>>] = [value |-> value, inputs |-> Inputs(r, t, instances)]
            BY <5>5, MergedIs
          <5>7. Y[t][n[2]] = value
            BY <1>10, <4>2
          <5>8. Holds(specs, n, t, Y, Merged(valueRuns, runs))
            BY <3>1, <5>1, <5>2, <5>4, <5>6, <5>7 DEF Holds
          <5> QED
            BY <5>8
        <4>3. CASE ~(n = node /\ t = o)
          <5>1. t = o => n[2] # node[2]
            BY <1>3, <1>6, <3>1, <3>2, <4>3
          <5>2. instances[t][n[2]] = Y[t][n[2]]
            <6>1. n[2] \in Props
              BY <1>4, SpecFacts
            <6>2. CASE t = o
              BY <1>10, <5>1, <6>1, <6>2
            <6>3. CASE t # o
              BY <1>10, <3>2, <6>3
            <6> QED
              BY <6>2, <6>3
          <5>3. HasInput(r, t, instances)
            <6>1. \A d \in r.deps : AlikeFor(d, t, Y, instances)
              BY <4>1, AlikeBack
            <6> QED
              BY <3>2, <6>1, HasInputAlike
          <5>4. IsTarget(specs, n, t, instances)
            BY <3>1, <3>2, <5>3 DEF IsTarget
          <5>5. \/ Holds(specs, n, t, instances, Merged(valueRuns, recompute.runs))
                \/ n \in recompute.left /\ <<n, t>> \in recompute.dirty
                \/ n = node /\ t \in recompute.todo
                \/ <<n, t>> \in Owed(specs, toReport \ recompute.changes, instances)
            BY <1>2, <3>2, <5>4 DEF RunUnderway, node
          <5>6. CASE Holds(specs, n, t, instances, Merged(valueRuns, recompute.runs))
            <6>1. PICK k : k = <<t, n[2]>>
              OBVIOUS
            <6>2. k # <<o, node[2]>>
              BY <5>1, <6>1
            <6>3. k \in DOMAIN Merged(valueRuns, recompute.runs)
              BY <5>6, <6>1 DEF Holds
            <6>4. k \in DOMAIN runs <=> k \in DOMAIN recompute.runs
              BY <1>17, <6>2
            <6>5. k \in DOMAIN runs => runs[k] = recompute.runs[k]
              BY <1>17, <6>2
            <6>6. k \in DOMAIN Merged(valueRuns, runs) /\ Merged(valueRuns, runs)[k] = Merged(valueRuns, recompute.runs)[k]
              BY <6>3, <6>4, <6>5 DEF Merged
            <6>7. Holds(specs, n, t, instances, Merged(valueRuns, runs))
              BY <5>6, <6>1, <6>6, HoldsRuns
            <6>8. \A d \in At(specs, n).deps : AlikeFor(d, t, instances, Y)
              BY <3>1, <4>1
            <6>9. Holds(specs, n, t, Y, Merged(valueRuns, runs))
              BY <1>4, <5>2, <6>7, <6>8, HoldsAlike
            <6> QED
              BY <6>9
          <5>7. CASE <<n, t>> \in Owed(specs, toReport \ recompute.changes, instances)
            <6>1. DOMAIN instances \subseteq DOMAIN Y
              BY <1>10
            <6>2. <<n, t>> \in Owed(specs, toReport \ recompute.changes, Y)
              BY <5>7, <6>1, OwedMonotonic
            <6> QED
              BY <6>2
          <5>8. CASE n = node /\ t \in recompute.todo
            BY <4>3, <5>8
          <5> QED
            BY <5>5, <5>6, <5>7, <5>8
        <4> QED
          BY <4>2, <4>3
      <3> QED
        BY <3>3, <3>4
    <2>2. specs' = specs /\ valueRuns' = valueRuns /\ toReport' = toReport
      BY <1>1
    <2>3. \A n \in Nodes(specs'), t \in DOMAIN instances' : IsTarget(specs', n, t, instances') =>
            \/ Holds(specs', n, t, instances', Merged(valueRuns', recompute'.runs))
            \/ n \in recompute'.left /\ <<n, t>> \in recompute'.dirty
            \/ n = recompute'.node /\ t \in recompute'.todo
            \/ <<n, t>> \in Owed(specs', toReport' \ recompute'.changes, instances')
      BY <1>11, <1>13, <2>1, <2>2
    <2> QED
      BY <2>3 DEF RunUnderway
  <1> QED
    BY <1>1, <1>4, <1>14, <1>15, <1>18, <1>19, <1>22

\* Every step keeps the invariant.
LEMMA NextDerivation ==
    ASSUME FormulasPlain, LinksLeadElsewhere, DerivedSeparate, NewcomersReport, ~RecomputeOverlaps,
           DerivationInvariant, DerivationNext
    PROVE  DerivationInvariant'
  <1>1. ASSUME NEW i \in DOMAIN SpecBatches, SpecsCompiled(i) PROVE DerivationInvariant'
    BY <1>1, CompileSteps
  <1>2. ASSUME NEW o \in ObjectIds, ObjectUpserted(o) PROVE DerivationInvariant'
    BY <1>2, UpsertSteps
  <1>3. ASSUME NEW o \in ObjectIds, TargetComputed(o) PROVE DerivationInvariant'
    BY <1>3, ComputeSteps
  <1>4. CASE RecomputeStarts
    BY <1>4, StartSteps
  <1>5. CASE RecomputeEnds
    BY <1>5, EndSteps
  <1>6. CASE RecomputeBreaks
    BY <1>6, BreakSteps
  <1>7. ASSUME NEW node \in recompute.left, NodeTaken(node) PROVE DerivationInvariant'
    BY <1>7, TakenSteps
  <1> QED
    BY <1>1, <1>2, <1>3, <1>4, <1>5, <1>6, <1>7 DEF DerivationNext

\* So does standing still.
LEMMA StillDerivation ==
    ASSUME DerivationInvariant, UNCHANGED derivationVars
    PROVE  DerivationInvariant'
  <1>1. /\ instances' = instances /\ specs' = specs /\ recompute' = recompute
        /\ valueRuns' = valueRuns /\ toReport' = toReport
    BY DEF derivationVars
  <1>2. ObjectsShaped' /\ specs' \in Seq(CompiledSpecs) /\ RunRecord'
    BY <1>1 DEF ObjectsShaped, RunRecord, DerivationInvariant
  <1>3. Pending'
    BY <1>1 DEF Pending, DerivationInvariant
  <1>4. RunShaped'
    BY <1>1 DEF RunShaped, DerivationInvariant
  <1>5. RunUnderway'
    BY <1>1 DEF RunUnderway, DerivationInvariant
  <1> QED
    BY <1>2, <1>3, <1>4, <1>5 DEF DerivationInvariant

\* With nothing to report and no recompute, nothing is owed.
LEMMA DerivationSuffices ==
    ASSUME DerivationInvariant
    PROVE  DerivedIsCurrent
  <1> SUFFICES ASSUME recompute = NoRecompute, toReport = {}, NEW n \in Nodes(specs), NEW o \in DOMAIN instances,
                      TypeOf[o] = n[1], HasInput(SpecAt(n), o, instances)
               PROVE  ValueHolds(n, o, instances, valueRuns)
    BY DEF DerivedIsCurrent
  <1>1. SpecAt(n) = At(specs, n)
    BY DEF SpecAt, At
  <1>2. IsTarget(specs, n, o, instances)
    BY <1>1 DEF IsTarget
  <1>3. <<n, o>> \notin Owed(specs, toReport, instances)
    BY DEF Owed
  <1>4. Holds(specs, n, o, instances, valueRuns)
    BY <1>2, <1>3, NoRecomputeIs DEF Pending, DerivationInvariant
  <1> QED
    BY <1>1, <1>4 DEF Holds, ValueHolds

\* When every change has been reported, in whatever portions and order, each derived value that has something
\* to be computed from is what its formula gives, and its last value run says from what: for any objects,
\* links, specs and formulas of the plain kind, if recomputes do not overlap (ontology-core.ts).
THEOREM DerivedIsCurrentAlways ==
    ASSUME FormulasPlain, LinksLeadElsewhere, DerivedSeparate, NewcomersReport, ~RecomputeOverlaps
    PROVE  DerivationSpec => []DerivedIsCurrent
  <1>1. DerivationInit => DerivationInvariant
    BY InitDerivation
  <1>2. DerivationInvariant /\ [DerivationNext]_derivationVars => DerivationInvariant'
    BY NextDerivation, StillDerivation
  <1>3. DerivationInvariant => DerivedIsCurrent
    BY DerivationSuffices
  <1> QED
    BY <1>1, <1>2, <1>3, PTL DEF DerivationSpec

-----------------------------------------------------------------------------
(* Values of derived properties have their type *)

LEMMA ScalarsAre ==
    /\ Scalar(Null) /\ Scalar(Undef)
    /\ \A n : Scalar(Num(n)) /\ Scalar(Bool(n))
  BY DEF Scalar, IsNum, IsBool, Num, Bool

LEMMA AppliedScalar ==
    ASSUME NEW op \in {"==", "!=", "+", "-", "*", "/", ">", ">=", "<", "<="}, NEW l, NEW r
    PROVE  Scalar(Applied(op, l, r))
  <1>1. CASE Null \in {l, r} \/ op \in {"==", "!="} \/ ~IsNum(l) \/ ~IsNum(r)
    BY <1>1, ScalarsAre DEF Applied
  <1>2. CASE ~(Null \in {l, r} \/ op \in {"==", "!="} \/ ~IsNum(l) \/ ~IsNum(r))
    BY <1>2, ScalarsAre DEF Applied
  <1> QED
    BY <1>1, <1>2

LEMMA AggregateScalar ==
    ASSUME NEW a, a.fn \in {"COUNT", "SUM", "AVG", "MIN", "MAX"}, NEW o, NEW objs
    PROVE  Scalar(AggregateValue(a, o, objs))
  <1>1. CASE a.fn = "COUNT"
    BY <1>1, ScalarsAre DEF AggregateValue
  <1>2. CASE a.fn # "COUNT"
    <2>1. \A amounts : Scalar(Aggregated(a.fn, amounts))
      BY <1>2, ScalarsAre DEF Aggregated
    <2> QED
      BY <1>2, <2>1 DEF AggregateValue
  <1> QED
    BY <1>1, <1>2

\* The arguments that have a value.
Valued(a, val) == {i \in DOMAIN a.args : val[a.args[i]] # Null}

LEMMA NodeScalar ==
    ASSUME NEW a, NEW earlier, NodeTyped(a, earlier), NEW val, \A j \in earlier : Scalar(val[j]),
           NEW o, NEW objs, a.kind = "propref" => Scalar(objs[o][a.prop])
    PROVE  Scalar(NodeValue(a, val, o, objs))
  <1>1. CASE a.kind = "propref"
    BY <1>1, ScalarsAre DEF NodeValue, PlainValue
  <1>2. CASE a.kind = "agg"
    <2>1. a.fn \in {"COUNT", "SUM", "AVG", "MIN", "MAX"}
      BY <1>2 DEF NodeTyped
    <2> QED
      BY <1>2, <2>1, AggregateScalar DEF NodeValue
  <1>3. CASE a.kind = "value"
    BY <1>3 DEF NodeTyped, NodeValue, PlainValue, Combined
  <1>4. CASE a.kind = "unary"
    <2>1. NodeValue(a, val, o, objs) = Applied("-", Num(0), val[a.operand])
      BY <1>4 DEF NodeValue, PlainValue, Combined
    <2> QED
      BY <2>1, AppliedScalar
  <1>5. CASE a.kind = "binary"
    <2>1. NodeValue(a, val, o, objs) = Applied(a.op, val[a.left], val[a.right])
      BY <1>5 DEF NodeValue, PlainValue, Combined
    <2>2. a.op \in {"==", "!=", "+", "-", "*", "/", ">", ">=", "<", "<="}
      BY <1>5 DEF NodeTyped
    <2> QED
      BY <2>1, <2>2, AppliedScalar
  <1>6. CASE a.kind = "and"
    <2>1. Scalar(val[a.left])
      BY <1>6 DEF NodeTyped
    <2> QED
      BY <1>6, <2>1, ScalarsAre DEF NodeValue, PlainValue, Combined
  <1>7. CASE a.kind = "or"
    <2>1. Scalar(val[a.left])
      BY <1>7 DEF NodeTyped
    <2> QED
      BY <1>7, <2>1, ScalarsAre DEF NodeValue, PlainValue, Combined
  <1>8. CASE a.kind = "if"
    <2>1. Scalar(val[a.left]) /\ Scalar(val[a.right])
      BY <1>8 DEF NodeTyped
    <2> QED
      BY <1>8, <2>1, ScalarsAre DEF NodeValue, PlainValue, Combined
  <1>9. CASE a.kind = "coalesce"
    <2>1. NodeValue(a, val, o, objs) =
            IF Valued(a, val) = {} THEN Null
            ELSE val[a.args[CHOOSE i \in Valued(a, val) : \A j \in Valued(a, val) : i <= j]]
      BY <1>9 DEF NodeValue, PlainValue, Combined, Valued
    <2>2. CASE Valued(a, val) = {}
      BY <2>1, <2>2, ScalarsAre
    <2>3. CASE Valued(a, val) # {}
      <3>1. Valued(a, val) \in SUBSET Nat /\ \A j \in Valued(a, val) : Scalar(val[a.args[j]])
        BY <1>9 DEF NodeTyped, Valued
      <3>2. \E i \in Valued(a, val) : \A j \in Valued(a, val) : i <= j
        BY <2>3, <3>1, LeastNumber
      <3>3. PICK i \in Valued(a, val) : i = CHOOSE k \in Valued(a, val) : \A j \in Valued(a, val) : k <= j
        BY <3>2
      <3> QED
        BY <2>1, <2>3, <3>1, <3>3
    <2> QED
      BY <2>2, <2>3
  <1>10. CASE a.kind = "clamp"
    <2>1. \A v, l, h : Scalar(Clamped(v, l, h))
      BY ScalarsAre DEF Clamped
    <2> QED
      BY <1>10, <2>1 DEF NodeValue, PlainValue, Combined
  <1> QED
    BY <1>1, <1>2, <1>3, <1>4, <1>5, <1>6, <1>7, <1>8, <1>9, <1>10 DEF NodeTyped

\* A node reads no value but those of the nodes it combines.
LEMMA NodeReads ==
    ASSUME NEW a, NEW earlier, NodeTyped(a, earlier), NEW v, NEW w, \A j \in earlier : v[j] = w[j], NEW o, NEW objs
    PROVE  NodeValue(a, v, o, objs) = NodeValue(a, w, o, objs)
  <1>1. CASE a.kind \in {"propref", "agg"}
    BY <1>1 DEF NodeValue, PlainValue
  <1>2. CASE a.kind = "value"
    BY <1>2 DEF NodeValue, PlainValue, Combined
  <1>3. CASE a.kind = "unary"
    <2>1. v[a.operand] = w[a.operand]
      BY <1>3 DEF NodeTyped
    <2> QED
      BY <1>3, <2>1 DEF NodeValue, PlainValue, Combined
  <1>4. CASE a.kind \in {"binary", "and", "or"}
    <2>1. v[a.left] = w[a.left] /\ v[a.right] = w[a.right]
      BY <1>4 DEF NodeTyped
    <2> QED
      BY <1>4, <2>1 DEF NodeValue, PlainValue, Combined
  <1>5. CASE a.kind = "if"
    <2>1. v[a.cond] = w[a.cond] /\ v[a.left] = w[a.left] /\ v[a.right] = w[a.right]
      BY <1>5 DEF NodeTyped
    <2> QED
      BY <1>5, <2>1 DEF NodeValue, PlainValue, Combined
  <1>6. CASE a.kind = "clamp"
    <2>1. v[a.value] = w[a.value] /\ v[a.left] = w[a.left] /\ v[a.right] = w[a.right]
      BY <1>6 DEF NodeTyped
    <2> QED
      BY <1>6, <2>1 DEF NodeValue, PlainValue, Combined
  <1>7. CASE a.kind = "coalesce"
    <2>1. \A i \in DOMAIN a.args : v[a.args[i]] = w[a.args[i]]
      BY <1>7 DEF NodeTyped
    <2>2. Valued(a, v) = Valued(a, w) /\ DOMAIN a.args \subseteq Nat
      BY <1>7, <2>1 DEF Valued, NodeTyped
    <2>3. \A u : NodeValue(a, u, o, objs) =
            IF Valued(a, u) = {} THEN Null
            ELSE u[a.args[CHOOSE i \in Valued(a, u) : \A j \in Valued(a, u) : i <= j]]
      BY <1>7 DEF NodeValue, PlainValue, Combined, Valued
    <2>4. CASE Valued(a, v) = {}
      BY <2>2, <2>3, <2>4
    <2>5. CASE Valued(a, v) # {}
      <3>1. Valued(a, v) \in SUBSET Nat /\ Valued(a, v) \subseteq DOMAIN a.args
        BY <2>2 DEF Valued
      <3>2. \E i \in Valued(a, v) : \A j \in Valued(a, v) : i <= j
        BY <2>5, <3>1, LeastNumber
      <3>3. PICK i \in Valued(a, v) : i = CHOOSE k \in Valued(a, v) : \A j \in Valued(a, v) : k <= j
        BY <3>2
      <3> QED
        BY <2>1, <2>2, <2>3, <2>5, <3>1, <3>3
    <2> QED
      BY <2>4, <2>5
  <1> QED
    BY <1>1, <1>2, <1>3, <1>4, <1>5, <1>6, <1>7 DEF NodeTyped

LEMMA EvaluateScalar ==
    ASSUME NEW f, NEW n \in Nat \ {0}, Len(f) = n, DOMAIN f = 1..n, \A i \in 1..n : NodeTyped(f[i], 1..(i - 1)),
           NEW o, NEW objs, \A i \in 1..n : f[i].kind = "propref" => Scalar(objs[o][f[i].prop])
    PROVE  Scalar(Evaluate(f, o, objs))
  <1> DEFINE Upto(k, g) == DOMAIN g = 1..k /\ \A i \in 1..k : g[i] = NodeValue(f[i], g, o, objs)
             Has == {k \in 0..n : \E g : Upto(k, g)}
  <1>1. 0 \in Has
    <2>1. PICK g : g = [i \in 1..0 |-> Null]
      OBVIOUS
    <2>2. Upto(0, g)
      BY <2>1
    <2> QED
      BY <2>2
  <1>2. ASSUME NEW k \in 0..n, k \in Has, k < n PROVE k + 1 \in Has
    <2>1. PICK g : Upto(k, g)
      BY <1>2
    <2>2. PICK h : h = [i \in 1..k + 1 |-> IF i <= k THEN g[i] ELSE NodeValue(f[k + 1], g, o, objs)]
      OBVIOUS
    <2>3. \A i \in 1..k : h[i] = g[i]
      BY <2>2
    <2>4. ASSUME NEW i \in 1..k + 1 PROVE h[i] = NodeValue(f[i], h, o, objs)
      <3>1. i \in 1..n /\ \A j \in 1..(i - 1) : j \in 1..k
        BY <1>2
      <3>2. \A j \in 1..(i - 1) : g[j] = h[j]
        BY <2>3, <3>1
      <3>3. NodeValue(f[i], g, o, objs) = NodeValue(f[i], h, o, objs)
        <4>1. NodeTyped(f[i], 1..(i - 1))
          BY <3>1
        <4>2. PICK a : a = f[i]
          OBVIOUS
        <4>3. PICK earlier : earlier = 1..(i - 1)
          OBVIOUS
        <4>4. NodeTyped(a, earlier) /\ \A j \in earlier : g[j] = h[j]
          BY <3>2, <4>1, <4>2, <4>3
        <4>5. NodeValue(a, g, o, objs) = NodeValue(a, h, o, objs)
          BY ONLY <4>4, NodeReads
        <4> QED
          BY <4>2, <4>5
      <3>4. CASE i \in 1..k
        BY <2>1, <2>3, <3>3, <3>4
      <3>5. CASE i = k + 1
        <4>1. h[i] = NodeValue(f[k + 1], g, o, objs)
          BY <2>2, <3>5
        <4> QED
          BY <3>3, <3>5, <4>1
      <3> QED
        BY <3>4, <3>5
    <2>5. Upto(k + 1, h)
      BY <2>2, <2>4
    <2>6. k + 1 \in 0..n
      BY <1>2
    <2> QED
      BY <2>5, <2>6
  <1>3. \E g : Upto(n, g)
    <2> HIDE DEF Upto
    <2>1. \A k \in 0..n : k \in Has => k \in Has
      OBVIOUS
    <2>2. \A k \in 0..n : k \in Has /\ k < n => k + 1 \in Has
      BY <1>2
    <2> HIDE DEF Has
    <2>3. \A k \in 0..n : k \in Has
      BY <1>1, <2>2, UpTo
    <2> QED
      <3>1. n \in Has
        BY <2>3
      <3> QED
        BY <3>1 DEF Has
  <1> DEFINE Goes(g) == g = [i \in DOMAIN f |-> NodeValue(f[i], g, o, objs)]
  <1>4. \E g : Goes(g)
    <2>1. PICK g : Upto(n, g)
      BY <1>3
    <2>2. PICK h : h = [i \in 1..n |-> g[i]]
      OBVIOUS
    <2>3. ASSUME NEW i \in 1..n PROVE h[i] = NodeValue(f[i], h, o, objs)
      <3>1. \A j \in 1..(i - 1) : g[j] = h[j]
        BY <2>2
      <3>2. NodeValue(f[i], g, o, objs) = NodeValue(f[i], h, o, objs)
        <4>1. NodeTyped(f[i], 1..(i - 1))
          OBVIOUS
        <4>2. PICK a : a = f[i]
          OBVIOUS
        <4>3. PICK earlier : earlier = 1..(i - 1)
          OBVIOUS
        <4>4. NodeTyped(a, earlier) /\ \A j \in earlier : g[j] = h[j]
          BY <3>1, <4>1, <4>2, <4>3
        <4>5. NodeValue(a, g, o, objs) = NodeValue(a, h, o, objs)
          BY ONLY <4>4, NodeReads
        <4> QED
          BY <4>2, <4>5
      <3>3. g[i] = NodeValue(f[i], g, o, objs)
        BY <2>1
      <3> QED
        BY <2>2, <3>2, <3>3
    <2>4. h = [i \in 1..n |-> NodeValue(f[i], h, o, objs)]
      <3>1. h = [i \in 1..n |-> h[i]]
        BY <2>2
      <3> QED
        BY <2>3, <3>1
    <2>5. Goes(h)
      BY <2>4
    <2> QED
      BY <2>5
  <1>5. PICK val : val = CHOOSE g : Goes(g)
    OBVIOUS
  <1>6. Goes(val)
    BY <1>4, <1>5
  <1>7. Evaluate(f, o, objs) = val[n]
    BY <1>5 DEF Evaluate
  <1>8. \A i \in 1..n : val[i] = NodeValue(f[i], val, o, objs)
    BY <1>6
  <1> HIDE DEF Upto, Has, Goes
  <1> DEFINE Good == {k \in 0..n : \A i \in 1..k : Scalar(val[i])}
  <1>9. 0 \in Good
    OBVIOUS
  <1>10. ASSUME NEW k \in 0..n, k \in Good, k < n PROVE k + 1 \in Good
    <2>1. k + 1 \in 1..n /\ (k + 1) - 1 = k
      BY <1>10
    <2>2. \A j \in 1..((k + 1) - 1) : Scalar(val[j])
      BY <1>10, <2>1
    <2>3. Scalar(NodeValue(f[k + 1], val, o, objs))
      BY <2>1, <2>2, NodeScalar
    <2>4. \A i \in 1..k + 1 : i \in 1..k \/ i = k + 1
      BY <1>10
    <2> QED
      BY <1>8, <1>10, <2>1, <2>3, <2>4
  <1> HIDE DEF Good
  <1>11. n \in Good
    <2>1. \A k \in 0..n : k \in Good
      BY <1>9, <1>10, UpTo
    <2> QED
      BY <2>1
  <1> QED
    BY <1>7, <1>11 DEF Good

\* The changes there can be.
Changes == Types \X (Props \cup {"*"}) \X ObjectIds

DerivationTyped ==
    /\ \A o \in DOMAIN instances : \A p \in Props : Scalar(instances[o][p])
    /\ recompute.changes \subseteq Changes /\ toReport \subseteq Changes /\ upserts \in 0..MaxUpserts
    /\ DOMAIN valueRuns \subseteq ObjectIds \X DerivedProps /\ DOMAIN recompute.runs \subseteq ObjectIds \X DerivedProps

LEMMA CompiledTyped ==
    ASSUME ValuesTyped, FormulasPlain, NEW s \in CompiledSpecs, NEW o, NEW objs, \A p \in Props : Scalar(objs[o][p])
    PROVE  Scalar(Evaluate(s.ast, o, objs))
  <1>1. PICK i \in DOMAIN SpecBatches : s \in {Compiled(SpecBatches[i])[j] : j \in DOMAIN SpecBatches[i]}
    BY DEF CompiledSpecs
  <1>2. PICK j \in DOMAIN SpecBatches[i] : s = Compiled(SpecBatches[i])[j]
    BY <1>1
  <1>3. PICK f : f = SpecBatches[i][j].ast
    OBVIOUS
  <1>4. s.ast = f
    BY <1>2, <1>3 DEF Compiled
  <1>5. FormulaTyped(f)
    BY <1>3 DEF ValuesTyped
  <1>6. PICK n \in Nat : n = Len(f) /\ DOMAIN f = 1..n
    BY <1>4, CompiledIs
  <1>7. n \in Nat \ {0}
    BY <1>5, <1>6 DEF FormulaTyped
  <1>8. \A k \in 1..n : NodeTyped(f[k], 1..(k - 1))
    BY <1>5, <1>6 DEF FormulaTyped
  <1>9. \A k \in 1..n : f[k].kind = "propref" => Scalar(objs[o][f[k].prop])
    <2>1. PlainFormula(f)
      BY <1>4, CompiledIs
    <2> QED
      BY <1>6, <2>1 DEF PlainFormula
  <1> QED
    BY <1>4, <1>6, <1>7, <1>8, <1>9, EvaluateScalar

LEMMA InitTyped ==
    ASSUME ValuesTyped, DerivationInit
    PROVE  DerivationTyped
  <1>1. PICK v \in [UNION {BaseProps[t] : t \in Types} -> UNION {BaseValues[p] : p \in DOMAIN BaseValues}] :
            instances = [o \in Seeded |-> [p \in Props |-> IF p \in BaseProps[TypeOf[o]] THEN v[p] ELSE Undef]]
    BY DEF DerivationInit
  <1>2. ASSUME NEW o \in DOMAIN instances, NEW p \in Props PROVE Scalar(instances[o][p])
    <2>1. o \in Seeded /\ instances[o][p] = IF p \in BaseProps[TypeOf[o]] THEN v[p] ELSE Undef
      BY <1>1, <1>2
    <2>2. CASE p \in BaseProps[TypeOf[o]]
      <3>1. p \in UNION {BaseProps[t] : t \in Types}
        BY <2>1, <2>2, DerivationAssumption DEF Types
      <3>2. v[p] \in UNION {BaseValues[q] : q \in DOMAIN BaseValues}
        BY <3>1
      <3> QED
        BY <2>1, <2>2, <3>2 DEF ValuesTyped
    <2>3. CASE p \notin BaseProps[TypeOf[o]]
      BY <2>1, <2>3, ScalarsAre
    <2> QED
      BY <2>2, <2>3
  <1>3. recompute.changes = {} /\ recompute.runs = <<>> /\ toReport = {} /\ valueRuns = <<>> /\ upserts \in 0..MaxUpserts
    BY NoRecomputeIs, DerivationAssumption DEF DerivationInit
  <1> QED
    BY <1>2, <1>3 DEF DerivationTyped

LEMMA NextTyped ==
    ASSUME ValuesTyped, FormulasPlain, DerivationInvariant, DerivationTyped, DerivationNext
    PROVE  DerivationTyped'
  <1>0. /\ ObjectsShaped /\ specs \in Seq(CompiledSpecs) /\ RunRecord /\ RunShaped
        /\ \A o \in DOMAIN instances : \A p \in Props : Scalar(instances[o][p])
        /\ recompute.changes \subseteq Changes /\ toReport \subseteq Changes /\ upserts \in 0..MaxUpserts
        /\ DOMAIN valueRuns \subseteq ObjectIds \X DerivedProps /\ DOMAIN recompute.runs \subseteq ObjectIds \X DerivedProps
    BY DEF DerivationInvariant, DerivationTyped
  <1>1. ASSUME NEW i \in DOMAIN SpecBatches, SpecsCompiled(i) PROVE DerivationTyped'
    <2>1. PICK batch : batch = Compiled(SpecBatches[i])
      OBVIOUS
    <2>2. /\ toReport' = toReport \cup {<<TypeOf[c[2]], c[1].prop, c[2]>> :
                c \in {e \in (UNION {batch[j].deps : j \in DOMAIN batch}) \X DOMAIN instances : e[1].type = TypeOf[e[2]]}}
          /\ instances' = instances /\ recompute' = recompute /\ valueRuns' = valueRuns /\ upserts' = upserts
          /\ Sortable(batch) /\ \A j \in DOMAIN batch : LinksKnown(SpecBatches[i][j].ast)
      BY <1>1, <2>1 DEF SpecsCompiled
    <2>3. ASSUME NEW j \in DOMAIN batch, NEW d \in batch[j].deps PROVE d.prop \in Props \cup {"*"}
      <3>1. DOMAIN batch = DOMAIN SpecBatches[i]
        BY <2>1 DEF Compiled
      <3>2. batch[j] \in CompiledSpecs
        BY <2>1, <2>2, <3>1 DEF CompiledSpecs
      <3> QED
        BY <2>3, <3>2, DepShape
    <2>4. ASSUME NEW c \in {e \in (UNION {batch[j].deps : j \in DOMAIN batch}) \X DOMAIN instances : e[1].type = TypeOf[e[2]]}
          PROVE  <<TypeOf[c[2]], c[1].prop, c[2]>> \in Changes
      <3>1. c[2] \in ObjectIds /\ c[1] \in UNION {batch[j].deps : j \in DOMAIN batch}
        BY <1>0, <2>4 DEF ObjectsShaped
      <3>2. c[1].prop \in Props \cup {"*"} /\ TypeOf[c[2]] \in Types
        BY <2>3, <3>1 DEF Types
      <3> QED
        BY <3>1, <3>2 DEF Changes
    <2>5. toReport' \subseteq Changes
      BY <1>0, <2>2, <2>4
    <2> QED
      BY <1>0, <2>2, <2>5 DEF DerivationTyped
  <1>2. ASSUME NEW o \in ObjectIds, ObjectUpserted(o) PROVE DerivationTyped'
    <2> DEFINE old == IF o \in DOMAIN instances THEN instances[o] ELSE [p \in Props |-> Undef]
    <2>1. \A p \in Props : Scalar(old[p])
      BY <1>0, ScalarsAre
    <2>2. PICK given \in IF o \in DOMAIN instances THEN {{p} : p \in BaseProps[TypeOf[o]]} ELSE {BaseProps[TypeOf[o]]} :
            \E v \in [given -> UNION {BaseValues[p] : p \in given}] :
              /\ upserts < MaxUpserts /\ \A p \in given : v[p] \in BaseValues[p]
              /\ instances' = [x \in DOMAIN instances \cup {o} |->
                                  IF x = o THEN [p \in Props |-> IF p \in given THEN v[p] ELSE old[p]] ELSE instances[x]]
              /\ toReport' = toReport \cup {<<TypeOf[o], p, o>> : p \in given}
              /\ upserts' = upserts + 1 /\ recompute' = recompute /\ valueRuns' = valueRuns
      BY <1>2 DEF ObjectUpserted
    <2>3. PICK v \in [given -> UNION {BaseValues[p] : p \in given}] :
            /\ upserts < MaxUpserts /\ \A p \in given : v[p] \in BaseValues[p]
            /\ instances' = [x \in DOMAIN instances \cup {o} |->
                                IF x = o THEN [p \in Props |-> IF p \in given THEN v[p] ELSE old[p]] ELSE instances[x]]
            /\ toReport' = toReport \cup {<<TypeOf[o], p, o>> : p \in given}
            /\ upserts' = upserts + 1 /\ recompute' = recompute /\ valueRuns' = valueRuns
      BY <2>2
    <2> HIDE DEF old
    <2>4. given \subseteq Props
      BY <2>2 DEF Props, Types
    <2>5. ASSUME NEW p \in given PROVE Scalar(v[p])
      <3>1. p \in DOMAIN BaseValues
        BY <2>2 DEF ValuesTyped, Types
      <3> QED
        BY <2>3, <2>5, <3>1 DEF ValuesTyped
    <2>6. ASSUME NEW x \in DOMAIN instances', NEW p \in Props PROVE Scalar(instances'[x][p])
      BY <1>0, <2>3, <2>5, <2>1, <2>6
    <2>7. toReport' \subseteq Changes
      BY <1>0, <2>3, <2>4 DEF Changes, Types
    <2>8. upserts' \in 0..MaxUpserts
      BY <1>0, <2>3, DerivationAssumption
    <2> QED
      BY <1>0, <2>3, <2>6, <2>7, <2>8 DEF DerivationTyped
  <1>3. ASSUME NEW o \in ObjectIds, TargetComputed(o) PROVE DerivationTyped'
    <2>1. PICK s : s = At(specs, recompute.node)
      OBVIOUS
    <2>2. PICK index : index = recompute.index
      OBVIOUS
    <2>3. PICK value : value = Evaluate(s.ast, o, index)
      OBVIOUS
    <2>4. PICK after : after = [index EXCEPT ![o][s.prop] = value]
      OBVIOUS
    <2>5. o \in recompute.todo /\ recompute # NoRecompute
      <3>1. o \in recompute.todo
        BY <1>3 DEF TargetComputed
      <3> QED
        BY <3>1, NoRecomputeIs
    <2>6. index = instances /\ recompute.node \in Nodes(specs) /\ o \in DOMAIN instances
      BY <1>0, <2>2, <2>5 DEF RunShaped
    <2>7. s \in CompiledSpecs /\ s.prop \in DerivedProps /\ s.prop \in Props
      BY <1>0, <2>1, <2>6, SpecFacts
    <2>8. /\ instances' = [instances EXCEPT ![o] = after[o]]
          /\ recompute' = [recompute EXCEPT !.index = after, !.todo = @ \ {o},
                            !.dirty = @ \cup (IF index[o][s.prop] = value THEN {} ELSE Marked(s.type, s.prop, o, after)),
                            !.runs = [k \in DOMAIN @ \cup {<<o, s.prop>>} |->
                                    IF k = <<o, s.prop>> THEN [value |-> value, inputs |-> Inputs(s, o, index)] ELSE @[k]]]
          /\ valueRuns' = valueRuns /\ toReport' = toReport /\ upserts' = upserts
      BY <1>3, <2>1, <2>2, <2>3, <2>4 DEF TargetComputed, SpecAt, At
    <2>9. Scalar(value)
      BY <1>0, <2>3, <2>6, <2>7, CompiledTyped
    <2>10. DOMAIN instances[o] = Props
      BY <1>0, <2>6 DEF ObjectsShaped
    <2>11. ASSUME NEW x \in DOMAIN instances', NEW p \in Props PROVE Scalar(instances'[x][p])
      <3>1. x \in DOMAIN instances /\ instances'[x][p] = IF x = o /\ p = s.prop THEN value ELSE instances[x][p]
        BY <2>4, <2>6, <2>8, <2>10, <2>11
      <3> QED
        BY <1>0, <2>9, <3>1
    <2>12. recompute'.changes = recompute.changes /\ DOMAIN recompute'.runs = DOMAIN recompute.runs \cup {<<o, s.prop>>}
      BY <1>0, <2>8 DEF RunRecord
    <2>13. <<o, s.prop>> \in ObjectIds \X DerivedProps
      BY <2>7
    <2> QED
      BY <1>0, <2>8, <2>11, <2>12, <2>13 DEF DerivationTyped
  <1>4. CASE RecomputeStarts
    <2>1. PICK changes \in {toReport} \cup {{c \in toReport : c[3] = o} : o \in ObjectIds} :
            /\ recompute' = [NoRecompute EXCEPT !.changes = changes, !.index = instances, !.left = Nodes(specs),
                                !.dirty = UNION {Marked(c[1], c[2], c[3], instances) : c \in changes}]
            /\ instances' = instances /\ valueRuns' = valueRuns /\ toReport' = toReport /\ upserts' = upserts
      BY <1>4 DEF RecomputeStarts
    <2>2. recompute'.changes = changes /\ recompute'.runs = <<>>
      BY <2>1, NoRecomputeIs DEF NoRecompute
    <2>3. changes \subseteq Changes
      BY <1>0, <2>1
    <2>4. DOMAIN recompute'.runs = {}
      BY <2>2
    <2> QED
      BY <1>0, <2>1, <2>2, <2>3, <2>4 DEF DerivationTyped
  <1>5. CASE RecomputeEnds
    <2>1. /\ DOMAIN valueRuns' = DOMAIN valueRuns \cup DOMAIN recompute.runs
          /\ toReport' = toReport \ recompute.changes /\ recompute' = NoRecompute
          /\ instances' = instances /\ upserts' = upserts
      BY <1>5 DEF RecomputeEnds
    <2>2. recompute'.changes = {} /\ DOMAIN recompute'.runs = {}
      BY <2>1, NoRecomputeIs
    <2> QED
      BY <1>0, <2>1, <2>2 DEF DerivationTyped
  <1>6. CASE RecomputeBreaks
    <2>1. /\ recompute' = NoRecompute /\ toReport' = toReport /\ valueRuns' = valueRuns
          /\ instances' = instances /\ upserts' = upserts
      BY <1>6 DEF RecomputeBreaks
    <2>2. recompute'.changes = {} /\ DOMAIN recompute'.runs = {}
      BY <2>1, NoRecomputeIs
    <2> QED
      BY <1>0, <2>1, <2>2 DEF DerivationTyped
  <1>7. ASSUME NEW node \in recompute.left, NodeTaken(node) PROVE DerivationTyped'
    <2>1. /\ recompute' = [recompute EXCEPT !.left = @ \ {node}, !.node = node,
                            !.todo = {o \in ObjectIds : <<node, o>> \in recompute.dirty}]
          /\ toReport' = toReport /\ valueRuns' = valueRuns /\ instances' = instances /\ upserts' = upserts
      BY <1>7 DEF NodeTaken
    <2>2. recompute'.changes = recompute.changes /\ recompute'.runs = recompute.runs
      BY <1>0, <2>1 DEF RunRecord
    <2> QED
      BY <1>0, <2>1, <2>2 DEF DerivationTyped
  <1> QED
    BY <1>1, <1>2, <1>3, <1>4, <1>5, <1>6, <1>7 DEF DerivationNext

LEMMA StillTyped ==
    ASSUME DerivationTyped, UNCHANGED derivationVars
    PROVE  DerivationTyped'
  <1>1. UNCHANGED <<instances, recompute, toReport, upserts, valueRuns>>
    BY DEF derivationVars
  <1>2. ASSUME NEW o \in DOMAIN instances, NEW p \in Props PROVE Scalar(instances'[o][p])
    BY <1>1 DEF DerivationTyped
  <1> QED
    BY <1>1, <1>2 DEF DerivationTyped, Scalar

LEMMA TypedSuffices ==
    ASSUME FormulasPlain, DerivationInvariant, DerivationTyped
    PROVE  DerivationTypeOK
  <1>0. ObjectsShaped /\ specs \in Seq(CompiledSpecs) /\ RunShaped
    BY DEF DerivationInvariant
  <1>1. DOMAIN instances \subseteq ObjectIds /\ \A o \in DOMAIN instances : DOMAIN instances[o] = Props
    BY <1>0 DEF ObjectsShaped
  <1>2. ASSUME NEW i \in DOMAIN specs PROVE specs[i].type \in Types /\ specs[i].prop \in DerivedProps
    <2>1. specs[i] \in CompiledSpecs
      BY <1>0
    <2> QED
      BY <2>1, CompiledIs
  <1>3. recompute.todo \subseteq ObjectIds
    <2>1. CASE recompute = NoRecompute
      BY <2>1, NoRecomputeIs
    <2>2. CASE recompute # NoRecompute
      BY <1>0, <1>1, <2>2 DEF RunShaped
    <2> QED
      BY <2>1, <2>2
  <1> QED
    BY <1>1, <1>2, <1>3 DEF DerivationTyped, DerivationTypeOK, Changes

-----------------------------------------------------------------------------
(* Loops of a slice's execution *)

\* A loop whose step at each place is a function exists.
Loops(f, n, base, G) == f = [k \in 0..n |-> IF k = 0 THEN base ELSE G[<<f[k - 1], k>>]]

LEMMA LoopExists ==
    ASSUME NEW n \in Nat, NEW W, NEW base \in W, NEW G \in [W \X (1..n) -> W]
    PROVE  \E f \in [0..n -> W] : Loops(f, n, base, G)
  <1> DEFINE Has(k) == \E f \in [0..k -> W] : Loops(f, k, base, G)
             Good == {k \in 0..n : Has(k)}
  <1>1. Has(0)
    <2> DEFINE f0 == [k \in 0..0 |-> base]
    <2>1. f0 \in [0..0 -> W] /\ Loops(f0, 0, base, G)
      BY DEF Loops
    <2> QED
      BY <2>1
  <1>2. ASSUME NEW k \in Nat, k < n, Has(k) PROVE Has(k + 1)
    <2>1. PICK f \in [0..k -> W] : Loops(f, k, base, G)
      BY <1>2
    <2> DEFINE h == [j \in 0..k + 1 |-> IF j = 0 THEN base ELSE G[<<f[j - 1], j>>]]
    <2>2. \A j \in 0..k + 1 : j # 0 => j - 1 \in 0..k /\ j \in 1..n
      BY <1>2
    <2>3. h \in [0..k + 1 -> W]
      BY <2>2
    <2>4. ASSUME NEW j \in 0..k PROVE h[j] = f[j]
      <3>1. f[j] = IF j = 0 THEN base ELSE G[<<f[j - 1], j>>]
        BY <2>1 DEF Loops
      <3>2. j \in 0..k + 1
        OBVIOUS
      <3> QED
        BY <3>1, <3>2
    <2>5. \A j \in 0..k + 1 : h[j] = IF j = 0 THEN base ELSE G[<<h[j - 1], j>>]
      BY <2>2, <2>4
    <2>6. Loops(h, k + 1, base, G)
      <3> HIDE DEF h
      <3> QED
        BY <2>3, <2>5 DEF Loops
    <2> QED
      BY <2>3, <2>6
  <1> HIDE DEF Has
  <1>3. 0 \in Good
    BY <1>1
  <1>4. \A k \in 0..n : k \in Good /\ k < n => k + 1 \in Good
    BY <1>2
  <1> HIDE DEF Good
  <1>5. n \in Good
    BY <1>3, <1>4, UpTo
  <1> QED
    BY <1>5 DEF Good, Has


-----------------------------------------------------------------------------
(* Slices *)

LEMMA SliceLists ==
    /\ Len(SliceObjects) \in Nat /\ DOMAIN SliceObjects = 1..Len(SliceObjects)
    /\ Len(SliceLinks) \in Nat /\ DOMAIN SliceLinks = 1..Len(SliceLinks)
    /\ Len(SliceSpecs) \in Nat /\ DOMAIN SliceSpecs = 1..Len(SliceSpecs)
    /\ \A i \in DOMAIN SliceLinks : SliceLinks[i].from \in AllObjects /\ SliceLinks[i].to \in AllObjects
  BY SliceAssumption DEF IsList

LEMMA ObjectsFinite == IsFiniteSet(AllObjects)
  <1> DEFINE n == Len(SliceObjects)
             f == [i \in 1..n |-> SliceObjects[i]]
  <1>1. n \in Nat /\ DOMAIN SliceObjects = 1..n
    BY SliceLists
  <1>2. IsFiniteSet(1..n)
    BY <1>1, FS_Interval
  <1>3. f \in Surjection(1..n, AllObjects)
    BY <1>1 DEF Surjection, AllObjects
  <1> QED
    BY <1>2, <1>3, FS_Surjection

\* A slice under way.
LinkEdges == {[link |-> SliceLinks[i].key, from |-> SliceLinks[i].from, to |-> SliceLinks[i].to] : i \in DOMAIN SliceLinks}
Filling == [nodes : SUBSET AllObjects, edges : SUBSET LinkEdges, truncated : BOOLEAN, next : Seq(AllObjects),
            count : Nat, full : BOOLEAN, over : BOOLEAN, cut : BOOLEAN]

LEMMA AddedFills ==
    ASSUME NEW st \in Filling, NEW o \in AllObjects, NEW max \in Nat
    PROVE  Added(st, o, max) \in Filling
  BY DEF Added, Filling

LEMMA EndsOfLink ==
    ASSUME NEW i \in DOMAIN SliceLinks, NEW hop
    PROVE  FromTo(hop, SliceLinks[i])[1] \in AllObjects /\ FromTo(hop, SliceLinks[i])[2] \in AllObjects
  BY SliceLists DEF FromTo

LEMMA FollowedFills ==
    ASSUME NEW st \in Filling, NEW i \in DOMAIN SliceLinks, NEW hop, NEW parent, NEW roles, NEW max \in Nat
    PROVE  Followed(st, SliceLinks[i], hop, parent, roles, max) \in Filling
  <1>1. PICK child \in AllObjects : child = FromTo(hop, SliceLinks[i])[2]
    BY EndsOfLink
  <1>2. PICK st1 \in Filling : st1 = [st EXCEPT !.count = @ + 1]
    <2>1. st.count + 1 \in Nat
      BY DEF Filling
    <2> QED
      BY <2>1 DEF Filling
  <1>3. PICK st2 \in Filling : st2 = Added(st1, child, max)
    BY AddedFills
  <1>4. PICK e \in LinkEdges : e = [link |-> SliceLinks[i].key, from |-> SliceLinks[i].from, to |-> SliceLinks[i].to]
    BY DEF LinkEdges
  <1>5. Append(st2.next, child) \in Seq(AllObjects)
    BY AppendProperties DEF Filling
  <1>6. [st2 EXCEPT !.full = TRUE] \in Filling
    BY DEF Filling
  <1>7. [st2 EXCEPT !.edges = @ \cup {e}, !.next = Append(@, child)] \in Filling
    BY <1>5 DEF Filling
  <1> QED
    BY <1>1, <1>2, <1>3, <1>4, <1>6, <1>7 DEF Followed

\* The loop over links.
LinksLoop(f, st, hop, parent, roles, max) ==
    /\ f[0] = [st EXCEPT !.count = 0, !.full = FALSE]
    /\ \A k \in 1..Len(SliceLinks) : f[k] = Followed(f[k - 1], SliceLinks[k], hop, parent, roles, max)
    /\ OfParent(st, parent, hop, roles, max) = f[Len(SliceLinks)]

LEMMA OfParentLoops ==
    ASSUME NEW st \in Filling, NEW hop, NEW parent, NEW roles, NEW max \in Nat
    PROVE  \E f : LinksLoop(f, st, hop, parent, roles, max)
  <1>1. PICK n \in Nat : n = Len(SliceLinks) /\ DOMAIN SliceLinks = 1..n
    BY SliceLists
  <1>2. PICK base \in Filling : base = [st EXCEPT !.count = 0, !.full = FALSE]
    BY DEF Filling
  <1>3. PICK G \in [Filling \X (1..n) -> Filling] :
            \A s \in Filling, k \in 1..n : G[<<s, k>>] = Followed(s, SliceLinks[k], hop, parent, roles, max)
    <2> DEFINE G == [x \in Filling \X (1..n) |-> Followed(x[1], SliceLinks[x[2]], hop, parent, roles, max)]
    <2>1. \A x \in Filling \X (1..n) : Followed(x[1], SliceLinks[x[2]], hop, parent, roles, max) \in Filling
      BY <1>1, FollowedFills
    <2>2. G \in [Filling \X (1..n) -> Filling]
      BY <2>1
    <2>3. ASSUME NEW s \in Filling, NEW k \in 1..n PROVE G[<<s, k>>] = Followed(s, SliceLinks[k], hop, parent, roles, max)
      <3>1. <<s, k>> \in Filling \X (1..n) /\ <<s, k>>[1] = s /\ <<s, k>>[2] = k
        OBVIOUS
      <3> QED
        BY <3>1
    <2> QED
      BY <2>2, <2>3
  <1>4. PICK f \in [0..n -> Filling] : Loops(f, n, base, G)
    BY LoopExists
  <1> DEFINE Goes(g) == g = [k \in 0..n |-> IF k = 0 THEN base ELSE Followed(g[k - 1], SliceLinks[k], hop, parent, roles, max)]
  <1>5. Goes(f)
    <2>1. \A k \in 0..n : f[k] = IF k = 0 THEN base ELSE Followed(f[k - 1], SliceLinks[k], hop, parent, roles, max)
      BY <1>3, <1>4 DEF Loops
    <2> QED
      BY <2>1
  <1>6. PICK h : h = CHOOSE g : Goes(g)
    OBVIOUS
  <1>7. Goes(h)
    BY <1>5, <1>6
  <1>8. OfParent(st, parent, hop, roles, max) = h[n]
    BY <1>1, <1>2, <1>6 DEF OfParent, After
  <1>9. h[0] = base /\ \A k \in 1..n : h[k] = Followed(h[k - 1], SliceLinks[k], hop, parent, roles, max)
    BY <1>7
  <1> QED
    BY <1>1, <1>2, <1>8, <1>9 DEF LinksLoop

-----------------------------------------------------------------------------
(* What stays so while a slice is filled *)

InList(o, list) == \E j \in 1..Len(list) : list[j] = o

\* What is in it is reached, it is no larger than it may be, and it is cut only if something is left out.
Sound(st, reach, max) ==
    /\ st \in Filling /\ st.nodes \subseteq reach /\ Cardinality(st.nodes) <= max
    /\ st.truncated => Cardinality(st.nodes) = max /\ ~(reach \subseteq st.nodes)
    /\ \A e \in st.edges : e.from \in st.nodes /\ e.to \in st.nodes
    /\ \A o : InList(o, st.next) => o \in st.nodes

Grown(st, g) == st.nodes \subseteq g.nodes /\ (st.truncated => g.truncated) /\ g.cut = st.cut

LEMMA GrownOn == ASSUME NEW a, NEW b, NEW c, Grown(a, b), Grown(b, c) PROVE Grown(a, c)
  BY DEF Grown

LEMMA Appended ==
    ASSUME NEW list \in Seq(AllObjects), NEW x \in AllObjects
    PROVE  /\ Append(list, x) \in Seq(AllObjects)
           /\ \A o : InList(o, Append(list, x)) <=> InList(o, list) \/ o = x
  <1>1. PICK n \in Nat : n = Len(list)
    BY LenProperties
  <1>2. PICK l : l = Append(list, x)
    OBVIOUS
  <1>3. l \in Seq(AllObjects) /\ Len(l) = n + 1 /\ l[n + 1] = x /\ \A i \in 1..n : l[i] = list[i]
    BY <1>1, <1>2, AppendProperties
  <1>4. ASSUME NEW o PROVE InList(o, l) <=> InList(o, list) \/ o = x
    <2>1. ASSUME InList(o, l) PROVE InList(o, list) \/ o = x
      <3>1. PICK j \in 1..n + 1 : l[j] = o
        BY <2>1, <1>3 DEF InList
      <3>2. j \in 1..n \/ j = n + 1
        OBVIOUS
      <3> QED
        BY <1>1, <1>3, <3>1, <3>2 DEF InList
    <2>2. ASSUME InList(o, list) PROVE InList(o, l)
      <3>1. PICK j \in 1..n : list[j] = o
        BY <2>2, <1>1 DEF InList
      <3>2. j \in 1..n + 1
        OBVIOUS
      <3> QED
        BY <1>3, <3>1, <3>2 DEF InList
    <2>3. n + 1 \in 1..n + 1
      OBVIOUS
    <2> QED
      BY <1>3, <2>1, <2>2, <2>3 DEF InList
  <1> QED
    BY <1>2, <1>3, <1>4

\* addNode: what does not fit cuts the slice.
LEMMA AddedSound ==
    ASSUME NEW reach, NEW max \in Nat, NEW st, Sound(st, reach, max), NEW o \in AllObjects, o \in reach
    PROVE  LET a == Added(st, o, max) IN
           /\ Sound(a, reach, max) /\ Grown(st, a) /\ (o \in a.nodes \/ a.truncated)
           /\ a.next = st.next /\ a.count = st.count /\ a.full = st.full /\ a.over = st.over
  <1>1. st \in Filling /\ st.nodes \in SUBSET AllObjects
    BY DEF Sound, Filling
  <1>2. IsFiniteSet(st.nodes)
    BY <1>1, ObjectsFinite, FS_Subset
  <1>3. CASE o \in st.nodes
    BY <1>3 DEF Added, Grown
  <1>4. CASE o \notin st.nodes /\ Cardinality(st.nodes) >= max
    <2>1. Cardinality(st.nodes) \in Nat /\ Cardinality(st.nodes) <= max
      BY <1>2, FS_CardinalityType DEF Sound
    <2>2. Cardinality(st.nodes) = max
      BY <1>4, <2>1
    <2>3. PICK a : a = [st EXCEPT !.truncated = TRUE]
      OBVIOUS
    <2>4. a = Added(st, o, max)
      BY <1>4, <2>3 DEF Added
    <2>5. a \in Filling
      BY <1>4, <2>4, AddedFills, <1>1
    <2>6. /\ a.truncated /\ a.nodes = st.nodes /\ a.edges = st.edges /\ a.next = st.next /\ a.count = st.count
          /\ a.full = st.full /\ a.over = st.over /\ a.cut = st.cut
      BY <1>1, <2>3 DEF Filling
    <2>7. Sound(a, reach, max)
      BY <1>4, <2>2, <2>5, <2>6 DEF Sound
    <2> QED
      BY <2>4, <2>6, <2>7 DEF Grown
  <1>5. CASE o \notin st.nodes /\ ~(Cardinality(st.nodes) >= max)
    <2>1. PICK c \in Nat : c = Cardinality(st.nodes)
      BY <1>2, FS_CardinalityType
    <2>2. c + 1 <= max
      BY <1>5, <2>1
    <2>3. Cardinality(st.nodes \cup {o}) = c + 1
      BY <1>2, <1>5, <2>1, FS_AddElement
    <2>4. PICK a : a = [st EXCEPT !.nodes = @ \cup {o}]
      OBVIOUS
    <2>5. a = Added(st, o, max)
      BY <1>5, <2>4 DEF Added
    <2>6. a \in Filling
      BY <2>5, AddedFills, <1>1
    <2>7. /\ a.truncated = st.truncated /\ a.nodes = st.nodes \cup {o} /\ a.edges = st.edges /\ a.next = st.next
          /\ a.count = st.count /\ a.full = st.full /\ a.over = st.over /\ a.cut = st.cut
      BY <1>1, <2>4 DEF Filling
    <2>8. ~st.truncated
      <3>1. st.truncated => c = max
        BY <2>1 DEF Sound
      <3> QED
        BY <2>1, <2>2, <3>1
    <2>9. Sound(a, reach, max)
      BY <2>2, <2>3, <2>6, <2>7, <2>8 DEF Sound
    <2> QED
      BY <2>5, <2>7, <2>9 DEF Grown
  <1> QED
    BY <1>3, <1>4, <1>5

-----------------------------------------------------------------------------
(* One link of a parent *)

\* Whether link i is one that the hop takes from the parent.
Takes(i, hop, parent, roles) ==
    /\ SliceLinks[i].key = hop.link /\ FromTo(hop, SliceLinks[i])[1] = parent
    /\ Taken(hop, FromTo(hop, SliceLinks[i])[2], roles)

LEMMA TakesChild ==
    ASSUME NEW i \in DOMAIN SliceLinks, NEW hop, hop.link \in DOMAIN SliceLinkTypes, NEW parent, NEW roles,
           Takes(i, hop, parent, roles)
    PROVE  FromTo(hop, SliceLinks[i])[2] \in Children({parent}, hop, roles)
  BY EndsOfLink DEF Takes, Children

\* Following link i from st to g: the slice grows soundly, and by what the link leads to if it is taken.
FollowsWell(st, g, i, hop, parent, roles, reach, max) ==
    /\ Sound(g, reach, max) /\ Grown(st, g)
    /\ \A o : InList(o, st.next) => InList(o, g.next)
    /\ \A o : InList(o, g.next) => InList(o, st.next) \/ o \in Children({parent}, hop, roles)
    /\ g.count <= st.count + 1 /\ (g.full => st.full \/ g.truncated)
    /\ ~g.truncated /\ ~st.full /\ st.count < hop.limit /\ Takes(i, hop, parent, roles) =>
         InList(FromTo(hop, SliceLinks[i])[2], g.next)

LEMMA FollowedSound ==
    ASSUME NEW reach, NEW max \in Nat, NEW st, Sound(st, reach, max), NEW i \in DOMAIN SliceLinks,
           NEW hop, hop.limit \in Nat, hop.link \in DOMAIN SliceLinkTypes, NEW parent \in st.nodes, NEW roles,
           Children({parent}, hop, roles) \subseteq reach
    PROVE  FollowsWell(st, Followed(st, SliceLinks[i], hop, parent, roles, max), i, hop, parent, roles, reach, max)
  <1>1. PICK child \in AllObjects : child = FromTo(hop, SliceLinks[i])[2]
    BY EndsOfLink
  <1>2. st \in Filling /\ st.count \in Nat /\ st.next \in Seq(AllObjects)
    BY DEF Sound, Filling
  <1>3. PICK st1 : st1 = [st EXCEPT !.count = @ + 1]
    OBVIOUS
  <1>4. /\ st1 \in Filling /\ st1.nodes = st.nodes /\ st1.edges = st.edges /\ st1.truncated = st.truncated
        /\ st1.next = st.next /\ st1.full = st.full /\ st1.cut = st.cut /\ st1.count = st.count + 1
    <2>1. st.count + 1 \in Nat
      BY <1>2
    <2> QED
      BY <1>2, <1>3, <2>1 DEF Filling
  <1>5. Sound(st1, reach, max)
    BY <1>4 DEF Sound
  <1>6. PICK g : g = Followed(st, SliceLinks[i], hop, parent, roles, max)
    OBVIOUS
  <1>7. g \in Filling
    BY <1>2, <1>6, FollowedFills
  <1>8. CASE st.full \/ st.count >= hop.limit \/ ~Takes(i, hop, parent, roles)
    <2>1. g = st
      BY <1>6, <1>8 DEF Followed, Takes
    <2>2. ~(~st.full /\ st.count < hop.limit /\ Takes(i, hop, parent, roles))
      BY <1>2, <1>8
    <2> QED
      BY <1>2, <1>6, <2>1, <2>2 DEF Grown, FollowsWell
  <1>9. CASE ~(st.full \/ st.count >= hop.limit) /\ Takes(i, hop, parent, roles)
    <2>1. child \in Children({parent}, hop, roles) /\ child \in reach
      BY <1>1, <1>9, TakesChild
    <2>2. PICK st2 : st2 = Added(st1, child, max)
      OBVIOUS
    <2>3. /\ Sound(st2, reach, max) /\ Grown(st1, st2) /\ (child \in st2.nodes \/ st2.truncated)
          /\ st2.next = st.next /\ st2.count = st.count + 1 /\ st2.full = st.full
      BY <1>4, <1>5, <2>1, <2>2, AddedSound
    <2>4. st2 \in Filling
      BY <2>3 DEF Sound
    <2>5. CASE child \notin st2.nodes
      <3>1. g = [st2 EXCEPT !.full = TRUE]
        BY <1>1, <1>3, <1>6, <1>9, <2>2, <2>5 DEF Followed, Takes
      <3>2. /\ g.truncated = st2.truncated /\ g.nodes = st2.nodes /\ g.edges = st2.edges /\ g.next = st2.next
            /\ g.count = st2.count /\ g.cut = st2.cut
        BY <2>4, <3>1 DEF Filling
      <3>3. g.truncated
        BY <2>3, <2>5, <3>2
      <3>4. Sound(g, reach, max)
        BY <1>7, <2>3, <3>2 DEF Sound
      <3>5. Grown(st, g)
        BY <1>4, <2>3, <3>2 DEF Grown
      <3>6. g.count <= st.count + 1 /\ g.next = st.next
        BY <1>2, <2>3, <3>2
      <3> QED
        BY <1>6, <3>3, <3>4, <3>5, <3>6 DEF FollowsWell
    <2>6. CASE child \in st2.nodes
      <3>1. PICK e : e = [link |-> SliceLinks[i].key, from |-> SliceLinks[i].from, to |-> SliceLinks[i].to]
        OBVIOUS
      <3>2. g = [st2 EXCEPT !.edges = @ \cup {e}, !.next = Append(@, child)]
        BY <1>1, <1>3, <1>6, <1>9, <2>2, <2>6, <3>1 DEF Followed, Takes
      <3>3. /\ g.truncated = st2.truncated /\ g.nodes = st2.nodes /\ g.edges = st2.edges \cup {e}
            /\ g.next = Append(st.next, child) /\ g.full = st2.full /\ g.count = st2.count /\ g.cut = st2.cut
        BY <2>3, <2>4, <3>2 DEF Filling
      <3>4. \A o : InList(o, g.next) <=> InList(o, st.next) \/ o = child
        BY <1>2, <3>3, Appended
      <3>5. e.from \in st2.nodes /\ e.to \in st2.nodes
        <4>1. parent \in st2.nodes
          BY <1>4, <2>3 DEF Grown
        <4>2. parent = FromTo(hop, SliceLinks[i])[1]
          BY <1>9 DEF Takes
        <4> QED
          BY <1>1, <2>6, <3>1, <4>1, <4>2 DEF FromTo
      <3>6. Sound(g, reach, max)
        <4>1. \A x \in g.edges : x.from \in g.nodes /\ x.to \in g.nodes
          BY <2>3, <3>3, <3>5 DEF Sound
        <4>2. \A o : InList(o, g.next) => o \in g.nodes
          BY <2>3, <2>6, <3>3, <3>4 DEF Sound
        <4> QED
          BY <1>7, <2>3, <3>3, <4>1, <4>2 DEF Sound
      <3>7. Grown(st, g)
        BY <1>4, <2>3, <3>3 DEF Grown
      <3>8. g.count <= st.count + 1 /\ (g.full => st.full)
        BY <1>2, <2>3, <3>3
      <3> QED
        BY <1>1, <1>6, <2>1, <3>4, <3>6, <3>7, <3>8 DEF FollowsWell
    <2> QED
      BY <2>5, <2>6
  <1> QED
    BY <1>2, <1>8, <1>9

-----------------------------------------------------------------------------
(* All links of a parent *)

LEMMA OfParentSound ==
    ASSUME NEW reach, NEW max \in Nat, NEW st, Sound(st, reach, max),
           NEW hop, hop.limit \in Nat, hop.link \in DOMAIN SliceLinkTypes, NEW parent \in st.nodes, NEW roles,
           Children({parent}, hop, roles) \subseteq reach
    PROVE  LET g == OfParent(st, parent, hop, roles, max) IN
           /\ Sound(g, reach, max) /\ Grown(st, g)
           /\ \A o : InList(o, st.next) => InList(o, g.next)
           /\ \A o : InList(o, g.next) => InList(o, st.next) \/ o \in Children({parent}, hop, roles)
           /\ ~g.truncated /\ hop.limit >= Len(SliceLinks) =>
                \A o \in Children({parent}, hop, roles) : InList(o, g.next)
  <1>1. PICK n \in Nat : n = Len(SliceLinks) /\ DOMAIN SliceLinks = 1..n
    BY SliceLists
  <1>2. st \in Filling
    BY DEF Sound
  <1>3. PICK f : /\ f[0] = [st EXCEPT !.count = 0, !.full = FALSE]
                 /\ \A k \in 1..n : f[k] = Followed(f[k - 1], SliceLinks[k], hop, parent, roles, max)
                 /\ OfParent(st, parent, hop, roles, max) = f[n]
    <2>1. PICK f : LinksLoop(f, st, hop, parent, roles, max)
      BY <1>2, OfParentLoops
    <2> QED
      BY <1>1, <2>1, Zenon DEF LinksLoop
  <1> DEFINE Inv(k, g) ==
        /\ Sound(g, reach, max) /\ Grown(st, g)
        /\ \A o : InList(o, st.next) => InList(o, g.next)
        /\ \A o : InList(o, g.next) => InList(o, st.next) \/ o \in Children({parent}, hop, roles)
        /\ g.count <= k /\ (g.full => g.truncated)
        /\ ~g.truncated /\ hop.limit >= n =>
            \A i \in 1..k : Takes(i, hop, parent, roles) => InList(FromTo(hop, SliceLinks[i])[2], g.next)
  <1>4. Inv(0, f[0])
    <2>1. PICK b : b = f[0]
      OBVIOUS
    <2>2. /\ b \in Filling /\ b.nodes = st.nodes /\ b.edges = st.edges /\ b.truncated = st.truncated
          /\ b.next = st.next /\ ~b.full /\ b.cut = st.cut /\ b.count = 0
      <3>1. b = [st EXCEPT !.count = 0, !.full = FALSE]
        BY <1>3, <2>1
      <3> QED
        BY <1>2, <3>1 DEF Filling
    <2>3. Sound(b, reach, max) /\ Grown(st, b)
      BY <2>2 DEF Sound, Grown
    <2> QED
      BY <2>1, <2>2, <2>3
  <1>5. ASSUME NEW k \in 0..n, k < n, Inv(k, f[k]) PROVE Inv(k + 1, f[k + 1])
    <2>1. PICK a : a = f[k]
      OBVIOUS
    <2>2. PICK g : g = f[k + 1]
      OBVIOUS
    <2>3. k + 1 \in 1..n /\ k + 1 \in DOMAIN SliceLinks /\ (k + 1) - 1 = k
      BY <1>1, <1>5
    <2>4. g = Followed(a, SliceLinks[k + 1], hop, parent, roles, max)
      BY <1>3, <2>1, <2>2, <2>3
    <2>5. Inv(k, a)
      BY <1>5, <2>1
    <2>6. parent \in a.nodes /\ a.count \in Nat
      BY <2>5 DEF Grown, Sound, Filling
    <2>7. /\ Sound(g, reach, max) /\ Grown(a, g)
          /\ \A o : InList(o, a.next) => InList(o, g.next)
          /\ \A o : InList(o, g.next) => InList(o, a.next) \/ o \in Children({parent}, hop, roles)
          /\ g.count <= a.count + 1 /\ (g.full => a.full \/ g.truncated)
          /\ ~g.truncated /\ ~a.full /\ a.count < hop.limit /\ Takes(k + 1, hop, parent, roles) =>
                InList(FromTo(hop, SliceLinks[k + 1])[2], g.next)
      <3>1. Sound(a, reach, max) /\ parent \in a.nodes /\ k + 1 \in DOMAIN SliceLinks
        BY <2>3, <2>5, <2>6
      <3>2. FollowsWell(a, Followed(a, SliceLinks[k + 1], hop, parent, roles, max), k + 1, hop, parent, roles, reach, max)
        BY <3>1, FollowedSound
      <3>3. FollowsWell(a, g, k + 1, hop, parent, roles, reach, max)
        BY <2>4, <3>2
      <3> QED
        BY <3>3 DEF FollowsWell
    <2>8. Grown(st, g)
      BY <2>5, <2>7, GrownOn
    <2>9. g.count \in Nat /\ g.count <= k + 1
      BY <2>5, <2>6, <2>7 DEF Sound, Filling
    <2>10. g.full => g.truncated
      BY <2>5, <2>7 DEF Grown
    <2>11. ASSUME ~g.truncated, hop.limit >= n, NEW i \in 1..k + 1, Takes(i, hop, parent, roles)
           PROVE  InList(FromTo(hop, SliceLinks[i])[2], g.next)
      <3>1. ~a.truncated /\ ~a.full
        BY <2>5, <2>7, <2>11 DEF Grown
      <3>2. CASE i \in 1..k
        BY <2>5, <2>7, <2>11, <3>1, <3>2
      <3>3. CASE i = k + 1
        <4>1. a.count < hop.limit
          BY <1>5, <2>5, <2>6, <2>11
        <4> QED
          BY <2>7, <2>11, <3>1, <3>3, <4>1
      <3> QED
        BY <3>2, <3>3
    <2>12. \A o : InList(o, st.next) => InList(o, g.next)
      BY <2>5, <2>7
    <2>13. \A o : InList(o, g.next) => InList(o, st.next) \/ o \in Children({parent}, hop, roles)
      BY <2>5, <2>7
    <2> QED
      BY <2>2, <2>7, <2>8, <2>9, <2>10, <2>11, <2>12, <2>13
  <1> DEFINE Good == {k \in 0..n : Inv(k, f[k])}
  <1> HIDE DEF Inv
  <1>6. 0 \in Good /\ \A k \in 0..n : k \in Good /\ k < n => k + 1 \in Good
    BY <1>4, <1>5
  <1> HIDE DEF Good
  <1>7. n \in Good
    BY <1>6, UpTo
  <1>8. Inv(n, f[n])
    BY <1>7 DEF Good
  <1>9. ASSUME ~f[n].truncated, hop.limit >= n, NEW o \in Children({parent}, hop, roles) PROVE InList(o, f[n].next)
    <2>1. PICK i \in 1..n : Takes(i, hop, parent, roles) /\ FromTo(hop, SliceLinks[i])[2] = o
      BY <1>1 DEF Children, Takes
    <2> QED
      BY <1>8, <1>9, <2>1 DEF Inv
  <1> QED
    BY <1>1, <1>3, <1>8, <1>9 DEF Inv

-----------------------------------------------------------------------------
(* All parents, a path, all paths *)

LEMMA OfParentFills ==
    ASSUME NEW st \in Filling, NEW hop, NEW parent, NEW roles, NEW max \in Nat
    PROVE  OfParent(st, parent, hop, roles, max) \in Filling
  <1>1. PICK n \in Nat : n = Len(SliceLinks) /\ DOMAIN SliceLinks = 1..n
    BY SliceLists
  <1>2. PICK f : LinksLoop(f, st, hop, parent, roles, max)
    BY OfParentLoops
  <1>3. f[0] \in Filling
    <2>1. [st EXCEPT !.count = 0, !.full = FALSE] \in Filling
      BY DEF Filling
    <2> QED
      BY <1>2, <2>1 DEF LinksLoop
  <1>4. ASSUME NEW k \in 0..n, k < n, f[k] \in Filling PROVE f[k + 1] \in Filling
    <2>1. k + 1 \in 1..n /\ k + 1 \in DOMAIN SliceLinks /\ (k + 1) - 1 = k
      BY <1>1, <1>4
    <2>2. f[k + 1] = Followed(f[k], SliceLinks[k + 1], hop, parent, roles, max)
      BY <1>1, <1>2, <2>1 DEF LinksLoop
    <2> QED
      BY <1>4, <2>1, <2>2, FollowedFills
  <1> DEFINE Good == {k \in 0..n : f[k] \in Filling}
  <1>5. 0 \in Good /\ \A k \in 0..n : k \in Good /\ k < n => k + 1 \in Good
    BY <1>3, <1>4
  <1> HIDE DEF Good
  <1>6. n \in Good
    BY <1>5, UpTo
  <1> QED
    BY <1>1, <1>2, <1>6 DEF Good, LinksLoop

\* The loop over the objects that the hop before led to.
ParentsLoop(f, st, hop, roles, max) ==
    /\ f[0] = [st EXCEPT !.next = <<>>]
    /\ \A k \in 1..Len(st.next) : f[k] = OfParent(f[k - 1], st.next[k], hop, roles, max)
    /\ OfParents(st, hop, roles, max) = f[Len(st.next)]

LEMMA OfParentsLoops ==
    ASSUME NEW st \in Filling, NEW hop, NEW roles, NEW max \in Nat
    PROVE  \E f : ParentsLoop(f, st, hop, roles, max)
  <1>1. PICK n \in Nat : n = Len(st.next)
    <2>1. st.next \in Seq(AllObjects)
      BY DEF Filling
    <2> QED
      BY <2>1, LenProperties
  <1>2. PICK base \in Filling : base = [st EXCEPT !.next = <<>>]
    <2>1. <<>> \in Seq(AllObjects)
      BY EmptySeq
    <2> QED
      BY <2>1 DEF Filling
  <1>3. PICK G \in [Filling \X (1..n) -> Filling] :
            \A s \in Filling, k \in 1..n : G[<<s, k>>] = OfParent(s, st.next[k], hop, roles, max)
    <2> DEFINE G == [x \in Filling \X (1..n) |-> OfParent(x[1], st.next[x[2]], hop, roles, max)]
    <2>1. ASSUME NEW s \in Filling, NEW k \in 1..n PROVE OfParent(s, st.next[k], hop, roles, max) \in Filling
      BY OfParentFills
    <2>2. G \in [Filling \X (1..n) -> Filling]
      BY <2>1
    <2>3. ASSUME NEW s \in Filling, NEW k \in 1..n PROVE G[<<s, k>>] = OfParent(s, st.next[k], hop, roles, max)
      <3>1. <<s, k>> \in Filling \X (1..n) /\ <<s, k>>[1] = s /\ <<s, k>>[2] = k
        OBVIOUS
      <3> QED
        BY <3>1
    <2> QED
      BY <2>2, <2>3
  <1>4. PICK f \in [0..n -> Filling] : Loops(f, n, base, G)
    BY LoopExists
  <1> DEFINE Goes(g) == g = [k \in 0..n |-> IF k = 0 THEN base ELSE OfParent(g[k - 1], st.next[k], hop, roles, max)]
  <1>5. Goes(f)
    <2>1. \A k \in 0..n : f[k] = IF k = 0 THEN base ELSE OfParent(f[k - 1], st.next[k], hop, roles, max)
      BY <1>3, <1>4 DEF Loops
    <2> QED
      BY <2>1
  <1>6. PICK h : h = CHOOSE g : Goes(g)
    OBVIOUS
  <1>7. Goes(h)
    BY <1>5, <1>6
  <1>8. OfParents(st, hop, roles, max) = h[n]
    BY <1>1, <1>2, <1>6 DEF OfParents, After
  <1>9. h[0] = base /\ \A k \in 1..n : h[k] = OfParent(h[k - 1], st.next[k], hop, roles, max)
    BY <1>7
  <1> QED
    BY <1>1, <1>2, <1>8, <1>9 DEF ParentsLoop

LEMMA OfParentsFills ==
    ASSUME NEW st \in Filling, NEW hop, NEW roles, NEW max \in Nat
    PROVE  OfParents(st, hop, roles, max) \in Filling
  <1>1. PICK n \in Nat : n = Len(st.next)
    <2>1. st.next \in Seq(AllObjects)
      BY DEF Filling
    <2> QED
      BY <2>1, LenProperties
  <1>2. PICK f : ParentsLoop(f, st, hop, roles, max)
    BY OfParentsLoops
  <1>3. f[0] \in Filling
    <2>1. <<>> \in Seq(AllObjects)
      BY EmptySeq
    <2> QED
      BY <1>2, <2>1 DEF ParentsLoop, Filling
  <1>4. ASSUME NEW k \in 0..n, k < n, f[k] \in Filling PROVE f[k + 1] \in Filling
    <2>1. k + 1 \in 1..n /\ (k + 1) - 1 = k
      BY <1>1, <1>4
    <2>2. f[k + 1] = OfParent(f[k], st.next[k + 1], hop, roles, max)
      BY <1>1, <1>2, <2>1 DEF ParentsLoop
    <2> QED
      BY <1>4, <2>1, <2>2, OfParentFills
  <1> DEFINE Good == {k \in 0..n : f[k] \in Filling}
  <1>5. 0 \in Good /\ \A k \in 0..n : k \in Good /\ k < n => k + 1 \in Good
    BY <1>3, <1>4
  <1> HIDE DEF Good
  <1>6. n \in Good
    BY <1>5, UpTo
  <1> QED
    BY <1>1, <1>2, <1>6 DEF Good, ParentsLoop

LEMMA HoppedFills ==
    ASSUME NEW st \in Filling, NEW hop, NEW roles, NEW max \in Nat
    PROVE  Hopped(st, hop, roles, max) \in Filling
  <1>1. PICK after \in Filling : after = OfParents(st, hop, roles, max)
    BY OfParentsFills
  <1>2. [after EXCEPT !.over = after.truncated] \in Filling /\ [st EXCEPT !.over = TRUE] \in Filling
    BY DEF Filling
  <1> QED
    BY <1>1, <1>2 DEF Hopped

WalkOf(st, path, from, roles, max) ==
    After(LAMBDA s, hop : Hopped(s, hop, roles, max), [st EXCEPT !.next = from, !.over = FALSE], path)

\* The loop over the hops of a path.
HopsLoop(f, st, path, from, roles, max) ==
    /\ f[0] = [st EXCEPT !.next = from, !.over = FALSE]
    /\ \A k \in 1..Len(path) : f[k] = Hopped(f[k - 1], path[k], roles, max)
    /\ WalkOf(st, path, from, roles, max) = f[Len(path)]

LEMMA PathLoops ==
    ASSUME NEW st \in Filling, NEW path, Len(path) \in Nat, NEW from \in Seq(AllObjects), NEW roles, NEW max \in Nat
    PROVE  \E f : HopsLoop(f, st, path, from, roles, max)
  <1>1. PICK n \in Nat : n = Len(path)
    OBVIOUS
  <1>2. PICK base \in Filling : base = [st EXCEPT !.next = from, !.over = FALSE]
    BY DEF Filling
  <1>3. PICK G \in [Filling \X (1..n) -> Filling] :
            \A s \in Filling, k \in 1..n : G[<<s, k>>] = Hopped(s, path[k], roles, max)
    <2> DEFINE G == [x \in Filling \X (1..n) |-> Hopped(x[1], path[x[2]], roles, max)]
    <2>1. ASSUME NEW s \in Filling, NEW k \in 1..n PROVE Hopped(s, path[k], roles, max) \in Filling
      BY HoppedFills
    <2>2. G \in [Filling \X (1..n) -> Filling]
      BY <2>1
    <2>3. ASSUME NEW s \in Filling, NEW k \in 1..n PROVE G[<<s, k>>] = Hopped(s, path[k], roles, max)
      <3>1. <<s, k>> \in Filling \X (1..n) /\ <<s, k>>[1] = s /\ <<s, k>>[2] = k
        OBVIOUS
      <3> QED
        BY <3>1
    <2> QED
      BY <2>2, <2>3
  <1>4. PICK f \in [0..n -> Filling] : Loops(f, n, base, G)
    BY LoopExists
  <1> DEFINE Goes(g) == g = [k \in 0..n |-> IF k = 0 THEN base ELSE Hopped(g[k - 1], path[k], roles, max)]
  <1>5. Goes(f)
    <2>1. \A k \in 0..n : f[k] = IF k = 0 THEN base ELSE Hopped(f[k - 1], path[k], roles, max)
      BY <1>3, <1>4 DEF Loops
    <2> QED
      BY <2>1
  <1>6. PICK h : h = CHOOSE g : Goes(g)
    OBVIOUS
  <1>7. Goes(h)
    BY <1>5, <1>6
  <1>8. WalkOf(st, path, from, roles, max) = h[n]
    BY <1>1, <1>2, <1>6 DEF WalkOf, After
  <1>9. h[0] = base /\ \A k \in 1..n : h[k] = Hopped(h[k - 1], path[k], roles, max)
    BY <1>7
  <1> QED
    BY <1>1, <1>2, <1>8, <1>9 DEF HopsLoop

LEMMA WalkFills ==
    ASSUME NEW st \in Filling, NEW path, Len(path) \in Nat, NEW from \in Seq(AllObjects), NEW roles, NEW max \in Nat
    PROVE  WalkOf(st, path, from, roles, max) \in Filling
  <1>1. PICK n \in Nat : n = Len(path)
    OBVIOUS
  <1>2. PICK f : HopsLoop(f, st, path, from, roles, max)
    BY PathLoops
  <1>3. f[0] \in Filling
    BY <1>2 DEF HopsLoop, Filling
  <1>4. ASSUME NEW k \in 0..n, k < n, f[k] \in Filling PROVE f[k + 1] \in Filling
    <2>1. k + 1 \in 1..n /\ (k + 1) - 1 = k
      BY <1>1, <1>4
    <2>2. f[k + 1] = Hopped(f[k], path[k + 1], roles, max)
      BY <1>1, <1>2, <2>1 DEF HopsLoop
    <2> QED
      BY <1>4, <2>1, <2>2, HoppedFills
  <1> DEFINE Good == {k \in 0..n : f[k] \in Filling}
  <1>5. 0 \in Good /\ \A k \in 0..n : k \in Good /\ k < n => k + 1 \in Good
    BY <1>3, <1>4
  <1> HIDE DEF Good
  <1>6. n \in Good
    <2>1. \A k \in 0..n : k \in Good
      BY <1>5, UpTo
    <2> QED
      BY <2>1
  <1> QED
    BY <1>1, <1>2, <1>6 DEF Good, HopsLoop

LEMMA WalkedIs ==
    ASSUME NEW st, NEW path, NEW from, NEW roles, NEW max
    PROVE  PathWalked(st, path, from, roles, max) =
             IF st.cut THEN st
             ELSE [WalkOf(st, path, from, roles, max) EXCEPT !.cut = WalkOf(st, path, from, roles, max).truncated]
  BY DEF PathWalked, WalkOf

LEMMA WalkedFills ==
    ASSUME NEW st \in Filling, NEW path, Len(path) \in Nat, NEW from \in Seq(AllObjects), NEW roles, NEW max \in Nat
    PROVE  PathWalked(st, path, from, roles, max) \in Filling
  <1>1. PICK after \in Filling : after = WalkOf(st, path, from, roles, max)
    BY WalkFills
  <1>2. [after EXCEPT !.cut = after.truncated] \in Filling
    BY DEF Filling
  <1> QED
    BY <1>1, <1>2, WalkedIs

AllWalked(start, spec, roles) ==
    After(LAMBDA st, path : PathWalked(st, path, start.next, roles, spec.maxNodes), start, spec.paths)

\* The loop over the paths of a slice.
PathsLoop(f, start, spec, roles) ==
    /\ f[0] = start
    /\ \A k \in 1..Len(spec.paths) : f[k] = PathWalked(f[k - 1], spec.paths[k], start.next, roles, spec.maxNodes)
    /\ AllWalked(start, spec, roles) = f[Len(spec.paths)]

LEMMA PathsLoops ==
    ASSUME NEW start \in Filling, NEW spec, Len(spec.paths) \in Nat, spec.maxNodes \in Nat,
           \A p \in 1..Len(spec.paths) : Len(spec.paths[p]) \in Nat, NEW roles
    PROVE  \E f : PathsLoop(f, start, spec, roles)
  <1>1. PICK n \in Nat : n = Len(spec.paths)
    OBVIOUS
  <1>2. PICK base \in Filling : base = start
    OBVIOUS
  <1>3. PICK G \in [Filling \X (1..n) -> Filling] :
            \A s \in Filling, k \in 1..n : G[<<s, k>>] = PathWalked(s, spec.paths[k], start.next, roles, spec.maxNodes)
    <2> DEFINE G == [x \in Filling \X (1..n) |-> PathWalked(x[1], spec.paths[x[2]], start.next, roles, spec.maxNodes)]
    <2>1. ASSUME NEW s \in Filling, NEW k \in 1..n PROVE PathWalked(s, spec.paths[k], start.next, roles, spec.maxNodes) \in Filling
      <3>1. start.next \in Seq(AllObjects) /\ Len(spec.paths[k]) \in Nat
        BY <1>1 DEF Filling
      <3> QED
        BY <3>1, WalkedFills
    <2>2. G \in [Filling \X (1..n) -> Filling]
      BY <2>1
    <2>3. ASSUME NEW s \in Filling, NEW k \in 1..n PROVE G[<<s, k>>] = PathWalked(s, spec.paths[k], start.next, roles, spec.maxNodes)
      <3>1. <<s, k>> \in Filling \X (1..n) /\ <<s, k>>[1] = s /\ <<s, k>>[2] = k
        OBVIOUS
      <3> QED
        BY <3>1
    <2> QED
      BY <2>2, <2>3
  <1>4. PICK f \in [0..n -> Filling] : Loops(f, n, base, G)
    BY LoopExists
  <1> DEFINE Goes(g) == g = [k \in 0..n |-> IF k = 0 THEN base ELSE PathWalked(g[k - 1], spec.paths[k], start.next, roles, spec.maxNodes)]
  <1>5. Goes(f)
    <2>1. \A k \in 0..n : f[k] = IF k = 0 THEN base ELSE PathWalked(f[k - 1], spec.paths[k], start.next, roles, spec.maxNodes)
      BY <1>3, <1>4 DEF Loops
    <2> QED
      BY <2>1
  <1>6. PICK h : h = CHOOSE g : Goes(g)
    OBVIOUS
  <1>7. Goes(h)
    BY <1>5, <1>6
  <1>8. AllWalked(start, spec, roles) = h[n]
    BY <1>1, <1>2, <1>6 DEF AllWalked, After
  <1>9. h[0] = base /\ \A k \in 1..n : h[k] = PathWalked(h[k - 1], spec.paths[k], start.next, roles, spec.maxNodes)
    BY <1>7
  <1> QED
    BY <1>1, <1>2, <1>8, <1>9 DEF PathsLoop

LEMMA RootedFills ==
    ASSUME NEW st \in Filling, NEW o \in AllObjects, NEW spec, spec.maxNodes \in Nat, NEW roles
    PROVE  Rooted(st, o, spec, roles) \in Filling
  <1>1. PICK st2 \in Filling : st2 = Added(st, o, spec.maxNodes)
    BY AddedFills
  <1>2. Append(st2.next, o) \in Seq(AllObjects)
    BY AppendProperties DEF Filling
  <1>3. [st2 EXCEPT !.next = Append(@, o)] \in Filling
    BY <1>2 DEF Filling
  <1> QED
    BY <1>1, <1>3 DEF Rooted

LEMMA UnfilledFills ==
    /\ Unfilled \in Filling /\ Unfilled.nodes = {} /\ Unfilled.edges = {} /\ ~Unfilled.truncated /\ Unfilled.next = <<>>
    /\ ~Unfilled.cut /\ ~Unfilled.over
  <1>1. <<>> \in Seq(AllObjects)
    BY EmptySeq
  <1> QED
    BY <1>1 DEF Unfilled, Filling

\* The loop over the objects that may be roots.
RootsLoop(f, spec, roles) ==
    /\ f[0] = Unfilled
    /\ \A k \in 1..Len(SliceObjects) : f[k] = Rooted(f[k - 1], SliceObjects[k], spec, roles)
    /\ RootsAdded(spec, roles) = f[Len(SliceObjects)]

LEMMA RootsLoops ==
    ASSUME NEW spec, spec.maxNodes \in Nat, NEW roles
    PROVE  \E f : RootsLoop(f, spec, roles)
  <1>1. PICK n \in Nat : n = Len(SliceObjects)
    BY SliceLists
  <1>2. PICK base \in Filling : base = Unfilled
    BY UnfilledFills
  <1>3. PICK G \in [Filling \X (1..n) -> Filling] :
            \A s \in Filling, k \in 1..n : G[<<s, k>>] = Rooted(s, SliceObjects[k], spec, roles)
    <2> DEFINE G == [x \in Filling \X (1..n) |-> Rooted(x[1], SliceObjects[x[2]], spec, roles)]
    <2>1. ASSUME NEW s \in Filling, NEW k \in 1..n PROVE Rooted(s, SliceObjects[k], spec, roles) \in Filling
      <3>1. SliceObjects[k] \in AllObjects
        BY <1>1, SliceLists DEF AllObjects
      <3> QED
        BY <3>1, RootedFills
    <2>2. G \in [Filling \X (1..n) -> Filling]
      BY <2>1
    <2>3. ASSUME NEW s \in Filling, NEW k \in 1..n PROVE G[<<s, k>>] = Rooted(s, SliceObjects[k], spec, roles)
      <3>1. <<s, k>> \in Filling \X (1..n) /\ <<s, k>>[1] = s /\ <<s, k>>[2] = k
        OBVIOUS
      <3> QED
        BY <3>1
    <2> QED
      BY <2>2, <2>3
  <1>4. PICK f \in [0..n -> Filling] : Loops(f, n, base, G)
    BY LoopExists
  <1> DEFINE Goes(g) == g = [k \in 0..n |-> IF k = 0 THEN base ELSE Rooted(g[k - 1], SliceObjects[k], spec, roles)]
  <1>5. Goes(f)
    <2>1. \A k \in 0..n : f[k] = IF k = 0 THEN base ELSE Rooted(f[k - 1], SliceObjects[k], spec, roles)
      BY <1>3, <1>4 DEF Loops
    <2> QED
      BY <2>1
  <1>6. PICK h : h = CHOOSE g : Goes(g)
    OBVIOUS
  <1>7. Goes(h)
    BY <1>5, <1>6
  <1>8. RootsAdded(spec, roles) = h[n]
    BY <1>1, <1>2, <1>6 DEF RootsAdded, After
  <1>9. h[0] = base /\ \A k \in 1..n : h[k] = Rooted(h[k - 1], SliceObjects[k], spec, roles)
    BY <1>7
  <1> QED
    BY <1>1, <1>2, <1>8, <1>9 DEF RootsLoop

\* What the hops of a path lead to.
LevelsLoop(f, spec, path, roles) ==
    /\ f[0] = RootsOf(spec, roles)
    /\ \A k \in 1..Len(path) : f[k] = Children(f[k - 1], path[k], roles)

LEMMA LevelLoops ==
    ASSUME NEW spec, NEW path, Len(path) \in Nat, NEW roles
    PROVE  LevelsLoop(AlongPath(spec, path, roles), spec, path, roles)
  <1>1. PICK n \in Nat : n = Len(path)
    OBVIOUS
  <1>2. PICK base \in (SUBSET AllObjects) : base = RootsOf(spec, roles)
    BY DEF RootsOf
  <1>3. PICK G \in [(SUBSET AllObjects) \X (1..n) -> (SUBSET AllObjects)] :
            \A s \in (SUBSET AllObjects), k \in 1..n : G[<<s, k>>] = Children(s, path[k], roles)
    <2> DEFINE G == [x \in (SUBSET AllObjects) \X (1..n) |-> Children(x[1], path[x[2]], roles)]
    <2>1. ASSUME NEW s \in (SUBSET AllObjects), NEW k \in 1..n PROVE Children(s, path[k], roles) \in (SUBSET AllObjects)
      BY DEF Children
    <2>2. G \in [(SUBSET AllObjects) \X (1..n) -> (SUBSET AllObjects)]
      BY <2>1
    <2>3. ASSUME NEW s \in (SUBSET AllObjects), NEW k \in 1..n PROVE G[<<s, k>>] = Children(s, path[k], roles)
      <3>1. <<s, k>> \in (SUBSET AllObjects) \X (1..n) /\ <<s, k>>[1] = s /\ <<s, k>>[2] = k
        OBVIOUS
      <3> QED
        BY <3>1
    <2> QED
      BY <2>2, <2>3
  <1>4. PICK f \in [0..n -> (SUBSET AllObjects)] : Loops(f, n, base, G)
    BY LoopExists
  <1> DEFINE Goes(g) == g = [k \in 0..n |-> IF k = 0 THEN base ELSE Children(g[k - 1], path[k], roles)]
  <1>5. Goes(f)
    <2>1. \A k \in 0..n : f[k] = IF k = 0 THEN base ELSE Children(f[k - 1], path[k], roles)
      <3>1. ASSUME NEW k \in 0..n, k # 0 PROVE f[k] = Children(f[k - 1], path[k], roles)
        <4>1. k - 1 \in 0..n /\ k \in 1..n
          BY <3>1
        <4>2. f[k - 1] \in SUBSET AllObjects
          BY <4>1
        <4>3. G[<<f[k - 1], k>>] = Children(f[k - 1], path[k], roles)
          BY <1>3, <4>1, <4>2
        <4>4. f[k] = G[<<f[k - 1], k>>]
          BY <1>4, <3>1 DEF Loops
        <4> QED
          BY <4>3, <4>4
      <3>2. f[0] = base
        BY <1>4 DEF Loops
      <3> QED
        BY <3>1, <3>2
    <2> QED
      BY <2>1
  <1>6. PICK h : h = CHOOSE g : Goes(g)
    OBVIOUS
  <1>7. Goes(h)
    BY <1>5, <1>6
  <1>8. AlongPath(spec, path, roles) = h
    BY <1>1, <1>2, <1>6 DEF AlongPath
  <1>9. h[0] = base /\ \A k \in 1..n : h[k] = Children(h[k - 1], path[k], roles)
    <2>1. ASSUME NEW k \in 1..n PROVE h[k] = Children(h[k - 1], path[k], roles)
      <3>1. k \in 0..n /\ k # 0
        OBVIOUS
      <3> QED
        BY <1>7, <3>1
    <2>2. h[0] = base
      BY <1>7
    <2> QED
      BY <2>1, <2>2
  <1> QED
    BY <1>1, <1>2, <1>8, <1>9 DEF LevelsLoop

-----------------------------------------------------------------------------
(* What a slice answers *)

LEMMA ChildrenOfEach ==
    ASSUME NEW parents, NEW hop, NEW roles, NEW o
    PROVE  o \in Children(parents, hop, roles) <=> \E p \in parents : o \in Children({p}, hop, roles)
  BY DEF Children

\* A hop leads from its parents to all of their children, as long as the slice is not cut and no limit applies.
AllFollowed(g, st, hop, roles, reach, max) ==
    /\ Sound(g, reach, max) /\ Grown(st, g)
    /\ \A o : InList(o, g.next) => \E j \in 1..Len(st.next) : o \in Children({st.next[j]}, hop, roles)
    /\ ~g.truncated /\ hop.limit >= Len(SliceLinks) =>
        \A j \in 1..Len(st.next) : \A o \in Children({st.next[j]}, hop, roles) : InList(o, g.next)

LEMMA OfParentsSound ==
    ASSUME NEW reach, NEW max \in Nat, NEW st, Sound(st, reach, max),
           NEW hop, hop.limit \in Nat, hop.link \in DOMAIN SliceLinkTypes, NEW roles,
           \A j \in 1..Len(st.next) : Children({st.next[j]}, hop, roles) \subseteq reach
    PROVE  AllFollowed(OfParents(st, hop, roles, max), st, hop, roles, reach, max)
  <1>1. st \in Filling /\ st.next \in Seq(AllObjects)
    BY DEF Sound, Filling
  <1>2. PICK n \in Nat : n = Len(st.next)
    BY <1>1, LenProperties
  <1>3. PICK f : ParentsLoop(f, st, hop, roles, max)
    BY <1>1, OfParentsLoops
  <1> DEFINE Inv(k, g) ==
        /\ Sound(g, reach, max) /\ Grown(st, g)
        /\ \A o : InList(o, g.next) => \E j \in 1..k : o \in Children({st.next[j]}, hop, roles)
        /\ ~g.truncated /\ hop.limit >= Len(SliceLinks) =>
            \A j \in 1..k : \A o \in Children({st.next[j]}, hop, roles) : InList(o, g.next)
  <1>4. Inv(0, f[0])
    <2>1. PICK b : b = f[0]
      OBVIOUS
    <2>2. <<>> \in Seq(AllObjects) /\ Len(<<>>) = 0
      BY EmptySeq
    <2>3. /\ b \in Filling /\ b.nodes = st.nodes /\ b.edges = st.edges /\ b.truncated = st.truncated
          /\ b.next = <<>> /\ b.cut = st.cut
      <3>1. b = [st EXCEPT !.next = <<>>]
        BY <1>3, <2>1 DEF ParentsLoop
      <3> QED
        BY <1>1, <2>2, <3>1 DEF Filling
    <2>4. \A o : ~InList(o, b.next)
      BY <2>2, <2>3 DEF InList
    <2>5. Sound(b, reach, max) /\ Grown(st, b)
      BY <2>3, <2>4 DEF Sound, Grown
    <2> QED
      BY <2>1, <2>4, <2>5
  <1>5. ASSUME NEW k \in 0..n, k < n, Inv(k, f[k]) PROVE Inv(k + 1, f[k + 1])
    <2>1. PICK a : a = f[k]
      OBVIOUS
    <2>2. PICK g : g = f[k + 1]
      OBVIOUS
    <2>3. k + 1 \in 1..n /\ (k + 1) - 1 = k
      BY <1>5
    <2>4. PICK parent : parent = st.next[k + 1]
      OBVIOUS
    <2>5. g = OfParent(a, parent, hop, roles, max)
      BY <1>2, <1>3, <2>1, <2>2, <2>3, <2>4 DEF ParentsLoop
    <2>6. Inv(k, a)
      BY <1>5, <2>1
    <2>7. parent \in a.nodes /\ Children({parent}, hop, roles) \subseteq reach
      <3>1. InList(parent, st.next)
        BY <1>2, <2>3, <2>4 DEF InList
      <3>2. parent \in st.nodes
        BY <3>1 DEF Sound
      <3> QED
        BY <1>2, <2>3, <2>4, <2>6, <3>2 DEF Grown
    <2>8. /\ Sound(g, reach, max) /\ Grown(a, g)
          /\ \A o : InList(o, a.next) => InList(o, g.next)
          /\ \A o : InList(o, g.next) => InList(o, a.next) \/ o \in Children({parent}, hop, roles)
          /\ ~g.truncated /\ hop.limit >= Len(SliceLinks) =>
                \A o \in Children({parent}, hop, roles) : InList(o, g.next)
      BY <2>5, <2>6, <2>7, OfParentSound
    <2>9. Grown(st, g)
      BY <2>6, <2>8, GrownOn
    <2>10. ASSUME NEW o, InList(o, g.next) PROVE \E j \in 1..k + 1 : o \in Children({st.next[j]}, hop, roles)
      <3>1. CASE InList(o, a.next)
        <4>1. PICK j \in 1..k : o \in Children({st.next[j]}, hop, roles)
          BY <2>6, <3>1
        <4>2. j \in 1..k + 1
          OBVIOUS
        <4> QED
          BY <4>1, <4>2
      <3>2. CASE o \in Children({parent}, hop, roles)
        <4>1. k + 1 \in 1..k + 1
          OBVIOUS
        <4> QED
          BY <2>4, <3>2, <4>1
      <3> QED
        BY <2>8, <2>10, <3>1, <3>2
    <2>11. ASSUME ~g.truncated, hop.limit >= Len(SliceLinks), NEW j \in 1..k + 1,
                  NEW o \in Children({st.next[j]}, hop, roles)
           PROVE  InList(o, g.next)
      <3>1. CASE j \in 1..k
        BY <2>6, <2>8, <2>11, <3>1 DEF Grown
      <3>2. CASE j = k + 1
        BY <2>4, <2>8, <2>11, <3>2
      <3> QED
        BY <3>1, <3>2
    <2> QED
      BY <2>2, <2>8, <2>9, <2>10, <2>11
  <1> DEFINE Good == {k \in 0..n : Inv(k, f[k])}
  <1> HIDE DEF Inv
  <1>6. 0 \in Good /\ \A k \in 0..n : k \in Good /\ k < n => k + 1 \in Good
    BY <1>4, <1>5
  <1> HIDE DEF Good
  <1>7. \A k \in 0..n : k \in Good
    BY <1>6, UpTo
  <1>8. Inv(n, f[n])
    BY <1>7 DEF Good
  <1> QED
    BY <1>2, <1>3, <1>8 DEF Inv, ParentsLoop, AllFollowed

\* What a path has come to, in relation to what its hops lead to.
Arrived(st, level, spec) ==
    /\ ~st.over => \A o : InList(o, st.next) => o \in level
    /\ Unlimited(spec) /\ ~st.truncated =>
        (st.over => level = {}) /\ (~st.over => \A o \in level : InList(o, st.next))

LEMMA HoppedSound ==
    ASSUME NEW reach, NEW max \in Nat, NEW st, Sound(st, reach, max), NEW hop, hop.limit \in Nat, NEW roles,
           NEW spec, Unlimited(spec) => hop.limit >= Len(SliceLinks),
           NEW level, Arrived(st, level, spec), Children(level, hop, roles) \subseteq reach
    PROVE  LET g == Hopped(st, hop, roles, max) IN
           /\ Sound(g, reach, max) /\ Grown(st, g) /\ Arrived(g, Children(level, hop, roles), spec)
  <1>1. st \in Filling /\ st.next \in Seq(AllObjects)
    BY DEF Sound, Filling
  <1>2. PICK g : g = Hopped(st, hop, roles, max)
    OBVIOUS
  <1>3. CASE st.over
    <2>1. g = st
      BY <1>2, <1>3 DEF Hopped
    <2>2. level = {} => Children(level, hop, roles) = {}
      BY DEF Children
    <2>3. Arrived(st, Children(level, hop, roles), spec)
      BY <1>3, <2>2 DEF Arrived
    <2> QED
      BY <1>2, <2>1, <2>3 DEF Grown
  <1>4. CASE ~st.over /\ hop.link \notin DOMAIN SliceLinkTypes
    <2>1. g = [st EXCEPT !.over = TRUE]
      BY <1>2, <1>4 DEF Hopped
    <2>2. /\ g \in Filling /\ g.nodes = st.nodes /\ g.edges = st.edges /\ g.truncated = st.truncated
          /\ g.next = st.next /\ g.cut = st.cut /\ g.over
      BY <1>1, <2>1 DEF Filling
    <2>3. Children(level, hop, roles) = {}
      BY <1>4 DEF Children
    <2>4. Arrived(g, Children(level, hop, roles), spec)
      BY <2>2, <2>3 DEF Arrived
    <2>5. Sound(g, reach, max) /\ Grown(st, g)
      BY <2>2 DEF Sound, Grown
    <2> QED
      BY <1>2, <2>4, <2>5
  <1>5. CASE ~st.over /\ hop.link \in DOMAIN SliceLinkTypes
    <2>1. PICK a : a = OfParents(st, hop, roles, max)
      OBVIOUS
    <2>2. ASSUME NEW j \in 1..Len(st.next) PROVE st.next[j] \in level
      <3>1. InList(st.next[j], st.next)
        BY DEF InList
      <3> QED
        BY <1>5, <3>1 DEF Arrived
    <2>3. \A j \in 1..Len(st.next) : Children({st.next[j]}, hop, roles) \subseteq reach
      <3>1. ASSUME NEW j \in 1..Len(st.next) PROVE Children({st.next[j]}, hop, roles) \subseteq reach
        BY <2>2, ChildrenOfEach
      <3> QED
        BY <3>1
    <2>4. /\ Sound(a, reach, max) /\ Grown(st, a)
          /\ \A o : InList(o, a.next) => \E j \in 1..Len(st.next) : o \in Children({st.next[j]}, hop, roles)
          /\ ~a.truncated /\ hop.limit >= Len(SliceLinks) =>
                \A j \in 1..Len(st.next) : \A o \in Children({st.next[j]}, hop, roles) : InList(o, a.next)
      <3>1. AllFollowed(a, st, hop, roles, reach, max)
        BY <1>5, <2>1, <2>3, OfParentsSound
      <3> QED
        BY <3>1 DEF AllFollowed
    <2>5. g = [a EXCEPT !.over = a.truncated]
      BY <1>2, <1>5, <2>1 DEF Hopped
    <2>6. /\ g \in Filling /\ g.nodes = a.nodes /\ g.edges = a.edges /\ g.truncated = a.truncated
          /\ g.next = a.next /\ g.cut = a.cut /\ g.over = a.truncated
      <3>1. a \in Filling
        BY <2>4 DEF Sound
      <3> QED
        BY <2>5, <3>1 DEF Filling
    <2>7. Sound(g, reach, max) /\ Grown(st, g)
      BY <2>4, <2>6 DEF Sound, Grown
    <2>8. ASSUME NEW o, InList(o, g.next) PROVE o \in Children(level, hop, roles)
      <3>1. PICK j \in 1..Len(st.next) : o \in Children({st.next[j]}, hop, roles)
        BY <2>4, <2>6, <2>8
      <3> QED
        BY <2>2, <3>1, ChildrenOfEach
    <2>9. ASSUME Unlimited(spec), ~g.truncated, NEW o \in Children(level, hop, roles) PROVE InList(o, g.next)
      <3>1. PICK p \in level : o \in Children({p}, hop, roles)
        BY ChildrenOfEach
      <3>2. ~st.truncated
        BY <2>7, <2>9 DEF Grown
      <3>3. InList(p, st.next)
        BY <1>5, <2>9, <3>2 DEF Arrived
      <3>4. PICK j \in 1..Len(st.next) : st.next[j] = p
        BY <3>3 DEF InList
      <3> QED
        BY <2>4, <2>6, <2>9, <3>1, <3>4
    <2>10. Arrived(g, Children(level, hop, roles), spec)
      BY <2>6, <2>8, <2>9 DEF Arrived
    <2> QED
      BY <1>2, <2>7, <2>10
  <1> QED
    BY <1>3, <1>4, <1>5

\* A path leads to all that its hops lead to, as long as the slice is not cut and no limit applies.
Walked(g, st, level, n, spec, reach, max) ==
    /\ Sound(g, reach, max) /\ Grown(st, g)
    /\ Unlimited(spec) /\ ~g.truncated => \A k \in 0..n : level[k] \subseteq g.nodes

LEMMA WalkSound ==
    ASSUME NEW reach, NEW max \in Nat, NEW st, Sound(st, reach, max), NEW roles, NEW spec, NEW path, NEW n \in Nat, n = Len(path),
           \A k \in 1..n : path[k].limit \in Nat /\ (Unlimited(spec) => path[k].limit >= Len(SliceLinks)),
           NEW level, LevelsLoop(level, spec, path, roles), \A k \in 0..n : level[k] \subseteq reach,
           NEW from \in Seq(AllObjects), \A o : InList(o, from) => o \in st.nodes /\ o \in level[0],
           ~st.truncated => \A o \in level[0] : InList(o, from)
    PROVE  Walked(WalkOf(st, path, from, roles, max), st, level, n, spec, reach, max)
  <1>1. st \in Filling
    BY DEF Sound
  <1>2. PICK f : HopsLoop(f, st, path, from, roles, max)
    BY <1>1, PathLoops
  <1> DEFINE Inv(k, g) ==
        /\ Sound(g, reach, max) /\ Grown(st, g) /\ Arrived(g, level[k], spec)
        /\ Unlimited(spec) /\ ~g.truncated => \A j \in 0..k : level[j] \subseteq g.nodes
  <1>3. ASSUME NEW k \in 0..n, NEW g, Sound(g, reach, max), Arrived(g, level[k], spec), Unlimited(spec), ~g.truncated
        PROVE  level[k] \subseteq g.nodes
    <2>1. \A o \in level[k] : InList(o, g.next)
      BY <1>3 DEF Arrived
    <2> QED
      BY <1>3, <2>1 DEF Sound
  <1>4. Inv(0, f[0])
    <2>1. PICK b : b = f[0]
      OBVIOUS
    <2>2. /\ b \in Filling /\ b.nodes = st.nodes /\ b.edges = st.edges /\ b.truncated = st.truncated
          /\ b.next = from /\ b.cut = st.cut /\ ~b.over
      <3>1. b = [st EXCEPT !.next = from, !.over = FALSE]
        BY <1>2, <2>1 DEF HopsLoop
      <3> QED
        BY <1>1, <3>1 DEF Filling
    <2>3. Sound(b, reach, max) /\ Grown(st, b)
      BY <2>2 DEF Sound, Grown
    <2>4. Arrived(b, level[0], spec)
      BY <2>2 DEF Arrived
    <2>5. ASSUME Unlimited(spec), ~b.truncated, NEW j \in 0..0 PROVE level[j] \subseteq b.nodes
      BY <1>3, <2>3, <2>4, <2>5
    <2> QED
      BY <2>1, <2>3, <2>4, <2>5
  <1>5. ASSUME NEW k \in 0..n, k < n, Inv(k, f[k]) PROVE Inv(k + 1, f[k + 1])
    <2>1. PICK a : a = f[k]
      OBVIOUS
    <2>2. PICK g : g = f[k + 1]
      OBVIOUS
    <2>3. k + 1 \in 1..n /\ k + 1 \in 0..n /\ (k + 1) - 1 = k
      BY <1>5
    <2>4. PICK hop : hop = path[k + 1]
      OBVIOUS
    <2>5. hop.limit \in Nat /\ (Unlimited(spec) => hop.limit >= Len(SliceLinks))
      BY <2>3, <2>4
    <2>6. g = Hopped(a, hop, roles, max)
      BY <1>2, <2>1, <2>2, <2>3, <2>4 DEF HopsLoop
    <2>7. level[k + 1] = Children(level[k], hop, roles) /\ level[k + 1] \subseteq reach
      BY <2>3, <2>4 DEF LevelsLoop
    <2>8. Inv(k, a)
      BY <1>5, <2>1
    <2>9. Sound(g, reach, max) /\ Grown(a, g) /\ Arrived(g, level[k + 1], spec)
      <3>1. PICK lv : lv = level[k]
        OBVIOUS
      <3>2. Sound(a, reach, max) /\ Arrived(a, lv, spec) /\ Children(lv, hop, roles) \subseteq reach
        BY <2>7, <2>8, <3>1
      <3>3. /\ Sound(Hopped(a, hop, roles, max), reach, max) /\ Grown(a, Hopped(a, hop, roles, max))
            /\ Arrived(Hopped(a, hop, roles, max), Children(lv, hop, roles), spec)
        <4> HIDE <1>5, <2>8
        <4> QED
          BY <2>5, <3>2, HoppedSound
      <3> QED
        BY <2>6, <2>7, <3>1, <3>3
    <2>10. Grown(st, g)
      BY <2>8, <2>9, GrownOn
    <2>11. ASSUME Unlimited(spec), ~g.truncated, NEW j \in 0..k + 1 PROVE level[j] \subseteq g.nodes
      <3>1. CASE j \in 0..k
        BY <2>8, <2>9, <2>11, <3>1 DEF Grown
      <3>2. CASE j = k + 1
        BY <1>3, <2>3, <2>9, <2>11, <3>2
      <3> QED
        BY <3>1, <3>2
    <2> QED
      BY <2>2, <2>9, <2>10, <2>11
  <1> DEFINE Good == {k \in 0..n : Inv(k, f[k])}
  <1> HIDE DEF Inv
  <1>6. 0 \in Good /\ \A k \in 0..n : k \in Good /\ k < n => k + 1 \in Good
    BY <1>4, <1>5
  <1> HIDE DEF Good
  <1>7. \A k \in 0..n : k \in Good
    BY <1>6, UpTo
  <1>8. Inv(n, f[n])
    BY <1>7 DEF Good
  <1>9. WalkOf(st, path, from, roles, max) = f[n]
    BY <1>2 DEF HopsLoop
  <1> QED
    BY <1>8, <1>9 DEF Inv, Walked

SpecShape(spec) ==
    /\ spec.maxNodes \in Nat /\ Len(spec.paths) \in Nat /\ DOMAIN spec.paths = 1..Len(spec.paths)
    /\ \A p \in 1..Len(spec.paths) :
        /\ Len(spec.paths[p]) \in Nat /\ DOMAIN spec.paths[p] = 1..Len(spec.paths[p])
        /\ \A k \in 1..Len(spec.paths[p]) : spec.paths[p][k].limit \in Nat

LEMMA SpecsShape == ASSUME NEW i \in DOMAIN SliceSpecs PROVE SpecShape(SliceSpecs[i])
  <1>1. PICK spec : spec = SliceSpecs[i]
    OBVIOUS
  <1>2. /\ spec.maxNodes \in Nat /\ Len(spec.paths) \in Nat /\ DOMAIN spec.paths = 1..Len(spec.paths)
        /\ \A p \in DOMAIN spec.paths : IsList(spec.paths[p]) /\ \A k \in DOMAIN spec.paths[p] : spec.paths[p][k].limit \in Nat
    BY <1>1, SliceAssumption DEF IsList
  <1> QED
    BY <1>1, <1>2 DEF SpecShape, IsList

\* What the answer holds when the first n paths are walked.
WalkedAll(g, start, n, spec, roles, reach) ==
    /\ Sound(g, reach, spec.maxNodes) /\ start.nodes \subseteq g.nodes /\ (start.truncated => g.truncated)
    /\ g.cut => g.truncated
    /\ Unlimited(spec) /\ ~g.truncated =>
        \A p \in 1..n : \A k \in 0..Len(spec.paths[p]) : AlongPath(spec, spec.paths[p], roles)[k] \subseteq g.nodes

\* The roots that are in a slice before its first path.
HasRoots(start, spec, roles) ==
    /\ ~start.cut /\ \A o : InList(o, start.next) => o \in RootsOf(spec, roles)
    /\ ~start.truncated => \A o \in RootsOf(spec, roles) : InList(o, start.next)

LEMMA PathSound ==
    ASSUME NEW spec, SpecShape(spec), NEW roles, NEW reach, NEW start, Sound(start, reach, spec.maxNodes),
           HasRoots(start, spec, roles), NEW n \in Nat, n + 1 \in 1..Len(spec.paths),
           \A k \in 0..Len(spec.paths[n + 1]) : AlongPath(spec, spec.paths[n + 1], roles)[k] \subseteq reach,
           NEW a, WalkedAll(a, start, n, spec, roles, reach)
    PROVE  WalkedAll(PathWalked(a, spec.paths[n + 1], start.next, roles, spec.maxNodes), start, n + 1, spec, roles, reach)
  <1>1. PICK path : path = spec.paths[n + 1]
    OBVIOUS
  <1>2. PICK level : level = AlongPath(spec, path, roles)
    OBVIOUS
  <1>3. PICK g : g = PathWalked(a, path, start.next, roles, spec.maxNodes)
    OBVIOUS
  <1>4. PICK m \in Nat : m = Len(path)
    BY <1>1 DEF SpecShape
  <1>5. PICK from \in Seq(AllObjects) : from = start.next
    BY DEF Sound, Filling
  <1>6. CASE a.cut
    <2>1. g = a
      BY <1>3, <1>6, WalkedIs
    <2>2. a.truncated
      BY <1>6 DEF WalkedAll
    <2> QED
      BY <1>1, <1>3, <2>1, <2>2 DEF WalkedAll
  <1>7. CASE ~a.cut
    <2>1. PICK w : w = WalkOf(a, path, from, roles, spec.maxNodes)
      OBVIOUS
    <2>2. g = [w EXCEPT !.cut = w.truncated]
      BY <1>3, <1>5, <1>7, <2>1, WalkedIs
    <2>3. \A k \in 1..m : path[k].limit \in Nat /\ (Unlimited(spec) => path[k].limit >= Len(SliceLinks))
      BY <1>1, <1>4 DEF SpecShape, Unlimited
    <2>4. LevelsLoop(level, spec, path, roles)
      BY <1>2, <1>4, LevelLoops
    <2>5. \A k \in 0..m : level[k] \subseteq reach
      BY <1>1, <1>2, <1>4
    <2>6. \A o : InList(o, from) => o \in a.nodes /\ o \in level[0]
      BY <1>5, <2>4 DEF HasRoots, LevelsLoop, WalkedAll, Sound
    <2>7. ~a.truncated => \A o \in level[0] : InList(o, from)
      BY <1>5, <2>4 DEF HasRoots, LevelsLoop, WalkedAll
    <2>8. PICK max \in Nat : max = spec.maxNodes
      BY DEF SpecShape
    <2>9. Sound(a, reach, max)
      BY <2>8 DEF WalkedAll
    <2>10. Walked(w, a, level, m, spec, reach, max)
      BY <1>4, <2>1, <2>3, <2>4, <2>5, <2>6, <2>7, <2>8, <2>9, WalkSound
    <2>11. /\ g \in Filling /\ g.nodes = w.nodes /\ g.edges = w.edges /\ g.truncated = w.truncated
           /\ g.next = w.next /\ g.cut = w.truncated
      <3>1. w \in Filling
        BY <2>10 DEF Walked, Sound
      <3> QED
        BY <2>2, <3>1 DEF Filling
    <2>12. Sound(g, reach, max)
      BY <2>10, <2>11 DEF Walked, Sound
    <2>13. start.nodes \subseteq g.nodes /\ (start.truncated => g.truncated) /\ (~g.truncated => ~a.truncated) /\ a.nodes \subseteq g.nodes
      BY <2>10, <2>11 DEF Walked, Grown, WalkedAll
    <2>14. ASSUME Unlimited(spec), ~g.truncated, NEW p \in 1..n + 1, NEW k \in 0..Len(spec.paths[p])
           PROVE  AlongPath(spec, spec.paths[p], roles)[k] \subseteq g.nodes
      <3>1. CASE p \in 1..n
        <4>1. AlongPath(spec, spec.paths[p], roles)[k] \subseteq a.nodes
          BY <2>13, <2>14, <3>1 DEF WalkedAll
        <4> QED
          BY <2>13, <4>1
      <3>2. CASE p = n + 1
        <4>1. level[k] \subseteq w.nodes
          BY <1>1, <1>4, <2>10, <2>11, <2>14, <3>2 DEF Walked
        <4> QED
          BY <1>1, <1>2, <2>11, <3>2, <4>1
      <3> QED
        BY <3>1, <3>2
    <2> QED
      BY <1>1, <1>3, <2>8, <2>11, <2>12, <2>13, <2>14 DEF WalkedAll
  <1> QED
    BY <1>6, <1>7

LEMMA PathsSound ==
    ASSUME NEW spec, SpecShape(spec), NEW roles, NEW reach, NEW start, Sound(start, reach, spec.maxNodes),
           HasRoots(start, spec, roles),
           \A p \in 1..Len(spec.paths) : \A k \in 0..Len(spec.paths[p]) : AlongPath(spec, spec.paths[p], roles)[k] \subseteq reach
    PROVE  WalkedAll(AllWalked(start, spec, roles), start, Len(spec.paths), spec, roles, reach)
  <1>1. start \in Filling
    BY DEF Sound
  <1>2. PICK n \in Nat : n = Len(spec.paths)
    BY DEF SpecShape
  <1>3. PICK f : PathsLoop(f, start, spec, roles)
    BY <1>1, PathsLoops DEF SpecShape
  <1> DEFINE Good == {k \in 0..n : WalkedAll(f[k], start, k, spec, roles, reach)}
  <1>4. 0 \in Good
    BY <1>2, <1>3 DEF PathsLoop, WalkedAll, HasRoots
  <1>5. ASSUME NEW k \in 0..n, k \in Good, k < n PROVE k + 1 \in Good
    <2>1. k + 1 \in 1..n /\ k \in Nat /\ (k + 1) - 1 = k
      BY <1>5
    <2>2. f[k + 1] = PathWalked(f[k], spec.paths[k + 1], start.next, roles, spec.maxNodes)
      BY <1>2, <1>3, <2>1 DEF PathsLoop
    <2>3. WalkedAll(f[k], start, k, spec, roles, reach)
      BY <1>5
    <2>4. \A j \in 0..Len(spec.paths[k + 1]) : AlongPath(spec, spec.paths[k + 1], roles)[j] \subseteq reach
      BY <1>2, <2>1
    <2>5. WalkedAll(f[k + 1], start, k + 1, spec, roles, reach)
      BY <1>2, <2>1, <2>2, <2>3, <2>4, PathSound
    <2> QED
      BY <2>1, <2>5
  <1> HIDE DEF Good
  <1>6. \A k \in 0..n : k \in Good
    BY <1>4, <1>5, UpTo
  <1>7. WalkedAll(f[n], start, n, spec, roles, reach)
    BY <1>6 DEF Good
  <1> QED
    BY <1>2, <1>3, <1>7 DEF PathsLoop

LEMMA RootedSound ==
    ASSUME NEW spec, SpecShape(spec), NEW roles, NEW reach, RootsOf(spec, roles) \subseteq reach,
           NEW st, Sound(st, reach, spec.maxNodes), NEW o \in AllObjects
    PROVE  LET g == Rooted(st, o, spec, roles) IN
           /\ Sound(g, reach, spec.maxNodes) /\ Grown(st, g)
           /\ \A x : InList(x, st.next) => InList(x, g.next)
           /\ \A x : InList(x, g.next) => InList(x, st.next) \/ x \in RootsOf(spec, roles)
           /\ ~g.truncated /\ IsRoot(o, spec, roles) => InList(o, g.next)
  <1>1. PICK max \in Nat : max = spec.maxNodes
    BY DEF SpecShape
  <1>2. PICK g : g = Rooted(st, o, spec, roles)
    OBVIOUS
  <1>3. CASE st.truncated \/ ~IsRoot(o, spec, roles)
    <2>1. g = st
      BY <1>2, <1>3 DEF Rooted
    <2> QED
      BY <1>2, <1>3, <2>1 DEF Grown
  <1>4. CASE ~(st.truncated \/ ~IsRoot(o, spec, roles))
    <2>1. o \in RootsOf(spec, roles) /\ o \in reach
      BY <1>4 DEF RootsOf
    <2>2. PICK st2 : st2 = Added(st, o, max)
      OBVIOUS
    <2>3. Sound(st2, reach, max) /\ Grown(st, st2) /\ (o \in st2.nodes \/ st2.truncated) /\ st2.next = st.next
      BY <1>1, <2>1, <2>2, AddedSound
    <2>4. CASE o \notin st2.nodes
      <3>1. g = st2
        BY <1>1, <1>2, <1>4, <2>2, <2>4 DEF Rooted
      <3> QED
        BY <1>1, <1>2, <2>3, <2>4, <3>1
    <2>5. CASE o \in st2.nodes
      <3>1. PICK list : list = Append(st2.next, o)
        OBVIOUS
      <3>2. st2 \in Filling /\ st2.next \in Seq(AllObjects)
        BY <2>3 DEF Sound, Filling
      <3>3. list \in Seq(AllObjects) /\ \A x : InList(x, list) <=> InList(x, st2.next) \/ x = o
        BY <3>1, <3>2, Appended
      <3>4. g = [st2 EXCEPT !.next = list]
        BY <1>1, <1>2, <1>4, <2>2, <2>5, <3>1 DEF Rooted
      <3>5. /\ g \in Filling /\ g.nodes = st2.nodes /\ g.edges = st2.edges /\ g.truncated = st2.truncated
            /\ g.next = list /\ g.cut = st2.cut
        BY <3>2, <3>3, <3>4 DEF Filling
      <3>6. Sound(g, reach, max)
        BY <2>3, <2>5, <3>3, <3>5 DEF Sound
      <3>7. Grown(st, g)
        BY <2>3, <3>5 DEF Grown
      <3> QED
        BY <1>1, <1>2, <2>1, <2>3, <3>3, <3>5, <3>6, <3>7
    <2> QED
      BY <2>4, <2>5
  <1> QED
    BY <1>3, <1>4

LEMMA RootsSound ==
    ASSUME NEW spec, SpecShape(spec), NEW roles, NEW reach, RootsOf(spec, roles) \subseteq reach
    PROVE  Sound(RootsAdded(spec, roles), reach, spec.maxNodes) /\ HasRoots(RootsAdded(spec, roles), spec, roles)
  <1>1. PICK n \in Nat : n = Len(SliceObjects) /\ DOMAIN SliceObjects = 1..n
    BY SliceLists
  <1>2. PICK max \in Nat : max = spec.maxNodes
    BY DEF SpecShape
  <1>3. PICK f : RootsLoop(f, spec, roles)
    BY <1>2, RootsLoops
  <1> DEFINE Inv(k, g) ==
        /\ Sound(g, reach, max) /\ ~g.cut /\ \A o : InList(o, g.next) => o \in RootsOf(spec, roles)
        /\ ~g.truncated => \A i \in 1..k : IsRoot(SliceObjects[i], spec, roles) => InList(SliceObjects[i], g.next)
  <1>4. Inv(0, f[0])
    <2>1. PICK b : b = f[0]
      OBVIOUS
    <2>2. /\ b \in Filling /\ b.nodes = {} /\ b.edges = {} /\ ~b.truncated /\ b.next = <<>> /\ ~b.cut
      BY <1>3, <2>1, UnfilledFills DEF RootsLoop
    <2>3. \A o : ~InList(o, b.next)
      <3>1. Len(<<>>) = 0
        BY EmptySeq
      <3> QED
        BY <2>2, <3>1 DEF InList
    <2>4. Cardinality({}) = 0
      BY FS_EmptySet
    <2>5. Sound(b, reach, max)
      BY <2>2, <2>3, <2>4 DEF Sound
    <2> QED
      BY <2>1, <2>2, <2>3, <2>5
  <1>5. ASSUME NEW k \in 0..n, k < n, Inv(k, f[k]) PROVE Inv(k + 1, f[k + 1])
    <2>1. PICK a : a = f[k]
      OBVIOUS
    <2>2. PICK g : g = f[k + 1]
      OBVIOUS
    <2>3. k + 1 \in 1..n /\ (k + 1) - 1 = k
      BY <1>5
    <2>4. PICK o \in AllObjects : o = SliceObjects[k + 1]
      BY <1>1, <2>3 DEF AllObjects
    <2>5. g = Rooted(a, o, spec, roles)
      BY <1>1, <1>3, <2>1, <2>2, <2>3, <2>4 DEF RootsLoop
    <2>6. Inv(k, a)
      BY <1>5, <2>1
    <2>7. Sound(a, reach, spec.maxNodes)
      BY <1>2, <2>6
    <2>8. /\ Sound(g, reach, spec.maxNodes) /\ Grown(a, g)
          /\ \A x : InList(x, a.next) => InList(x, g.next)
          /\ \A x : InList(x, g.next) => InList(x, a.next) \/ x \in RootsOf(spec, roles)
          /\ ~g.truncated /\ IsRoot(o, spec, roles) => InList(o, g.next)
      <3> HIDE <1>5, <2>6
      <3> QED
        BY <2>5, <2>7, RootedSound
    <2>9. ASSUME ~g.truncated, NEW i \in 1..k + 1, IsRoot(SliceObjects[i], spec, roles) PROVE InList(SliceObjects[i], g.next)
      <3>1. CASE i \in 1..k
        BY <2>6, <2>8, <2>9, <3>1 DEF Grown
      <3>2. CASE i = k + 1
        BY <2>4, <2>8, <2>9, <3>2
      <3> QED
        BY <3>1, <3>2
    <2>10. ~g.cut /\ \A x : InList(x, g.next) => x \in RootsOf(spec, roles)
      BY <2>6, <2>8 DEF Grown
    <2> QED
      BY <1>2, <2>2, <2>8, <2>9, <2>10
  <1> DEFINE Good == {k \in 0..n : Inv(k, f[k])}
  <1> HIDE DEF Inv
  <1>6. 0 \in Good /\ \A k \in 0..n : k \in Good /\ k < n => k + 1 \in Good
    BY <1>4, <1>5
  <1> HIDE DEF Good
  <1>7. \A k \in 0..n : k \in Good
    BY <1>6, UpTo
  <1>8. Inv(n, f[n])
    BY <1>7 DEF Good
  <1>9. PICK g : g = f[n] /\ g = RootsAdded(spec, roles)
    BY <1>1, <1>3 DEF RootsLoop
  <1>10. ASSUME ~g.truncated, NEW o \in RootsOf(spec, roles) PROVE InList(o, g.next)
    <2>1. PICK i \in 1..n : SliceObjects[i] = o
      BY <1>1 DEF RootsOf, AllObjects
    <2>2. IsRoot(SliceObjects[i], spec, roles)
      BY <2>1 DEF RootsOf
    <2> QED
      BY <1>8, <1>9, <1>10, <2>1, <2>2 DEF Inv
  <1> QED
    BY <1>2, <1>8, <1>9, <1>10 DEF Inv, HasRoots

\* What a slice answers, for those who see what their roles allow.
AnswerSound(answer, spec, roles) ==
    LET reachable == Reachable(spec, roles) IN
    /\ answer.nodes \subseteq reachable
    /\ Cardinality(answer.nodes) <= spec.maxNodes
    /\ answer.truncated => Cardinality(answer.nodes) = spec.maxNodes
    /\ Unlimited(spec) => (answer.truncated <=> Cardinality(reachable) > spec.maxNodes)
    /\ Unlimited(spec) /\ ~answer.truncated => answer.nodes = reachable
    /\ \A e \in answer.edges : {e.from, e.to} \subseteq answer.nodes /\
        \E i \in DOMAIN SliceLinks : <<SliceLinks[i].key, SliceLinks[i].from, SliceLinks[i].to>> = <<e.link, e.from, e.to>>

AnswerTyped(answer) ==
    /\ answer.nodes \subseteq AllObjects /\ answer.truncated \in BOOLEAN
    /\ \A e \in answer.edges : {e.from, e.to} \subseteq AllObjects

LEMMA ReachableHolds ==
    ASSUME NEW spec, SpecShape(spec), NEW roles
    PROVE  /\ Reachable(spec, roles) \subseteq AllObjects /\ RootsOf(spec, roles) \subseteq Reachable(spec, roles)
           /\ \A p \in 1..Len(spec.paths) : \A k \in 0..Len(spec.paths[p]) :
                AlongPath(spec, spec.paths[p], roles)[k] \subseteq Reachable(spec, roles)
           /\ \A set : RootsOf(spec, roles) \subseteq set
                /\ (\A p \in 1..Len(spec.paths) : \A k \in 0..Len(spec.paths[p]) :
                        AlongPath(spec, spec.paths[p], roles)[k] \subseteq set)
                => Reachable(spec, roles) \subseteq set
  <1>1. DOMAIN spec.paths = 1..Len(spec.paths)
    BY DEF SpecShape
  <1>2. ASSUME NEW p \in 1..Len(spec.paths), NEW k \in 0..Len(spec.paths[p])
        PROVE  AlongPath(spec, spec.paths[p], roles)[k] \subseteq AllObjects
    <2>1. PICK path : path = spec.paths[p] /\ Len(path) \in Nat
      BY DEF SpecShape
    <2>2. PICK level : level = AlongPath(spec, path, roles) /\ LevelsLoop(level, spec, path, roles)
      BY <2>1, LevelLoops
    <2>3. CASE k = 0
      BY <2>1, <2>2, <2>3 DEF LevelsLoop, RootsOf
    <2>4. CASE k # 0
      <3>1. k \in 1..Len(path)
        BY <2>1, <2>4
      <3> QED
        BY <2>1, <2>2, <3>1 DEF LevelsLoop, Children
    <2> QED
      BY <2>3, <2>4
  <1>3. RootsOf(spec, roles) \subseteq AllObjects
    BY DEF RootsOf
  <1> QED
    BY <1>1, <1>2, <1>3 DEF Reachable

\* executeSlice answers with what is sound.
LEMMA ExecuteSound ==
    ASSUME NEW spec, SpecShape(spec), NEW roles
    PROVE  AnswerSound(ExecuteSlice(spec, roles), spec, roles) /\ AnswerTyped(ExecuteSlice(spec, roles))
  <1>1. PICK reach \in SUBSET AllObjects : reach = Reachable(spec, roles)
    BY ReachableHolds
  <1>2. PICK max \in Nat : max = spec.maxNodes
    BY DEF SpecShape
  <1>3. PICK start : start = RootsAdded(spec, roles)
    OBVIOUS
  <1>4. PICK g : g = AllWalked(start, spec, roles)
    OBVIOUS
  <1>5. PICK answer : answer = ExecuteSlice(spec, roles)
    OBVIOUS
  <1>6. answer = [nodes |-> g.nodes, edges |-> g.edges, truncated |-> g.truncated]
    <2>1. ExecuteSlice(spec, roles) =
            LET end == AllWalked(RootsAdded(spec, roles), spec, roles) IN
            [nodes |-> end.nodes, edges |-> end.edges, truncated |-> end.truncated]
      BY DEF ExecuteSlice, AllWalked
    <2> QED
      BY <1>3, <1>4, <1>5, <2>1
  <1>7. RootsOf(spec, roles) \subseteq reach
        /\ \A p \in 1..Len(spec.paths) : \A k \in 0..Len(spec.paths[p]) : AlongPath(spec, spec.paths[p], roles)[k] \subseteq reach
    BY <1>1, ReachableHolds
  <1>8. Sound(start, reach, spec.maxNodes) /\ HasRoots(start, spec, roles)
    BY <1>3, <1>7, RootsSound
  <1>9. WalkedAll(g, start, Len(spec.paths), spec, roles, reach)
    BY <1>4, <1>7, <1>8, PathsSound
  <1>10. Sound(g, reach, max) /\ g \in Filling /\ g.nodes \subseteq AllObjects /\ g.edges \subseteq LinkEdges /\ g.truncated \in BOOLEAN
    BY <1>2, <1>9 DEF WalkedAll, Sound, Filling
  <1>11. Cardinality(g.nodes) <= max /\ (g.truncated => Cardinality(g.nodes) = max) /\ g.nodes \subseteq reach
    BY <1>10 DEF Sound
  <1>12. IsFiniteSet(reach) /\ IsFiniteSet(g.nodes) /\ Cardinality(reach) \in Nat /\ Cardinality(g.nodes) \in Nat
    <2>1. IsFiniteSet(reach) /\ IsFiniteSet(g.nodes)
      BY <1>1, <1>10, ObjectsFinite, FS_Subset
    <2> QED
      BY <2>1, FS_CardinalityType
  <1>13. ASSUME Unlimited(spec), ~g.truncated PROVE g.nodes = reach
    <2>1. \A p \in 1..Len(spec.paths) : \A k \in 0..Len(spec.paths[p]) : AlongPath(spec, spec.paths[p], roles)[k] \subseteq g.nodes
      BY <1>9, <1>13 DEF WalkedAll
    <2>2. RootsOf(spec, roles) \subseteq g.nodes
      <3>1. ~start.truncated /\ start.nodes \subseteq g.nodes
        BY <1>9, <1>13 DEF WalkedAll
      <3> QED
        BY <1>8, <3>1 DEF HasRoots, Sound
    <2>3. reach \subseteq g.nodes
      BY <1>1, <2>1, <2>2, ReachableHolds
    <2> QED
      BY <1>11, <2>3
  <1>14. g.truncated => Cardinality(reach) > max
    <2>1. SUFFICES ASSUME g.truncated PROVE Cardinality(reach) > max
      OBVIOUS
    <2>2. ~(reach \subseteq g.nodes)
      BY <1>10, <2>1 DEF Sound
    <2>3. Cardinality(g.nodes) <= Cardinality(reach) /\ Cardinality(g.nodes) # Cardinality(reach)
      BY <1>11, <1>12, <2>2, FS_Subset
    <2> QED
      BY <1>11, <1>12, <2>1, <2>3
  <1>15. Unlimited(spec) => (g.truncated <=> Cardinality(reach) > max)
    BY <1>11, <1>12, <1>13, <1>14
  <1>16. ASSUME NEW e \in g.edges
         PROVE  /\ e.from \in g.nodes /\ e.to \in g.nodes
                /\ \E i \in DOMAIN SliceLinks : <<SliceLinks[i].key, SliceLinks[i].from, SliceLinks[i].to>> = <<e.link, e.from, e.to>>
    <2>1. PICK i \in DOMAIN SliceLinks : e = [link |-> SliceLinks[i].key, from |-> SliceLinks[i].from, to |-> SliceLinks[i].to]
      BY <1>10 DEF LinkEdges
    <2>2. e.link = SliceLinks[i].key /\ e.from = SliceLinks[i].from /\ e.to = SliceLinks[i].to
      BY <2>1
    <2> QED
      BY <1>10, <2>2 DEF Sound
  <1>17. answer.nodes = g.nodes /\ answer.edges = g.edges /\ answer.truncated = g.truncated
    BY <1>6
  <1>18. AnswerTyped(answer)
    BY <1>10, <1>16, <1>17 DEF AnswerTyped
  <1>19. AnswerSound(answer, spec, roles)
    BY <1>1, <1>2, <1>11, <1>13, <1>14, <1>15, <1>16, <1>17 DEF AnswerSound
  <1> QED
    BY <1>5, <1>18, <1>19

SliceInv == SliceTypeOK /\ SliceSound

LEMMA SliceStarts == SliceInit => SliceInv
  <1> SUFFICES ASSUME SliceInit PROVE SliceInv
    OBVIOUS
  <1>1. SliceSound
    BY DEF SliceInit, SliceSound
  <1>2. labels \in [AllObjects -> SUBSET Labels]
    BY DEF SliceInit, Labels
  <1>3. execution \in [spec : 0..Len(SliceSpecs), roles : CallerRoles \cup {{}}]
    BY SliceLists DEF SliceInit, NoExecution
  <1>4. slice.nodes \subseteq AllObjects /\ slice.truncated \in BOOLEAN /\ \A e \in slice.edges : {e.from, e.to} \subseteq AllObjects
    BY DEF SliceInit, NoSlice
  <1> QED
    BY <1>1, <1>2, <1>3, <1>4 DEF SliceInv, SliceTypeOK, SliceInit

\* What is reached, and whether a slice is limited, depends on labels and policies, which no execution changes.
LEMMA SliceSteps == SliceInv /\ [SliceNext]_sliceVars => SliceInv'
  <1> SUFFICES ASSUME SliceInv, [SliceNext]_sliceVars PROVE SliceInv'
    OBVIOUS
  <1>1. CASE UNCHANGED sliceVars
    <2>1. execution' = execution /\ slice' = slice /\ labels' = labels /\ policies' = policies
      BY <1>1 DEF sliceVars
    <2>2. Reachable(SliceSpecs[execution.spec], execution.roles)' = Reachable(SliceSpecs[execution.spec], execution.roles)
      BY <2>1 DEF Reachable, AlongPath, RootsOf, Children, IsRoot, Taken, Visible, Passes, May, Attached, Granting
    <2>3. SliceSound'
      BY <2>1, <2>2 DEF SliceInv, SliceSound, Unlimited
    <2>4. SliceTypeOK'
      BY <2>1 DEF SliceInv, SliceTypeOK
    <2> QED
      BY <2>3, <2>4 DEF SliceInv
  <1>2. ASSUME NEW i \in DOMAIN SliceSpecs, NEW roles \in CallerRoles, SliceResolved(i, roles) PROVE SliceInv'
    <2>1. PICK spec : spec = SliceSpecs[i]
      OBVIOUS
    <2>2. /\ execution' = [spec |-> i, roles |-> roles] /\ slice' = ExecuteSlice(spec, roles)
          /\ labels' = labels /\ policies' = policies
      BY <1>2, <2>1 DEF SliceResolved
    <2>3. AnswerSound(ExecuteSlice(spec, roles), spec, roles) /\ AnswerTyped(ExecuteSlice(spec, roles))
      BY <2>1, SpecsShape, ExecuteSound
    <2>4. AnswerSound(slice', spec, roles) /\ AnswerTyped(slice')
      BY <2>2, <2>3
    <2>5. execution'.spec = i /\ execution'.roles = roles /\ execution' \in [spec : 0..Len(SliceSpecs), roles : CallerRoles \cup {{}}]
      BY <2>2, SliceLists
    <2>6. SliceTypeOK'
      BY <2>2, <2>4, <2>5 DEF SliceTypeOK, AnswerTyped, SliceInv
    <2>7. Reachable(spec, roles)' = Reachable(spec, roles)
      BY <2>2 DEF Reachable, AlongPath, RootsOf, Children, IsRoot, Taken, Visible, Passes, May, Attached, Granting
    <2>8. PICK reach : reach = Reachable(spec, roles)
      OBVIOUS
    <2>9. SliceSound'
      <3>1. SliceSpecs[execution'.spec] = spec
        BY <2>1, <2>5
      <3>2. Reachable(SliceSpecs[execution.spec], execution.roles)' = reach
        BY <2>5, <2>7, <2>8, <3>1
      <3> QED
        BY <2>4, <2>8, <3>1, <3>2 DEF SliceSound, AnswerSound, Unlimited
    <2> QED
      BY <2>6, <2>9 DEF SliceInv
  <1> QED
    BY <1>1, <1>2 DEF SliceNext

THEOREM SliceSoundAlways == SliceSpecification => []SliceSound
  <1>1. SliceSpecification => []SliceInv
    BY SliceStarts, SliceSteps, PTL DEF SliceSpecification
  <1>2. SliceInv => SliceSound
    BY DEF SliceInv
  <1> QED
    BY <1>1, <1>2, PTL

=============================================================================
