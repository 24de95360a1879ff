--------------------------- MODULE DataCoreProofs ---------------------------
(***************************************************************************)
(* Parts of DataCore whose calls read a record, work, and put it back:     *)
(* the publication of rules for any number of editors and versions, the    *)
(* monthly S&OP cycle for any number of drafts, the simulation clock for   *)
(* any number of days and failures, the review of rule documents of any    *)
(* length, calibration with any number of proposals and rollbacks,         *)
(* materialisation for any rows and any jobs and repairs that overlap, the *)
(* catalogue of intents and plans for any number of versions and of        *)
(* requests, and the check-up of a plan for any form and any late answers. *)
(*                                                                         *)
(* What AgentCore caches of DataCore, records of LLM providers and the     *)
(* features of a tenant: the arguments follow one value from the moment it *)
(* was read, through the request, the cache and the call, in time.         *)
(***************************************************************************)
EXTENDS MCDataCore, GovernanceProofs, FiniteSetTheorems, WellFoundedInduction, TLAPS

-----------------------------------------------------------------------------
(* Rules *)

Publishing(e) == edits[e].doing = "publish"

\* As long as no two calls overlap: one is under way, and what is PUBLISHED it will retire or put itself.
OneAtATime ==
    /\ \A e, f \in Editors : NotBusy(e) \/ NotBusy(f) \/ e = f
    /\ \A v, w \in PublishedRules : v = w
    /\ \A e \in Editors : Publishing(e) => PublishedRules \subseteq edits[e].retire \cup {edits[e].version}

\* A call under way has a version, and siblings to retire only if it publishes.
WellFormed(e) == (~NotBusy(e) => edits[e].version \in RuleVersions) /\ (~Publishing(e) => edits[e].retire = {})

\* Whoever has retired a sibling is still to put its own version.
RetiredForOne == (\E v \in RuleVersions : rules[v] = "RETIRED") => PublishedRules # {} \/ \E e \in Editors : Publishing(e)

RuleInv ==
    /\ RuleTypeOK
    /\ \A e \in Editors : WellFormed(e)
    /\ ~overlapped => OneAtATime
    /\ ~lapsed => RetiredForOne

LEMMA NoEditType == NoEdit \in Edit /\ NoEdit.doing = "nothing" /\ NoEdit.retire = {}
  BY DEF NoEdit, Edit

LEMMA InitRule == RuleInit => RuleInv
  <1> SUFFICES ASSUME RuleInit PROVE RuleInv
    OBVIOUS
  <1>1. RuleTypeOK
    BY NoEditType DEF RuleInit, RuleTypeOK
  <1>2. PublishedRules = {} /\ \A e \in Editors : NotBusy(e)
    BY NoEditType DEF RuleInit, PublishedRules, NotBusy
  <1> QED
    BY <1>1, <1>2, NoEditType DEF RuleInv, OneAtATime, RetiredForOne, Publishing, NotBusy, RuleInit, WellFormed

\* Somebody's call begins.
LEMMA StartKeeps ==
    ASSUME RuleInv, NEW e \in Editors, NEW x \in Edit, Started(e, x), UNCHANGED <<rules, lapsed>>,
           x.version \in RuleVersions, x.doing # "nothing",
           x.doing # "publish" => x.retire = {},
           x.doing = "publish" => PublishedRules \subseteq x.retire \cup {x.version}
    PROVE  RuleInv'
  <1>1. /\ NotBusy(e) /\ edits' = [edits EXCEPT ![e] = x] /\ overlapped' = (overlapped \/ ~AllQuiet)
    BY DEF Started
  <1>2. edits'[e] = x /\ \A f \in Editors : f # e => edits'[f] = edits[f]
    BY <1>1 DEF RuleInv, RuleTypeOK
  <1>3. RuleTypeOK'
    <2>1. overlapped' \in BOOLEAN
      BY <1>1
    <2> QED
      BY <1>1, <2>1 DEF RuleInv, RuleTypeOK
  <1>4. PublishedRules' = PublishedRules
    BY DEF PublishedRules
  <1>5. ~overlapped' => OneAtATime'
    <2> SUFFICES ASSUME ~overlapped' PROVE OneAtATime'
      OBVIOUS
    <2>1. ~overlapped /\ \A f \in Editors : NotBusy(f)
      BY <1>1 DEF AllQuiet
    <2>2. OneAtATime
      BY <2>1 DEF RuleInv
    <2> QED
      BY <1>2, <1>4, <2>1, <2>2 DEF OneAtATime, NotBusy, Publishing
  <1>6. ~lapsed' => RetiredForOne'
    BY <1>1, <1>2, <1>4 DEF RuleInv, RetiredForOne, Publishing, NotBusy
  <1>7. \A f \in Editors : WellFormed(f)'
    BY <1>2 DEF RuleInv, NotBusy, Publishing, WellFormed
  <1> QED
    BY <1>3, <1>5, <1>6, <1>7 DEF RuleInv

\* A version is put as something else than PUBLISHED while the calls under way stay as they are.
LEMMA HandKeeps ==
    ASSUME RuleInv, NEW v \in RuleVersions, NEW how \in {"DRAFT", "RETIRED"}, rules' = [rules EXCEPT ![v] = how],
           UNCHANGED <<edits, overlapped>>, lapsed' \in BOOLEAN, lapsed => lapsed',
           ~lapsed' => rules[v] # "PUBLISHED" /\ how = "DRAFT"
    PROVE  RuleInv'
  <1>1. RuleTypeOK'
    BY DEF RuleInv, RuleTypeOK
  <1>2. PublishedRules' = PublishedRules \ {v}
    BY DEF RuleInv, RuleTypeOK, PublishedRules
  <1>3. \A e \in Editors : edits'[e] = edits[e]
    OBVIOUS
  <1>4. ~overlapped' => OneAtATime'
    BY <1>2, <1>3 DEF RuleInv, OneAtATime, NotBusy, Publishing
  <1>5. ~lapsed' => RetiredForOne'
    BY <1>2, <1>3 DEF RuleInv, RuleTypeOK, RetiredForOne, Publishing, PublishedRules
  <1> QED
    BY <1>1, <1>3, <1>4, <1>5 DEF RuleInv, NotBusy, Publishing, WellFormed

\* A call ends with a put that leaves no more than it has to answer for.
LEMMA EndKeeps ==
    ASSUME RuleInv, RuleTypeOK', NEW e \in Editors, ~NotBusy(e), edits' = [edits EXCEPT ![e] = NoEdit], UNCHANGED overlapped,
           ~overlapped => \A v, w \in PublishedRules' : v = w,
           ~lapsed' => RetiredForOne'
    PROVE  RuleInv'
  <1>1. NotBusy(e)' /\ ~Publishing(e)' /\ \A f \in Editors : f # e => edits'[f] = edits[f]
    BY NoEditType DEF RuleInv, RuleTypeOK, NotBusy, Publishing
  <1>2. ASSUME ~overlapped PROVE OneAtATime'
    <2>1. ASSUME NEW f \in Editors, Publishing(f)' PROVE NotBusy(e)
      BY <1>1, <1>2, <2>1 DEF RuleInv, OneAtATime, NotBusy, Publishing
    <2> QED
      BY <1>1, <1>2, <2>1 DEF RuleInv, OneAtATime, NotBusy, Publishing
  <1>3. \A f \in Editors : WellFormed(f)'
    BY <1>1, NoEditType DEF RuleInv, RuleTypeOK, NotBusy, Publishing, WellFormed
  <1> QED
    BY <1>2, <1>3 DEF RuleInv

LEMMA NextRule == RuleInv /\ [RuleNext]_ruleVars => RuleInv'
  <1> SUFFICES ASSUME RuleInv, [RuleNext]_ruleVars PROVE RuleInv'
    OBVIOUS
  <1>0. RuleTypeOK
    BY DEF RuleInv
  <1>1. CASE UNCHANGED ruleVars
    BY <1>1 DEF ruleVars, RuleInv, RuleTypeOK, OneAtATime, RetiredForOne, PublishedRules, NotBusy, Publishing, WellFormed
  <1>2. ASSUME NEW v \in RuleVersions, CreateRule(v) PROVE RuleInv'
    BY <1>0, <1>2, HandKeeps DEF CreateRule, RuleTypeOK
  <1>3. ASSUME NEW v \in RuleVersions, RetireRule(v) PROVE RuleInv'
    BY <1>3, HandKeeps DEF RetireRule
  <1>4. ASSUME NEW e \in Editors, NEW v \in RuleVersions, UpdateReads(e, v) PROVE RuleInv'
    <2>1. [doing |-> "update", version |-> v, retire |-> {}] \in Edit
      BY DEF Edit
    <2> QED
      BY <1>4, <2>1, StartKeeps DEF UpdateReads
  <1>5. ASSUME NEW e \in Editors, NEW v \in RuleVersions, PublishReads(e, v) PROVE RuleInv'
    <2>1. [doing |-> "publish", version |-> v, retire |-> PublishedRules \ {v}] \in Edit
      BY DEF Edit, PublishedRules
    <2> QED
      BY <1>5, <2>1, StartKeeps DEF PublishReads
  <1>6. ASSUME NEW e \in Editors, SiblingRetires(e) PROVE RuleInv'
    <2>1. PICK s \in edits[e].retire :
             /\ rules' = [rules EXCEPT ![s] = "RETIRED"]
             /\ edits' = [edits EXCEPT ![e].retire = edits[e].retire \ {s}]
             /\ UNCHANGED <<overlapped, lapsed>>
      BY <1>6 DEF SiblingRetires
    <2>2. edits[e] \in Edit /\ s \in RuleVersions
      BY <1>0 DEF RuleTypeOK, Edit
    <2>3. /\ edits'[e] = [edits[e] EXCEPT !.retire = edits[e].retire \ {s}]
          /\ \A f \in Editors : f # e => edits'[f] = edits[f]
      BY <1>0, <2>1 DEF RuleTypeOK
    <2>4. edits'[e] \in Edit /\ edits'[e].doing = edits[e].doing /\ edits'[e].version = edits[e].version
          /\ edits'[e].retire = edits[e].retire \ {s}
      BY <2>2, <2>3 DEF Edit
    <2>5. RuleTypeOK'
      BY <1>0, <2>1, <2>2, <2>4 DEF RuleTypeOK
    <2>6. PublishedRules' = PublishedRules \ {s}
      BY <1>0, <2>1, <2>2 DEF RuleTypeOK, PublishedRules
    <2>7. \A f \in Editors : /\ NotBusy(f)' <=> NotBusy(f)
                             /\ Publishing(f)' <=> Publishing(f)
                             /\ edits'[f].version = edits[f].version
      BY <2>3, <2>4 DEF NotBusy, Publishing
    <2>8. ~overlapped' => OneAtATime'
      BY <2>1, <2>3, <2>4, <2>6, <2>7 DEF RuleInv, OneAtATime
    <2>9. Publishing(e)
      BY <2>1 DEF RuleInv, WellFormed
    <2>10. \A f \in Editors : WellFormed(f)'
      BY <2>3, <2>4, <2>7, <2>9 DEF RuleInv, WellFormed
    <2> QED
      BY <2>1, <2>5, <2>7, <2>8, <2>9, <2>10 DEF RuleInv, RetiredForOne
  <1>7. ASSUME NEW e \in Editors, PublishPuts(e) PROVE RuleInv'
    <2>1. /\ Publishing(e) /\ edits[e].retire = {} /\ rules' = [rules EXCEPT ![edits[e].version] = "PUBLISHED"]
          /\ edits' = [edits EXCEPT ![e] = NoEdit] /\ UNCHANGED <<overlapped, lapsed>>
      BY <1>7 DEF PublishPuts, Publishing
    <2>2. edits[e].version \in RuleVersions
      BY <2>1 DEF RuleInv, NotBusy, Publishing, WellFormed
    <2>3. RuleTypeOK'
      BY <1>0, <2>1, <2>2, NoEditType DEF RuleTypeOK
    <2>4. PublishedRules' = PublishedRules \cup {edits[e].version}
      BY <1>0, <2>1, <2>2 DEF RuleTypeOK, PublishedRules
    <2>5. ~overlapped => \A v, w \in PublishedRules' : v = w
      BY <2>1, <2>4 DEF RuleInv, OneAtATime
    <2>6. RetiredForOne'
      BY <2>4 DEF RetiredForOne
    <2> QED
      BY <2>1, <2>3, <2>5, <2>6, EndKeeps DEF NotBusy, Publishing
  <1>8. ASSUME NEW e \in Editors, UpdatePuts(e) PROVE RuleInv'
    <2> DEFINE v == edits[e].version
    <2>1. /\ edits[e].doing = "update" /\ rules' = [rules EXCEPT ![v] = "DRAFT"]
          /\ edits' = [edits EXCEPT ![e] = NoEdit] /\ lapsed' = (lapsed \/ rules[v] = "PUBLISHED") /\ UNCHANGED overlapped
      BY <1>8 DEF UpdatePuts
    <2>2. v \in RuleVersions
      BY <2>1 DEF RuleInv, NotBusy, WellFormed
    <2>3. RuleTypeOK'
      <3>1. lapsed' \in BOOLEAN
        BY <2>1
      <3> QED
        BY <1>0, <2>1, <2>2, <3>1, NoEditType DEF RuleTypeOK
    <2>4. PublishedRules' = PublishedRules \ {v}
      BY <1>0, <2>1, <2>2 DEF RuleTypeOK, PublishedRules
    <2>5. ~overlapped => \A u, w \in PublishedRules' : u = w
      BY <2>4 DEF RuleInv, OneAtATime
    <2>6. \A f \in Editors : Publishing(f) => Publishing(f)'
      BY <1>0, <2>1 DEF Publishing, RuleTypeOK
    <2>7. ~lapsed' => RetiredForOne'
      <3> SUFFICES ASSUME ~lapsed', NEW w \in RuleVersions, rules'[w] = "RETIRED"
                   PROVE  PublishedRules' # {} \/ \E f \in Editors : Publishing(f)'
        BY DEF RetiredForOne
      <3>1. ~lapsed /\ rules[v] # "PUBLISHED"
        BY <2>1
      <3>2. rules[w] = "RETIRED"
        BY <1>0, <2>1, <2>2 DEF RuleTypeOK
      <3>3. PublishedRules' = PublishedRules
        BY <2>4, <3>1 DEF PublishedRules
      <3> QED
        BY <2>6, <3>1, <3>2, <3>3 DEF RuleInv, RetiredForOne
    <2> QED
      BY <2>1, <2>3, <2>5, <2>7, EndKeeps DEF NotBusy
  <1>9. ASSUME NEW e \in Editors, EditBreaks(e) PROVE RuleInv'
    <2>1. ~NotBusy(e) /\ edits' = [edits EXCEPT ![e] = NoEdit] /\ lapsed' = TRUE /\ UNCHANGED <<rules, overlapped>>
      BY <1>9 DEF EditBreaks
    <2>2. RuleTypeOK' /\ PublishedRules' = PublishedRules
      BY <1>0, <2>1, NoEditType DEF RuleTypeOK, PublishedRules
    <2>3. ~overlapped => \A v, w \in PublishedRules' : v = w
      BY <2>2 DEF RuleInv, OneAtATime
    <2> QED
      BY <2>1, <2>2, <2>3, EndKeeps
  <1> QED
    BY <1>1, <1>2, <1>3, <1>4, <1>5, <1>6, <1>7, <1>8, <1>9 DEF RuleNext

\* Calls that do not overlap never leave two PUBLISHED versions, and no calls leave none in the place of one
\* they have replaced.
THEOREM RuleServedAlways == RuleSpec => []RuleServed
  <1>1. ASSUME RuleInv PROVE RuleServed
    <2>1. ASSUME ~overlapped PROVE Cardinality(PublishedRules) <= 1
      <3>1. \A v, w \in PublishedRules : v = w
        BY <1>1, <2>1 DEF RuleInv, OneAtATime
      <3>2. CASE PublishedRules = {}
        BY <3>2, FS_EmptySet
      <3>3. CASE PublishedRules # {}
        <4>1. PICK v \in PublishedRules : PublishedRules = {v}
          BY <3>1, <3>3
        <4>2. Cardinality({v}) = 1
          BY FS_Singleton
        <4> QED
          BY ONLY <4>1, <4>2
      <3> QED
        BY <3>2, <3>3
    <2>2. ASSUME AllQuiet, ~lapsed, NEW v \in RuleVersions, rules[v] = "RETIRED" PROVE PublishedRules # {}
      BY <1>1, <2>2 DEF RuleInv, RetiredForOne, AllQuiet, NotBusy, Publishing
    <2> QED
      BY <2>1, <2>2 DEF RuleServed
  <1> QED
    BY <1>1, InitRule, NextRule, PTL DEF RuleSpec

-----------------------------------------------------------------------------
(* The S&OP cycle *)

\* A version has come to its status step by step.
Stepwise(v) ==
    /\ v \in SopVersion
    /\ v.status # "DRAFT" => 1 \in v.steps
    /\ \A n \in 2..5 : n \in v.steps => (n - 1) \in v.steps
    /\ v.status \in {"EXEC_MEETING", "FINAL"} => 5 \in v.steps
    /\ v.status = "FINAL" => v.pendingApproval = NoDraft

\* What one operation will put, against what is stored now.
WorkSound(x) ==
    CASE x.doing = "edit" -> /\ sop.status # "FINAL" /\ x.put.status # "FINAL" /\ Stepwise(x.put)
                             /\ sop.status = "EXEC_MEETING" => x.put.status = "EXEC_MEETING"
      [] x.doing = "finalize" -> sop.status = "EXEC_MEETING" /\ x.put = Finalised
      [] x.doing = "change" -> x.put = Edited(sop) /\ x.put \in SopVersion
      [] x.doing = "announce" -> sop.status = "FINAL" /\ announced = 0
      [] OTHER -> TRUE

SopInv ==
    /\ SopTypeOK /\ Stepwise(sop)
    /\ \A w \in SopWorkers : WorkSound(sopWork[w])
    /\ \A d \in SopDrafts : sopDrafts[d] \in {"created", "open"} => sop.status \in {"EXEC_MEETING", "FINAL"}
    /\ FinalizedOnce

LEMMA NewVersionType == NewVersion \in SopVersion /\ Stepwise(NewVersion) /\ NoWork \in Work /\ NoWork.doing = "nothing"
  BY SopAssumption DEF NewVersion, SopVersion, Stepwise, NoWork, Work

LEMMA InitSop == SopInit => SopInv
  <1> SUFFICES ASSUME SopInit PROVE SopInv
    OBVIOUS
  <1>1. SopTypeOK
    BY NewVersionType DEF SopInit, SopTypeOK
  <1>2. \A w \in SopWorkers : WorkSound(sopWork[w])
    BY NewVersionType DEF SopInit, WorkSound
  <1> QED
    BY <1>1, <1>2, NewVersionType DEF SopInit, SopInv, FinalizedOnce

\* An operation begins: nothing stored changes but the drafts.
LEMMA BeginKeeps ==
    ASSUME SopInv, NEW w \in SopWorkers, NEW what \in {"edit", "finalize", "change"}, NEW v \in SopVersion,
           Begin(w, what, v), UNCHANGED <<sop, announced>>,
           WorkSound([doing |-> what, put |-> v]),
           sopDrafts' \in [SopDrafts -> {"none", "created", "open", "executed", "rejected"}],
           \A d \in SopDrafts : sopDrafts'[d] \in {"created", "open"} => sop.status \in {"EXEC_MEETING", "FINAL"}
    PROVE  SopInv'
  <1> DEFINE x == [doing |-> what, put |-> v]
  <1>1. x \in Work /\ sopWork' = [sopWork EXCEPT ![w] = x]
    BY DEF Work, Begin
  <1>2. SopTypeOK'
    BY <1>1 DEF SopInv, SopTypeOK
  <1>3. \A y \in SopWorkers : sopWork'[y] = x \/ sopWork'[y] = sopWork[y]
    BY <1>1 DEF SopInv, SopTypeOK
  <1>4. \A y \in SopWorkers : WorkSound(sopWork'[y])
    BY <1>3 DEF SopInv
  <1>5. \A y \in SopWorkers : WorkSound(sopWork[y])'
    BY <1>4 DEF WorkSound, Finalised
  <1> QED
    BY <1>2, <1>5 DEF SopInv, Stepwise, FinalizedOnce

\* Only drafts change.
LEMMA DraftsKeep ==
    ASSUME SopInv, UNCHANGED <<sop, sopWork, announced>>,
           sopDrafts' \in [SopDrafts -> {"none", "created", "open", "executed", "rejected"}],
           \A d \in SopDrafts : sopDrafts'[d] \in {"created", "open"} => sop.status \in {"EXEC_MEETING", "FINAL"}
    PROVE  SopInv'
  <1>1. \A w \in SopWorkers : WorkSound(sopWork[w])'
    BY DEF SopInv, WorkSound, Finalised
  <1> QED
    BY <1>1 DEF SopInv, SopTypeOK, Stepwise, FinalizedOnce

\* A record with one more edit.
LEMMA EditedType ==
    ASSUME sop \in SopVersion, sop.edits < MaxEdits
    PROVE  /\ Edited(sop) \in SopVersion /\ Edited(sop).status = sop.status /\ Edited(sop).steps = sop.steps
           /\ Edited(sop).pendingApproval = sop.pendingApproval
  BY SopAssumption DEF Edited, SopVersion

\* Reading half of the operations.
LEMMA OperationBegins ==
    ASSUME SopInv, NEW w \in SopWorkers,
           \/ Patch(w) \/ Advance(w) \/ Finalize(w) \/ ExecuteChange(w)
           \/ \E d \in SopDrafts : MarkPending(w, d) \/ ExecuteFinalize(w, d)
    PROVE  SopInv'
  <1>0. sop \in SopVersion /\ Stepwise(sop) /\ sopDrafts \in [SopDrafts -> {"none", "created", "open", "executed", "rejected"}]
        /\ \A d \in SopDrafts : sopDrafts[d] \in {"created", "open"} => sop.status \in {"EXEC_MEETING", "FINAL"}
    BY DEF SopInv, SopTypeOK
  <1>1. Finalised \in SopVersion
    BY <1>0 DEF Finalised, SopVersion
  <1>2. CASE Patch(w)
    <2>1. Begin(w, "edit", Edited(sop)) /\ sop.status # "FINAL" /\ sop.edits < MaxEdits /\ UNCHANGED <<sop, sopDrafts, announced>>
      BY <1>2 DEF Patch
    <2>2. Edited(sop) \in SopVersion /\ Edited(sop).status = sop.status /\ Stepwise(Edited(sop))
      BY <1>0, <2>1, EditedType DEF Stepwise
    <2>3. WorkSound([doing |-> "edit", put |-> Edited(sop)])
      BY <2>1, <2>2 DEF WorkSound
    <2> QED
      BY <1>0, <2>1, <2>2, <2>3, BeginKeeps
  <1>3. CASE Advance(w)
    <2>1. PICK n \in 1..5, pass \in BOOLEAN :
             /\ Ready(n) /\ sop.status # "FINAL" /\ sop.edits < MaxEdits /\ UNCHANGED <<sop, sopDrafts, announced>>
             /\ Begin(w, "edit", [Edited(sop) EXCEPT !.steps = sop.steps \cup {n}, !.status = AfterStep(n), !.pass = pass])
      <3>1. \A n \in 1..5 : Verdicts(n) \subseteq BOOLEAN
        BY <1>0 DEF Verdicts, SopVersion
      <3>2. PICK n \in 1..5 : \E pass \in Verdicts(n) :
             /\ Ready(n) /\ sop.status # "FINAL" /\ sop.edits < MaxEdits /\ UNCHANGED <<sop, sopDrafts, announced>>
             /\ Begin(w, "edit", [Edited(sop) EXCEPT !.steps = Edited(sop).steps \cup {n}, !.status = AfterStep(n), !.pass = pass])
        BY <1>3 DEF Advance
      <3>3. Edited(sop).steps = sop.steps
        BY <1>0, <3>2, EditedType
      <3> QED
        BY <3>1, <3>2, <3>3
    <2> DEFINE v == [Edited(sop) EXCEPT !.steps = sop.steps \cup {n}, !.status = AfterStep(n), !.pass = pass]
    <2>2. AfterStep(n) \in {"DRAFT", "IN_REVIEW", "EXEC_MEETING"} /\ (sop.status = "EXEC_MEETING" => AfterStep(n) = "EXEC_MEETING")
          /\ (AfterStep(n) # "DRAFT" => n = 1 \/ sop.status # "DRAFT" \/ n = 5)
          /\ (AfterStep(n) = "EXEC_MEETING" => n = 5 \/ sop.status = "EXEC_MEETING")
      BY <1>0, <2>1 DEF AfterStep, SopVersion
    <2>3. v \in SopVersion /\ v.steps = sop.steps \cup {n} /\ v.status = AfterStep(n)
      BY <1>0, <2>1, <2>2, EditedType DEF SopVersion
    <2> HIDE DEF v
    <2>4. n = 1 \/ (n - 1) \in sop.steps
      BY <1>0, <2>1 DEF Ready, Stepwise
    <2>5. 4 \in sop.steps => 1 \in sop.steps
      <3>1. /\ 4 \in sop.steps => 3 \in sop.steps
            /\ 3 \in sop.steps => 2 \in sop.steps
            /\ 2 \in sop.steps => 1 \in sop.steps
        BY <1>0 DEF Stepwise
      <3> QED
        BY <3>1
    <2>6. Stepwise(v)
      <3>1. v.status # "DRAFT" => 1 \in v.steps
        BY <1>0, <2>2, <2>3, <2>4, <2>5 DEF Stepwise
      <3>2. \A m \in 2..5 : m \in v.steps => (m - 1) \in v.steps
        BY <1>0, <2>3, <2>4 DEF Stepwise
      <3>3. v.status \in {"EXEC_MEETING", "FINAL"} => 5 \in v.steps
        BY <1>0, <2>2, <2>3 DEF Stepwise
      <3>4. v.status # "FINAL"
        BY <2>2, <2>3
      <3> QED
        BY <2>3, <3>1, <3>2, <3>3, <3>4 DEF Stepwise
    <2>7. WorkSound([doing |-> "edit", put |-> v])
      BY <2>1, <2>2, <2>3, <2>6 DEF WorkSound
    <2>8. Begin(w, "edit", v)
      BY <2>1 DEF v
    <2> QED
      BY <1>0, <2>1, <2>3, <2>7, <2>8, BeginKeeps
  <1>4. CASE Finalize(w)
    <2>1. WorkSound([doing |-> "finalize", put |-> Finalised])
      BY <1>4 DEF Finalize, WorkSound
    <2> QED
      BY <1>0, <1>1, <1>4, <2>1, BeginKeeps DEF Finalize
  <1>5. CASE ExecuteChange(w)
    <2>1. Edited(sop) \in SopVersion
      BY <1>0, <1>5, EditedType DEF ExecuteChange
    <2>2. WorkSound([doing |-> "change", put |-> Edited(sop)])
      BY <2>1 DEF WorkSound
    <2> QED
      BY <1>0, <1>5, <2>1, <2>2, BeginKeeps DEF ExecuteChange
  <1>6. ASSUME NEW d \in SopDrafts, MarkPending(w, d) PROVE SopInv'
    <2>1. /\ sopDrafts[d] = "created" /\ sopDrafts' = [sopDrafts EXCEPT ![d] = "open"] /\ UNCHANGED <<sop, announced>>
          /\ IF sop.status = "FINAL" THEN UNCHANGED sopWork ELSE Begin(w, "edit", [sop EXCEPT !.pendingApproval = d])
      BY <1>6 DEF MarkPending
    <2>2. sopDrafts' \in [SopDrafts -> {"none", "created", "open", "executed", "rejected"}]
          /\ \A e \in SopDrafts : sopDrafts'[e] \in {"created", "open"} => sop.status \in {"EXEC_MEETING", "FINAL"}
      BY <1>0, <2>1
    <2> DEFINE v == [sop EXCEPT !.pendingApproval = d]
    <2>3. v \in SopVersion /\ v.status = sop.status /\ v.steps = sop.steps
      BY <1>0 DEF SopVersion
    <2> HIDE DEF v
    <2>4. ASSUME sop.status # "FINAL" PROVE WorkSound([doing |-> "edit", put |-> v])
      BY <1>0, <2>3, <2>4 DEF WorkSound, Stepwise
    <2> QED
      BY <2>1, <2>2, <2>3, <2>4, BeginKeeps, DraftsKeep DEF v
  <1>7. ASSUME NEW d \in SopDrafts, ExecuteFinalize(w, d) PROVE SopInv'
    <2>1. /\ sopDrafts[d] \in {"created", "open"} /\ sopDrafts' = [sopDrafts EXCEPT ![d] = "executed"] /\ UNCHANGED <<sop, announced>>
          /\ IF sop.status = "FINAL" THEN UNCHANGED sopWork ELSE Begin(w, "finalize", Finalised)
      BY <1>7 DEF ExecuteFinalize
    <2>2. sopDrafts' \in [SopDrafts -> {"none", "created", "open", "executed", "rejected"}]
          /\ \A e \in SopDrafts : sopDrafts'[e] \in {"created", "open"} => sop.status \in {"EXEC_MEETING", "FINAL"}
      BY <1>0, <2>1
    <2>3. ASSUME sop.status # "FINAL" PROVE WorkSound([doing |-> "finalize", put |-> Finalised])
      BY <1>0, <2>1, <2>3 DEF WorkSound
    <2> QED
      BY <1>1, <2>1, <2>2, <2>3, BeginKeeps, DraftsKeep
  <1> QED
    BY <1>2, <1>3, <1>4, <1>5, <1>6, <1>7

\* The writing half: with one worker, what is put was worked out from what is still stored.
LEMMA PutStep ==
    ASSUME SopInv, \A v, w \in SopWorkers : v = w, NEW w \in SopWorkers, Put(w) PROVE SopInv'
  <1> DEFINE x == sopWork[w]
             after == IF x.doing = "finalize" THEN [doing |-> "announce", put |-> NewVersion] ELSE NoWork
  <1>1. /\ x.doing \in {"edit", "finalize", "change"} /\ sop' = x.put
        /\ sopWork' = [sopWork EXCEPT ![w] = after] /\ UNCHANGED <<sopDrafts, announced>>
    BY DEF Put
  <1>2. /\ SopTypeOK /\ Stepwise(sop) /\ WorkSound(x) /\ FinalizedOnce
        /\ \A d \in SopDrafts : sopDrafts[d] \in {"created", "open"} => sop.status \in {"EXEC_MEETING", "FINAL"}
    BY DEF SopInv
  <1>3. sop' \in SopVersion /\ after \in Work
    BY <1>1, <1>2, NewVersionType DEF SopTypeOK, Work
  <1>4. SopTypeOK'
    BY <1>1, <1>2, <1>3 DEF SopTypeOK
  <1>5. \A v \in SopWorkers : sopWork'[v] = after
    BY <1>1, <1>2 DEF SopTypeOK
  <1>6. CASE x.doing = "edit"
    <2>1. sop.status # "FINAL" /\ sop'.status # "FINAL" /\ Stepwise(sop') /\ (sop.status = "EXEC_MEETING" => sop'.status = "EXEC_MEETING")
      BY <1>1, <1>2, <1>6 DEF WorkSound
    <2>2. \A v \in SopWorkers : WorkSound(sopWork[v])'
      BY <1>5, <1>6, NewVersionType DEF WorkSound
    <2>3. FinalizedOnce'
      BY <1>1, <1>2, <2>1 DEF FinalizedOnce
    <2>4. Stepwise(sop)'
      BY <2>1 DEF Stepwise
    <2> QED
      BY <1>1, <1>2, <1>4, <2>1, <2>2, <2>3, <2>4 DEF SopInv
  <1>7. CASE x.doing = "finalize"
    <2>1. sop.status = "EXEC_MEETING" /\ sop' = [sop EXCEPT !.status = "FINAL", !.pendingApproval = NoDraft]
      BY <1>1, <1>2, <1>7 DEF WorkSound, Finalised
    <2>2. sop \in SopVersion
      BY <1>2 DEF SopTypeOK
    <2>3. sop'.status = "FINAL" /\ sop'.steps = sop.steps /\ sop'.pendingApproval = NoDraft
      BY <2>1, <2>2 DEF SopVersion
    <2>4. Stepwise(sop)'
      BY <1>2, <1>3, <2>1, <2>3 DEF Stepwise
    <2>5. announced = 0 /\ announced' = 0
      BY <1>1, <1>2, <2>1 DEF FinalizedOnce, SopTypeOK
    <2>6. after.doing = "announce"
      BY <1>7
    <2>7. \A v \in SopWorkers : WorkSound(sopWork[v])'
      BY <1>5, <2>3, <2>5, <2>6 DEF WorkSound
    <2> QED
      BY <1>1, <1>4, <2>3, <2>4, <2>5, <2>7 DEF SopInv, FinalizedOnce
  <1>8. CASE x.doing = "change"
    <2>1. sop' = [sop EXCEPT !.edits = sop.edits + 1]
      BY <1>1, <1>2, <1>8 DEF WorkSound, Edited
    <2>2. sop \in SopVersion
      BY <1>2 DEF SopTypeOK
    <2>3. sop'.status = sop.status /\ sop'.steps = sop.steps /\ sop'.pendingApproval = sop.pendingApproval
      BY <2>1, <2>2 DEF SopVersion
    <2>4. Stepwise(sop)'
      BY <1>2, <1>3, <2>3 DEF Stepwise
    <2>5. \A v \in SopWorkers : WorkSound(sopWork[v])'
      BY <1>5, <1>8, NewVersionType DEF WorkSound
    <2> QED
      BY <1>1, <1>2, <1>4, <2>3, <2>4, <2>5 DEF SopInv, FinalizedOnce
  <1> QED
    BY <1>1, <1>6, <1>7, <1>8

LEMMA AnnounceStep ==
    ASSUME SopInv, \A v, w \in SopWorkers : v = w, NEW w \in SopWorkers, Announce(w) PROVE SopInv'
  <1>1. PICK sent \in {0, 1} :
           /\ sopWork[w].doing = "announce" /\ sopWork' = [sopWork EXCEPT ![w] = NoWork]
           /\ announced' = announced + sent /\ UNCHANGED <<sop, sopDrafts>>
    BY DEF Announce
  <1>2. sop.status = "FINAL" /\ announced = 0
    BY <1>1 DEF SopInv, WorkSound
  <1>3. SopTypeOK' /\ FinalizedOnce'
    BY <1>1, <1>2, NewVersionType DEF SopInv, SopTypeOK, FinalizedOnce
  <1>4. \A v \in SopWorkers : sopWork'[v] = NoWork
    BY <1>1 DEF SopInv, SopTypeOK
  <1>5. \A v \in SopWorkers : WorkSound(sopWork[v])'
    BY <1>4, NewVersionType DEF WorkSound
  <1> QED
    BY <1>1, <1>3, <1>5 DEF SopInv, Stepwise

LEMMA NextSop ==
    ASSUME \A v, w \in SopWorkers : v = w, SopInv, [SopNext]_sopVars PROVE SopInv'
  <1>1. CASE UNCHANGED sopVars
    BY <1>1, DraftsKeep DEF sopVars, SopInv, SopTypeOK
  <1>2. ASSUME NEW d \in SopDrafts, RequestFinalize(d) PROVE SopInv'
    BY <1>2, DraftsKeep DEF RequestFinalize, SopInv, SopTypeOK
  <1>3. ASSUME NEW d \in SopDrafts, RejectFinalize(d) PROVE SopInv'
    BY <1>3, DraftsKeep DEF RejectFinalize, SopInv, SopTypeOK
  <1> QED
    BY <1>1, <1>2, <1>3, OperationBegins, PutStep, AnnounceStep DEF SopNext

\* Nothing but an approved change touches a version that is FINAL.
LEMMA FinalStep ==
    ASSUME SopInv, [SopNext]_sopVars, sop.status = "FINAL"
    PROVE  sop' = sop \/ (sop' = Edited(sop) /\ \E w \in SopWorkers : sopWork[w].doing = "change" /\ Put(w))
  <1>1. CASE \E w \in SopWorkers : Put(w)
    <2>1. PICK w \in SopWorkers : Put(w)
      BY <1>1
    <2>2. WorkSound(sopWork[w]) /\ sopWork[w].doing \in {"edit", "finalize", "change"} /\ sop' = sopWork[w].put
      BY <2>1 DEF SopInv, Put
    <2>3. sopWork[w].doing = "change" /\ sop' = Edited(sop)
      BY <2>2 DEF WorkSound
    <2> QED
      BY <2>1, <2>3
  <1>2. CASE ~\E w \in SopWorkers : Put(w)
    BY <1>2 DEF SopNext, sopVars, Patch, Advance, Finalize, ExecuteChange, Announce, MarkPending, ExecuteFinalize,
       RequestFinalize, RejectFinalize
  <1> QED
    BY <1>1, <1>2

\* The month is closed once, as a whole, and stays closed, whichever of any number of drafts and direct
\* requests closes it; provided that two operations on the version do not overlap.
THEOREM MonthClosesAlways == ASSUME \A v, w \in SopWorkers : v = w PROVE SopSpec => MonthCloses
  <1>1. SopInv /\ [SopNext]_sopVars => SopInv'
    BY NextSop
  <1>2. SopInv => FinalSound
    <2> SUFFICES ASSUME SopInv PROVE FinalSound
      OBVIOUS
    <2>1. ASSUME sop.status = "FINAL" PROVE sop.steps = 1..5 /\ sop.pendingApproval = NoDraft
      <3>1. sop.steps \subseteq 1..5 /\ 5 \in sop.steps /\ sop.pendingApproval = NoDraft
        BY <2>1 DEF SopInv, SopTypeOK, SopVersion, Stepwise
      <3>2. 4 \in sop.steps
        BY <3>1 DEF SopInv, Stepwise
      <3>3. 3 \in sop.steps
        BY <3>2 DEF SopInv, Stepwise
      <3>4. 2 \in sop.steps
        BY <3>3 DEF SopInv, Stepwise
      <3>5. 1 \in sop.steps
        BY <3>4 DEF SopInv, Stepwise
      <3> QED
        BY <3>1, <3>2, <3>3, <3>4, <3>5
    <2> QED
      BY <2>1 DEF SopInv, FinalSound, FinalIsWhole
  <1>3. SopInv /\ [SopNext]_sopVars =>
           [sop.status = "FINAL" => sop' = sop
                \/ (sop' = Edited(sop) /\ \E w \in SopWorkers : sopWork[w].doing = "change" /\ Put(w))]_sopVars
    BY FinalStep
  <1> QED
    BY <1>1, <1>2, <1>3, InitSop, PTL DEF SopSpec, MonthCloses, FinalStays

-----------------------------------------------------------------------------
(* The simulation clock *)

\* firedEvents of a clock is what has taken effect.
Fired(c) == \A e \in ScriptTicks : e \in c.firedEvents <=> effects[e] = 1

InDays == {"days", "fired", "after", "playbook", "failed"}

\* What a tick knows: its copy is the clock it read, or the one it stored last, with what has been
\* fired since; the day it is in has taken effect; and the playbooks of its own days are to come.
TickSound(k) ==
    /\ k.pc = "read" => /\ clock.status = "ACTIVE" /\ k.copy = [clock EXCEPT !.status = "TICKING"]
                        /\ k.from = clock.currentTick
    /\ k.pc \in InDays => /\ clock.status = "TICKING" /\ k.copy.status = "TICKING"
                          /\ k.copy.currentTick = clock.currentTick /\ k.from <= clock.currentTick
                          /\ Fired(k.copy)
    /\ k.pc \in {"read", "days", "fired"} => clock.currentTick + k.left <= MaxTick
    /\ k.pc = "fired" => k.left > 0 /\ (clock.currentTick + 1 \in ScriptTicks => effects[clock.currentTick + 1] = 1)
    /\ k.pc \in {"read", "days", "fired", "after"} => \A d \in 1..MaxTick : d > k.from => dayRuns[d] = 0
    /\ k.pc = "playbook" => k.day > k.from /\ \A d \in 1..MaxTick : d >= k.day => dayRuns[d] = 0

ClockInv ==
    /\ ClockTypeOK
    /\ TicksOnce
    /\ \A t \in Tickers : ticks[t].pc # "idle" => Alone(t) /\ ~resetting
    /\ clock.status = "RESETTING" => resetting
    /\ (~resetting /\ clock.status # "TICKING") => Fired(clock)
    /\ \A t \in Tickers : TickSound(ticks[t])

LEMMA FreshClockType == FreshClock \in ClockRecord /\ NoTick \in Tick /\ NoTick.pc = "idle" /\ FreshClock.status = "ACTIVE"
                        /\ FreshClock.currentTick = 0 /\ FreshClock.firedEvents = {}
  BY ClockAssumption DEF FreshClock, ClockRecord, NoTick, Tick

LEMMA InitClock == ClockInit => ClockInv
  <1> SUFFICES ASSUME ClockInit PROVE ClockInv
    OBVIOUS
  <1>1. ClockTypeOK
    <2>1. clock \in ClockRecord /\ ticks \in [Tickers -> Tick] /\ resetting \in BOOLEAN
      BY FreshClockType DEF ClockInit
    <2>2. effects \in [ScriptTicks -> Nat] /\ dayRuns \in [1..MaxTick -> Nat] /\ breaks \in 0..MaxBreaks
      BY ClockAssumption DEF ClockInit
    <2> QED
      BY <2>1, <2>2 DEF ClockTypeOK
  <1>2. TicksOnce /\ Fired(clock)
    BY FreshClockType, ClockAssumption DEF ClockInit, TicksOnce, ScriptExact, PlaybookOnce, Fired
  <1>3. \A t \in Tickers : ticks[t].pc = "idle"
    BY FreshClockType DEF ClockInit
  <1>4. \A t \in Tickers : TickSound(ticks[t])
    BY <1>3 DEF TickSound, InDays
  <1> QED
    BY <1>1, <1>2, <1>3, <1>4, FreshClockType DEF ClockInv, ClockInit

\* The one tick that is under way, or begins, goes on.
LEMMA TickMoves ==
    ASSUME ClockInv, NEW t \in Tickers, NEW k \in Tick, Alone(t), ~resetting, resetting' = resetting,
           ticks' = [ticks EXCEPT ![t] = k], TickSound(k)', TicksOnce',
           clock' \in ClockRecord, clock'.status # "RESETTING", clock'.status # "TICKING" => Fired(clock)',
           effects' \in [ScriptTicks -> Nat], dayRuns' \in [1..MaxTick -> Nat], breaks' \in 0..MaxBreaks
    PROVE  ClockInv'
  <1>1. ClockTypeOK'
    BY DEF ClockInv, ClockTypeOK
  <1>2. ticks'[t] = k /\ \A u \in Tickers : u # t => ticks'[u] = ticks[u] /\ ticks[u].pc = "idle"
    BY DEF ClockInv, ClockTypeOK, Alone
  <1>3. \A u \in Tickers : TickSound(ticks[u])'
    <2> SUFFICES ASSUME NEW u \in Tickers PROVE TickSound(ticks[u])'
      OBVIOUS
    <2>1. CASE u = t
      BY <2>1, <1>2 DEF TickSound, Fired
    <2>2. CASE u # t
      BY <2>2, <1>2 DEF TickSound, InDays
    <2> QED
      BY <2>1, <2>2
  <1>4. \A u \in Tickers : ticks'[u].pc # "idle" => Alone(u)' /\ ~resetting'
    BY <1>2 DEF Alone
  <1> QED
    BY <1>1, <1>3, <1>4 DEF ClockInv

LEMMA ReadKeeps ==
    ASSUME ClockInv, ~OverlapsAllowed, NEW t \in Tickers, TickReads(t) PROVE ClockInv'
  <1>1. PICK n \in Advances :
           /\ clock.status # "TICKING" /\ clock.currentTick + n <= MaxTick /\ Alone(t) /\ ~resetting
           /\ ticks' = [ticks EXCEPT ![t] = [pc |-> "read", copy |-> [clock EXCEPT !.status = "TICKING"],
                                             from |-> clock.currentTick, left |-> n, day |-> 0]]
           /\ UNCHANGED <<clock, resetting, effects, dayRuns, breaks>>
    BY DEF TickReads
  <1>2. clock.status = "ACTIVE" /\ clock.currentTick \in 0..MaxTick /\ n \in Nat \ {0}
    BY <1>1, ClockAssumption DEF ClockInv, ClockTypeOK, ClockRecord
  <1>3. [clock EXCEPT !.status = "TICKING"] \in ClockRecord
    BY DEF ClockInv, ClockTypeOK, ClockRecord
  <1> DEFINE k == [pc |-> "read", copy |-> [clock EXCEPT !.status = "TICKING"],
                   from |-> clock.currentTick, left |-> n, day |-> 0]
  <1>4. PICK x : x = k
    OBVIOUS
  <1>5. x \in Tick
    BY <1>1, <1>2, <1>3, <1>4, ClockAssumption DEF Tick
  <1>6. \A d \in 1..MaxTick : d > clock.currentTick => dayRuns[d] = 0
    BY <1>2, ClockAssumption DEF ClockInv, ClockTypeOK, TicksOnce, PlaybookOnce
  <1>7. TickSound(x)'
    BY <1>1, <1>2, <1>4, <1>6 DEF TickSound, InDays
  <1>8. TicksOnce' /\ Fired(clock)'
    BY <1>1, <1>2 DEF ClockInv, TicksOnce, ScriptExact, PlaybookOnce, Fired
  <1> QED
    BY <1>1, <1>2, <1>4, <1>5, <1>7, <1>8, TickMoves DEF ClockInv, ClockTypeOK

\* What any step of a tick finds.
LEMMA UnderWay ==
    ASSUME ClockInv, NEW t \in Tickers, ticks[t].pc # "idle"
    PROVE  /\ Alone(t) /\ ~resetting /\ ticks[t] \in Tick /\ ticks[t].copy \in ClockRecord /\ TickSound(ticks[t])
           /\ clock \in ClockRecord /\ clock.currentTick \in 0..MaxTick /\ MaxTick \in Nat /\ clock.status # "RESETTING"
           /\ ticks[t].from \in Nat /\ ticks[t].left \in Nat /\ ticks[t].day \in Nat
           /\ ticks[t].pc \in {"read"} \cup InDays /\ ticks[t].copy.currentTick \in 0..MaxTick
  <1>1. ticks[t] \in Tick /\ clock \in ClockRecord /\ Alone(t) /\ ~resetting /\ TickSound(ticks[t])
    BY DEF ClockInv, ClockTypeOK
  <1>2. /\ ticks[t].copy \in ClockRecord /\ ticks[t].from \in 0..MaxTick /\ ticks[t].left \in 0..MaxTick
        /\ ticks[t].day \in 0..(MaxTick + 1)
    BY <1>1 DEF Tick
  <1>6. ticks[t].pc \in {"idle", "read", "days", "fired", "after", "playbook", "failed"}
    BY <1>1 DEF Tick
  <1>7. ticks[t].pc \in {"read"} \cup InDays
    BY <1>6 DEF InDays
  <1>3. clock.currentTick \in 0..MaxTick /\ ticks[t].copy.currentTick \in 0..MaxTick
    BY <1>1, <1>2 DEF ClockRecord
  <1>4. clock.status # "RESETTING"
    BY <1>1 DEF ClockInv
  <1>5. MaxTick \in Nat
    BY ClockAssumption
  <1> QED
    BY <1>1, <1>2, <1>3, <1>4, <1>5, <1>7

LEMMA ClaimKeeps ==
    ASSUME ClockInv, NEW t \in Tickers, TickClaims(t) PROVE ClockInv'
  <1>1. /\ ticks[t].pc = "read" /\ clock' = ticks[t].copy /\ ticks' = [ticks EXCEPT ![t] = [ticks[t] EXCEPT !.pc = "days"]]
        /\ UNCHANGED <<resetting, effects, dayRuns, breaks>>
    BY DEF TickClaims
  <1>2. PICK x : x = [ticks[t] EXCEPT !.pc = "days"]
    OBVIOUS
  <1>3. x \in Tick /\ x.pc = "days" /\ x.copy = ticks[t].copy /\ x.from = ticks[t].from /\ x.left = ticks[t].left
    BY <1>1, <1>2, UnderWay DEF Tick
  <1>4. /\ clock'.status = "TICKING" /\ clock'.currentTick = clock.currentTick /\ clock'.firedEvents = clock.firedEvents
        /\ Fired(clock) /\ x.from = clock.currentTick
    BY <1>1, <1>3, UnderWay DEF TickSound, ClockRecord, ClockInv
  <1>5. TickSound(x)'
    BY <1>1, <1>3, <1>4, UnderWay DEF TickSound, InDays, Fired
  <1>6. TicksOnce'
    BY <1>1, <1>4 DEF ClockInv, TicksOnce, ScriptExact, PlaybookOnce
  <1> QED
    BY <1>1, <1>2, <1>3, <1>4, <1>5, <1>6, UnderWay, TickMoves DEF ClockInv, ClockTypeOK

LEMMA FireKeeps ==
    ASSUME ClockInv, NEW t \in Tickers, DayFires(t) PROVE ClockInv'
  <1>1. PICK due : due = (ScriptTicks \cap {Today(t)}) \ ticks[t].copy.firedEvents
    OBVIOUS
  <1>2. PICK c : c = [ticks[t].copy EXCEPT !.firedEvents = ticks[t].copy.firedEvents \cup due]
    OBVIOUS
  <1>3. PICK x : x = [ticks[t] EXCEPT !.pc = "fired", !.copy = c]
    OBVIOUS
  <1>4. /\ ticks[t].pc = "days" /\ ticks[t].left > 0 /\ UNCHANGED <<clock, resetting, dayRuns, breaks>>
        /\ effects' = [e \in ScriptTicks |-> IF e \in due THEN effects[e] + 1 ELSE effects[e]]
        /\ ticks' = [ticks EXCEPT ![t] = x]
    BY <1>1, <1>2, <1>3 DEF DayFires
  <1>5. /\ c \in ClockRecord /\ c.status = "TICKING" /\ c.currentTick = clock.currentTick
        /\ c.firedEvents = ticks[t].copy.firedEvents \cup due
    BY <1>1, <1>2, <1>4, UnderWay DEF ClockRecord, TickSound, InDays
  <1>6. /\ x \in Tick /\ x.pc = "fired" /\ x.copy = c /\ x.from = ticks[t].from /\ x.left = ticks[t].left
    BY <1>3, <1>4, <1>5, UnderWay DEF Tick
  <1>7. effects \in [ScriptTicks -> Nat] /\ Fired(ticks[t].copy) /\ Today(t) = clock.currentTick + 1 /\ clock.currentTick \in Nat
    BY <1>4, UnderWay DEF ClockInv, ClockTypeOK, TickSound, InDays, Today
  <1>8. \A e \in due : e = clock.currentTick + 1 /\ e \in ScriptTicks /\ effects[e] = 0
    BY <1>1, <1>7 DEF Fired, ClockInv, TicksOnce, ScriptExact
  <1>9. \A e \in ScriptTicks : effects'[e] = IF e \in due THEN 1 ELSE effects[e]
    BY <1>4, <1>7, <1>8
  <1>10. Fired(c)'
    BY <1>5, <1>7, <1>9 DEF Fired
  <1>11. clock.currentTick + 1 \in ScriptTicks => effects'[clock.currentTick + 1] = 1
    BY <1>1, <1>7, <1>9 DEF Fired
  <1>12. TickSound(x)'
    BY <1>4, <1>5, <1>6, <1>10, <1>11, UnderWay DEF TickSound, InDays
  <1>13. TicksOnce'
    <2>1. ScriptTicks \subseteq Nat
      BY ClockAssumption
    <2> QED
      BY <1>4, <1>7, <1>8, <1>9, <2>1 DEF ClockInv, TicksOnce, ScriptExact, PlaybookOnce
  <1>14. clock.status = "TICKING" /\ effects' \in [ScriptTicks -> Nat]
    BY <1>4, <1>7, UnderWay DEF TickSound, InDays
  <1> QED
    BY <1>4, <1>6, <1>12, <1>13, <1>14, UnderWay, TickMoves DEF ClockInv, ClockTypeOK

LEMMA DayKeeps ==
    ASSUME ClockInv, NEW t \in Tickers, DayEnds(t) PROVE ClockInv'
  <1>1. PICK c : c = [ticks[t].copy EXCEPT !.currentTick = ticks[t].copy.currentTick + 1]
    OBVIOUS
  <1>2. PICK x : x = [ticks[t] EXCEPT !.pc = IF ticks[t].left = 1 THEN "after" ELSE "days", !.copy = c,
                                      !.left = ticks[t].left - 1]
    OBVIOUS
  <1>3. /\ ticks[t].pc = "fired" /\ clock' = c /\ ticks' = [ticks EXCEPT ![t] = x]
        /\ UNCHANGED <<resetting, effects, dayRuns, breaks>>
    BY <1>1, <1>2 DEF DayEnds
  <1>4. /\ ticks[t].left > 0 /\ clock.currentTick + ticks[t].left <= MaxTick /\ Fired(ticks[t].copy)
        /\ ticks[t].copy.currentTick = clock.currentTick /\ ticks[t].copy.status = "TICKING"
        /\ ticks[t].from <= clock.currentTick
        /\ clock.currentTick + 1 \in ScriptTicks => effects[clock.currentTick + 1] = 1
        /\ \A d \in 1..MaxTick : d > ticks[t].from => dayRuns[d] = 0
    BY <1>3, UnderWay DEF TickSound, InDays
  <1>5. /\ c \in ClockRecord /\ c.status = "TICKING" /\ c.currentTick = clock.currentTick + 1
        /\ c.firedEvents = ticks[t].copy.firedEvents
    BY <1>1, <1>3, <1>4, UnderWay DEF ClockRecord
  <1>6. /\ x \in Tick /\ x.pc \in {"days", "after"} /\ x.copy = c /\ x.from = ticks[t].from /\ x.left = ticks[t].left - 1
    <2>1. PICK pc : pc = IF ticks[t].left = 1 THEN "after" ELSE "days"
      OBVIOUS
    <2>2. pc \in {"days", "after"} /\ ticks[t] \in Tick /\ ticks[t].left - 1 \in 0..MaxTick
      BY <2>1, <1>3, <1>4, UnderWay DEF Tick
    <2>3. x = [ticks[t] EXCEPT !.pc = pc, !.copy = c, !.left = ticks[t].left - 1]
      BY <1>2, <2>1
    <2> QED
      BY <1>5, <2>2, <2>3 DEF Tick
  <1>7. Fired(c)'
    BY <1>3, <1>4, <1>5 DEF Fired
  <1>8. TickSound(x)'
    BY <1>3, <1>4, <1>5, <1>6, <1>7, UnderWay DEF TickSound, InDays
  <1>9. TicksOnce'
    <2>1. ScriptTicks \subseteq Nat
      BY ClockAssumption
    <2>2. ScriptExact'
      BY <1>3, <1>4, <1>5, <2>1, UnderWay DEF ClockInv, TicksOnce, ScriptExact
    <2>3. PlaybookOnce'
      BY <1>3, <1>4, <1>5, UnderWay DEF ClockInv, TicksOnce, PlaybookOnce
    <2> QED
      BY <2>2, <2>3 DEF TicksOnce
  <1> QED
    BY <1>3, <1>5, <1>6, <1>8, <1>9, UnderWay, TickMoves DEF ClockInv, ClockTypeOK

LEMMA ReportKeeps ==
    ASSUME ClockInv, NEW t \in Tickers, DaysReported(t) PROVE ClockInv'
  <1>1. PICK x : x = [ticks[t] EXCEPT !.pc = "playbook", !.day = ticks[t].from + 1]
    OBVIOUS
  <1>2. /\ ticks[t].pc = "after" /\ ticks' = [ticks EXCEPT ![t] = x]
        /\ UNCHANGED <<clock, resetting, effects, dayRuns, breaks>>
    BY <1>1 DEF DaysReported
  <1>3. ticks[t].from + 1 \in 0..(MaxTick + 1)
    BY <1>2, UnderWay DEF TickSound, InDays
  <1>4. x \in Tick /\ x.pc = "playbook" /\ x.copy = ticks[t].copy /\ x.from = ticks[t].from /\ x.day = ticks[t].from + 1
    BY <1>1, <1>2, <1>3, UnderWay DEF Tick
  <1>5. TickSound(x)'
    BY <1>2, <1>4, UnderWay DEF TickSound, InDays, Fired
  <1>6. clock.status = "TICKING"
    BY <1>2, UnderWay DEF TickSound, InDays
  <1>7. TicksOnce'
    BY <1>2 DEF ClockInv, TicksOnce, ScriptExact, PlaybookOnce
  <1> QED
    BY <1>2, <1>4, <1>5, <1>6, <1>7, UnderWay, TickMoves DEF ClockInv, ClockTypeOK

LEMMA PlaybookKeeps ==
    ASSUME ClockInv, NEW t \in Tickers, PlaybookRuns(t) PROVE ClockInv'
  <1>1. PICK x : x = [ticks[t] EXCEPT !.day = ticks[t].day + 1]
    OBVIOUS
  <1>2. PICK d : d = ticks[t].day
    OBVIOUS
  <1>3. /\ ticks[t].pc = "playbook" /\ d <= ticks[t].copy.currentTick
        /\ dayRuns' = [dayRuns EXCEPT ![d] = dayRuns[d] + 1] /\ ticks' = [ticks EXCEPT ![t] = x]
        /\ UNCHANGED <<clock, resetting, effects, breaks>>
    BY <1>1, <1>2 DEF PlaybookRuns
  <1>4. /\ ticks[t].copy.currentTick = clock.currentTick /\ d > ticks[t].from /\ d \in 1..MaxTick
        /\ \A b \in 1..MaxTick : b >= d => dayRuns[b] = 0
    BY <1>2, <1>3, UnderWay DEF TickSound, InDays
  <1>5. x \in Tick /\ x.pc = "playbook" /\ x.copy = ticks[t].copy /\ x.from = ticks[t].from /\ x.day = d + 1
    BY <1>1, <1>2, <1>3, <1>4, UnderWay DEF Tick
  <1>6. \A b \in 1..MaxTick : dayRuns'[b] = IF b = d THEN 1 ELSE dayRuns[b]
    BY <1>3, <1>4 DEF ClockInv, ClockTypeOK
  <1>7. dayRuns' \in [1..MaxTick -> Nat]
    BY <1>3, <1>4 DEF ClockInv, ClockTypeOK
  <1>8. TickSound(x)'
    BY <1>3, <1>4, <1>5, <1>6, UnderWay DEF TickSound, InDays, Fired
  <1>9. clock.status = "TICKING"
    BY <1>3, UnderWay DEF TickSound, InDays
  <1>10. TicksOnce'
    BY <1>3, <1>4, <1>6 DEF ClockInv, TicksOnce, ScriptExact, PlaybookOnce
  <1> QED
    BY <1>3, <1>5, <1>7, <1>8, <1>9, <1>10, UnderWay, TickMoves DEF ClockInv, ClockTypeOK

LEMMA EndingKeeps ==
    ASSUME ClockInv, NEW t \in Tickers, TickEnds(t) PROVE ClockInv'
  <1>1. PICK c : c = [ticks[t].copy EXCEPT !.status = "ACTIVE"]
    OBVIOUS
  <1>2. /\ ticks[t].pc \in {"failed", "playbook"} /\ clock' = c /\ ticks' = [ticks EXCEPT ![t] = NoTick]
        /\ UNCHANGED <<resetting, effects, dayRuns, breaks>>
    BY <1>1 DEF TickEnds
  <1>3. /\ c \in ClockRecord /\ c.status = "ACTIVE" /\ c.currentTick = clock.currentTick
        /\ c.firedEvents = ticks[t].copy.firedEvents
    BY <1>1, <1>2, UnderWay DEF ClockRecord, TickSound, InDays
  <1>4. Fired(clock)'
    BY <1>2, <1>3, UnderWay DEF Fired, TickSound, InDays
  <1>5. TickSound(NoTick)'
    BY FreshClockType DEF TickSound, InDays
  <1>6. TicksOnce'
    BY <1>2, <1>3 DEF ClockInv, TicksOnce, ScriptExact, PlaybookOnce
  <1> QED
    BY <1>2, <1>3, <1>4, <1>5, <1>6, FreshClockType, UnderWay, TickMoves DEF ClockInv, ClockTypeOK

LEMMA FailKeeps ==
    ASSUME ClockInv, NEW t \in Tickers, TickFails(t) PROVE ClockInv'
  <1>1. PICK x : x = [ticks[t] EXCEPT !.pc = "failed"]
    OBVIOUS
  <1>2. /\ ticks[t].pc \in {"days", "fired", "after"} /\ ticks' = [ticks EXCEPT ![t] = x]
        /\ breaks' = breaks + 1 /\ breaks < MaxBreaks /\ UNCHANGED <<clock, resetting, effects, dayRuns>>
    BY <1>1 DEF TickFails
  <1>3. x \in Tick /\ x.pc = "failed" /\ x.copy = ticks[t].copy /\ x.from = ticks[t].from
    BY <1>1, <1>2, UnderWay DEF Tick
  <1>4. TickSound(x)' /\ clock.status = "TICKING"
    BY <1>2, <1>3, UnderWay DEF TickSound, InDays, Fired
  <1>5. TicksOnce'
    BY <1>2 DEF ClockInv, TicksOnce, ScriptExact, PlaybookOnce
  <1>6. breaks' \in 0..MaxBreaks
    BY <1>2, ClockAssumption DEF ClockInv, ClockTypeOK
  <1> QED
    BY <1>2, <1>3, <1>4, <1>5, <1>6, UnderWay, TickMoves DEF ClockInv, ClockTypeOK

\* A restart drops the tick and leaves the clock TICKING, a reset begins anew.
LEMMA OthersKeep ==
    ASSUME ClockInv, ~OverlapsAllowed, ~ResetsBreak, ClockRestarts \/ ResetStarts \/ ResetEnds PROVE ClockInv'
  <1>1. CASE ClockRestarts
    <2>1. /\ ~resetting /\ resetting' = FALSE /\ ticks' = [t \in Tickers |-> NoTick] /\ breaks < MaxBreaks /\ breaks' = breaks + 1
          /\ UNCHANGED <<clock, effects, dayRuns>>
      BY <1>1 DEF ClockRestarts
    <2>2. \A t \in Tickers : ticks'[t] = NoTick
      BY <2>1
    <2>3. ClockTypeOK'
      <3>1. ticks' \in [Tickers -> Tick]
        BY <2>1, FreshClockType
      <3>2. breaks' \in 0..MaxBreaks
        BY <2>1, ClockAssumption DEF ClockInv, ClockTypeOK
      <3> QED
        BY <2>1, <3>1, <3>2 DEF ClockInv, ClockTypeOK
    <2>4. \A t \in Tickers : TickSound(ticks[t])'
      BY <2>2, FreshClockType DEF TickSound, InDays
    <2> QED
      BY <2>1, <2>2, <2>3, <2>4, FreshClockType DEF ClockInv, Fired, TicksOnce, ScriptExact, PlaybookOnce
  <1>2. CASE ResetStarts
    <2>1. /\ \A t \in Tickers : ticks[t].pc = "idle"
          /\ clock' = [clock EXCEPT !.status = "RESETTING"] /\ resetting' = TRUE
          /\ UNCHANGED <<ticks, effects, dayRuns, breaks>>
      BY <1>2 DEF ResetStarts
    <2>2. clock' \in ClockRecord /\ clock'.currentTick = clock.currentTick
      BY <2>1 DEF ClockInv, ClockTypeOK, ClockRecord
    <2>3. ClockTypeOK'
      BY <2>1, <2>2 DEF ClockInv, ClockTypeOK
    <2>4. \A t \in Tickers : TickSound(ticks[t])'
      BY <2>1 DEF TickSound, InDays
    <2> QED
      BY <2>1, <2>2, <2>3, <2>4 DEF ClockInv, TicksOnce, ScriptExact, PlaybookOnce
  <1>3. CASE ResetEnds
    <2>1. /\ resetting /\ clock' = FreshClock /\ resetting' = FALSE
          /\ effects' = [e \in ScriptTicks |-> 0] /\ dayRuns' = [d \in 1..MaxTick |-> 0] /\ UNCHANGED <<ticks, breaks>>
      BY <1>3 DEF ResetEnds
    <2>2. \A t \in Tickers : ticks[t].pc = "idle"
      BY <2>1 DEF ClockInv
    <2>3. ClockTypeOK'
      BY <2>1, FreshClockType DEF ClockInv, ClockTypeOK
    <2>4. \A t \in Tickers : TickSound(ticks[t])'
      BY <2>1, <2>2 DEF TickSound, InDays
    <2>5. TicksOnce' /\ Fired(clock)'
      BY <2>1, FreshClockType, ClockAssumption DEF TicksOnce, ScriptExact, PlaybookOnce, Fired
    <2> QED
      BY <2>1, <2>2, <2>3, <2>4, <2>5, FreshClockType DEF ClockInv
  <1> QED
    BY <1>1, <1>2, <1>3

LEMMA NextClock == ASSUME ~OverlapsAllowed, ~ResetsBreak PROVE ClockInv /\ [ClockNext]_clockVars => ClockInv'
  <1> SUFFICES ASSUME ClockInv, [ClockNext]_clockVars PROVE ClockInv'
    OBVIOUS
  <1>1. CASE UNCHANGED clockVars
    BY <1>1 DEF clockVars, ClockInv, ClockTypeOK, TicksOnce, ScriptExact, PlaybookOnce, Alone, Fired, TickSound
  <1> QED
    BY <1>1, ReadKeeps, ClaimKeeps, FireKeeps, DayKeeps, ReportKeeps, PlaybookKeeps, EndingKeeps, FailKeeps, OthersKeep
    DEF ClockNext

\* The simulated past has happened exactly once, for scripts, advances and days of any number, whatever
\* fails in a tick and whenever the process restarts; provided that ticks and resets do not overlap and
\* the process does not stop in the middle of a reset.
THEOREM TicksOnceAlways == ASSUME ~OverlapsAllowed, ~ResetsBreak PROVE ClockSpec => []TicksOnce
  <1>1. ClockInv /\ [ClockNext]_clockVars => ClockInv'
    BY NextClock
  <1>2. ClockInv => TicksOnce
    BY DEF ClockInv
  <1> QED
    BY <1>1, <1>2, InitClock, PTL DEF ClockSpec

-----------------------------------------------------------------------------
(* The review of a rule document *)

Reviewing == {"publish", "reject", "approve"}
Approving(c) == \E v \in Reviewers : reviews[v].at = "approve" /\ reviews[v].cand = c

\* A call under way: the candidate it read is still PENDING, as far as calls do not overlap.
ReviewSound(w) ==
    /\ w.at \in Reviewing => w.cand \in Candidates /\ candidates[w.cand] # "none"
    /\ w.at = "approve" => ruleCount[w.cand] > 0
    /\ w.at = "retry" => w.seg \in 1..Segments
    /\ simple => /\ w.at \in Reviewing => candidates[w.cand] = "PENDING"
                 /\ w.at \in {"retry", "settle"} => doc = "PARTIAL"

\* What holds as long as no two calls overlapped and none broke off.
OneReview == \A u, v \in Reviewers : reviews[u].at = "idle" \/ reviews[v].at = "idle" \/ u = v
RulesMatch == \A c \in Candidates : ruleCount[c] = IF candidates[c] = "APPROVED" \/ Approving(c) THEN 1 ELSE 0
NoneAhead == \A c \in Candidates : /\ candidates[c] # "none" => c[2] <= segments[c[1]].done
                                   /\ c \in found => c[2] = 1 /\ segments[c[1]].done >= 1
DocDecided ==
    /\ doc \in {"PUBLISHED", "REJECTED"} => Calm /\ \A c \in Candidates : candidates[c] # "PENDING"
    /\ doc = "REJECTED" => \A c \in Candidates : candidates[c] # "APPROVED"

DocInv ==
    /\ DocTypeOK
    /\ \A c \in Candidates : candidates[c] = "APPROVED" => ruleCount[c] > 0
    /\ \A v \in Reviewers : ReviewSound(reviews[v])
    /\ doc = "PARSED" => Known = {} /\ Calm
    /\ NoneAhead
    /\ simple => OneReview /\ RulesMatch /\ DocDecided

LEMMA NoReviewType == NoReview \in Review /\ NoReview.at = "idle" /\ NoReview.cand = "none" /\ NoReview.seg = 0
  BY RuleDocsAssumption DEF NoReview, Review

LEMMA DocNumbers ==
    /\ Segments \in Nat /\ Segments > 0 /\ MaxExtractions \in Nat /\ MaxExtractions > 0 /\ MaxCalls \in Nat
    /\ \A s \in 1..Segments, n \in 1..MaxExtractions : <<s, n>> \in Candidates
    /\ \A c \in Candidates : c = <<c[1], c[2]>> /\ c[1] \in 1..Segments /\ c[2] \in 1..MaxExtractions
  BY RuleDocsAssumption DEF Candidates

LEMMA InitDoc == DocInit => DocInv
  <1> SUFFICES ASSUME DocInit PROVE DocInv
    OBVIOUS
  <1>1. /\ \A v \in Reviewers : reviews[v] = NoReview
        /\ \A c \in Candidates : candidates[c] = "none" /\ ruleCount[c] = 0
        /\ doc = "PARSED" /\ next = 1 /\ found = {} /\ docCalls = 0 /\ simple = TRUE
    BY DEF DocInit
  <1>2. DocTypeOK
    <2>1. segments \in [1..Segments -> Segment]
      BY DocNumbers DEF DocInit, Segment
    <2>2. /\ reviews \in [Reviewers -> Review] /\ ruleCount \in [Candidates -> Nat]
          /\ candidates \in [Candidates -> {"none", "PENDING", "APPROVED", "REJECTED"}]
      BY NoReviewType DEF DocInit
    <2> QED
      BY <1>1, <2>1, <2>2, DocNumbers DEF DocTypeOK
  <1>3. \A v \in Reviewers : ReviewSound(reviews[v])
    BY <1>1, NoReviewType DEF ReviewSound, Reviewing
  <1>4. Known = {} /\ Calm /\ OneReview /\ NoneAhead
    BY <1>1, NoReviewType DEF Known, Calm, OneReview, NoneAhead
  <1>5. RulesMatch /\ DocDecided
    BY <1>1, NoReviewType DEF RulesMatch, Approving, DocDecided
  <1> QED
    BY <1>1, <1>2, <1>3, <1>4, <1>5 DEF DocInv

\* A call begins: nothing else changes.
LEMMA ReviewBegins ==
    ASSUME DocInv, NEW v \in Reviewers, NEW w \in Review, StartReview(v, w), w.at \in {"publish", "reject", "retry"},
           w.at \in Reviewing => w.cand \in Candidates /\ candidates[w.cand] = "PENDING",
           w.at = "retry" => w.seg \in 1..Segments /\ doc = "PARTIAL",
           UNCHANGED <<doc, next, found, segments, candidates, ruleCount>>
    PROVE  DocInv'
  <1>1. /\ reviews[v].at = "idle" /\ docCalls < MaxCalls /\ docCalls' = docCalls + 1
        /\ reviews' = [reviews EXCEPT ![v] = w] /\ simple' = (simple /\ Calm)
    BY DEF StartReview
  <1>2. reviews'[v] = w /\ \A u \in Reviewers : u # v => reviews'[u] = reviews[u]
    BY <1>1 DEF DocInv, DocTypeOK
  <1>3. DocTypeOK'
    <2>1. docCalls' \in 0..MaxCalls /\ simple' \in BOOLEAN
      BY <1>1, DocNumbers DEF DocInv, DocTypeOK
    <2> QED
      BY <1>1, <2>1 DEF DocInv, DocTypeOK
  <1>4. \A u \in Reviewers : ReviewSound(reviews[u])'
    BY <1>1, <1>2 DEF DocInv, ReviewSound, Reviewing
  <1>5. doc # "PARSED"
    BY DEF DocInv, Known, Reviewing
  <1>6. NoneAhead'
    BY DEF DocInv, NoneAhead
  <1>7. ASSUME simple' PROVE OneReview' /\ RulesMatch' /\ DocDecided'
    <2>1. simple /\ Calm
      BY <1>1, <1>7
    <2>2. OneReview' /\ \A c \in Candidates : ~Approving(c) /\ ~Approving(c)'
      BY <1>2, <2>1 DEF OneReview, Calm, Approving
    <2>3. doc \notin {"PUBLISHED", "REJECTED"}
      BY <2>1 DEF DocInv, DocDecided, Reviewing
    <2> QED
      BY <2>1, <2>2, <2>3 DEF DocInv, RulesMatch, DocDecided
  <1> QED
    BY <1>3, <1>4, <1>5, <1>6, <1>7 DEF DocInv

LEMMA ExtractKeeps == ASSUME DocInv, ExtractSegment PROVE DocInv'
  <1>1. PICK ok \in BOOLEAN, hit \in BOOLEAN :
           /\ doc = "PARSED" /\ next \in 1..Segments
           /\ segments' = [segments EXCEPT ![next] = [status |-> IF ok THEN "OK" ELSE "FAILED", done |-> 1]]
           /\ found' = IF ok /\ hit THEN found \cup {<<next, 1>>} ELSE found
           /\ next' = next + 1
           /\ UNCHANGED <<doc, candidates, ruleCount, reviews, docCalls, simple>>
    BY DEF ExtractSegment
  <1>2. PICK x : x = [status |-> IF ok THEN "OK" ELSE "FAILED", done |-> 1]
    OBVIOUS
  <1>3. x \in Segment /\ x.done = 1
    BY <1>2, DocNumbers DEF Segment
  <1>4. segments'[next] = x /\ \A s \in 1..Segments : s # next => segments'[s] = segments[s]
    BY <1>1, <1>2 DEF DocInv, DocTypeOK
  <1>5. /\ segments' \in [1..Segments -> Segment] /\ next' \in 1..(Segments + 1) /\ found' \subseteq Candidates
    <2>1. segments' = [segments EXCEPT ![next] = x]
      BY <1>1, <1>2
    <2>2. segments' \in [1..Segments -> Segment]
      BY <2>1, <1>3 DEF DocInv, DocTypeOK
    <2>3. <<next, 1>> \in Candidates
      BY <1>1, DocNumbers
    <2>4. next' \in 1..(Segments + 1)
      BY <1>1, DocNumbers
    <2> QED
      BY <1>1, <2>2, <2>3, <2>4 DEF DocInv, DocTypeOK
  <1>6. NoneAhead'
    <2> SUFFICES ASSUME NEW c \in Candidates
                 PROVE  /\ candidates'[c] = "none"
                        /\ c \in found' => c[2] = 1 /\ segments'[c[1]].done >= 1
      BY DEF NoneAhead
    <2>1. candidates'[c] = "none"
      BY <1>1 DEF DocInv, Known
    <2>2. ASSUME c \in found' PROVE c[2] = 1 /\ segments'[c[1]].done >= 1
      BY <2>2, <1>1, <1>3, <1>4, DocNumbers DEF DocInv, NoneAhead
    <2> QED
      BY <2>1, <2>2
  <1> QED
    BY <1>1, <1>5, <1>6 DEF DocInv, DocTypeOK, ReviewSound, Known, Calm, OneReview, RulesMatch, Approving, DocDecided

LEMMA StatusType == ASSUME NEW lost, NEW any PROVE DocStatus(lost, any) \in {"PARTIAL", "IN_REVIEW", "EXTRACTED"}
  BY DEF DocStatus

LEMMA ExtractionKeeps == ASSUME DocInv, ExtractionEnds PROVE DocInv'
  <1>1. /\ doc = "PARSED" /\ candidates' = [c \in Candidates |-> IF c \in found THEN "PENDING" ELSE candidates[c]]
        /\ doc' \in {"PARTIAL", "IN_REVIEW", "EXTRACTED"} /\ found' = {}
        /\ UNCHANGED <<next, segments, ruleCount, reviews, docCalls, simple>>
    BY StatusType DEF ExtractionEnds
  <1>2. \A c \in Candidates : candidates[c] = "none" /\ candidates'[c] = IF c \in found THEN "PENDING" ELSE "none"
    BY <1>1 DEF DocInv, Known
  <1>3. DocTypeOK'
    BY <1>1, <1>2 DEF DocInv, DocTypeOK
  <1>4. Calm
    BY <1>1 DEF DocInv
  <1>5. \A v \in Reviewers : ReviewSound(reviews[v])'
    BY <1>1, <1>4 DEF ReviewSound, Reviewing, Calm
  <1>6. NoneAhead'
    <2> SUFFICES ASSUME NEW c \in Candidates, c \in found PROVE c[2] <= segments[c[1]].done
      BY <1>1, <1>2 DEF NoneAhead
    <2>1. c[2] = 1 /\ segments[c[1]].done >= 1 /\ segments[c[1]].done \in Nat
      BY DocNumbers DEF DocInv, NoneAhead, DocTypeOK, Segment
    <2> QED
      BY <2>1
  <1>7. RulesMatch => RulesMatch'
    BY <1>1, <1>2 DEF RulesMatch, Approving
  <1> QED
    BY <1>1, <1>2, <1>3, <1>4, <1>5, <1>6, <1>7 DEF DocInv, OneReview, DocDecided

\* What any step of a call finds.
LEMMA InReview ==
    ASSUME DocInv, NEW v \in Reviewers, reviews[v].at # "idle"
    PROVE  /\ doc # "PARSED" /\ ReviewSound(reviews[v]) /\ reviews[v] \in Review
           /\ simple => \A u \in Reviewers : u # v => reviews[u].at = "idle"
  BY DEF DocInv, DocTypeOK, Calm, OneReview

\* A call goes on or ends: its own review is the only one that changes.
LEMMA ReviewMoves ==
    ASSUME DocInv, NEW v \in Reviewers, reviews[v].at # "idle", NEW w \in Review, reviews' = [reviews EXCEPT ![v] = w],
           simple' = simple \/ simple' = FALSE, UNCHANGED <<next, found, docCalls>>,
           doc' \in {"EXTRACTED", "PARTIAL", "IN_REVIEW", "PUBLISHED", "REJECTED"},
           segments' \in [1..Segments -> Segment],
           candidates' \in [Candidates -> {"none", "PENDING", "APPROVED", "REJECTED"}],
           \A c \in Candidates : candidates[c] # "none" => candidates'[c] # "none",
           ruleCount' \in [Candidates -> Nat], \A c \in Candidates : ruleCount'[c] >= ruleCount[c],
           \A c \in Candidates : candidates'[c] = "APPROVED" => ruleCount'[c] > 0,
           ReviewSound(w)', NoneAhead', simple' => RulesMatch' /\ DocDecided'
    PROVE  DocInv'
  <1>1. reviews'[v] = w /\ \A u \in Reviewers : u # v => reviews'[u] = reviews[u]
    BY DEF DocInv, DocTypeOK
  <1>2. DocTypeOK'
    BY DEF DocInv, DocTypeOK
  <1>3. \A u \in Reviewers : ReviewSound(reviews[u])'
    <2> SUFFICES ASSUME NEW u \in Reviewers PROVE ReviewSound(reviews[u])'
      OBVIOUS
    <2>1. CASE u = v
      BY <1>1, <2>1 DEF ReviewSound
    <2>2. CASE u # v
      <3>1. reviews'[u] = reviews[u] /\ ReviewSound(reviews[u]) /\ reviews[u] \in Review
        BY <1>1, <2>2 DEF DocInv, DocTypeOK
      <3>2. simple' => reviews[u].at = "idle"
        BY <2>2, InReview
      <3>3. ASSUME reviews[u].at = "approve"
            PROVE  reviews[u].cand \in Candidates /\ ruleCount[reviews[u].cand] > 0 /\ ruleCount'[reviews[u].cand] > 0
        BY <3>1, <3>3 DEF ReviewSound, Reviewing, DocInv, DocTypeOK
      <3>4. ASSUME reviews[u].at \in Reviewing
            PROVE  reviews[u].cand \in Candidates /\ candidates'[reviews[u].cand] # "none"
        BY <3>1, <3>4 DEF ReviewSound
      <3> QED
        BY <3>1, <3>2, <3>3, <3>4 DEF ReviewSound, Reviewing
    <2> QED
      BY <2>1, <2>2
  <1>4. simple' => OneReview'
    <2> SUFFICES ASSUME simple' PROVE OneReview'
      OBVIOUS
    <2>1. \A u \in Reviewers : u # v => reviews[u].at = "idle"
      BY InReview
    <2>2. \A u \in Reviewers : u # v => reviews'[u].at = "idle"
      BY <1>1, <2>1
    <2> QED
      BY <2>2 DEF OneReview
  <1> QED
    BY <1>2, <1>3, <1>4 DEF DocInv

LEMMA RetryKeeps == ASSUME DocInv, NEW v \in Reviewers, RetryExtracts(v) PROVE DocInv'
  <1>1. PICK s : s = reviews[v].seg
    OBVIOUS
  <1>2. PICK ok \in BOOLEAN, hit \in BOOLEAN :
           /\ reviews[v].at = "retry" /\ segments[s].done < MaxExtractions
           /\ segments' = [segments EXCEPT ![s] = [status |-> IF ok THEN "OK" ELSE segments[s].status,
                                                   done |-> segments[s].done + 1]]
           /\ candidates' = IF ok /\ hit THEN [candidates EXCEPT ![<<s, segments[s].done + 1>>] = "PENDING"] ELSE candidates
           /\ reviews' = [reviews EXCEPT ![v] = IF ok THEN [reviews[v] EXCEPT !.at = "settle"] ELSE NoReview]
           /\ UNCHANGED <<doc, next, found, ruleCount, docCalls, simple>>
    BY <1>1 DEF RetryExtracts
  <1>3. PICK w : w = IF ok THEN [reviews[v] EXCEPT !.at = "settle"] ELSE NoReview
    OBVIOUS
  <1>4. PICK x : x = [status |-> IF ok THEN "OK" ELSE segments[s].status, done |-> segments[s].done + 1]
    OBVIOUS
  <1>5. s \in 1..Segments /\ segments[s] \in Segment /\ segments[s].done \in Nat
    BY <1>1, <1>2, InReview DEF ReviewSound, DocInv, DocTypeOK, Segment
  <1>6. x \in Segment /\ x.done = segments[s].done + 1
    <2>1. PICK status : status = IF ok THEN "OK" ELSE segments[s].status
      OBVIOUS
    <2>2. status \in {"none", "OK", "FAILED"} /\ x = [status |-> status, done |-> segments[s].done + 1]
      BY <1>4, <1>5, <2>1 DEF Segment
    <2>3. segments[s].done + 1 \in 0..MaxExtractions
      BY <1>2, <1>5, DocNumbers
    <2> QED
      BY <2>2, <2>3 DEF Segment
  <1>7. /\ segments' = [segments EXCEPT ![s] = x] /\ segments' \in [1..Segments -> Segment] /\ segments'[s] = x
        /\ \A r \in 1..Segments : r # s => segments'[r] = segments[r]
    <2>1. segments' = [segments EXCEPT ![s] = x]
      BY <1>2, <1>4
    <2> QED
      BY <2>1, <1>5, <1>6 DEF DocInv, DocTypeOK
  <1>8. PICK c : c = <<s, segments[s].done + 1>>
    OBVIOUS
  <1>9. c \in Candidates /\ c[1] = s /\ c[2] = segments[s].done + 1
    BY <1>2, <1>5, <1>8, DocNumbers
  <1>10. candidates[c] = "none"
    BY <1>5, <1>9 DEF DocInv, NoneAhead
  <1>11. /\ candidates' \in [Candidates -> {"none", "PENDING", "APPROVED", "REJECTED"}]
         /\ \A b \in Candidates : candidates'[b] = candidates[b] \/ (b = c /\ candidates'[b] = "PENDING")
    BY <1>2, <1>8, <1>9 DEF DocInv, DocTypeOK
  <1>12. w \in Review /\ w.at \in {"settle", "idle"} /\ reviews' = [reviews EXCEPT ![v] = w]
    BY <1>2, <1>3, InReview, NoReviewType DEF Review
  <1>13. ReviewSound(w)'
    BY <1>2, <1>12, InReview DEF ReviewSound, Reviewing
  <1>14. NoneAhead'
    <2> SUFFICES ASSUME NEW b \in Candidates
                 PROVE  /\ candidates'[b] # "none" => b[2] <= segments'[b[1]].done
                        /\ b \in found' => b[2] = 1 /\ segments'[b[1]].done >= 1
      BY DEF NoneAhead
    <2>1. /\ segments[b[1]].done \in Nat /\ segments'[b[1]].done \in Nat /\ segments'[b[1]].done >= segments[b[1]].done
          /\ b[2] \in Nat
      <3>1. segments[b[1]].done \in Nat /\ b[1] \in 1..Segments /\ b[2] \in Nat
        BY DocNumbers DEF DocInv, DocTypeOK, Segment
      <3> QED
        BY <3>1, <1>5, <1>6, <1>7
    <2>2. b = c => b[2] <= segments'[b[1]].done
      BY <1>5, <1>6, <1>7, <1>9
    <2>3. candidates[b] # "none" => b[2] <= segments[b[1]].done
      BY DEF DocInv, NoneAhead
    <2>4. b \in found => b[2] = 1 /\ segments[b[1]].done >= 1
      BY DEF DocInv, NoneAhead
    <2> QED
      BY <1>2, <1>11, <2>1, <2>2, <2>3, <2>4
  <1>15. ASSUME simple' PROVE RulesMatch' /\ DocDecided'
    <2>1. simple /\ doc = "PARTIAL"
      BY <1>2, <1>15, InReview DEF ReviewSound
    <2>2. \A b \in Candidates : ~Approving(b) /\ ~Approving(b)'
      BY <2>1, <1>2, <1>12, InReview DEF Approving, DocInv, DocTypeOK
    <2>3. RulesMatch'
      BY <1>2, <1>10, <1>11, <2>1, <2>2 DEF DocInv, RulesMatch
    <2> QED
      BY <1>2, <2>1, <2>3 DEF DocDecided
  <1>16. doc' \in {"EXTRACTED", "PARTIAL", "IN_REVIEW", "PUBLISHED", "REJECTED"}
    BY <1>2, InReview DEF DocInv, DocTypeOK
  <1>17. \A b \in Candidates : candidates'[b] = "APPROVED" => ruleCount'[b] > 0
    BY <1>2, <1>11 DEF DocInv
  <1>18. ruleCount' \in [Candidates -> Nat] /\ \A b \in Candidates : ruleCount'[b] >= ruleCount[b]
    BY <1>2 DEF DocInv, DocTypeOK
  <1> QED
    BY <1>2, <1>7, <1>11, <1>12, <1>13, <1>14, <1>15, <1>16, <1>17, <1>18, ReviewMoves

\* What the counts of rules are, while nothing touches them.
LEMMA CountsStay ==
    ASSUME DocInv, UNCHANGED ruleCount
    PROVE  ruleCount' \in [Candidates -> Nat] /\ \A c \in Candidates : ruleCount'[c] >= ruleCount[c]
  BY DEF DocInv, DocTypeOK

LEMMA RetryEndKeeps == ASSUME DocInv, NEW v \in Reviewers, RetryEnds(v) PROVE DocInv'
  <1>1. /\ reviews[v].at = "settle" /\ doc' \in {"PARTIAL", "IN_REVIEW", "EXTRACTED"}
        /\ reviews' = [reviews EXCEPT ![v] = NoReview]
        /\ UNCHANGED <<next, found, segments, candidates, ruleCount, docCalls, simple>>
    BY StatusType DEF RetryEnds
  <1>2. ReviewSound(NoReview)'
    BY NoReviewType DEF ReviewSound, Reviewing
  <1>3. NoneAhead'
    BY <1>1 DEF DocInv, NoneAhead
  <1>4. ASSUME simple' PROVE RulesMatch' /\ DocDecided'
    <2>1. \A c \in Candidates : ~Approving(c) /\ ~Approving(c)'
      BY <1>1, <1>4, InReview, NoReviewType DEF Approving, DocInv, DocTypeOK
    <2> QED
      BY <1>1, <1>4, <2>1 DEF DocInv, RulesMatch, DocDecided
  <1> QED
    BY <1>1, <1>2, <1>3, <1>4, CountsStay, NoReviewType, ReviewMoves DEF DocInv, DocTypeOK

LEMMA PublishKeeps == ASSUME DocInv, NEW v \in Reviewers, ReviewPublishes(v) PROVE DocInv'
  <1>1. PICK c : c = reviews[v].cand
    OBVIOUS
  <1>2. PICK w : w = [reviews[v] EXCEPT !.at = "approve"]
    OBVIOUS
  <1>3. /\ reviews[v].at = "publish" /\ ruleCount' = [ruleCount EXCEPT ![c] = ruleCount[c] + 1]
        /\ reviews' = [reviews EXCEPT ![v] = w]
        /\ UNCHANGED <<doc, next, found, segments, candidates, docCalls, simple>>
    BY <1>1, <1>2 DEF ReviewPublishes
  <1>4. c \in Candidates /\ simple => candidates[c] = "PENDING"
    BY <1>1, <1>3, InReview DEF ReviewSound, Reviewing
  <1>5. c \in Candidates /\ candidates[c] # "none"
    BY <1>1, <1>3, InReview DEF ReviewSound, Reviewing
  <1>6. w \in Review /\ w.at = "approve" /\ w.cand = c
    BY <1>1, <1>2, <1>3, InReview DEF Review
  <1>7. /\ ruleCount' \in [Candidates -> Nat]
        /\ \A b \in Candidates : ruleCount'[b] = IF b = c THEN ruleCount[b] + 1 ELSE ruleCount[b]
    BY <1>3, <1>5 DEF DocInv, DocTypeOK
  <1>8. \A b \in Candidates : ruleCount[b] \in Nat /\ ruleCount'[b] >= ruleCount[b]
    BY <1>7 DEF DocInv, DocTypeOK
  <1>9. ReviewSound(w)'
    BY <1>3, <1>4, <1>5, <1>6, <1>7, <1>8 DEF ReviewSound, Reviewing
  <1>10. NoneAhead'
    BY <1>3 DEF DocInv, NoneAhead
  <1>11. ASSUME simple' PROVE RulesMatch' /\ DocDecided'
    <2>1. simple /\ candidates[c] = "PENDING"
      BY <1>3, <1>4, <1>5, <1>11
    <2>2. \A b \in Candidates : ~Approving(b) /\ (Approving(b)' <=> b = c)
      BY <1>3, <1>6, <2>1, InReview DEF Approving, DocInv, DocTypeOK
    <2>3. RulesMatch'
      BY <1>3, <1>7, <2>1, <2>2 DEF DocInv, RulesMatch
    <2>4. doc \notin {"PUBLISHED", "REJECTED"}
      BY <1>3, <2>1 DEF DocInv, DocDecided, Calm
    <2> QED
      BY <1>3, <2>3, <2>4 DEF DocDecided
  <1>12. \A b \in Candidates : candidates'[b] = "APPROVED" => ruleCount'[b] > 0
    BY <1>3, <1>7, <1>8 DEF DocInv
  <1> QED
    BY <1>3, <1>6, <1>7, <1>8, <1>9, <1>10, <1>11, <1>12, InReview, ReviewMoves DEF DocInv, DocTypeOK

LEMMA ReviewPutKeeps == ASSUME DocInv, NEW v \in Reviewers, ReviewPuts(v) PROVE DocInv'
  <1>1. PICK c : c = reviews[v].cand
    OBVIOUS
  <1>2. PICK w : w = [reviews[v] EXCEPT !.at = "finalize"]
    OBVIOUS
  <1>3. PICK to : to = IF reviews[v].at = "approve" THEN "APPROVED" ELSE "REJECTED"
    OBVIOUS
  <1>4. /\ reviews[v].at \in {"approve", "reject"} /\ candidates' = [candidates EXCEPT ![c] = to]
        /\ reviews' = [reviews EXCEPT ![v] = w]
        /\ UNCHANGED <<doc, next, found, segments, ruleCount, docCalls, simple>>
    BY <1>1, <1>2, <1>3 DEF ReviewPuts
  <1>5. /\ c \in Candidates /\ reviews[v].at = "approve" => ruleCount[c] > 0
    BY <1>1, <1>4, InReview DEF ReviewSound, Reviewing
  <1>6. c \in Candidates
    BY <1>1, <1>4, InReview DEF ReviewSound, Reviewing
  <1>7. w \in Review /\ w.at = "finalize"
    BY <1>2, <1>4, InReview DEF Review
  <1>8. /\ candidates' \in [Candidates -> {"none", "PENDING", "APPROVED", "REJECTED"}]
        /\ \A b \in Candidates : candidates'[b] = IF b = c THEN to ELSE candidates[b]
    BY <1>3, <1>4, <1>6 DEF DocInv, DocTypeOK
  <1>9. ReviewSound(w)'
    BY <1>7 DEF ReviewSound, Reviewing
  <1>10. \A b \in Candidates : candidates'[b] = "APPROVED" => ruleCount'[b] > 0
    BY <1>3, <1>4, <1>5, <1>6, <1>8 DEF DocInv
  <1>11. ASSUME simple' PROVE RulesMatch' /\ DocDecided'
    <2>1. simple /\ candidates[c] = "PENDING"
      BY <1>1, <1>4, <1>11, InReview DEF ReviewSound, Reviewing
    <2>2. \A b \in Candidates : ~Approving(b)' /\ (Approving(b) <=> b = c /\ reviews[v].at = "approve")
      BY <1>1, <1>4, <1>7, <2>1, InReview DEF Approving, DocInv, DocTypeOK
    <2>3. RulesMatch'
      BY <1>3, <1>4, <1>8, <2>1, <2>2 DEF DocInv, RulesMatch
    <2>4. doc \notin {"PUBLISHED", "REJECTED"}
      BY <1>4, <2>1 DEF DocInv, DocDecided, Calm
    <2> QED
      BY <1>4, <2>1, <2>3, <2>4 DEF DocDecided
  <1>12. candidates[c] # "none" /\ to # "none"
    BY <1>1, <1>3, <1>4, InReview DEF ReviewSound, Reviewing
  <1>13. NoneAhead'
    BY <1>4, <1>8, <1>12 DEF DocInv, NoneAhead
  <1> QED
    BY <1>4, <1>7, <1>8, <1>9, <1>10, <1>11, <1>12, <1>13, CountsStay, InReview, ReviewMoves DEF DocInv, DocTypeOK

LEMMA FinalizeKeeps == ASSUME DocInv, NEW v \in Reviewers, FinalizeDoc(v) PROVE DocInv'
  <1>1. /\ reviews[v].at = "finalize" /\ reviews' = [reviews EXCEPT ![v] = NoReview]
        /\ doc' = IF \E c \in Known : candidates[c] = "PENDING" THEN doc
                  ELSE IF \E c \in Known : candidates[c] = "APPROVED" THEN "PUBLISHED" ELSE "REJECTED"
        /\ UNCHANGED <<next, found, segments, candidates, ruleCount, docCalls, simple>>
    BY DEF FinalizeDoc
  <1>2. doc' \in {"EXTRACTED", "PARTIAL", "IN_REVIEW", "PUBLISHED", "REJECTED"}
    BY <1>1, InReview DEF DocInv, DocTypeOK
  <1>3. ReviewSound(NoReview)'
    BY NoReviewType DEF ReviewSound, Reviewing
  <1>4. NoneAhead'
    BY <1>1 DEF DocInv, NoneAhead
  <1>5. ASSUME simple' PROVE RulesMatch' /\ DocDecided'
    <2>1. simple /\ \A u \in Reviewers : reviews'[u].at = "idle"
      BY <1>1, <1>5, InReview, NoReviewType DEF DocInv, DocTypeOK
    <2>2. \A c \in Candidates : ~Approving(c) /\ ~Approving(c)'
      BY <1>1, <2>1, InReview DEF Approving
    <2>3. RulesMatch'
      BY <1>1, <2>1, <2>2 DEF DocInv, RulesMatch
    <2>4. CASE \E c \in Known : candidates[c] = "PENDING"
      <3>1. doc' = doc
        BY <1>1, <2>4
      <3>2. DocDecided
        BY <2>1 DEF DocInv
      <3>3. doc \notin {"PUBLISHED", "REJECTED"}
        BY <3>2, <2>4 DEF DocDecided, Known
      <3> QED
        BY <3>1, <3>3, <2>3 DEF DocDecided
    <2>5. CASE ~\E c \in Known : candidates[c] = "PENDING"
      <3>1. \A c \in Candidates : candidates[c] # "PENDING"
        BY <2>5 DEF Known
      <3>2. doc' = "REJECTED" => \A c \in Candidates : candidates[c] # "APPROVED"
        BY <1>1, <2>5 DEF Known
      <3> QED
        BY <1>1, <2>1, <2>3, <3>1, <3>2 DEF DocDecided, Calm
    <2> QED
      BY <2>3, <2>4, <2>5
  <1> QED
    BY <1>1, <1>2, <1>3, <1>4, <1>5, CountsStay, NoReviewType, ReviewMoves DEF DocInv, DocTypeOK

LEMMA BreakKeeps == ASSUME DocInv, NEW v \in Reviewers, ReviewBreaks(v) PROVE DocInv'
  <1>1. /\ reviews[v].at # "idle" /\ reviews' = [reviews EXCEPT ![v] = NoReview] /\ simple' = FALSE
        /\ UNCHANGED <<doc, next, found, segments, candidates, ruleCount, docCalls>>
    BY DEF ReviewBreaks
  <1>2. ReviewSound(NoReview)'
    BY NoReviewType DEF ReviewSound, Reviewing
  <1>3. NoneAhead'
    BY <1>1 DEF DocInv, NoneAhead
  <1>4. doc' \in {"EXTRACTED", "PARTIAL", "IN_REVIEW", "PUBLISHED", "REJECTED"}
    BY <1>1, InReview DEF DocInv, DocTypeOK
  <1> QED
    BY <1>1, <1>2, <1>3, <1>4, CountsStay, NoReviewType, ReviewMoves DEF DocInv, DocTypeOK

LEMMA NextDoc == DocInv /\ [DocNext]_docVars => DocInv'
  <1> SUFFICES ASSUME DocInv, [DocNext]_docVars PROVE DocInv'
    OBVIOUS
  <1>1. CASE UNCHANGED docVars
    BY <1>1 DEF docVars, DocInv, DocTypeOK, ReviewSound, Known, Calm, NoneAhead, OneReview, RulesMatch, Approving, DocDecided
  <1>2. ASSUME NEW v \in Reviewers, NEW s \in 1..Segments, RetryReads(v, s) PROVE DocInv'
    <2>1. PICK w : w = [NoReview EXCEPT !.at = "retry", !.seg = s]
      OBVIOUS
    <2>2. w \in Review /\ w.at = "retry" /\ w.seg = s
      <3>1. s \in 0..Segments
        BY DocNumbers
      <3>2. w = [at |-> "retry", cand |-> "none", seg |-> s, status |-> ""]
        BY <2>1 DEF NoReview
      <3> QED
        BY <3>1, <3>2 DEF Review
    <2>3. doc = "PARTIAL" /\ StartReview(v, w) /\ UNCHANGED <<doc, next, found, segments, candidates, ruleCount>>
      BY <1>2, <2>1 DEF RetryReads
    <2> QED
      BY <2>2, <2>3, ReviewBegins DEF Reviewing
  <1>3. ASSUME NEW v \in Reviewers, NEW c \in Candidates, ReviewReads(v, c) PROVE DocInv'
    <2>1. PICK to \in {"publish", "reject"} :
             /\ candidates[c] = "PENDING" /\ StartReview(v, [NoReview EXCEPT !.at = to, !.cand = c])
             /\ UNCHANGED <<doc, next, found, segments, candidates, ruleCount>>
      BY <1>3 DEF ReviewReads
    <2>2. PICK w : w = [NoReview EXCEPT !.at = to, !.cand = c]
      OBVIOUS
    <2>3. w \in Review /\ w.at = to /\ w.cand = c
      BY <2>2, NoReviewType DEF Review
    <2>4. StartReview(v, w)
      BY <2>1, <2>2
    <2> QED
      BY <2>1, <2>3, <2>4, ReviewBegins DEF Reviewing
  <1> QED
    BY <1>1, <1>2, <1>3, ExtractKeeps, ExtractionKeeps, RetryKeeps, RetryEndKeeps, PublishKeeps, ReviewPutKeeps, FinalizeKeeps,
       BreakKeeps DEF DocNext

\* The review decides, for documents of any length, any number of extractions and any number of calls:
\* nothing is approved without a rule, and unless calls overlap or break off, each approval has one rule,
\* nothing else has any, and the document ends just when nothing is left to review.
THEOREM ReviewDecidesAlways == DocSpec => []ReviewDecides
  <1>1. DocInv => ReviewDecides
    <2> SUFFICES ASSUME DocInv PROVE ReviewDecides
      OBVIOUS
    <2>1. ASSUME simple, Calm PROVE \A c \in Candidates : ruleCount[c] = IF candidates[c] = "APPROVED" THEN 1 ELSE 0
      BY <2>1 DEF DocInv, RulesMatch, Approving, Calm
    <2>2. ASSUME simple, doc = "PUBLISHED" PROVE \A c \in Known : candidates[c] # "PENDING"
      BY <2>2 DEF DocInv, DocDecided, Known
    <2>3. ASSUME simple, doc = "REJECTED" PROVE \A c \in Known : candidates[c] = "REJECTED"
      BY <2>3 DEF DocInv, DocTypeOK, DocDecided, Known
    <2> QED
      BY <2>1, <2>2, <2>3 DEF DocInv, ReviewDecides
  <1> QED
    BY <1>1, InitDoc, NextDoc, PTL DEF DocSpec

-----------------------------------------------------------------------------
(* Calibration *)

\* v is what the records in force say the parameter is when only those applied before n are looked at.
InForceIn(ps) == {i \in ProposalIds : ps[i].status = "APPLIED"}
Explains(ps, v, n) ==
    \/ v = 0 /\ \A i \in InForceIn(ps) : ps[i].appliedAt >= n
    \/ \E i \in InForceIn(ps) : /\ ps[i].appliedAt < n /\ v = ps[i].value
                                /\ \A j \in InForceIn(ps) : ps[j].appliedAt < n => ps[j].appliedAt <= ps[i].appliedAt

\* Records in force were applied one after the other; a generation puts an open record, over none or an
\* open one; a write-back applies what is not history yet, or rolls back what it has read.
Stamped == \A i \in InForce : proposals[i].appliedAt <= applications
              /\ \A j \in InForce : proposals[i].appliedAt = proposals[j].appliedAt => i = j
GensKeep == \A g \in Generations : /\ gens[g].at # "idle" => Open(gens[g].record)
                                   /\ gens[g].at = "put" => gens[g].id \in ProposalIds \ History
WriteFits ==
    /\ write.doing = "idle" => ~write.set
    /\ write.doing = "apply" => write.id \in ProposalIds \ History
    /\ write.doing = "rollback" => write.id \in InForce /\ write.record = proposals[write.id]

\* A copy of the meta loop is of a record in force, as it is.
MetaFits == \A i \in ProposalIds : meta[i] # NoProposal => i \in InForce /\ meta[i] = proposals[i]

\* Every record in force remembers what was explained before it, unless it was applied over a stray
\* value, and a write-back under way knows what it replaces.
Remembers == \A i \in InForce \ overStray : Explains(proposals, proposals[i].appliedFrom, proposals[i].appliedAt)
ParamKnown ==
    /\ ~write.set /\ ~stray => Explains(proposals, param, applications + 1)
    /\ write.doing = "apply" /\ write.set =>
           param = write.record.value /\ (~stray => Explains(proposals, write.record.appliedFrom, applications + 1))
    /\ write.doing = "rollback" => LastApplied(write.id) /\ write.id \notin overStray
    /\ write.doing = "rollback" /\ write.set => param = write.record.appliedFrom

CalInv == CalTypeOK /\ Stamped /\ GensKeep /\ WriteFits /\ MetaFits /\ (calm => Remembers /\ ParamKnown)

LEMMA CalNumbers == MaxValues \in Nat /\ MaxDays \in Nat /\ 0 \in Value /\ 0 \in 0..MaxDays
  BY CalibrationAssumption DEF Value

LEMMA NothingTypes ==
    /\ NoProposal \in Proposal /\ NoProposal.status = "none"
    /\ NoGeneration \in Generation /\ NoGeneration.at = "idle"
    /\ NoWrite \in Write /\ NoWrite.doing = "idle" /\ NoWrite.set = FALSE
  <1>1. NoProposal \in Proposal /\ NoProposal.status = "none"
    BY CalNumbers DEF NoProposal, Proposal
  <1> QED
    BY <1>1 DEF NoGeneration, Generation, NoWrite, Write

LEMMA HistoryFacts == InForce = InForceIn(proposals) /\ InForce \subseteq History /\ History \subseteq ProposalIds
  BY DEF InForce, InForceIn, History

LEMMA InitCal == CalInit => CalInv
  <1> SUFFICES ASSUME CalInit PROVE CalInv
    OBVIOUS
  <1>1. \A i \in ProposalIds : proposals[i] = NoProposal
    BY DEF CalInit
  <1>2. InForce = {} /\ InForceIn(proposals) = {} /\ History = {}
    BY <1>1, NothingTypes DEF InForce, InForceIn, History
  <1>3. CalTypeOK
    BY CalNumbers, NothingTypes DEF CalInit, CalTypeOK
  <1>4. Explains(proposals, param, applications + 1)
    BY <1>2 DEF Explains, CalInit
  <1> QED
    BY <1>2, <1>3, <1>4, NothingTypes DEF CalInit, CalInv, Stamped, GensKeep, WriteFits, MetaFits, Remembers, ParamKnown

\* What leaves the records in force alone leaves what they say alone.
LEMMA ExplainsStays ==
    ASSUME NEW ps, NEW qs, NEW v, NEW n, InForceIn(qs) = InForceIn(ps), \A i \in InForceIn(ps) : qs[i] = ps[i],
           Explains(ps, v, n)
    PROVE  Explains(qs, v, n)
  BY DEF Explains

LEMMA RemembersStays ==
    ASSUME InForce' = InForce, \A i \in InForce : proposals'[i] = proposals[i], overStray' = overStray, Remembers
    PROVE  Remembers'
  <1> SUFFICES ASSUME NEW i \in InForce' \ overStray'
               PROVE  Explains(proposals', proposals'[i].appliedFrom, proposals'[i].appliedAt)
    BY DEF Remembers
  <1>1. Explains(proposals, proposals[i].appliedFrom, proposals[i].appliedAt) /\ proposals'[i] = proposals[i]
    BY DEF Remembers
  <1>2. InForceIn(proposals') = InForceIn(proposals) /\ \A j \in InForceIn(proposals) : proposals'[j] = proposals[j]
    BY DEF InForce, InForceIn
  <1> QED
    BY <1>1, <1>2, ExplainsStays

\* A step of a generation, or of time: open records come and go.
LEMMA OpenStep ==
    ASSUME CalInv, CalTypeOK', GensKeep', WriteFits', History' = History, \A i \in History : proposals'[i] = proposals[i],
           UNCHANGED <<param, applications, stray, overStray, calm, meta>>,
           write' = write \/ (write'.doing = "apply" /\ ~write.set /\ ~write'.set)
    PROVE  CalInv'
  <1>1. InForce' = InForce /\ \A i \in InForce : proposals'[i] = proposals[i]
    BY DEF InForce, History
  <1>2. InForceIn(proposals') = InForceIn(proposals) /\ \A j \in InForceIn(proposals) : proposals'[j] = proposals[j]
    BY <1>1, HistoryFacts DEF InForce, InForceIn
  <1>3. \A v, n : Explains(proposals, v, n) => Explains(proposals', v, n)
    BY <1>2, ExplainsStays
  <1>4. Stamped'
    BY <1>1 DEF CalInv, Stamped
  <1>5. ASSUME calm PROVE Remembers' /\ ParamKnown'
    <2>1. Remembers'
      BY <1>1, <1>5, RemembersStays DEF CalInv
    <2>2. ParamKnown
      BY <1>5 DEF CalInv
    <2>3. \A i : LastApplied(i) => LastApplied(i)'
      BY <1>1 DEF LastApplied
    <2>4. CASE write' = write
      BY <1>3, <2>1, <2>2, <2>3, <2>4 DEF ParamKnown
    <2>5. CASE write'.doing = "apply" /\ ~write.set /\ ~write'.set
      BY <1>3, <2>1, <2>2, <2>5 DEF ParamKnown
    <2> QED
      BY <2>4, <2>5
  <1>6. MetaFits'
    BY <1>1 DEF CalInv, MetaFits
  <1> QED
    BY <1>4, <1>5, <1>6 DEF CalInv

\* A generation that only moves on keeps the records as they are.
LEMMA GenMoves ==
    ASSUME CalInv, NEW g \in Generations, NEW w \in Generation, gens' = [gens EXCEPT ![g] = w],
           w.at # "idle" => Open(w.record), w.at = "put" => w.id \in ProposalIds \ History, values' \in Value,
           UNCHANGED <<param, proposals, write, days, applications, stray, overStray, calm, meta>>
    PROVE  CalInv'
  <1>1. gens'[g] = w /\ \A h \in Generations : h # g => gens'[h] = gens[h]
    BY DEF CalInv, CalTypeOK
  <1>2. History' = History
    BY DEF History
  <1>3. GensKeep'
    BY <1>1, <1>2 DEF CalInv, GensKeep, Open
  <1>4. CalTypeOK' /\ WriteFits'
    BY <1>1, <1>2 DEF CalInv, CalTypeOK, WriteFits, InForce, History
  <1> QED
    BY <1>2, <1>3, <1>4, OpenStep

LEMMA GenDecidesKeeps == ASSUME CalInv, NEW g \in Generations, NEW s \in Slices, GenDecides(g, s) PROVE CalInv'
  <1>1. PICK to \in {"REJECTED", "HOLD", "PENDING"} :
           /\ values < MaxValues /\ values' = values + 1
           /\ gens' = [gens EXCEPT ![g] = [at |-> "list", id |-> 0,
                                           record |-> [NoProposal EXCEPT !.slice = s, !.value = values + 1, !.status = to]]]
           /\ UNCHANGED <<param, proposals, write, days, applications, stray, overStray, calm, meta>>
    BY DEF GenDecides
  <1>2. PICK x : x = [NoProposal EXCEPT !.slice = s, !.value = values + 1, !.status = to]
    OBVIOUS
  <1>3. PICK w : w = [at |-> "list", id |-> 0, record |-> x]
    OBVIOUS
  <1>4. values + 1 \in Value
    BY <1>1, CalNumbers DEF CalInv, CalTypeOK, Value
  <1>5. x \in Proposal /\ x.status = to
    BY <1>2, <1>4, CalNumbers DEF NoProposal, Proposal
  <1>6. w \in Generation /\ w.at = "list" /\ Open(w.record)
    BY <1>3, <1>5 DEF Generation, Open
  <1>7. gens' = [gens EXCEPT ![g] = w]
    BY <1>1, <1>2, <1>3
  <1> QED
    BY <1>1, <1>4, <1>6, <1>7, GenMoves

\* The record it will put over is none, or open.
LEMMA GenFindsKeeps == ASSUME CalInv, NEW g \in Generations, GenLists(g) \/ GenGets(g) PROVE CalInv'
  <1>1. /\ gens[g].at \in {"list", "get"}
        /\ UNCHANGED <<param, proposals, write, days, values, applications, stray, overStray, calm, meta>>
    BY DEF GenLists, GenGets
  <1>2. gens[g] \in Generation /\ Open(gens[g].record) /\ values \in Value
    BY <1>1 DEF CalInv, CalTypeOK, GensKeep
  <1>3. CASE gens' = [gens EXCEPT ![g].at = "get"]
    <2>1. PICK w : w = [gens[g] EXCEPT !.at = "get"]
      OBVIOUS
    <2>2. w \in Generation /\ w.at = "get" /\ w.record = gens[g].record
      BY <1>2, <2>1 DEF Generation
    <2> QED
      BY <1>1, <1>2, <1>3, <2>1, <2>2, GenMoves
  <1>4. CASE \E i \in ProposalIds : (proposals[i].status = "none" \/ Open(proposals[i]))
                            /\ gens' = [gens EXCEPT ![g].at = "put", ![g].id = i]
    <2>1. PICK i \in ProposalIds : (proposals[i].status = "none" \/ Open(proposals[i]))
                           /\ gens' = [gens EXCEPT ![g].at = "put", ![g].id = i]
      BY <1>4
    <2>2. PICK w : w = [gens[g] EXCEPT !.at = "put", !.id = i]
      OBVIOUS
    <2>3. w \in Generation /\ w.at = "put" /\ w.id = i /\ w.record = gens[g].record
      BY <1>2, <2>2 DEF Generation
    <2>4. i \in ProposalIds \ History
      BY <2>1 DEF History, Open
    <2> QED
      BY <1>1, <1>2, <2>1, <2>2, <2>3, <2>4, GenMoves
  <1> QED
    BY <1>3, <1>4 DEF GenLists, GenGets

LEMMA GenBreaksKeeps == ASSUME CalInv, NEW g \in Generations, GenBreaks(g) PROVE CalInv'
  BY NothingTypes, GenMoves DEF GenBreaks, CalInv, CalTypeOK

\* It is put over a record that is not history, and is none itself.
LEMMA GenPutsKeeps == ASSUME CalInv, NEW g \in Generations, GenPuts(g) PROVE CalInv'
  <1>1. PICK n : n = gens[g].id
    OBVIOUS
  <1>2. PICK x : x = gens[g].record
    OBVIOUS
  <1>3. PICK w : w = [doing |-> "apply", set |-> FALSE, id |-> n, record |-> x]
    OBVIOUS
  <1>4. /\ gens[g].at = "put" /\ proposals' = [proposals EXCEPT ![n] = x] /\ gens' = [gens EXCEPT ![g] = NoGeneration]
        /\ write' = write \/ (write.doing = "idle" /\ write' = w)
        /\ UNCHANGED <<param, days, values, applications, stray, overStray, calm, meta>>
    BY <1>1, <1>2, <1>3 DEF GenPuts, AtRest
  <1>5. n \in ProposalIds \ History /\ x \in Proposal /\ Open(x)
    BY <1>1, <1>2, <1>4 DEF CalInv, CalTypeOK, GensKeep, Generation
  <1>6. w \in Write /\ w.doing = "apply" /\ w.set = FALSE /\ w.id = n
    BY <1>3, <1>5 DEF Write
  <1>7. \A i \in ProposalIds : proposals'[i] = IF i = n THEN x ELSE proposals[i]
    BY <1>4, <1>5 DEF CalInv, CalTypeOK
  <1>8. History' = History /\ InForce' = InForce /\ \A i \in History : proposals'[i] = proposals[i]
    BY <1>5, <1>7 DEF History, InForce, Open
  <1>9. GensKeep'
    <2>1. gens'[g] = NoGeneration /\ \A h \in Generations : h # g => gens'[h] = gens[h]
      BY <1>4 DEF CalInv, CalTypeOK
    <2> QED
      BY <1>8, <2>1, NothingTypes DEF CalInv, GensKeep, Open
  <1>10. CalTypeOK'
    BY <1>4, <1>5, <1>6, NothingTypes DEF CalInv, CalTypeOK
  <1>11. WriteFits'
    <2>1. CASE write' = write
      BY <1>8, <2>1, HistoryFacts DEF CalInv, WriteFits
    <2>2. CASE write' = w
      BY <1>5, <1>6, <1>8, <2>2 DEF WriteFits
    <2> QED
      BY <1>4, <2>1, <2>2
  <1>12. write' = write \/ (write'.doing = "apply" /\ ~write.set /\ ~write'.set)
    BY <1>4, <1>6 DEF CalInv, WriteFits
  <1> QED
    BY <1>4, <1>8, <1>9, <1>10, <1>11, <1>12, OpenStep

LEMMA CalDayKeeps == ASSUME CalInv, DayPasses PROVE CalInv'
  <1>1. CalTypeOK'
    BY CalNumbers DEF CalInv, CalTypeOK, DayPasses
  <1>2. GensKeep' /\ WriteFits' /\ History' = History
    BY DEF DayPasses, CalInv, GensKeep, WriteFits, InForce, History, Open
  <1> QED
    BY <1>1, <1>2, OpenStep DEF DayPasses

LEMMA ApproveReadKeeps == ASSUME CalInv, NEW i \in ProposalIds, ApproveReads(i) PROVE CalInv'
  <1>1. PICK w : w = [doing |-> "apply", set |-> FALSE, id |-> i, record |-> proposals[i]]
    OBVIOUS
  <1>2. /\ write.doing = "idle" /\ proposals[i].status = "PENDING" /\ write' = w
        /\ UNCHANGED <<param, proposals, gens, days, values, applications, stray, overStray, calm, meta>>
    BY <1>1 DEF ApproveReads, AtRest
  <1>3. w \in Write /\ w.doing = "apply" /\ w.set = FALSE /\ w.id = i
    BY <1>1 DEF CalInv, CalTypeOK, Write
  <1>4. History' = History /\ i \notin History
    BY <1>2 DEF History
  <1>5. CalTypeOK' /\ GensKeep' /\ WriteFits'
    BY <1>2, <1>3, <1>4 DEF CalInv, CalTypeOK, GensKeep, WriteFits, Open
  <1>6. write'.doing = "apply" /\ ~write.set /\ ~write'.set
    BY <1>2, <1>3 DEF CalInv, WriteFits
  <1> QED
    BY <1>2, <1>3, <1>4, <1>5, <1>6, OpenStep

\* A write-back that leaves the records alone.
LEMMA RecordsStay ==
    ASSUME CalInv, write' \in Write, param' \in Value, calm' \in BOOLEAN, stray' \in BOOLEAN, WriteFits',
           UNCHANGED <<proposals, gens, days, values, applications, overStray, meta>>, calm' => Remembers /\ ParamKnown'
    PROVE  CalInv'
  <1>1. CalTypeOK' /\ Stamped' /\ GensKeep'
    BY DEF CalInv, CalTypeOK, Stamped, GensKeep, InForce, History, Open
  <1>2. Remembers => Remembers'
    BY RemembersStays DEF InForce
  <1>3. MetaFits'
    BY DEF CalInv, MetaFits, InForce
  <1> QED
    BY <1>1, <1>2, <1>3 DEF CalInv

LEMMA SetKeeps == ASSUME CalInv, ApplySets PROVE CalInv'
  <1>1. PICK w : w = [write EXCEPT !.set = TRUE, !.record.appliedFrom = param, !.record.appliedTick = days]
    OBVIOUS
  <1>2. /\ write.doing = "apply" /\ ~write.set /\ param' = write.record.value /\ write' = w
        /\ UNCHANGED <<proposals, gens, days, values, applications, stray, overStray, calm, meta>>
    BY <1>1 DEF ApplySets
  <1>3. PICK x : x = [write.record EXCEPT !.appliedFrom = param, !.appliedTick = days]
    OBVIOUS
  <1>4. write \in Write /\ write.record \in Proposal /\ param \in Value /\ days \in 0..MaxDays
    BY DEF CalInv, CalTypeOK, Write
  <1>5. x \in Proposal /\ x.value = write.record.value /\ x.appliedFrom = param
    BY <1>3, <1>4 DEF Proposal
  <1>6. w = [write EXCEPT !.set = TRUE, !.record = x]
    BY <1>1, <1>3, <1>4 DEF Write, Proposal
  <1>7. w \in Write /\ w.doing = "apply" /\ w.set = TRUE /\ w.id = write.id /\ w.record = x
    BY <1>2, <1>4, <1>5, <1>6 DEF Write
  <1>8. WriteFits'
    BY <1>2, <1>7 DEF CalInv, WriteFits, History
  <1>9. calm => Remembers /\ ParamKnown'
    BY <1>2, <1>5, <1>7 DEF CalInv, ParamKnown, Explains, InForceIn
  <1>10. param' \in Value /\ calm \in BOOLEAN /\ stray \in BOOLEAN
    BY <1>2, <1>4 DEF CalInv, CalTypeOK, Proposal
  <1> QED
    BY <1>2, <1>7, <1>8, <1>9, <1>10, RecordsStay

\* The record that is applied is the latest in force, and remembers what was explained before it.
LEMMA RecordKeeps == ASSUME ~CopiesRace, CalInv, ApplyRecords PROVE CalInv'
  <1>1. PICK n : n = write.id
    OBVIOUS
  <1>2. PICK m : m = applications + 1
    OBVIOUS
  <1>13. PICK x : x = [write.record EXCEPT !.status = "APPLIED", !.appliedAt = m]
    OBVIOUS
  <1>3. /\ write.doing = "apply" /\ write.set /\ \A g \in Generations : gens[g].at = "put" => gens[g].id # n
        /\ proposals' = [proposals EXCEPT ![n] = x] /\ applications' = m /\ write' = NoWrite
        /\ stray' = FALSE /\ overStray' = overStray \cup (IF stray THEN {n} ELSE {})
        /\ UNCHANGED <<param, gens, days, values, calm, meta>>
    BY <1>1, <1>2, <1>13 DEF ApplyRecords
  <1>4. n \in ProposalIds \ History /\ write.record \in Proposal /\ applications \in Nat /\ m \in Nat
    BY <1>1, <1>2, <1>3 DEF CalInv, CalTypeOK, WriteFits, Write
  <1>5. /\ x \in Proposal /\ x.status = "APPLIED" /\ x.appliedAt = m
        /\ x.value = write.record.value /\ x.appliedFrom = write.record.appliedFrom
    BY <1>4, <1>13 DEF Proposal
  <1>6. \A i \in ProposalIds : proposals'[i] = IF i = n THEN x ELSE proposals[i]
    BY <1>3, <1>4 DEF CalInv, CalTypeOK
  <1>7. InForce' = InForce \cup {n} /\ n \notin InForce /\ History' = History \cup {n}
    BY <1>4, <1>5, <1>6 DEF InForce, History
  <1>8. CalTypeOK'
    <2>1. overStray' \subseteq ProposalIds
      BY <1>3, <1>4 DEF CalInv, CalTypeOK
    <2> QED
      BY <1>3, <1>4, <1>5, <2>1, NothingTypes DEF CalInv, CalTypeOK
  <1>9. \A i \in InForce : i \in ProposalIds /\ i # n /\ proposals[i].appliedAt \in Nat /\ proposals[i].appliedAt < m
    <2> SUFFICES ASSUME NEW i \in InForce PROVE i \in ProposalIds /\ i # n /\ proposals[i].appliedAt \in Nat /\ proposals[i].appliedAt < m
      OBVIOUS
    <2>1. i \in ProposalIds /\ proposals[i].appliedAt <= applications
      BY DEF CalInv, Stamped, InForce
    <2>2. proposals[i].appliedAt \in Nat
      BY <2>1 DEF CalInv, CalTypeOK, Proposal
    <2> QED
      BY <1>2, <1>4, <1>7, <2>1, <2>2
  <1>10. Stamped'
    BY <1>2, <1>3, <1>4, <1>5, <1>6, <1>7, <1>9 DEF CalInv, Stamped
  <1>11. GensKeep' /\ WriteFits'
    BY <1>3, <1>7, NothingTypes DEF CalInv, GensKeep, WriteFits, Open
  <1>12. ASSUME calm PROVE Remembers' /\ ParamKnown'
    <2>1. InForceIn(proposals') = InForceIn(proposals) \cup {n} /\ InForceIn(proposals) = InForce
      BY <1>7 DEF InForce, InForceIn
    <2>2. \A v, k : k \in Nat /\ k <= m /\ Explains(proposals, v, k) => Explains(proposals', v, k)
      BY <1>4, <1>5, <1>6, <1>9, <2>1 DEF Explains
    <2>3. Remembers'
      <3> SUFFICES ASSUME NEW i \in InForce', i \notin overStray'
                   PROVE  Explains(proposals', proposals'[i].appliedFrom, proposals'[i].appliedAt)
        BY DEF Remembers
      <3>1. CASE i = n
        <4>1. ~stray
          BY <1>3, <3>1
        <4>2. Explains(proposals, write.record.appliedFrom, m)
          BY <1>2, <1>3, <1>12, <4>1 DEF CalInv, ParamKnown
        <4>3. proposals'[i].appliedFrom = write.record.appliedFrom /\ proposals'[i].appliedAt = m
          BY <1>4, <1>5, <1>6, <3>1
        <4> QED
          BY <1>4, <2>2, <4>2, <4>3
      <3>2. CASE i # n
        <4>1. i \in InForce /\ i \notin overStray /\ proposals'[i] = proposals[i]
          BY <1>3, <1>6, <1>7, <1>9, <3>2
        <4>2. Explains(proposals, proposals[i].appliedFrom, proposals[i].appliedAt)
          BY <1>12, <4>1 DEF CalInv, Remembers
        <4>3. proposals[i].appliedAt \in Nat /\ proposals[i].appliedAt <= m
          BY <1>4, <1>9, <4>1
        <4> QED
          BY <2>2, <4>1, <4>2, <4>3
      <3> QED
        BY <3>1, <3>2
    <2>4. param' = proposals'[n].value
      BY <1>3, <1>4, <1>5, <1>6, <1>12 DEF CalInv, ParamKnown
    <2>5. Explains(proposals', param', applications' + 1)
      <3>1. n \in InForceIn(proposals') /\ proposals'[n].appliedAt = m /\ m < m + 1
        BY <1>4, <1>5, <1>6, <2>1
      <3>2. \A i \in InForceIn(proposals') : proposals'[i].appliedAt <= m
        <4> SUFFICES ASSUME NEW i \in InForceIn(proposals') PROVE proposals'[i].appliedAt <= m
          OBVIOUS
        <4>1. CASE i = n
          BY <1>4, <3>1, <4>1
        <4>2. CASE i # n
          BY <1>4, <1>6, <1>9, <2>1, <4>2
        <4> QED
          BY <4>1, <4>2
      <3> QED
        BY <1>3, <2>4, <3>1, <3>2 DEF Explains
    <2> QED
      BY <1>3, <2>3, <2>5, NothingTypes DEF ParamKnown
  <1>14. MetaFits'
    BY <1>3, <1>6, <1>7, <1>9 DEF CalInv, MetaFits
  <1> QED
    BY <1>3, <1>8, <1>10, <1>11, <1>12, <1>14 DEF CalInv

LEMMA RollbackReadKeeps == ASSUME CalInv, NEW i \in ProposalIds, RollbackReads(i) PROVE CalInv'
  <1>1. PICK w : w = [doing |-> "rollback", set |-> FALSE, id |-> i, record |-> proposals[i]]
    OBVIOUS
  <1>2. /\ write.doing = "idle" /\ proposals[i].status = "APPLIED" /\ write' = w
        /\ calm' = (calm /\ LastApplied(i) /\ i \notin overStray)
        /\ UNCHANGED <<param, proposals, gens, days, values, applications, stray, overStray, meta>>
    BY <1>1 DEF RollbackReads, AtRest
  <1>3. w \in Write /\ w.doing = "rollback" /\ w.set = FALSE /\ w.id = i /\ w.record = proposals[i]
    BY <1>1 DEF CalInv, CalTypeOK, Write
  <1>4. WriteFits'
    BY <1>2, <1>3 DEF WriteFits, InForce
  <1>5. calm' => Remembers /\ ParamKnown'
    <2> SUFFICES ASSUME calm' PROVE Remembers /\ ParamKnown'
      OBVIOUS
    <2>1. Remembers /\ ParamKnown /\ ~write.set
      BY <1>2 DEF CalInv, WriteFits
    <2>2. LastApplied(i)'
      BY <1>2 DEF LastApplied, InForce
    <2>3. ~stray => Explains(proposals', param', applications' + 1)
      BY <1>2, <2>1 DEF ParamKnown, Explains, InForceIn
    <2> QED
      BY <1>2, <1>3, <2>1, <2>2, <2>3 DEF ParamKnown
  <1>6. param' \in Value /\ stray' \in BOOLEAN /\ calm' \in BOOLEAN
    BY <1>2 DEF CalInv, CalTypeOK
  <1> QED
    BY <1>2, <1>3, <1>4, <1>5, <1>6, RecordsStay

LEMMA RollbackSetKeeps == ASSUME CalInv, RollbackSets PROVE CalInv'
  <1>1. PICK w : w = [write EXCEPT !.set = TRUE]
    OBVIOUS
  <1>2. /\ write.doing = "rollback" /\ ~write.set /\ param' = write.record.appliedFrom /\ write' = w
        /\ UNCHANGED <<proposals, gens, days, values, applications, stray, overStray, calm, meta>>
    BY <1>1 DEF RollbackSets
  <1>3. w \in Write /\ w.doing = "rollback" /\ w.set = TRUE /\ w.id = write.id /\ w.record = write.record
    BY <1>1, <1>2 DEF CalInv, CalTypeOK, Write
  <1>4. WriteFits'
    BY <1>2, <1>3 DEF CalInv, WriteFits, InForce
  <1>5. calm => Remembers /\ ParamKnown'
    BY <1>2, <1>3 DEF CalInv, ParamKnown, LastApplied, InForce
  <1>6. param' \in Value /\ stray \in BOOLEAN /\ calm \in BOOLEAN
    BY <1>2 DEF CalInv, CalTypeOK, Write, Proposal
  <1> QED
    BY <1>2, <1>3, <1>4, <1>5, <1>6, RecordsStay

\* The latest record in force goes; what it remembers is what the ones before it explain.
LEMMA RollbackKeeps == ASSUME ~CopiesRace, CalInv, RollbackRecords PROVE CalInv'
  <1>1. PICK n : n = write.id
    OBVIOUS
  <1>2. PICK x : x = [write.record EXCEPT !.status = "ROLLED_BACK"]
    OBVIOUS
  <1>3. /\ write.doing = "rollback" /\ write.set /\ proposals' = [proposals EXCEPT ![n] = x] /\ write' = NoWrite
        /\ meta[n] = NoProposal
        /\ stray' = FALSE /\ UNCHANGED <<param, gens, days, values, applications, overStray, calm, meta>>
    BY <1>1, <1>2 DEF RollbackRecords
  <1>4. n \in InForce /\ n \in ProposalIds /\ write.record = proposals[n] /\ write.record \in Proposal
    BY <1>1, <1>3 DEF CalInv, CalTypeOK, WriteFits, Write, InForce
  <1>5. x \in Proposal /\ x.status = "ROLLED_BACK"
    BY <1>2, <1>4 DEF Proposal
  <1>6. \A i \in ProposalIds : proposals'[i] = IF i = n THEN x ELSE proposals[i]
    BY <1>3, <1>4 DEF CalInv, CalTypeOK
  <1>7. InForce' = InForce \ {n} /\ History' = History
    BY <1>4, <1>5, <1>6 DEF InForce, History
  <1>8. CalTypeOK'
    BY <1>3, <1>4, <1>5, NothingTypes DEF CalInv, CalTypeOK
  <1>9. Stamped'
    BY <1>3, <1>6, <1>7 DEF CalInv, Stamped, InForce
  <1>10. GensKeep' /\ WriteFits'
    BY <1>3, <1>7, NothingTypes DEF CalInv, GensKeep, WriteFits, Open
  <1>11. ASSUME calm PROVE Remembers' /\ ParamKnown'
    <2>1. LastApplied(n) /\ n \notin overStray /\ param = proposals[n].appliedFrom /\ Remembers
      BY <1>1, <1>3, <1>4, <1>11 DEF CalInv, ParamKnown
    <2>2. InForceIn(proposals') = InForce \ {n} /\ InForceIn(proposals) = InForce
      BY <1>7 DEF InForce, InForceIn
    <2>3. \A i \in InForce : i \in ProposalIds /\ proposals[i].appliedAt \in Nat /\ proposals[i].appliedAt <= proposals[n].appliedAt
                             /\ proposals[i].appliedAt <= applications
                             /\ (i # n => proposals[i].appliedAt < proposals[n].appliedAt /\ proposals'[i] = proposals[i])
      <3> SUFFICES ASSUME NEW i \in InForce
                   PROVE  /\ i \in ProposalIds /\ proposals[i].appliedAt \in Nat /\ proposals[i].appliedAt <= proposals[n].appliedAt
                          /\ proposals[i].appliedAt <= applications
                          /\ (i # n => proposals[i].appliedAt < proposals[n].appliedAt /\ proposals'[i] = proposals[i])
        OBVIOUS
      <3>1. i \in ProposalIds /\ proposals[i].appliedAt <= proposals[n].appliedAt /\ proposals[i].appliedAt <= applications
        BY <2>1 DEF LastApplied, InForce, CalInv, Stamped
      <3>2. proposals[i].appliedAt \in Nat /\ proposals[n].appliedAt \in Nat
        BY <1>4, <3>1 DEF CalInv, CalTypeOK, Proposal
      <3>3. i # n => proposals[i].appliedAt # proposals[n].appliedAt
        BY <1>4 DEF CalInv, Stamped
      <3> QED
        BY <1>6, <3>1, <3>2, <3>3
    <2>4. \A v, m : m \in Nat /\ m <= proposals[n].appliedAt /\ Explains(proposals, v, m) => Explains(proposals', v, m)
      BY <1>4, <2>2, <2>3 DEF Explains
    <2>5. Remembers'
      <3> SUFFICES ASSUME NEW i \in InForce', i \notin overStray'
                   PROVE  Explains(proposals', proposals'[i].appliedFrom, proposals'[i].appliedAt)
        BY DEF Remembers
      <3>1. i \in InForce /\ i # n /\ i \notin overStray /\ proposals'[i] = proposals[i]
        BY <1>3, <1>7, <2>3
      <3>2. Explains(proposals, proposals[i].appliedFrom, proposals[i].appliedAt)
        BY <2>1, <3>1 DEF Remembers
      <3> QED
        BY <2>3, <2>4, <3>1, <3>2
    <2>6. Explains(proposals', param, proposals[n].appliedAt)
      <3>1. Explains(proposals, param, proposals[n].appliedAt)
        BY <1>4, <2>1 DEF Remembers
      <3> QED
        BY <1>4, <2>3, <2>4, <3>1
    <2>7. Explains(proposals', param', applications' + 1)
      <3>1. \A i \in InForceIn(proposals') : /\ proposals'[i].appliedAt \in Nat
                                             /\ proposals'[i].appliedAt < proposals[n].appliedAt
                                             /\ proposals'[i].appliedAt < applications + 1
        <4> SUFFICES ASSUME NEW i \in InForceIn(proposals')
                     PROVE  /\ proposals'[i].appliedAt \in Nat
                            /\ proposals'[i].appliedAt < proposals[n].appliedAt
                            /\ proposals'[i].appliedAt < applications + 1
          OBVIOUS
        <4>1. i \in InForce /\ i # n
          BY <2>2
        <4> QED
          BY <2>3, <4>1 DEF CalInv, CalTypeOK
      <3>2. applications \in Nat /\ proposals[n].appliedAt \in Nat
        BY <1>4, <2>3 DEF CalInv, CalTypeOK
      <3>3. param' = param /\ applications' = applications
        BY <1>3
      <3> QED
        BY <2>6, <3>1, <3>2, <3>3 DEF Explains
    <2> QED
      BY <1>3, <2>5, <2>7, NothingTypes DEF ParamKnown
  <1>12. MetaFits'
    BY <1>3, <1>6, <1>7 DEF CalInv, MetaFits
  <1> QED
    BY <1>3, <1>8, <1>9, <1>10, <1>11, <1>12 DEF CalInv

LEMMA WriteBreakKeeps == ASSUME CalInv, WriteBreaks PROVE CalInv'
  <1>1. /\ write' = NoWrite /\ stray' = (stray \/ write.set)
        /\ UNCHANGED <<param, proposals, gens, days, values, applications, overStray, calm, meta>>
    BY DEF WriteBreaks
  <1>2. WriteFits'
    BY <1>1, NothingTypes DEF WriteFits
  <1>3. calm => Remembers /\ ParamKnown'
    <2> SUFFICES ASSUME calm PROVE Remembers /\ ParamKnown'
      OBVIOUS
    <2>1. ~stray' => Explains(proposals', param', applications' + 1)
      BY <1>1 DEF CalInv, ParamKnown, Explains, InForceIn
    <2> QED
      BY <1>1, <2>1, NothingTypes DEF CalInv, ParamKnown
  <1>4. write' \in Write /\ param' \in Value /\ stray' \in BOOLEAN /\ calm' \in BOOLEAN
    BY <1>1, NothingTypes DEF CalInv, CalTypeOK, Write
  <1> QED
    BY <1>1, <1>2, <1>3, <1>4, RecordsStay

\* What the meta loop puts back is what is there.
LEMMA MetaKeeps ==
    ASSUME CalInv, MetaLists \/ \E i \in ProposalIds : MetaPuts(i) \/ MetaSkips(i)
    PROVE  CalInv' /\ proposals' = proposals
  <1>1. UNCHANGED <<param, gens, write, days, values, applications, stray, overStray, calm>>
    BY DEF MetaLists, MetaPuts, MetaSkips
  <1>2. proposals' = proposals
    <2>1. ASSUME NEW i \in ProposalIds, MetaPuts(i) PROVE proposals' = proposals
      BY <2>1 DEF MetaPuts, CalInv, CalTypeOK, MetaFits
    <2> QED
      BY <2>1 DEF MetaLists, MetaSkips
  <1>3. InForce' = InForce /\ History' = History
    BY <1>2 DEF InForce, History
  <1>4. meta' \in [ProposalIds -> Proposal] /\ MetaFits'
    <2>1. CASE MetaLists
      BY <1>2, <1>3, <2>1, NothingTypes DEF MetaLists, CalInv, CalTypeOK, MetaFits
    <2>2. ASSUME NEW i \in ProposalIds, meta' = [meta EXCEPT ![i] = NoProposal]
          PROVE  meta' \in [ProposalIds -> Proposal] /\ MetaFits'
      BY <1>2, <1>3, <2>2, NothingTypes DEF CalInv, CalTypeOK, MetaFits
    <2> QED
      BY <2>1, <2>2 DEF MetaPuts, MetaSkips
  <1>5. CalTypeOK' /\ Stamped' /\ GensKeep' /\ WriteFits'
    BY <1>1, <1>2, <1>3, <1>4 DEF CalInv, CalTypeOK, Stamped, GensKeep, WriteFits, Open
  <1>6. ASSUME calm PROVE Remembers' /\ ParamKnown'
    <2>1. Remembers /\ ParamKnown
      BY <1>6 DEF CalInv
    <2>2. LastApplied(write.id)' <=> LastApplied(write.id)
      BY <1>1, <1>2, <1>3 DEF LastApplied
    <2>3. Remembers'
      BY <1>1, <1>2, <1>3, <2>1 DEF Remembers
    <2>4. ParamKnown'
      BY <1>1, <1>2, <2>1, <2>2 DEF ParamKnown
    <2> QED
      BY <2>3, <2>4
  <1> QED
    BY <1>1, <1>2, <1>4, <1>5, <1>6 DEF CalInv

LEMMA NextCal == ~CopiesRace /\ CalInv /\ [CalNext]_calVars => CalInv'
  <1>1. ASSUME CalInv, UNCHANGED calVars PROVE CalInv'
    <2>1. CalTypeOK' /\ GensKeep' /\ WriteFits' /\ History' = History
      BY <1>1 DEF calVars, CalInv, CalTypeOK, GensKeep, WriteFits, InForce, History, Open
    <2> QED
      BY <1>1, <2>1, OpenStep DEF calVars
  <1> QED
    BY <1>1, GenDecidesKeeps, GenFindsKeeps, GenPutsKeeps, GenBreaksKeeps, CalDayKeeps, ApproveReadKeeps, SetKeeps, RecordKeeps,
       RollbackReadKeeps, RollbackSetKeeps, RollbackKeeps, WriteBreakKeeps, MetaKeeps DEF CalNext

\* The history of the proposals says what the parameter is, for any slices, proposals, rollbacks and
\* generations that overlap with them, as long as no record is applied that a generation is about to
\* put its own over, nor rolled back while the meta loop is about to put its copy.
THEOREM HistoryExplainsAlways ==
    ASSUME ~CopiesRace
    PROVE  CalSpec => []HistoryExplains
  <1>1. CalInit => CalInv
    BY InitCal
  <1>2. CalInv /\ [CalNext]_calVars => CalInv'
    BY NextCal
  <1>3. CalInv => HistoryExplains
    <2> SUFFICES ASSUME CalInv, calm, ~stray, AtRest
                 PROVE  \/ InForce = {} /\ param = 0
                        \/ \E i \in InForce : LastApplied(i) /\ param = proposals[i].value
      BY DEF HistoryExplains
    <2>1. Explains(proposals, param, applications + 1)
      BY DEF CalInv, ParamKnown, WriteFits, AtRest
    <2>2. \A i \in InForce : proposals[i].appliedAt < applications + 1 /\ ~(proposals[i].appliedAt >= applications + 1)
      <3> SUFFICES ASSUME NEW i \in InForce
                   PROVE  proposals[i].appliedAt < applications + 1 /\ ~(proposals[i].appliedAt >= applications + 1)
        OBVIOUS
      <3>1. proposals[i].appliedAt \in Nat /\ proposals[i].appliedAt <= applications /\ applications \in Nat
        BY DEF CalInv, CalTypeOK, Proposal, Stamped, InForce
      <3> QED
        BY <3>1
    <2> QED
      BY <2>1, <2>2, HistoryFacts DEF Explains, LastApplied
  <1> QED
    BY <1>1, <1>2, <1>3, PTL DEF CalSpec

\* Under the same premise, what was applied or rolled back stays in the history with its value,
\* whatever overlaps and breaks off.
THEOREM HistoryKeptAlways ==
    ASSUME ~CopiesRace
    PROVE  CalSpec => HistoryKept
  <1>1. CalInit => CalInv
    BY InitCal
  <1>2. CalInv /\ [CalNext]_calVars => CalInv'
    BY NextCal
  <1>3. CalInv /\ [CalNext]_calVars => [\A i \in History : i \in History' /\ proposals'[i].value = proposals[i].value]_calVars
    <2> SUFFICES ASSUME CalInv, CalNext, NEW i \in History PROVE i \in History' /\ proposals'[i].value = proposals[i].value
      OBVIOUS
    <2>1. i \in ProposalIds /\ proposals[i] \in Proposal
      BY DEF History, CalInv, CalTypeOK
    <2>2. CASE UNCHANGED proposals
      BY <2>2 DEF History
    <2>3. ASSUME NEW g \in Generations, GenPuts(g) PROVE proposals'[i] = proposals[i]
      <3>1. gens[g].id # i /\ proposals' = [proposals EXCEPT ![gens[g].id] = gens[g].record]
        BY <2>3 DEF GenPuts, CalInv, GensKeep
      <3> QED
        BY <2>1, <3>1 DEF CalInv, CalTypeOK
    <2>4. ASSUME ApplyRecords PROVE proposals'[i] = proposals[i]
      <3>1. write.id # i /\ \E x : proposals' = [proposals EXCEPT ![write.id] = x]
        BY <2>4 DEF ApplyRecords, CalInv, WriteFits
      <3> QED
        BY <2>1, <3>1 DEF CalInv, CalTypeOK
    <2>5. ASSUME RollbackRecords PROVE i \in History' /\ proposals'[i].value = proposals[i].value
      <3>1. PICK x : x = [write.record EXCEPT !.status = "ROLLED_BACK"]
        OBVIOUS
      <3>2. write.id \in ProposalIds /\ write.record = proposals[write.id] /\ proposals' = [proposals EXCEPT ![write.id] = x]
        BY <2>5, <3>1 DEF RollbackRecords, CalInv, WriteFits, InForce
      <3>3. proposals'[i] = IF i = write.id THEN x ELSE proposals[i]
        BY <2>1, <3>2 DEF CalInv, CalTypeOK
      <3>4. i = write.id => x.status = "ROLLED_BACK" /\ x.value = proposals[i].value
        BY <2>1, <3>1, <3>2 DEF Proposal
      <3> QED
        BY <2>1, <3>3, <3>4 DEF History
    <2>6. proposals'[i] = proposals[i] => i \in History' /\ proposals'[i].value = proposals[i].value
      BY <2>1 DEF History
    <2> QED
      BY <2>2, <2>3, <2>4, <2>5, <2>6, MetaKeeps DEF CalNext, GenDecides, GenLists, GenGets, GenBreaks, DayPasses,
         ApproveReads, ApplySets, RollbackReads, RollbackSets, WriteBreaks
  <1> QED
    BY <1>1, <1>2, <1>3, PTL DEF CalSpec, HistoryKept

-----------------------------------------------------------------------------
(* Materialisation and quarantine *)

\* The id of an object is one of the ids its row's keys make.
ObjectSound(i, r) == r # "none" => \E key \in KeysFor(r) : i = IdOf[key]

\* A row is in its place: an object, or put over by another row since it was one, or in the
\* quarantine on a row nobody is about to mark.
Stored(r) == (\E i \in MadeIds : objects[i] = r) \/ PutOver(r)
Waits(q) == quarantine[q].status \in {"PENDING", "DISCARDED"}
            /\ \A p \in Repairs : ~(repairs[p].at = "row" /\ repairs[p].q = q)
Placed(r) == Stored(r) \/ \E q \in DOMAIN quarantine : quarantine[q].row = r /\ Waits(q)
PlacedBefore(n) == \A i \in 1..(n - 1) : Placed(Rows[i])

\* All rows are in their places, or a job is on its way to the end that has left none behind.
Complete == \E n \in 1..(Len(Rows) + 1) :
    PlacedBefore(n) /\ (n = Len(Rows) + 1 \/ \E j \in Jobs : jobs[j].next = n)

MatInv ==
    /\ MatTypeOK
    /\ \A i \in MadeIds : ObjectSound(i, objects[i])
    /\ ~cutShort => Complete

LEMMA RowFacts ==
    /\ Len(Rows) \in Nat /\ DOMAIN Rows = 1..Len(Rows)
    /\ \A i \in DOMAIN Rows : Rows[i] \in RowSet
    /\ \A r \in RowSet : r # "none" /\ \E i \in DOMAIN Rows : Rows[i] = r
    /\ \A r \in RowSet : \A key \in KeysFor(r) : key \in Keys /\ IdOf[key] \in MadeIds
  BY MaterializeAssumption DEF RowSet, Keys, MadeIds

LEMMA NoneRunning == NoJob \in Job /\ NoJob.next = 0 /\ NoRepair \in Repair /\ NoRepair.at = "idle"
  BY RowFacts DEF NoJob, Job, NoRepair, Repair

LEMMA InitMat == MatInit => MatInv
  BY NoneRunning DEF MatInit, MatInv, MatTypeOK, ObjectSound

\* Whoever puts an object leaves its own row stored, and every other: the one it has put over had its
\* object under an id that its keys make.
LEMMA PutStores ==
    ASSUME MatInv, NEW r \in RowSet, NEW key \in KeysFor(r), PutObject(r, key)
    PROVE  /\ objects' \in [MadeIds -> RowSet \cup {"none"}] /\ replaced' \subseteq RowSet
           /\ \A i \in MadeIds : ObjectSound(i, objects'[i])
           /\ Stored(r)' /\ \A b \in RowSet : Stored(b) => Stored(b)'
  <1>1. PICK n : n = IdOf[key]
    OBVIOUS
  <1>2. n \in MadeIds /\ objects' = [objects EXCEPT ![n] = r] /\ replaced' = (replaced \cup ({objects[n]} \ {"none"})) \ {r}
    BY <1>1, RowFacts DEF PutObject
  <1>3. objects' \in [MadeIds -> RowSet \cup {"none"}] /\ \A i \in MadeIds : objects'[i] = IF i = n THEN r ELSE objects[i]
    BY <1>2 DEF MatInv, MatTypeOK
  <1>4. replaced' \subseteq RowSet
    BY <1>2 DEF MatInv, MatTypeOK
  <1>5. \A i \in MadeIds : ObjectSound(i, objects'[i])
    BY <1>1, <1>3 DEF MatInv, ObjectSound
  <1>6. Stored(r)'
    BY <1>2, <1>3 DEF Stored
  <1>7. ASSUME NEW b \in RowSet, b # r, Stored(b) PROVE Stored(b)'
    <2>1. b # "none" /\ r # "none"
      BY RowFacts
    <2>2. ASSUME NEW i \in MadeIds, objects[i] = b, i # n PROVE Stored(b)'
      BY <1>3, <2>2 DEF Stored
    <2>3. CASE objects[n] = b
      <3>1. PICK k \in KeysFor(b) : n = IdOf[k]
        BY <1>2, <2>1, <2>3 DEF MatInv, ObjectSound
      <3>2. b \in replaced' /\ objects'[IdOf[k]] \notin {"none", b}
        BY <1>2, <1>3, <1>7, <2>1, <2>3, <3>1
      <3> QED
        BY <3>2 DEF Stored, PutOver
    <2>4. CASE PutOver(b)
      <3>1. PICK k \in KeysFor(b) : objects[IdOf[k]] \notin {"none", b}
        BY <2>4 DEF PutOver
      <3>2. objects'[IdOf[k]] \notin {"none", b}
        BY <1>3, <1>7, <2>1, <3>1, RowFacts
      <3>3. b \in replaced'
        BY <1>2, <1>7, <2>4 DEF PutOver
      <3> QED
        BY <3>2, <3>3 DEF Stored, PutOver
    <2> QED
      BY <1>7, <2>2, <2>3, <2>4 DEF Stored
  <1> QED
    BY <1>3, <1>4, <1>5, <1>6, <1>7

LEMMA StoredStays == ASSUME UNCHANGED <<objects, replaced>>, NEW r PROVE Stored(r) => Stored(r)'
  BY DEF Stored, PutOver

\* What is in its place stays there unless a job clears the objects: what is stored stays so, and no
\* row of the quarantine is marked.
LEMMA PlacesStay ==
    ASSUME \A r \in RowSet : Stored(r) => Stored(r)',
           \A q \in DOMAIN quarantine : q \in DOMAIN quarantine' /\ quarantine'[q].row = quarantine[q].row /\ (Waits(q) => Waits(q)')
    PROVE  \A r \in RowSet : Placed(r) => Placed(r)'
  BY DEF Placed

\* What was done before is done after, unless a job clears or breaks off.
LEMMA CompletenessStays ==
    ASSUME MatInv, \A r \in RowSet : Placed(r) => Placed(r)', UNCHANGED jobs, Complete
    PROVE  Complete'
  BY RowFacts DEF Complete, PlacedBefore

\* A job does its next row, which is in its place then, or has none left and ends.
LEMMA CompletenessGrows ==
    ASSUME MatInv, \A r \in RowSet : Placed(r) => Placed(r)', Complete,
           NEW j \in Jobs, NEW w \in Job, jobs' = [jobs EXCEPT ![j] = w], NEW row, row = jobs[j].next,
           \/ row \in DOMAIN Rows /\ w.next = row + 1 /\ Placed(Rows[row])'
           \/ row = Len(Rows) + 1
    PROVE  Complete'
  <1>1. PICK n \in 1..(Len(Rows) + 1) :
           PlacedBefore(n) /\ (n = Len(Rows) + 1 \/ \E k \in Jobs : jobs[k].next = n)
    BY DEF Complete
  <1>2. PlacedBefore(n)'
    BY <1>1, RowFacts DEF PlacedBefore
  <1>3. jobs'[j] = w /\ \A k \in Jobs : k # j => jobs'[k] = jobs[k]
    BY DEF MatInv, MatTypeOK
  <1>4. CASE n = Len(Rows) + 1 \/ \E k \in Jobs : k # j /\ jobs[k].next = n
    BY <1>1, <1>2, <1>3, <1>4 DEF Complete
  <1>5. CASE row = n /\ n # Len(Rows) + 1
    <2>1. n \in DOMAIN Rows /\ w.next = n + 1 /\ Placed(Rows[n])' /\ n + 1 \in 1..(Len(Rows) + 1)
      BY <1>5, RowFacts
    <2>2. PlacedBefore(n + 1)'
      BY <1>2, <2>1, RowFacts DEF PlacedBefore
    <2> QED
      BY <1>3, <2>1, <2>2 DEF Complete
  <1> QED
    BY <1>1, <1>4, <1>5

\* A step of a job on a row: the row becomes an object, or another row of the quarantine.
LEMMA JobKeeps ==
    ASSUME MatInv, NEW j \in Jobs, NEW w \in Job, jobs' = [jobs EXCEPT ![j] = w],
           UNCHANGED <<repairs, cutShort>>, MatTypeOK', \A i \in MadeIds : ObjectSound(i, objects'[i]),
           \A r \in RowSet : Placed(r) => Placed(r)', NEW n, n = jobs[j].next,
           \/ n \in DOMAIN Rows /\ w.next = n + 1 /\ Placed(Rows[n])'
           \/ n = Len(Rows) + 1
    PROVE  MatInv'
  <1>1. ASSUME ~cutShort' PROVE Complete'
    <2>1. Complete
      BY <1>1 DEF MatInv
    <2>2. CASE n \in DOMAIN Rows /\ w.next = n + 1 /\ Placed(Rows[n])'
      BY <2>1, <2>2, CompletenessGrows
    <2>3. CASE n = Len(Rows) + 1
      BY <2>1, <2>3, CompletenessGrows
    <2> QED
      BY <2>2, <2>3
  <1> QED
    BY <1>1 DEF MatInv

LEMMA ClearKeeps == ASSUME MatInv, NEW j \in Jobs, JobClears(j) PROVE MatInv'
  <1>1. PICK w : w = [next |-> 1, seen |-> {}]
    OBVIOUS
  <1>2. /\ objects' = [i \in MadeIds |-> "none"] /\ replaced' = {} /\ jobs' = [jobs EXCEPT ![j] = w] /\ cutShort' = FALSE
        /\ UNCHANGED <<quarantine, repairs>>
    BY <1>1 DEF JobClears
  <1>3. w \in Job /\ w.next = 1
    BY <1>1, RowFacts DEF Job
  <1>4. jobs' \in [Jobs -> Job] /\ jobs'[j] = w /\ \A k \in Jobs : k # j => jobs'[k] = jobs[k]
    BY <1>2, <1>3 DEF MatInv, MatTypeOK
  <1>5. MatTypeOK'
    BY <1>2, <1>4 DEF MatInv, MatTypeOK
  <1>6. Complete'
    <2>1. 1 \in 1..(Len(Rows) + 1) /\ PlacedBefore(1)'
      BY RowFacts DEF PlacedBefore
    <2> QED
      BY <1>3, <1>4, <2>1 DEF Complete
  <1> QED
    BY <1>2, <1>5, <1>6 DEF MatInv, ObjectSound

LEMMA QuarantinedKeeps == ASSUME MatInv, NEW j \in Jobs, RowQuarantined(j) PROVE MatInv'
  <1>1. PICK n : n = jobs[j].next
    OBVIOUS
  <1>2. PICK x : x = [row |-> Rows[n], status |-> "PENDING"]
    OBVIOUS
  <1>3. PICK w : w = [jobs[j] EXCEPT !.next = n + 1]
    OBVIOUS
  <1>4. /\ n \in DOMAIN Rows /\ Bad(j, Rows[n]) /\ quarantine' = Append(quarantine, x) /\ jobs' = [jobs EXCEPT ![j] = w]
        /\ UNCHANGED <<objects, repairs, cutShort, replaced>>
    BY <1>1, <1>2, <1>3 DEF RowQuarantined
  <1>5. x \in QuarantineRow /\ x.row = Rows[n] /\ x.status = "PENDING"
    BY <1>2, <1>4, RowFacts DEF QuarantineRow
  <1>6. w \in Job /\ w.next = n + 1 /\ w.seen = jobs[j].seen
    <2>1. jobs[j] \in Job /\ n + 1 \in 0..(Len(Rows) + 1)
      BY <1>4, RowFacts DEF MatInv, MatTypeOK
    <2> QED
      BY <1>3, <2>1 DEF Job
  <1>7. PICK m : m = Len(quarantine) + 1
    OBVIOUS
  <1>8. /\ quarantine' \in Seq(QuarantineRow) /\ m \in DOMAIN quarantine' /\ m \notin DOMAIN quarantine /\ quarantine'[m] = x
        /\ \A q \in DOMAIN quarantine : q \in DOMAIN quarantine' /\ quarantine'[q] = quarantine[q]
    BY <1>4, <1>5, <1>7 DEF MatInv, MatTypeOK
  <1>9. MatTypeOK'
    BY <1>4, <1>6, <1>8 DEF MatInv, MatTypeOK
  <1>10. \A r \in RowSet : Placed(r) => Placed(r)'
    BY <1>4, <1>8, StoredStays, PlacesStay DEF Waits
  <1>11. Placed(Rows[n])'
    <2>1. Waits(m)'
      BY <1>4, <1>5, <1>8 DEF Waits, MatInv, MatTypeOK
    <2> QED
      BY <1>5, <1>8, <2>1 DEF Placed
  <1> QED
    BY <1>1, <1>4, <1>6, <1>9, <1>10, <1>11, JobKeeps DEF MatInv

LEMMA ObjectKeeps == ASSUME MatInv, NEW j \in Jobs, RowBecomesObject(j) PROVE MatInv'
  <1>1. PICK n : n = jobs[j].next
    OBVIOUS
  <1>2. PICK r : r = Rows[n]
    OBVIOUS
  <1>3. PICK w : w = [next |-> n + 1, seen |-> jobs[j].seen \cup {KeyOf[r]}]
    OBVIOUS
  <1>4. /\ n \in DOMAIN Rows /\ ~Bad(j, r) /\ PutObject(r, KeyOf[r]) /\ jobs' = [jobs EXCEPT ![j] = w]
        /\ UNCHANGED <<quarantine, repairs, cutShort>>
    BY <1>1, <1>2, <1>3 DEF RowBecomesObject
  <1>5. r \in RowSet /\ KeyOf[r] \in KeysFor(r) /\ KeyOf[r] \in Keys /\ n \in 1..Len(Rows)
    BY <1>2, <1>4, RowFacts DEF Bad, KeysFor
  <1>6. w \in Job /\ w.next = n + 1
    BY <1>3, <1>5, RowFacts DEF MatInv, MatTypeOK, Job
  <1>7. /\ objects' \in [MadeIds -> RowSet \cup {"none"}] /\ replaced' \subseteq RowSet
        /\ \A i \in MadeIds : ObjectSound(i, objects'[i])
        /\ Stored(r)' /\ \A b \in RowSet : Stored(b) => Stored(b)'
    BY <1>4, <1>5, PutStores
  <1>8. MatTypeOK'
    BY <1>4, <1>6, <1>7 DEF MatInv, MatTypeOK
  <1>9. \A b \in RowSet : Placed(b) => Placed(b)'
    BY <1>4, <1>7, PlacesStay DEF Waits
  <1>10. Placed(Rows[n])'
    BY <1>2, <1>7 DEF Placed
  <1> QED
    BY <1>1, <1>4, <1>6, <1>7, <1>8, <1>9, <1>10, JobKeeps

LEMMA MatEndKeeps == ASSUME MatInv, NEW j \in Jobs, JobEnds(j) PROVE MatInv'
  <1>1. /\ jobs[j].next = Len(Rows) + 1 /\ jobs' = [jobs EXCEPT ![j] = NoJob]
        /\ UNCHANGED <<objects, quarantine, repairs, cutShort, replaced>>
    BY DEF JobEnds
  <1>2. MatTypeOK'
    BY <1>1, NoneRunning DEF MatInv, MatTypeOK
  <1>3. \A r \in RowSet : Placed(r) => Placed(r)'
    BY <1>1, StoredStays, PlacesStay DEF Waits
  <1> QED
    BY <1>1, <1>2, <1>3, NoneRunning, JobKeeps DEF MatInv

LEMMA JobBreakKeeps == ASSUME MatInv, NEW j \in Jobs, JobBreaks(j) PROVE MatInv'
  <1>1. jobs' = [jobs EXCEPT ![j] = NoJob] /\ cutShort' = TRUE /\ UNCHANGED <<objects, quarantine, repairs, replaced>>
    BY DEF JobBreaks
  <1>2. MatTypeOK'
    BY <1>1, NoneRunning DEF MatInv, MatTypeOK
  <1> QED
    BY <1>1, <1>2 DEF MatInv, ObjectSound

\* A step of a repair: its own state is the only one of the repairs' that changes.
LEMMA RepairKeeps ==
    ASSUME MatInv, UNCHANGED <<jobs, cutShort>>, MatTypeOK', \A i \in MadeIds : ObjectSound(i, objects'[i]),
           \A r \in RowSet : Placed(r) => Placed(r)'
    PROVE  MatInv'
  <1>1. ~cutShort' => Complete'
    BY CompletenessStays DEF MatInv
  <1> QED
    BY <1>1 DEF MatInv

\* A repair that moves on without marking a row.
LEMMA RepairMoves ==
    ASSUME MatInv, NEW p \in Repairs, NEW w \in Repair, w.at # "row", w.at # "idle" => w.q \in DOMAIN quarantine,
           repairs' = [repairs EXCEPT ![p] = w], UNCHANGED <<objects, quarantine, jobs, cutShort, replaced>>
    PROVE  MatInv'
  <1>1. repairs'[p] = w /\ \A u \in Repairs : u # p => repairs'[u] = repairs[u]
    BY DEF MatInv, MatTypeOK
  <1>2. MatTypeOK'
    BY <1>1 DEF MatInv, MatTypeOK
  <1>3. \A q : Waits(q) => Waits(q)'
    BY <1>1 DEF Waits
  <1>4. \A r \in RowSet : Placed(r) => Placed(r)'
    BY <1>3, StoredStays, PlacesStay
  <1> QED
    BY <1>2, <1>4, RepairKeeps DEF MatInv

LEMMA RepairReadKeeps ==
    ASSUME MatInv, NEW p \in Repairs, NEW q \in DOMAIN quarantine, ReprocessReads(p, q) \/ DiscardReads(p, q)
    PROVE  MatInv'
  <1>1. PICK to \in {"object", "discard"} :
           repairs' = [repairs EXCEPT ![p] = [at |-> to, q |-> q]] /\ UNCHANGED <<objects, quarantine, jobs, cutShort, replaced>>
    BY DEF ReprocessReads, DiscardReads
  <1>2. PICK w : w = [at |-> to, q |-> q]
    OBVIOUS
  <1>3. q \in Nat
    BY DEF MatInv, MatTypeOK
  <1>4. w \in Repair /\ w.at # "row" /\ w.q = q
    BY <1>1, <1>2, <1>3 DEF Repair
  <1>5. repairs' = [repairs EXCEPT ![p] = w]
    BY <1>1, <1>2
  <1> QED
    BY <1>1, <1>4, <1>5, RepairMoves

LEMMA RepairBreakKeeps == ASSUME MatInv, NEW p \in Repairs, RepairBreaks(p) PROVE MatInv'
  BY NoneRunning, RepairMoves DEF RepairBreaks

\* The object is put before the row is marked: the row is in its place by then.
LEMMA PutsObjectKeeps == ASSUME MatInv, NEW p \in Repairs, ReprocessPutsObject(p) PROVE MatInv'
  <1>1. PICK q : q = repairs[p].q
    OBVIOUS
  <1>2. PICK r : r = quarantine[q].row
    OBVIOUS
  <1>3. PICK w : w = [repairs[p] EXCEPT !.at = "row"]
    OBVIOUS
  <1>4. /\ repairs[p].at = "object" /\ \E key \in KeysFor(r) : PutObject(r, key)
        /\ repairs' = [repairs EXCEPT ![p] = w] /\ UNCHANGED <<quarantine, jobs, cutShort>>
    BY <1>1, <1>2, <1>3 DEF ReprocessPutsObject
  <1>5. q \in DOMAIN quarantine /\ repairs[p] \in Repair
    BY <1>1, <1>4 DEF MatInv, MatTypeOK
  <1>6. r \in RowSet
    <2>1. quarantine[q] \in QuarantineRow
      BY <1>5 DEF MatInv, MatTypeOK
    <2> QED
      BY <1>2, <2>1 DEF QuarantineRow
  <1>7. w \in Repair /\ w.at = "row" /\ w.q = q
    BY <1>1, <1>3, <1>5 DEF Repair
  <1>8. /\ objects' \in [MadeIds -> RowSet \cup {"none"}] /\ replaced' \subseteq RowSet
        /\ \A i \in MadeIds : ObjectSound(i, objects'[i])
        /\ Stored(r)' /\ \A b \in RowSet : Stored(b) => Stored(b)'
    BY <1>4, <1>6, PutStores
  <1>9. repairs'[p] = w /\ \A u \in Repairs : u # p => repairs'[u] = repairs[u]
    BY <1>4 DEF MatInv, MatTypeOK
  <1>10. MatTypeOK'
    BY <1>4, <1>5, <1>7, <1>8, <1>9 DEF MatInv, MatTypeOK
  <1>11. ASSUME NEW b \in RowSet, Placed(b) PROVE Placed(b)'
    <2>1. CASE b = r \/ Stored(b)
      BY <1>8, <2>1 DEF Placed
    <2>2. CASE b # r /\ \E x \in DOMAIN quarantine : quarantine[x].row = b /\ Waits(x)
      <3>1. PICK x \in DOMAIN quarantine : quarantine[x].row = b /\ Waits(x)
        BY <2>2
      <3>2. x # q
        BY <1>2, <2>2, <3>1
      <3>3. Waits(x)'
        BY <1>4, <1>7, <1>9, <3>1, <3>2 DEF Waits
      <3> QED
        BY <1>4, <3>1, <3>3 DEF Placed
    <2> QED
      BY <1>11, <2>1, <2>2 DEF Placed
  <1> QED
    BY <1>4, <1>8, <1>10, <1>11, RepairKeeps

\* A row of the quarantine is put back, as REPROCESSED or as DISCARDED.
LEMMA PutsRowKeeps == ASSUME MatInv, NEW p \in Repairs, ReprocessPutsRow(p) \/ DiscardPuts(p) PROVE MatInv'
  <1>1. PICK q : q = repairs[p].q
    OBVIOUS
  <1>2. PICK to \in {"REPROCESSED", "DISCARDED"} :
           /\ repairs[p].at = (IF to = "REPROCESSED" THEN "row" ELSE "discard")
           /\ quarantine' = [quarantine EXCEPT ![q].status = to]
           /\ repairs' = [repairs EXCEPT ![p] = NoRepair] /\ UNCHANGED <<objects, jobs, cutShort, replaced>>
    BY <1>1 DEF ReprocessPutsRow, DiscardPuts
  <1>3. PICK x : x = [quarantine[q] EXCEPT !.status = to]
    OBVIOUS
  <1>4. q \in DOMAIN quarantine /\ quarantine[q] \in QuarantineRow
    BY <1>1, <1>2 DEF MatInv, MatTypeOK
  <1>5. x \in QuarantineRow /\ x.status = to /\ x.row = quarantine[q].row
    BY <1>2, <1>3, <1>4 DEF QuarantineRow
  <1>6. quarantine' = [quarantine EXCEPT ![q] = x]
    BY <1>2, <1>3
  <1>7. /\ quarantine' \in Seq(QuarantineRow) /\ DOMAIN quarantine' = DOMAIN quarantine /\ quarantine'[q] = x
        /\ \A y \in DOMAIN quarantine : y # q => quarantine'[y] = quarantine[y]
    BY <1>4, <1>5, <1>6 DEF MatInv, MatTypeOK
  <1>8. repairs'[p] = NoRepair /\ \A u \in Repairs : u # p => repairs'[u] = repairs[u]
    BY <1>2 DEF MatInv, MatTypeOK
  <1>9. MatTypeOK'
    BY <1>2, <1>7, <1>8, NoneRunning DEF MatInv, MatTypeOK
  <1>10. \A y \in DOMAIN quarantine : Waits(y) => Waits(y)'
    <2> SUFFICES ASSUME NEW y \in DOMAIN quarantine, Waits(y) PROVE Waits(y)'
      OBVIOUS
    <2>1. \A u \in Repairs : ~(repairs'[u].at = "row" /\ repairs'[u].q = y)
      BY <1>8, NoneRunning DEF Waits
    <2>2. quarantine'[y].status \in {"PENDING", "DISCARDED"}
      BY <1>1, <1>2, <1>5, <1>7 DEF Waits
    <2> QED
      BY <2>1, <2>2 DEF Waits
  <1>11. \A r \in RowSet : Placed(r) => Placed(r)'
    BY <1>2, <1>5, <1>7, <1>10, StoredStays, PlacesStay
  <1> QED
    BY <1>2, <1>9, <1>11, RepairKeeps DEF MatInv

LEMMA NextMat == MatInv /\ [MatNext]_matVars => MatInv'
  <1>1. ASSUME MatInv, UNCHANGED matVars PROVE MatInv'
    <2>1. \A r \in RowSet : Placed(r) => Placed(r)'
      BY <1>1, StoredStays, PlacesStay DEF matVars, Waits
    <2>2. MatTypeOK'
      BY <1>1 DEF matVars, MatInv, MatTypeOK
    <2> QED
      BY <1>1, <2>1, <2>2, RepairKeeps DEF matVars, MatInv
  <1> QED
    BY <1>1, ClearKeeps, QuarantinedKeeps, ObjectKeeps, MatEndKeeps, JobBreakKeeps, RepairReadKeeps, PutsObjectKeeps,
       PutsRowKeeps, RepairBreakKeeps DEF MatNext

\* No row of a dataset gets lost between its objects and the quarantine, for any rows, keys, edits and
\* ids made of keys, and any number of materialisations, repairs and discards that overlap, unless
\* the last job to clear was cut short, but by having its object put over by a row of the same id.
THEOREM NothingLostAlways == MatSpec => []NothingLost
  <1>1. MatInit => MatInv
    BY InitMat
  <1>2. MatInv /\ [MatNext]_matVars => MatInv'
    BY NextMat
  <1>3. MatInv => NothingLost
    <2> SUFFICES ASSUME MatInv, \A j \in Jobs : jobs[j].next = 0, ~cutShort, NEW r \in RowSet PROVE Placed(r)
      BY DEF NothingLost, Placed, Stored, Waits
    <2>1. PlacedBefore(Len(Rows) + 1)
      BY RowFacts DEF MatInv, Complete
    <2>2. PICK i \in 1..Len(Rows) : Rows[i] = r
      BY RowFacts
    <2> QED
      BY <2>1, <2>2, RowFacts DEF PlacedBefore
  <1> QED
    BY <1>1, <1>2, <1>3, PTL DEF MatSpec

-----------------------------------------------------------------------------
(* The catalogue *)

LEMMA Greatest ==
    ASSUME NEW c \in Nat, NEW S \in SUBSET (0..c), S # {}
    PROVE  \E m \in S : \A n \in S : n <= m
  <1> DEFINE U == {c - n : n \in S}
  <1>1. U \in SUBSET Nat /\ U # {}
    <2>1. ASSUME NEW n \in S PROVE c - n \in Nat
      <3>1. n \in 0..c
        OBVIOUS
      <3> QED
        BY <3>1
    <2> QED
      BY <2>1
  <1>2. PICK u \in U : \A v \in U : u <= v
    <2> HIDE DEF U
    <2> QED
      BY <1>1, LeastNumber
  <1>3. PICK m \in S : u = c - m
    BY <1>2
  <1>4. ASSUME NEW n \in S PROVE n <= m
    <2>1. c - n \in U
      OBVIOUS
    <2>2. c - m <= c - n
      BY <1>2, <1>3, <2>1
    <2> QED
      BY <2>2
  <1> QED
    BY <1>4

\* The records made so far have numbers from 1 to c, so the next one has a number up to c + 1.
LEMMA NumbersGoOn ==
    ASSUME NEW table, NEW c \in Nat, \A r \in Made(table) : table[r].number \in 1..c
    PROVE  NextNumber(table) \in 1..c + 1
  <1> DEFINE numbers == {0} \cup {table[r].number : r \in Made(table)}
  <1>1. numbers \in SUBSET (0..c) /\ numbers # {}
    OBVIOUS
  <1> HIDE DEF numbers
  <1>2. \E n \in numbers : \A m \in numbers : m <= n
    BY <1>1, Greatest
  <1>3. (CHOOSE n \in numbers : \A m \in numbers : m <= n) \in 0..c
    BY <1>1, <1>2
  <1>4. NextNumber(table) = 1 + CHOOSE n \in numbers : \A m \in numbers : m <= n
    BY DEF NextNumber, numbers
  <1> QED
    BY <1>3, <1>4

LEMMA MadeIsFinite ==
    ASSUME NEW rows, IsFiniteSet(rows), NEW X, NEW table \in [rows -> X]
    PROVE  /\ Made(table) \subseteq rows /\ IsFiniteSet(Made(table))
           /\ Cardinality(Made(table)) \in Nat /\ Cardinality(Made(table)) <= Cardinality(rows)
           /\ Made(table) # rows => Cardinality(Made(table)) < Cardinality(rows)
  <1>1. Made(table) \subseteq rows
    BY DEF Made
  <1> QED
    BY <1>1, FS_Subset, FS_CardinalityType

\* An insertion takes a row that has not been made, and makes one more.
InsertsOne(table, rows, new) ==
    /\ NextRow(table) \in rows \ Made(table)
    /\ Cardinality(Made([table EXCEPT ![NextRow(table)] = new])) = Cardinality(Made(table)) + 1

\* The next row of a table that still has one to give.
LEMMA InsertionMakesOne ==
    ASSUME NEW rows \in SUBSET Nat, IsFiniteSet(rows), NEW X, NEW table \in [rows -> X], Made(table) # rows,
           NEW new, new.status # "none"
    PROVE  InsertsOne(table, rows, new)
  <1>1. Made(table) \subseteq rows /\ DOMAIN table = rows /\ IsFiniteSet(Made(table))
    BY MadeIsFinite
  <1>2. \E r \in rows \ Made(table) : \A q \in rows \ Made(table) : r <= q
    <2>1. rows \ Made(table) \in SUBSET Nat /\ rows \ Made(table) # {}
      BY <1>1
    <2> QED
      BY <2>1, LeastNumber
  <1>3. NextRow(table) \in rows \ Made(table)
    BY <1>1, <1>2 DEF NextRow
  <1>4. PICK k : k = NextRow(table)
    OBVIOUS
  <1> DEFINE after == [table EXCEPT ![k] = new]
  <1>5. after[k] = new /\ DOMAIN after = rows /\ \A r \in rows : r # k => after[r] = table[r]
    BY <1>1, <1>3, <1>4
  <1>6. Made(after) = Made(table) \cup {k}
    BY <1>1, <1>3, <1>4, <1>5 DEF Made
  <1>7. Cardinality(Made(after)) = Cardinality(Made(table)) + 1
    BY <1>1, <1>3, <1>4, <1>6, FS_AddElement
  <1> QED
    BY ONLY <1>3, <1>4, <1>7 DEF InsertsOne

\* A plan that is PUBLISHED is valid; a PUBLISHED intent pinned to a version has a plan.
PlansServe == \A r \in WithStatus(plans, "PUBLISHED") : plans[r].valid
HasPlan(i) == i.ref # 0 => \E r \in Made(plans) : plans[r].number = i.ref
PinsServe == \A i \in WithStatus(intents, "PUBLISHED") : HasPlan(intents[i])
OneServed == \A i, j \in WithStatus(intents, "PUBLISHED") : i = j

\* What a call on a plan holds: a copy of a DRAFT whose number it keeps, or a new DRAFT.
PlanCopy(op) ==
    /\ op.doing \in PlanOps => op.row \in PlanRows /\ plans[op.row].status = "DRAFT"
                               /\ plans[op.row].number = op.plan.number
    /\ op.doing = "publishPlan" => op.plan.status = "PUBLISHED" /\ op.plan.valid
    /\ op.doing \in {"createPlan", "updatePlan"} => op.plan.status = "DRAFT"

\* What one on an intent holds; what a publication has still to retire holds all that is PUBLISHED.
IntentCopy(op) ==
    /\ op.doing \in IntentOps => op.row \in IntentRows /\ intents[op.row].status = "DRAFT"
    /\ op.doing = "publishIntent" =>
          op.intent.status = "PUBLISHED" /\ HasPlan(op.intent) /\ WithStatus(intents, "PUBLISHED") \subseteq op.retire
    /\ op.doing \in {"createIntent", "updateIntent"} => op.intent.status = "DRAFT"
    /\ op.retire # {} => op.doing = "publishIntent"
    /\ \A r \in op.retire : intents[r].status \in {"PUBLISHED", "RETIRED"}

\* The numbers given so far go up to the number of records made.
Numbered ==
    /\ \A r \in Made(plans) : plans[r].number \in 1..Cardinality(Made(plans))
    /\ \A r \in Made(intents) : intents[r].number \in 1..Cardinality(Made(intents))

OpNumbered(op) ==
    /\ op.doing = "createPlan" => op.plan.number \in 1..Cardinality(Made(plans)) + 1
    /\ op.doing = "createIntent" => op.intent.number \in 1..Cardinality(Made(intents)) + 1
    /\ op.doing \in IntentOps => op.intent.number = intents[op.row].number

OpSound(op) == PlanCopy(op) /\ IntentCopy(op) /\ OpNumbered(op)

NoCollision == \A d, e \in CatalogEditors : Collides(catalogOps[d], catalogOps[e]) => d = e

CatalogInv ==
    /\ CatalogTypeOK /\ Numbered
    /\ PlansServe /\ PinsServe /\ OneServed /\ NoCollision
    /\ \A e \in CatalogEditors : OpSound(catalogOps[e])

LEMMA NoOpSound ==
    /\ NoCatalogOp \in CatalogOp /\ OpSound(NoCatalogOp)
    /\ \A op : ~Collides(op, NoCatalogOp) /\ ~Collides(NoCatalogOp, op)
  <1>1. NoCatalogOp \in CatalogOp
    BY DEF NoCatalogOp, CatalogOp, NoPlanRow, NoIntentRow, PlanRow, IntentRow, Statuses
  <1>2. NoCatalogOp.doing = "nothing" /\ NoCatalogOp.retire = {}
    BY DEF NoCatalogOp
  <1>3. OpSound(NoCatalogOp)
    BY <1>2 DEF OpSound, PlanCopy, IntentCopy, OpNumbered, PlanOps, IntentOps
  <1>4. \A op : ~Collides(op, NoCatalogOp) /\ ~Collides(NoCatalogOp, op)
    BY <1>2 DEF Collides, PlanOps, IntentOps
  <1> QED
    BY <1>1, <1>3, <1>4

\* A call begins; what it has read is what it will put.
LEMMA CallStartKeeps ==
    ASSUME CatalogInv, ~CollisionsAllowed, NEW e \in CatalogEditors, NEW op \in CatalogOp,
           Starts(e, op), OpSound(op), UNCHANGED <<plans, intents>>
    PROVE  CatalogInv'
  <1>1. /\ catalogOps' = [catalogOps EXCEPT ![e] = op] /\ \A d \in CatalogEditors : ~Collides(op, catalogOps[d])
        /\ catalogOps \in [CatalogEditors -> CatalogOp]
    BY DEF Starts, CatalogInv, CatalogTypeOK
  <1>2. \A d \in CatalogEditors : catalogOps'[d] = IF d = e THEN op ELSE catalogOps[d]
    BY <1>1
  <1>3. \A d \in CatalogEditors : ~Collides(catalogOps[d], op)
    BY <1>1 DEF Collides
  <1>4. NoCollision'
    BY <1>1, <1>2, <1>3 DEF CatalogInv, NoCollision
  <1>5. ASSUME NEW d \in CatalogEditors PROVE OpSound(catalogOps[d])'
    <2>1. OpSound(catalogOps'[d])
      BY <1>2 DEF CatalogInv
    <2> QED
      BY <2>1 DEF OpSound, PlanCopy, IntentCopy, OpNumbered, HasPlan, Made, WithStatus
  <1>6. CatalogTypeOK'
    BY <1>1 DEF CatalogInv, CatalogTypeOK
  <1>7. Numbered' /\ PlansServe' /\ PinsServe' /\ OneServed'
    BY DEF CatalogInv, Numbered, PlansServe, PinsServe, OneServed, HasPlan, Made, WithStatus
  <1> QED
    BY <1>4, <1>5, <1>6, <1>7 DEF CatalogInv

\* A plan version begins, is read to be updated, or is read to be published.
LEMMA PlanReadKeeps ==
    ASSUME CatalogInv, ~CollisionsAllowed, NEW e \in CatalogEditors,
           PlanNumbered(e) \/ \E r \in PlanRows : PlanUpdateRead(e, r) \/ PlanPublishRead(e, r)
    PROVE  CatalogInv'
  <1>1. /\ plans \in [PlanRows -> PlanRow] /\ IsFiniteSet(PlanRows) /\ PlanRows = 1..Cardinality(PlanRows)
        /\ Cardinality(PlanRows) \in Nat /\ Numbered
    BY CatalogAssumption, FS_CardinalityType DEF CatalogInv, CatalogTypeOK
  <1>2. NoCatalogOp \in CatalogOp /\ NoCatalogOp.retire = {}
    BY NoOpSound DEF NoCatalogOp
  <1>3. CASE PlanNumbered(e)
    <2>1. PICK valid \in BOOLEAN :
              Starts(e, [NoCatalogOp EXCEPT !.doing = "createPlan",
                         !.plan = [status |-> "DRAFT", number |-> NextNumber(plans), valid |-> valid]])
              /\ Made(plans) # PlanRows /\ UNCHANGED <<plans, intents>>
      BY <1>3 DEF PlanNumbered
    <2> DEFINE new == [status |-> "DRAFT", number |-> NextNumber(plans), valid |-> valid]
               op == [NoCatalogOp EXCEPT !.doing = "createPlan", !.plan = new]
    <2>2. NextNumber(plans) \in 1..Cardinality(Made(plans)) + 1 /\ Cardinality(Made(plans)) \in Nat
          /\ Cardinality(Made(plans)) < Cardinality(PlanRows)
      BY <1>1, <2>1, NumbersGoOn, MadeIsFinite DEF Numbered
    <2>3. NextNumber(plans) \in PlanRows
      BY <1>1, <2>2
    <2>4. new \in PlanRow
      BY <2>3 DEF PlanRow, Statuses
    <2> HIDE DEF new
    <2>5. op \in CatalogOp /\ op.doing = "createPlan" /\ op.plan = new /\ op.retire = {}
      BY <1>2, <2>4 DEF CatalogOp
    <2> HIDE DEF op
    <2>6. new.status = "DRAFT" /\ new.number = NextNumber(plans)
      BY DEF new
    <2>7. OpSound(op)
      BY <2>2, <2>5, <2>6 DEF OpSound, PlanCopy, IntentCopy, OpNumbered, PlanOps, IntentOps
    <2> QED
      BY <2>1, <2>5, <2>7, CallStartKeeps DEF op, new
  <1>4. ASSUME NEW r \in PlanRows, PlanUpdateRead(e, r) PROVE CatalogInv'
    <2>1. PICK valid \in BOOLEAN :
              /\ plans[r].status = "DRAFT" /\ UNCHANGED <<plans, intents>>
              /\ Starts(e, [NoCatalogOp EXCEPT !.doing = "updatePlan", !.row = r, !.plan = [plans[r] EXCEPT !.valid = valid]])
      BY <1>4 DEF PlanUpdateRead
    <2> DEFINE new == [plans[r] EXCEPT !.valid = valid]
               op == [NoCatalogOp EXCEPT !.doing = "updatePlan", !.row = r, !.plan = new]
    <2>2. new \in PlanRow /\ new.status = "DRAFT" /\ new.number = plans[r].number
      BY <1>1, <2>1 DEF PlanRow
    <2> HIDE DEF new
    <2>3. op \in CatalogOp /\ op.doing = "updatePlan" /\ op.row = r /\ op.plan = new /\ op.retire = {}
      BY <1>2, <2>2 DEF CatalogOp
    <2> HIDE DEF op
    <2>4. OpSound(op)
      BY <2>1, <2>2, <2>3 DEF OpSound, PlanCopy, IntentCopy, OpNumbered, PlanOps, IntentOps
    <2> QED
      BY <2>1, <2>3, <2>4, CallStartKeeps DEF op, new
  <1>5. ASSUME NEW r \in PlanRows, PlanPublishRead(e, r) PROVE CatalogInv'
    <2> DEFINE new == [plans[r] EXCEPT !.status = "PUBLISHED"]
               op == [NoCatalogOp EXCEPT !.doing = "publishPlan", !.row = r, !.plan = new]
    <2>1. plans[r].status = "DRAFT" /\ plans[r].valid /\ Starts(e, op) /\ UNCHANGED <<plans, intents>>
      BY <1>5 DEF PlanPublishRead
    <2>2. new \in PlanRow /\ new.status = "PUBLISHED" /\ new.valid /\ new.number = plans[r].number
      BY <1>1, <2>1 DEF PlanRow, Statuses
    <2> HIDE DEF new
    <2>3. op \in CatalogOp /\ op.doing = "publishPlan" /\ op.row = r /\ op.plan = new /\ op.retire = {}
      BY <1>2, <2>2 DEF CatalogOp
    <2> HIDE DEF op
    <2>4. OpSound(op)
      BY <2>1, <2>2, <2>3 DEF OpSound, PlanCopy, IntentCopy, OpNumbered, PlanOps, IntentOps
    <2> QED
      BY <2>1, <2>3, <2>4, CallStartKeeps
  <1> QED
    BY <1>3, <1>4, <1>5

LEMMA IntentReadKeeps ==
    ASSUME CatalogInv, ~CollisionsAllowed, NEW e \in CatalogEditors,
           IntentNumbered(e) \/ \E r \in IntentRows : IntentUpdateRead(e, r) \/ IntentPublishRead(e, r)
    PROVE  CatalogInv'
  <1>1. /\ intents \in [IntentRows -> IntentRow] /\ IsFiniteSet(IntentRows) /\ IntentRows = 1..Cardinality(IntentRows)
        /\ Cardinality(IntentRows) \in Nat /\ Numbered /\ PinnedVersions \subseteq PlanRows
    BY CatalogAssumption, FS_CardinalityType DEF CatalogInv, CatalogTypeOK
  <1>2. NoCatalogOp \in CatalogOp /\ NoCatalogOp.retire = {}
    BY NoOpSound DEF NoCatalogOp
  <1>3. CASE IntentNumbered(e)
    <2>1. PICK ref \in {0} \cup PinnedVersions :
              Starts(e, [NoCatalogOp EXCEPT !.doing = "createIntent",
                         !.intent = [status |-> "DRAFT", number |-> NextNumber(intents), ref |-> ref]])
              /\ Made(intents) # IntentRows /\ UNCHANGED <<plans, intents>>
      BY <1>3 DEF IntentNumbered
    <2> DEFINE new == [status |-> "DRAFT", number |-> NextNumber(intents), ref |-> ref]
               op == [NoCatalogOp EXCEPT !.doing = "createIntent", !.intent = new]
    <2>2. NextNumber(intents) \in 1..Cardinality(Made(intents)) + 1 /\ Cardinality(Made(intents)) \in Nat
          /\ Cardinality(Made(intents)) < Cardinality(IntentRows)
      BY <1>1, <2>1, NumbersGoOn, MadeIsFinite DEF Numbered
    <2>3. NextNumber(intents) \in IntentRows
      BY <1>1, <2>2
    <2>4. new \in IntentRow
      BY <1>1, <2>3 DEF IntentRow, Statuses
    <2> HIDE DEF new
    <2>5. op \in CatalogOp /\ op.doing = "createIntent" /\ op.intent = new /\ op.retire = {}
      BY <1>2, <2>4 DEF CatalogOp
    <2> HIDE DEF op
    <2>6. new.status = "DRAFT" /\ new.number = NextNumber(intents)
      BY DEF new
    <2>7. OpSound(op)
      BY <2>2, <2>5, <2>6 DEF OpSound, PlanCopy, IntentCopy, OpNumbered, PlanOps, IntentOps
    <2> QED
      BY <2>1, <2>5, <2>7, CallStartKeeps DEF op, new
  <1>4. ASSUME NEW r \in IntentRows, IntentUpdateRead(e, r) PROVE CatalogInv'
    <2>1. PICK ref \in {0} \cup PinnedVersions :
              /\ intents[r].status = "DRAFT" /\ UNCHANGED <<plans, intents>>
              /\ Starts(e, [NoCatalogOp EXCEPT !.doing = "updateIntent", !.row = r, !.intent = [intents[r] EXCEPT !.ref = ref]])
      BY <1>4 DEF IntentUpdateRead
    <2> DEFINE new == [intents[r] EXCEPT !.ref = ref]
               op == [NoCatalogOp EXCEPT !.doing = "updateIntent", !.row = r, !.intent = new]
    <2>2. new \in IntentRow /\ new.status = "DRAFT" /\ new.number = intents[r].number
      BY <1>1, <2>1 DEF IntentRow
    <2> HIDE DEF new
    <2>3. op \in CatalogOp /\ op.doing = "updateIntent" /\ op.row = r /\ op.intent = new /\ op.retire = {}
      BY <1>2, <2>2 DEF CatalogOp
    <2> HIDE DEF op
    <2>4. OpSound(op)
      BY <2>1, <2>2, <2>3 DEF OpSound, PlanCopy, IntentCopy, OpNumbered, PlanOps, IntentOps
    <2> QED
      BY <2>1, <2>3, <2>4, CallStartKeeps DEF op, new
  <1>5. ASSUME NEW r \in IntentRows, IntentPublishRead(e, r) PROVE CatalogInv'
    <2> DEFINE new == [intents[r] EXCEPT !.status = "PUBLISHED"]
               served == WithStatus(intents, "PUBLISHED")
               op == [NoCatalogOp EXCEPT !.doing = "publishIntent", !.row = r, !.intent = new, !.retire = served]
    <2>1. /\ intents[r].status = "DRAFT" /\ Starts(e, op) /\ UNCHANGED <<plans, intents>>
          /\ \E p \in ResolvedForCheck(intents[r].ref) : plans[p].valid
      BY <1>5 DEF IntentPublishRead
    <2>2. new \in IntentRow /\ new.status = "PUBLISHED" /\ new.number = intents[r].number /\ new.ref = intents[r].ref
      BY <1>1, <2>1 DEF IntentRow, Statuses
    <2>3. served \subseteq IntentRows /\ \A q \in served : intents[q].status = "PUBLISHED"
      BY <1>1 DEF WithStatus
    <2>4. HasPlan(new)
      BY <2>1, <2>2 DEF HasPlan, ResolvedForCheck, Resolved
    <2> HIDE DEF new, served
    <2>5. op \in CatalogOp /\ op.doing = "publishIntent" /\ op.row = r /\ op.intent = new /\ op.retire = served
      BY <1>2, <2>2, <2>3 DEF CatalogOp
    <2> HIDE DEF op
    <2>6. WithStatus(intents, "PUBLISHED") \subseteq op.retire
      BY <2>5 DEF served
    <2>7. OpSound(op)
      BY <2>1, <2>2, <2>3, <2>4, <2>5, <2>6 DEF OpSound, PlanCopy, IntentCopy, OpNumbered, PlanOps, IntentOps
    <2> QED
      BY <2>1, <2>5, <2>7, CallStartKeeps
  <1> QED
    BY <1>3, <1>4, <1>5

\* A call that ends leaves the copies of the others alone.
LEMMA StopKeeps ==
    ASSUME CatalogInv, NEW e \in CatalogEditors, Stops(e)
    PROVE  /\ catalogOps' \in [CatalogEditors -> CatalogOp]
           /\ catalogOps'[e] = NoCatalogOp /\ \A d \in CatalogEditors : d # e => catalogOps'[d] = catalogOps[d]
           /\ NoCollision'
  <1>1. /\ catalogOps' \in [CatalogEditors -> CatalogOp]
        /\ catalogOps'[e] = NoCatalogOp /\ \A d \in CatalogEditors : d # e => catalogOps'[d] = catalogOps[d]
    BY NoOpSound DEF Stops, CatalogInv, CatalogTypeOK
  <1>2. NoCollision'
    BY <1>1, NoOpSound DEF NoCollision, CatalogInv
  <1> QED
    BY <1>1, <1>2

\* A put of a plan: a new row, or the row its call has read.
LEMMA PlanPutKeeps ==
    ASSUME CatalogInv, NEW e \in CatalogEditors, Stops(e), UNCHANGED intents, NEW r \in PlanRows, NEW new \in PlanRow,
           plans' = [plans EXCEPT ![r] = new], new.status \in {"DRAFT", "PUBLISHED"},
           new.status = "PUBLISHED" => new.valid,
           \/ r \notin Made(plans) /\ Cardinality(Made(plans)') = Cardinality(Made(plans)) + 1
              /\ new.number \in 1..Cardinality(Made(plans)) + 1
           \/ r \in Made(plans) /\ new.number = plans[r].number,
           \A d \in CatalogEditors : d # e /\ catalogOps[d].doing \in PlanOps => catalogOps[d].row # r
    PROVE  CatalogInv'
  <1>1. /\ plans \in [PlanRows -> PlanRow] /\ intents \in [IntentRows -> IntentRow] /\ Numbered
        /\ IsFiniteSet(PlanRows)
    BY CatalogAssumption DEF CatalogInv, CatalogTypeOK
  <1>2. /\ plans' \in [PlanRows -> PlanRow] /\ plans'[r] = new /\ \A q \in PlanRows : q # r => plans'[q] = plans[q]
    BY <1>1
  <1>3. /\ Made(plans)' = Made(plans) \cup {r} /\ Made(plans) \subseteq PlanRows
        /\ Cardinality(Made(plans)) \in Nat
    <2>1. Made(plans) \subseteq PlanRows /\ Cardinality(Made(plans)) \in Nat
      BY <1>1, MadeIsFinite
    <2>2. new.status # "none" /\ DOMAIN plans = PlanRows /\ DOMAIN plans' = PlanRows
      BY <1>1, <1>2
    <2>3. Made(plans)' = Made(plans) \cup {r}
      BY <1>2, <2>2 DEF Made
    <2> QED
      BY <2>1, <2>3
  <1>4. \A q \in Made(plans) : q \in Made(plans)' /\ plans'[q].number = plans[q].number
    BY <1>2, <1>3
  <1>5. CatalogTypeOK'
    BY <1>1, <1>2, StopKeeps DEF CatalogTypeOK
  <1>6. /\ Made(intents)' = Made(intents) /\ WithStatus(intents, "PUBLISHED")' = WithStatus(intents, "PUBLISHED")
    BY DEF Made, WithStatus
  <1>7. Cardinality(Made(plans)') \in Nat /\ Cardinality(Made(plans)) <= Cardinality(Made(plans)')
    <2>1. CASE r \in Made(plans)
      <3>1. Made(plans)' = Made(plans)
        BY <1>3, <2>1
      <3> QED
        BY <1>3, <3>1
    <2>2. CASE r \notin Made(plans)
      BY <1>3, <2>2
    <2> QED
      BY <2>1, <2>2
  <1>8. Numbered'
    <2>1. ASSUME NEW q \in Made(plans)' PROVE plans'[q].number \in 1..Cardinality(Made(plans)')
      <3>1. CASE q \in Made(plans)
        BY <1>1, <1>3, <1>4, <1>7, <3>1 DEF Numbered
      <3>2. CASE q \notin Made(plans)
        BY <1>2, <1>3, <3>2
      <3> QED
        BY <3>1, <3>2
    <2>2. \A i \in Made(intents)' : intents'[i].number \in 1..Cardinality(Made(intents)')
      BY <1>1, <1>6 DEF Numbered
    <2> QED
      BY <2>1, <2>2 DEF Numbered
  <1>9. PlansServe'
    BY <1>2 DEF PlansServe, CatalogInv, WithStatus
  <1>10. PinsServe' /\ OneServed'
    <2>1. ASSUME NEW i \in WithStatus(intents, "PUBLISHED") PROVE HasPlan(intents[i])'
      <3>1. HasPlan(intents[i])
        BY DEF CatalogInv, PinsServe
      <3> QED
        BY <1>4, <3>1 DEF HasPlan
    <2> QED
      BY <1>6, <2>1 DEF PinsServe, OneServed, CatalogInv
  <1>11. ASSUME NEW d \in CatalogEditors PROVE OpSound(catalogOps[d])'
    <2>1. PICK op \in CatalogOp : op = catalogOps'[d]
      BY StopKeeps
    <2>2. OpSound(op) /\ (op.doing \in PlanOps => op.row # r)
      <3>1. NoCatalogOp.doing \notin PlanOps
        BY DEF NoCatalogOp, PlanOps
      <3> QED
        BY <2>1, <3>1, StopKeeps, NoOpSound DEF CatalogInv
    <2>3. PlanCopy(op)'
      BY <1>2, <2>2 DEF OpSound, PlanCopy
    <2>4. IntentCopy(op)'
      <3>1. HasPlan(op.intent) => HasPlan(op.intent)'
        BY <1>4 DEF HasPlan
      <3> QED
        BY <1>6, <2>2, <3>1 DEF OpSound, IntentCopy
    <2>5. OpNumbered(op)'
      BY <1>3, <1>6, <1>7, <2>2 DEF OpSound, OpNumbered
    <2>6. PlanCopy(catalogOps[d])'
      BY <2>1, <2>3 DEF PlanCopy
    <2>7. IntentCopy(catalogOps[d])'
      BY ONLY <2>1, <2>4 DEF IntentCopy, HasPlan
    <2>8. OpNumbered(catalogOps[d])'
      BY <2>1, <2>5 DEF OpNumbered
    <2> QED
      BY <2>6, <2>7, <2>8 DEF OpSound
  <1> QED
    BY <1>5, <1>8, <1>9, <1>10, <1>11, StopKeeps DEF CatalogInv

\* A put of an intent, likewise; what becomes PUBLISHED was alone in being published.
LEMMA IntentPutKeeps ==
    ASSUME CatalogInv, NEW e \in CatalogEditors, Stops(e), UNCHANGED plans, NEW r \in IntentRows, NEW new \in IntentRow,
           intents' = [intents EXCEPT ![r] = new], new.status \in {"DRAFT", "PUBLISHED"},
           new.status = "PUBLISHED" => HasPlan(new) /\ WithStatus(intents, "PUBLISHED") = {},
           new.status = "PUBLISHED" => \A d \in CatalogEditors : d # e => catalogOps[d].doing # "publishIntent",
           intents[r].status \in {"none", "DRAFT"},
           \/ r \notin Made(intents) /\ Cardinality(Made(intents)') = Cardinality(Made(intents)) + 1
              /\ new.number \in 1..Cardinality(Made(intents)) + 1
           \/ r \in Made(intents) /\ new.number = intents[r].number,
           \A d \in CatalogEditors : d # e /\ catalogOps[d].doing \in IntentOps => catalogOps[d].row # r
    PROVE  CatalogInv'
  <1>1. /\ plans \in [PlanRows -> PlanRow] /\ intents \in [IntentRows -> IntentRow] /\ Numbered
        /\ IsFiniteSet(IntentRows)
    BY CatalogAssumption DEF CatalogInv, CatalogTypeOK
  <1>2. /\ intents' \in [IntentRows -> IntentRow] /\ intents'[r] = new /\ \A q \in IntentRows : q # r => intents'[q] = intents[q]
    BY <1>1
  <1>3. /\ Made(intents)' = Made(intents) \cup {r} /\ Made(intents) \subseteq IntentRows
        /\ Cardinality(Made(intents)) \in Nat
    <2>1. Made(intents) \subseteq IntentRows /\ Cardinality(Made(intents)) \in Nat
      BY <1>1, MadeIsFinite
    <2>2. new.status # "none" /\ DOMAIN intents = IntentRows /\ DOMAIN intents' = IntentRows
      BY <1>1, <1>2
    <2>3. Made(intents)' = Made(intents) \cup {r}
      BY <1>2, <2>2 DEF Made
    <2> QED
      BY <2>1, <2>3
  <1>4. CatalogTypeOK'
    BY <1>1, <1>2, StopKeeps DEF CatalogTypeOK
  <1>5. Made(plans)' = Made(plans) /\ \A i : HasPlan(i) => (i.ref # 0 => \E q \in Made(plans)' : plans'[q].number = i.ref)
    BY DEF Made, HasPlan
  <1>6. Cardinality(Made(intents)') \in Nat /\ Cardinality(Made(intents)) <= Cardinality(Made(intents)')
    <2>1. CASE r \in Made(intents)
      <3>1. Made(intents)' = Made(intents)
        BY <1>3, <2>1
      <3> QED
        BY <1>3, <3>1
    <2>2. CASE r \notin Made(intents)
      BY <1>3, <2>2
    <2> QED
      BY <2>1, <2>2
  <1>7. Numbered'
    <2>1. ASSUME NEW q \in Made(intents)' PROVE intents'[q].number \in 1..Cardinality(Made(intents)')
      <3>1. CASE q \in Made(intents)
        BY <1>1, <1>2, <1>3, <1>6, <3>1 DEF Numbered
      <3>2. CASE q \notin Made(intents)
        BY <1>2, <1>3, <3>2
      <3> QED
        BY <3>1, <3>2
    <2>2. \A p \in Made(plans)' : plans'[p].number \in 1..Cardinality(Made(plans)')
      BY <1>1, <1>5 DEF Numbered
    <2> QED
      BY <2>1, <2>2 DEF Numbered
  <1>8. PlansServe'
    BY DEF PlansServe, CatalogInv, WithStatus
  <1>9. WithStatus(intents, "PUBLISHED")' = IF new.status = "PUBLISHED" THEN {r} ELSE WithStatus(intents, "PUBLISHED")
    BY <1>1, <1>2 DEF WithStatus
  <1>10. PinsServe' /\ OneServed'
    <2>1. ASSUME NEW i \in WithStatus(intents, "PUBLISHED")' PROVE HasPlan(intents'[i])
      BY <1>2, <1>9 DEF CatalogInv, PinsServe, WithStatus
    <2>2. PinsServe'
      BY <1>5, <2>1 DEF PinsServe, HasPlan
    <2> QED
      BY <1>9, <2>2 DEF OneServed, CatalogInv
  <1>11. ASSUME NEW d \in CatalogEditors PROVE OpSound(catalogOps[d])'
    <2>1. PICK op \in CatalogOp : op = catalogOps'[d]
      BY StopKeeps
    <2>2. OpSound(op) /\ (op.doing \in IntentOps => op.row # r)
          /\ (new.status = "PUBLISHED" => op.doing # "publishIntent")
      <3>1. NoCatalogOp.doing \notin IntentOps
        BY DEF NoCatalogOp, IntentOps
      <3> QED
        BY <2>1, <3>1, StopKeeps, NoOpSound DEF CatalogInv, IntentOps
    <2>3. PlanCopy(op)'
      BY <2>2 DEF OpSound, PlanCopy
    <2>4. IntentCopy(op)'
      <3>1. op.doing \in IntentOps => op.row \in IntentRows /\ intents'[op.row].status = "DRAFT"
        BY <1>2, <2>2 DEF OpSound, IntentCopy
      <3>2. op.doing = "publishIntent" => WithStatus(intents, "PUBLISHED")' \subseteq op.retire
        BY <1>9, <2>2 DEF OpSound, IntentCopy
      <3>3. op.retire \subseteq IntentRows
        BY DEF CatalogOp
      <3>4. \A q \in op.retire : intents'[q].status \in {"PUBLISHED", "RETIRED"}
        BY <1>2, <2>2, <3>3 DEF OpSound, IntentCopy
      <3> QED
        BY <1>5, <2>2, <3>1, <3>2, <3>4 DEF OpSound, IntentCopy, HasPlan
    <2>5. OpNumbered(op)'
      BY <1>2, <1>3, <1>5, <1>6, <2>2 DEF OpSound, OpNumbered, IntentCopy
    <2> QED
      BY <2>1, <2>3, <2>4, <2>5 DEF OpSound, PlanCopy, IntentCopy, OpNumbered, HasPlan
  <1> QED
    BY <1>4, <1>7, <1>8, <1>10, <1>11, StopKeeps DEF CatalogInv

LEMMA InsertionKeeps ==
    ASSUME CatalogInv, NEW e \in CatalogEditors, PlanInserted(e) \/ IntentInserted(e)
    PROVE  CatalogInv'
  <1>1. /\ plans \in [PlanRows -> PlanRow] /\ intents \in [IntentRows -> IntentRow] /\ OpSound(catalogOps[e])
        /\ \A d \in CatalogEditors : OpSound(catalogOps[d])
    BY DEF CatalogInv, CatalogTypeOK
  <1>2. /\ IsFiniteSet(PlanRows) /\ PlanRows \in SUBSET Nat /\ IsFiniteSet(IntentRows) /\ IntentRows \in SUBSET Nat
    <2>1. /\ IsFiniteSet(PlanRows) /\ PlanRows = 1..Cardinality(PlanRows)
          /\ IsFiniteSet(IntentRows) /\ IntentRows = 1..Cardinality(IntentRows)
      BY CatalogAssumption
    <2>2. \A n : 1..n \in SUBSET Nat
      OBVIOUS
    <2> QED
      BY <2>1, <2>2
  <1>3. PICK op \in CatalogOp : op = catalogOps[e]
    BY DEF CatalogInv, CatalogTypeOK
  <1>4. op.plan \in PlanRow /\ op.intent \in IntentRow
    BY DEF CatalogOp
  <1>5. CASE PlanInserted(e)
    <2>1. op.doing = "createPlan" /\ Made(plans) # PlanRows /\ Stops(e) /\ UNCHANGED intents
          /\ plans' = [plans EXCEPT ![NextRow(plans)] = op.plan]
      BY <1>3, <1>5 DEF PlanInserted
    <2>2. op.plan.status = "DRAFT" /\ op.plan.number \in 1..Cardinality(Made(plans)) + 1
      BY <1>1, <1>3, <2>1 DEF OpSound, PlanCopy, OpNumbered
    <2>3. op.plan.status # "none"
      BY <2>2
    <2>4. /\ NextRow(plans) \in PlanRows \ Made(plans)
          /\ Cardinality(Made([plans EXCEPT ![NextRow(plans)] = op.plan])) = Cardinality(Made(plans)) + 1
      <3>1. PICK new \in PlanRow : new = op.plan
        BY <1>4
      <3> HIDE DEF PlanRow
      <3>2. Made(plans) # PlanRows /\ new.status # "none"
        BY <2>1, <2>3, <3>1
      <3>3. InsertsOne(plans, PlanRows, new)
        BY ONLY <1>1, <1>2, <3>2, InsertionMakesOne
      <3> QED
        BY ONLY <3>1, <3>3 DEF InsertsOne
    <2>5. Cardinality(Made(plans)') = Cardinality(Made(plans)) + 1
      BY <2>1, <2>4 DEF Made
    <2>6. ASSUME NEW d \in CatalogEditors, catalogOps[d].doing \in PlanOps PROVE catalogOps[d].row # NextRow(plans)
      BY <1>1, <2>4, <2>6 DEF OpSound, PlanCopy, Made
    <2> QED
      BY <1>4, <2>1, <2>2, <2>4, <2>5, <2>6, PlanPutKeeps
  <1>6. CASE IntentInserted(e)
    <2>1. op.doing = "createIntent" /\ Made(intents) # IntentRows /\ Stops(e) /\ UNCHANGED plans
          /\ intents' = [intents EXCEPT ![NextRow(intents)] = op.intent]
      BY <1>3, <1>6 DEF IntentInserted
    <2>2. op.intent.status = "DRAFT" /\ op.intent.number \in 1..Cardinality(Made(intents)) + 1
      BY <1>1, <1>3, <2>1 DEF OpSound, IntentCopy, OpNumbered
    <2>3. op.intent.status # "none"
      BY <2>2
    <2>4. /\ NextRow(intents) \in IntentRows \ Made(intents)
          /\ Cardinality(Made([intents EXCEPT ![NextRow(intents)] = op.intent])) = Cardinality(Made(intents)) + 1
      <3>1. PICK new \in IntentRow : new = op.intent
        BY <1>4
      <3> HIDE DEF IntentRow
      <3>2. Made(intents) # IntentRows /\ new.status # "none"
        BY <2>1, <2>3, <3>1
      <3>3. InsertsOne(intents, IntentRows, new)
        BY ONLY <1>1, <1>2, <3>2, InsertionMakesOne
      <3> QED
        BY ONLY <3>1, <3>3 DEF InsertsOne
    <2>5. Cardinality(Made(intents)') = Cardinality(Made(intents)) + 1
      BY <2>1, <2>4 DEF Made
    <2>6. ASSUME NEW d \in CatalogEditors, catalogOps[d].doing \in IntentOps PROVE catalogOps[d].row # NextRow(intents)
      BY <1>1, <2>4, <2>6 DEF OpSound, IntentCopy, Made
    <2>7. intents[NextRow(intents)].status \in {"none", "DRAFT"}
      BY <1>1, <2>4 DEF Made
    <2> QED
      BY <1>4, <2>1, <2>2, <2>4, <2>5, <2>6, <2>7, IntentPutKeeps
  <1> QED
    BY <1>5, <1>6

LEMMA RowPutKeeps ==
    ASSUME CatalogInv, NEW e \in CatalogEditors, RowPut(e)
    PROVE  CatalogInv'
  <1>1. /\ plans \in [PlanRows -> PlanRow] /\ intents \in [IntentRows -> IntentRow] /\ OpSound(catalogOps[e])
        /\ NoCollision
    BY DEF CatalogInv, CatalogTypeOK
  <1>2. PICK op \in CatalogOp : op = catalogOps[e]
    BY DEF CatalogInv, CatalogTypeOK
  <1>3. op.plan \in PlanRow /\ op.intent \in IntentRow
    BY DEF CatalogOp
  <1>4. op.doing \in PlanOps \cup IntentOps /\ op.retire = {} /\ Stops(e)
    BY <1>2 DEF RowPut, PlanOps, IntentOps
  <1>5. CASE op.doing \in PlanOps
    <2>1. plans' = [plans EXCEPT ![op.row] = op.plan] /\ UNCHANGED intents
      BY <1>2, <1>5 DEF RowPut, PlanOps
    <2>2. op.row \in PlanRows /\ plans[op.row].status = "DRAFT" /\ plans[op.row].number = op.plan.number
      BY <1>1, <1>2, <1>5 DEF OpSound, PlanCopy
    <2>3. op.row \in Made(plans)
      BY <1>1, <2>2 DEF Made
    <2>4. op.plan.status \in {"DRAFT", "PUBLISHED"} /\ (op.plan.status = "PUBLISHED" => op.plan.valid)
      BY <1>1, <1>2, <1>5 DEF OpSound, PlanCopy, PlanOps
    <2>5. ASSUME NEW d \in CatalogEditors, d # e, catalogOps[d].doing \in PlanOps PROVE catalogOps[d].row # op.row
      BY <1>1, <1>2, <1>5, <2>5 DEF NoCollision, Collides
    <2>6. \A d \in CatalogEditors : d # e /\ catalogOps[d].doing \in PlanOps => catalogOps[d].row # op.row
      BY <2>5
    <2>7. PICK new \in PlanRow : new = op.plan
      BY <1>3
    <2>8. PICK r \in PlanRows : r = op.row
      BY <2>2
    <2> QED
      BY <1>4, <2>1, <2>2, <2>3, <2>4, <2>6, <2>7, <2>8, PlanPutKeeps
  <1>6. CASE op.doing \in IntentOps
    <2>1. intents' = [intents EXCEPT ![op.row] = op.intent] /\ UNCHANGED plans
      BY <1>2, <1>6 DEF RowPut, IntentOps
    <2>2. op.row \in IntentRows /\ intents[op.row].status = "DRAFT" /\ op.intent.number = intents[op.row].number
      BY <1>1, <1>2, <1>6 DEF OpSound, IntentCopy, OpNumbered
    <2>3. op.row \in Made(intents)
      BY <1>1, <2>2 DEF Made
    <2>4. /\ op.intent.status \in {"DRAFT", "PUBLISHED"}
          /\ op.intent.status = "PUBLISHED" => op.doing = "publishIntent"
      BY <1>1, <1>2, <1>6 DEF OpSound, IntentCopy, IntentOps
    <2>5. op.intent.status = "PUBLISHED" => HasPlan(op.intent) /\ WithStatus(intents, "PUBLISHED") = {}
      BY <1>1, <1>2, <1>4, <2>4 DEF OpSound, IntentCopy
    <2>6. ASSUME NEW d \in CatalogEditors, d # e, catalogOps[d].doing \in IntentOps PROVE catalogOps[d].row # op.row
      BY <1>1, <1>2, <1>6, <2>6 DEF NoCollision, Collides
    <2>7. ASSUME NEW d \in CatalogEditors, d # e, op.doing = "publishIntent" PROVE catalogOps[d].doing # "publishIntent"
      BY <1>1, <1>2, <2>7 DEF NoCollision, Collides
    <2>8. \A d \in CatalogEditors : d # e /\ catalogOps[d].doing \in IntentOps => catalogOps[d].row # op.row
      BY <2>6
    <2>9. op.intent.status = "PUBLISHED" => \A d \in CatalogEditors : d # e => catalogOps[d].doing # "publishIntent"
      BY <2>4, <2>7
    <2>10. PICK new \in IntentRow : new = op.intent
      BY <1>3
    <2>11. PICK r \in IntentRows : r = op.row
      BY <2>2
    <2> QED
      BY <1>4, <2>1, <2>2, <2>3, <2>4, <2>5, <2>8, <2>9, <2>10, <2>11, IntentPutKeeps
  <1> QED
    BY <1>4, <1>5, <1>6

\* An intent is retired that no call under way has read; what is left to retire may have been retired.
LEMMA RetirementKeeps ==
    ASSUME CatalogInv, NEW r \in IntentRows, intents[r].status # "none", UNCHANGED plans,
           intents' = [intents EXCEPT ![r].status = "RETIRED"]
    PROVE  /\ intents' \in [IntentRows -> IntentRow] /\ Numbered' /\ PlansServe' /\ PinsServe' /\ OneServed'
           /\ \A op \in CatalogOp : OpSound(op) /\ (op.doing \in IntentOps => op.row # r) => OpSound(op)'
           /\ WithStatus(intents, "PUBLISHED")' = WithStatus(intents, "PUBLISHED") \ {r}
           /\ intents'[r].status = "RETIRED" /\ \A q \in IntentRows : q # r => intents'[q] = intents[q]
           /\ intents'[r].number = intents[r].number
  <1>1. intents \in [IntentRows -> IntentRow] /\ intents[r] \in IntentRow
    BY DEF CatalogInv, CatalogTypeOK
  <1> DEFINE new == [intents[r] EXCEPT !.status = "RETIRED"]
  <1>2. new \in IntentRow /\ new.status = "RETIRED" /\ new.number = intents[r].number
    BY <1>1 DEF IntentRow, Statuses
  <1>3. intents' = [intents EXCEPT ![r] = new]
    BY <1>1
  <1> HIDE DEF new
  <1>4. /\ intents' \in [IntentRows -> IntentRow] /\ intents'[r] = new /\ \A q \in IntentRows : q # r => intents'[q] = intents[q]
    BY <1>1, <1>2, <1>3
  <1>5. Made(intents)' = Made(intents)
    BY <1>1, <1>2, <1>4 DEF Made
  <1>6. WithStatus(intents, "PUBLISHED")' = WithStatus(intents, "PUBLISHED") \ {r}
    BY <1>1, <1>2, <1>4 DEF WithStatus
  <1>7. \A q \in IntentRows : intents'[q].number = intents[q].number
    BY <1>2, <1>4
  <1>8. Made(intents) \subseteq IntentRows /\ Made(plans)' = Made(plans)
    BY <1>1 DEF Made
  <1>9. Numbered'
    BY <1>5, <1>7, <1>8 DEF CatalogInv, Numbered
  <1>10. PlansServe'
    BY DEF CatalogInv, PlansServe, WithStatus
  <1>11. PinsServe' /\ OneServed'
    <2>1. \A i : HasPlan(i) => (i.ref # 0 => \E q \in Made(plans)' : plans'[q].number = i.ref)
      BY <1>8 DEF HasPlan
    <2>2. WithStatus(intents, "PUBLISHED") \subseteq IntentRows
      BY <1>1 DEF WithStatus
    <2>3. ASSUME NEW i \in WithStatus(intents, "PUBLISHED")' PROVE HasPlan(intents'[i])
      BY <1>4, <1>6, <2>2 DEF CatalogInv, PinsServe
    <2>4. PinsServe'
      BY <2>1, <2>3 DEF PinsServe, HasPlan
    <2> QED
      BY <1>6, <2>4 DEF CatalogInv, OneServed
  <1>12. ASSUME NEW op \in CatalogOp, OpSound(op), op.doing \in IntentOps => op.row # r PROVE OpSound(op)'
    <2>1. PlanCopy(op)'
      BY <1>12 DEF OpSound, PlanCopy
    <2>2. IntentCopy(op)'
      <3>1. op.doing \in IntentOps => op.row \in IntentRows /\ intents'[op.row].status = "DRAFT"
        BY <1>4, <1>12 DEF OpSound, IntentCopy
      <3>2. op.doing = "publishIntent" => WithStatus(intents, "PUBLISHED")' \subseteq op.retire
        BY <1>6, <1>12 DEF OpSound, IntentCopy
      <3>3. op.retire \subseteq IntentRows
        BY DEF CatalogOp
      <3>4. \A q \in op.retire : intents'[q].status \in {"PUBLISHED", "RETIRED"}
        BY <1>2, <1>4, <1>12, <3>3 DEF OpSound, IntentCopy
      <3>5. HasPlan(op.intent) => HasPlan(op.intent)'
        BY <1>8 DEF HasPlan
      <3> QED
        BY <1>12, <3>1, <3>2, <3>4, <3>5 DEF OpSound, IntentCopy
    <2>3. OpNumbered(op)'
      BY <1>5, <1>7, <1>8, <1>12 DEF OpSound, OpNumbered, IntentCopy
    <2> QED
      BY <2>1, <2>2, <2>3 DEF OpSound
  <1> QED
    BY <1>2, <1>4, <1>6, <1>9, <1>10, <1>11, <1>12

LEMMA IntentRetiredKeeps ==
    ASSUME CatalogInv, ~CollisionsAllowed, NEW r \in IntentRows, IntentRetired(r)
    PROVE  CatalogInv'
  <1>1. /\ intents[r].status # "none" /\ UNCHANGED <<plans, catalogOps>>
        /\ intents' = [intents EXCEPT ![r].status = "RETIRED"]
        /\ \A e \in CatalogEditors : catalogOps[e].doing \in IntentOps => catalogOps[e].row # r
    BY DEF IntentRetired
  <1>2. /\ intents' \in [IntentRows -> IntentRow] /\ Numbered' /\ PlansServe' /\ PinsServe' /\ OneServed'
        /\ \A op \in CatalogOp : OpSound(op) /\ (op.doing \in IntentOps => op.row # r) => OpSound(op)'
    BY <1>1, RetirementKeeps
  <1>3. ASSUME NEW e \in CatalogEditors PROVE OpSound(catalogOps[e])'
    <2>1. PICK op \in CatalogOp : op = catalogOps[e]
      BY DEF CatalogInv, CatalogTypeOK
    <2>2. OpSound(op)' /\ op = catalogOps'[e]
      BY <1>1, <1>2, <2>1 DEF CatalogInv
    <2>3. PlanCopy(catalogOps[e])'
      BY <2>2 DEF OpSound, PlanCopy
    <2>4. IntentCopy(catalogOps[e])'
      BY <2>2 DEF OpSound, IntentCopy, HasPlan
    <2>5. OpNumbered(catalogOps[e])'
      BY <2>2 DEF OpSound, OpNumbered
    <2> QED
      BY <2>3, <2>4, <2>5 DEF OpSound
  <1> QED
    BY <1>1, <1>2, <1>3 DEF CatalogInv, CatalogTypeOK, NoCollision

LEMMA OlderRetiredKeeps ==
    ASSUME CatalogInv, NEW e \in CatalogEditors, OlderRetired(e)
    PROVE  CatalogInv'
  <1>1. PICK mine \in CatalogOp : mine = catalogOps[e]
    BY DEF CatalogInv, CatalogTypeOK
  <1>2. PICK r \in mine.retire :
            /\ intents' = [intents EXCEPT ![r].status = "RETIRED"]
            /\ catalogOps' = [catalogOps EXCEPT ![e].retire = @ \ {r}] /\ UNCHANGED plans
    BY <1>1 DEF OlderRetired
  <1>3. /\ OpSound(mine) /\ mine.retire \subseteq IntentRows /\ catalogOps \in [CatalogEditors -> CatalogOp]
    BY <1>1 DEF CatalogInv, CatalogOp, CatalogTypeOK
  <1>4. r \in IntentRows /\ intents[r].status \in {"PUBLISHED", "RETIRED"} /\ mine.doing = "publishIntent"
    BY <1>2, <1>3 DEF OpSound, IntentCopy
  <1>5. intents[r].status # "none" /\ UNCHANGED plans
    BY <1>2, <1>4
  <1>6. /\ intents' \in [IntentRows -> IntentRow] /\ Numbered' /\ PlansServe' /\ PinsServe' /\ OneServed'
        /\ \A op \in CatalogOp : OpSound(op) /\ (op.doing \in IntentOps => op.row # r) => OpSound(op)'
        /\ WithStatus(intents, "PUBLISHED")' = WithStatus(intents, "PUBLISHED") \ {r}
    BY <1>2, <1>4, <1>5, RetirementKeeps
  <1> DEFINE left == [mine EXCEPT !.retire = @ \ {r}]
  <1>7. left \in CatalogOp /\ left.doing = mine.doing /\ left.row = mine.row /\ left.plan = mine.plan
        /\ left.intent = mine.intent /\ left.retire = mine.retire \ {r}
    BY DEF CatalogOp
  <1> HIDE DEF left
  <1>8. catalogOps' = [catalogOps EXCEPT ![e] = left]
    BY <1>1, <1>2, <1>3 DEF left
  <1>9. /\ catalogOps' \in [CatalogEditors -> CatalogOp] /\ catalogOps'[e] = left
        /\ \A d \in CatalogEditors : d # e => catalogOps'[d] = catalogOps[d]
    BY <1>3, <1>7, <1>8
  <1>10. ASSUME NEW op \in CatalogOp, OpSound(op) PROVE OpSound(op)'
    <2>1. op.doing \in IntentOps => op.row # r
      BY <1>4, <1>10 DEF OpSound, IntentCopy
    <2> QED
      BY <1>6, <1>10, <2>1
  <1>11. OpSound(left)'
    <2>1. OpSound(mine)'
      BY <1>3, <1>10
    <2>2. PlanCopy(left)'
      BY <1>7, <2>1 DEF OpSound, PlanCopy
    <2>3. IntentCopy(left)'
      BY <1>4, <1>6, <1>7, <2>1 DEF OpSound, IntentCopy, HasPlan
    <2>4. OpNumbered(left)'
      BY <1>7, <2>1 DEF OpSound, OpNumbered
    <2> QED
      BY <2>2, <2>3, <2>4 DEF OpSound
  <1>12. ASSUME NEW d \in CatalogEditors PROVE OpSound(catalogOps[d])'
    <2>1. PICK op \in CatalogOp : op = catalogOps'[d]
      BY <1>9
    <2>2. OpSound(op)'
      BY <1>9, <1>10, <1>11, <2>1 DEF CatalogInv
    <2>3. PlanCopy(catalogOps[d])'
      BY <2>1, <2>2 DEF OpSound, PlanCopy
    <2>4. IntentCopy(catalogOps[d])'
      BY <2>1, <2>2 DEF OpSound, IntentCopy, HasPlan
    <2>5. OpNumbered(catalogOps[d])'
      BY <2>1, <2>2 DEF OpSound, OpNumbered
    <2> QED
      BY <2>3, <2>4, <2>5 DEF OpSound
  <1>13. NoCollision'
    <2>1. \A op : /\ Collides(op, left) => Collides(op, mine)
                  /\ Collides(left, op) => Collides(mine, op)
      BY <1>7 DEF Collides
    <2> QED
      BY <1>1, <1>9, <2>1 DEF CatalogInv, NoCollision
  <1> QED
    BY <1>2, <1>6, <1>9, <1>12, <1>13 DEF CatalogInv, CatalogTypeOK

LEMMA CatalogBreaksKeeps ==
    ASSUME CatalogInv, NEW e \in CatalogEditors, CatalogBreaks(e)
    PROVE  CatalogInv'
  <1>1. Stops(e) /\ UNCHANGED <<plans, intents>>
    BY DEF CatalogBreaks
  <1>2. ASSUME NEW d \in CatalogEditors PROVE OpSound(catalogOps[d])'
    <2>1. OpSound(catalogOps'[d])
      BY <1>1, StopKeeps, NoOpSound DEF CatalogInv
    <2> QED
      BY <1>1, <2>1 DEF OpSound, PlanCopy, IntentCopy, OpNumbered, HasPlan, Made, WithStatus
  <1>3. Numbered' /\ PlansServe' /\ PinsServe' /\ OneServed'
    BY <1>1 DEF CatalogInv, Numbered, PlansServe, PinsServe, OneServed, HasPlan, Made, WithStatus
  <1> QED
    BY <1>1, <1>2, <1>3, StopKeeps DEF CatalogInv, CatalogTypeOK

LEMMA CatalogStartsSound == CatalogInit => CatalogInv
  <1> SUFFICES ASSUME CatalogInit PROVE CatalogInv
    OBVIOUS
  <1>1. /\ \A p \in PlanRows : plans[p] = NoPlanRow
        /\ \A i \in IntentRows : intents[i] = NoIntentRow
        /\ \A e \in CatalogEditors : catalogOps[e] = NoCatalogOp
        /\ DOMAIN plans = PlanRows /\ DOMAIN intents = IntentRows
    BY DEF CatalogInit
  <1>2. NoPlanRow \in PlanRow /\ NoIntentRow \in IntentRow /\ NoPlanRow.status = "none" /\ NoIntentRow.status = "none"
    BY DEF NoPlanRow, NoIntentRow, PlanRow, IntentRow, Statuses
  <1>3. Made(plans) = {} /\ Made(intents) = {} /\ WithStatus(plans, "PUBLISHED") = {} /\ WithStatus(intents, "PUBLISHED") = {}
    BY <1>1, <1>2 DEF Made, WithStatus
  <1>4. CatalogTypeOK
    BY <1>2, NoOpSound DEF CatalogInit, CatalogTypeOK
  <1>5. Numbered /\ PlansServe /\ PinsServe /\ OneServed
    BY <1>3 DEF Numbered, PlansServe, PinsServe, OneServed
  <1>6. NoCollision /\ \A e \in CatalogEditors : OpSound(catalogOps[e])
    BY <1>1, NoOpSound DEF NoCollision
  <1> QED
    BY <1>4, <1>5, <1>6 DEF CatalogInv

LEMMA CatalogInvServes == CatalogInv => CatalogServes
  <1> SUFFICES ASSUME CatalogInv PROVE CatalogServes
    OBVIOUS
  <1>1. Cardinality(WithStatus(intents, "PUBLISHED")) <= 1
    <2>1. CASE WithStatus(intents, "PUBLISHED") = {}
      BY <2>1, FS_EmptySet
    <2>2. CASE WithStatus(intents, "PUBLISHED") # {}
      <3>1. PICK i \in WithStatus(intents, "PUBLISHED") : TRUE
        BY <2>2
      <3>2. WithStatus(intents, "PUBLISHED") = {i}
        BY DEF CatalogInv, OneServed
      <3>3. Cardinality({i}) = 1
        BY FS_Singleton
      <3> QED
        BY <3>2, <3>3
    <2> QED
      BY <2>1, <2>2
  <1>2. \A r \in Resolved(0) : plans[r].valid /\ \A q \in WithStatus(plans, "PUBLISHED") : plans[q].number <= plans[r].number
    BY DEF CatalogInv, PlansServe, Resolved, LatestOf
  <1>3. \A i \in WithStatus(intents, "PUBLISHED") : intents[i].ref # 0 => Resolved(intents[i].ref) # {}
    BY DEF CatalogInv, PinsServe, HasPlan, Resolved
  <1> QED
    BY <1>1, <1>2, <1>3 DEF CatalogServes

LEMMA NextCatalog == ASSUME ~CollisionsAllowed PROVE CatalogInv /\ [CatalogNext]_catalogVars => CatalogInv'
  <1> SUFFICES ASSUME CatalogInv, [CatalogNext]_catalogVars PROVE CatalogInv'
    OBVIOUS
  <1>1. ASSUME NEW r \in IntentRows, IntentRetired(r) PROVE CatalogInv'
    BY <1>1, IntentRetiredKeeps
  <1>2. ASSUME NEW e \in CatalogEditors,
               PlanNumbered(e) \/ \E r \in PlanRows : PlanUpdateRead(e, r) \/ PlanPublishRead(e, r)
        PROVE  CatalogInv'
    BY <1>2, PlanReadKeeps
  <1>3. ASSUME NEW e \in CatalogEditors,
               IntentNumbered(e) \/ \E r \in IntentRows : IntentUpdateRead(e, r) \/ IntentPublishRead(e, r)
        PROVE  CatalogInv'
    BY <1>3, IntentReadKeeps
  <1>4. ASSUME NEW e \in CatalogEditors, PlanInserted(e) \/ IntentInserted(e) PROVE CatalogInv'
    BY <1>4, InsertionKeeps
  <1>5. ASSUME NEW e \in CatalogEditors, OlderRetired(e) PROVE CatalogInv'
    BY <1>5, OlderRetiredKeeps
  <1>6. ASSUME NEW e \in CatalogEditors, RowPut(e) PROVE CatalogInv'
    BY <1>6, RowPutKeeps
  <1>7. ASSUME NEW e \in CatalogEditors, CatalogBreaks(e) PROVE CatalogInv'
    BY <1>7, CatalogBreaksKeeps
  <1>8. CASE UNCHANGED catalogVars
    <2>1. UNCHANGED <<plans, intents, catalogOps>>
      BY <1>8 DEF catalogVars
    <2>2. ASSUME NEW d \in CatalogEditors PROVE OpSound(catalogOps[d])'
      <3>1. OpSound(catalogOps[d])
        BY DEF CatalogInv
      <3> QED
        BY <2>1, <3>1 DEF OpSound, PlanCopy, IntentCopy, OpNumbered, HasPlan, Made, WithStatus
    <2> QED
      BY <2>1, <2>2 DEF CatalogInv, CatalogTypeOK, Numbered, PlansServe, PinsServe, OneServed, NoCollision,
                        HasPlan, Made, WithStatus
  <1> QED
    BY <1>1, <1>2, <1>3, <1>4, <1>5, <1>6, <1>7, <1>8 DEF CatalogNext

\* However many versions there are and however many requests overlap, wherever they break off: if none
\* overlap on one record and no two publish the intent, one version of it is served at most, a plan run
\* by latest is valid and the latest that is PUBLISHED, and a pinned version is there.
THEOREM CatalogServesAlways ==
    ASSUME ~CollisionsAllowed
    PROVE  CatalogSpec => []CatalogServes
  <1>1. CatalogInv /\ [CatalogNext]_catalogVars => CatalogInv'
    BY NextCatalog
  <1> QED
    BY <1>1, CatalogStartsSound, CatalogInvServes, PTL DEF CatalogSpec

-----------------------------------------------------------------------------
(* The check-up of a plan *)

LEMMA Dividing == ASSUME NEW n \in Int, NEW d \in Int, d > 0
                  PROVE  /\ n \div d \in Int
                         /\ d * (n \div d) <= n /\ n < d * (n \div d) + d
  BY Z3T(60)

LEMMA RoundedBounds ==
    ASSUME NEW a \in Int, NEW b \in Int, b > 0
    PROVE  /\ Rounded(a, b) \in Int
           /\ 2 * b * Rounded(a, b) <= 2 * a + b /\ 2 * a + b < 2 * b * Rounded(a, b) + 2 * b
  <1>1. 2 * a + b \in Int /\ 2 * b \in Int /\ 2 * b > 0
    OBVIOUS
  <1>2. (2 * b) * Rounded(a, b) <= 2 * a + b /\ 2 * a + b < (2 * b) * Rounded(a, b) + 2 * b /\ Rounded(a, b) \in Int
    BY <1>1, Dividing DEF Rounded
  <1> QED
    BY <1>1, <1>2

LEMMA Cancelling ==
    ASSUME NEW s \in Int, s > 0, NEW x \in Int, NEW y \in Int
    PROVE  /\ s * x <= s * y => x <= y
           /\ s * x < s * y => x < y
  <1>1. s * y - s * x = s * (y - x) /\ y - x \in Int
    BY SMT
  <1>2. ASSUME NEW z \in Int PROVE (z >= 0 => s * z >= 0) /\ (z > 0 => s * z > 0)
    BY SMT
  <1>3. ASSUME NEW z \in Int, z < 0 PROVE s * z < 0
    <2>1. s * (0 - z) > 0 /\ s * (0 - z) = 0 - s * z
      BY <1>2, <1>3
    <2> QED
      BY <2>1
  <1>4. CASE x <= y
    <2>1. x = y \/ x < y
      BY <1>4
    <2>2. x = y => s * x = s * y
      OBVIOUS
    <2> QED
      BY <2>1, <2>2
  <1>5. CASE x > y
    <2>1. s * (y - x) < 0
      BY <1>3, <1>5
    <2> QED
      BY <1>1, <1>5, <2>1
  <1> QED
    BY <1>4, <1>5

\* Three parts rounded one by one are off by one at most.
LEMMA ScaledSum ==
    ASSUME NEW a \in Int, NEW b \in Int, NEW c \in Int, NEW d \in Int, NEW s \in Int, s = a + b + c, s > 0
    PROVE  LET sum == Rounded(a * d, s) + Rounded(b * d, s) + Rounded(c * d, s) IN
           sum \in Int /\ sum <= d + 1 /\ d - 1 <= sum
  <1>1. a * d \in Int /\ b * d \in Int /\ c * d \in Int /\ a * d + b * d + c * d = s * d
    BY SMT
  <1>2. PICK x \in Int : x = Rounded(a * d, s) /\ 2 * s * x <= 2 * (a * d) + s /\ 2 * (a * d) + s < 2 * s * x + 2 * s
    BY <1>1, RoundedBounds
  <1>3. PICK y \in Int : y = Rounded(b * d, s) /\ 2 * s * y <= 2 * (b * d) + s /\ 2 * (b * d) + s < 2 * s * y + 2 * s
    BY <1>1, RoundedBounds
  <1>4. PICK z \in Int : z = Rounded(c * d, s) /\ 2 * s * z <= 2 * (c * d) + s /\ 2 * (c * d) + s < 2 * s * z + 2 * s
    BY <1>1, RoundedBounds
  <1>5. /\ 2 * s * x + 2 * s * y + 2 * s * z <= 2 * (s * d) + 3 * s
        /\ 2 * (s * d) + 3 * s < 2 * s * x + 2 * s * y + 2 * s * z + 6 * s
    <2>1. PICK p \in Int, q \in Int, r \in Int, t \in Int :
              p = a * d /\ q = b * d /\ r = c * d /\ t = s * d /\ p + q + r = t
      BY <1>1, SMT
    <2>2. PICK u \in Int, v \in Int, w \in Int : u = 2 * s * x /\ v = 2 * s * y /\ w = 2 * s * z
      BY SMT
    <2> QED
      BY <1>2, <1>3, <1>4, <2>1, <2>2
  <1>6. /\ 2 * s * x + 2 * s * y + 2 * s * z = s * (2 * (x + y + z))
        /\ 2 * (s * d) + 3 * s = s * (2 * d + 3)
        /\ 2 * s * x + 2 * s * y + 2 * s * z + 6 * s = s * (2 * (x + y + z) + 6)
    BY SMT
  <1>7. s * (2 * (x + y + z)) <= s * (2 * d + 3) /\ s * (2 * d + 3) < s * (2 * (x + y + z) + 6)
    BY <1>5, <1>6
  <1>8. 2 * (x + y + z) <= 2 * d + 3 /\ 2 * d + 3 < 2 * (x + y + z) + 6
    <2>1. 2 * (x + y + z) \in Int /\ 2 * d + 3 \in Int /\ 2 * (x + y + z) + 6 \in Int
      OBVIOUS
    <2> QED
      BY <1>7, <2>1, Cancelling
  <1> QED
    BY <1>2, <1>3, <1>4, <1>8

\* A form as the view may hold it.
FormOK(f) == f \in [Fields -> Int] /\ f.dem > 0 /\ f.seg_pas >= 0 /\ f.seg_ess >= 0 /\ f.seg_com >= 0

LEMMA FormFields ==
    ASSUME NEW f, FormOK(f)
    PROVE  /\ f.dem \in Int /\ f.sup \in Int /\ f.kitGap \in Int /\ f.gmTarget \in Int /\ f.cashCushion \in Int /\ f.capex \in Int
           /\ f.seg_pas \in Int /\ f.seg_ess \in Int /\ f.seg_com \in Int
           /\ f.dem > 0 /\ f.seg_pas >= 0 /\ f.seg_ess >= 0 /\ f.seg_com >= 0
           /\ SegmentSum(f) \in Int /\ SegmentSum(f) >= 0 /\ SegmentSum(f) = f.seg_pas + f.seg_ess + f.seg_com
           /\ GmStruct(f) \in Int /\ EssShare(f) \in Int
  <1>1. /\ f.dem \in Int /\ f.sup \in Int /\ f.kitGap \in Int /\ f.gmTarget \in Int /\ f.cashCushion \in Int /\ f.capex \in Int
        /\ f.seg_pas \in Int /\ f.seg_ess \in Int /\ f.seg_com \in Int
        /\ f.dem > 0 /\ f.seg_pas >= 0 /\ f.seg_ess >= 0 /\ f.seg_com >= 0
    BY DEF FormOK, Fields, Segments3
  <1>2. SegmentSum(f) \in Int /\ SegmentSum(f) >= 0 /\ SegmentSum(f) = f.seg_pas + f.seg_ess + f.seg_com
    BY <1>1 DEF SegmentSum
  <1>3. T.margins.pas \in Int /\ T.margins.ess \in Int /\ T.margins.com \in Int
    BY AuditAssumption
  <1>4. PICK n \in Int : n = 10000 * (f.seg_pas * T.margins.pas + f.seg_ess * T.margins.ess + f.seg_com * T.margins.com)
    BY <1>1, <1>3
  <1>40. PICK dem \in Int : dem = f.dem /\ dem > 0
    BY <1>1
  <1>41. PICK ess \in Int : ess = 10000 * f.seg_ess
    BY <1>1
  <1>5. GmStruct(f) \in Int
    <2>1. Rounded(n, dem) \in Int
      BY <1>40, RoundedBounds
    <2> QED
      BY <1>4, <1>40, <2>1 DEF GmStruct
  <1>6. EssShare(f) \in Int
    <2>1. Rounded(ess, dem) \in Int
      BY <1>40, RoundedBounds
    <2> QED
      BY <1>40, <1>41, <2>1 DEF EssShare
  <1> QED
    BY <1>1, <1>2, <1>5, <1>6

LEMMA Thresholds ==
    /\ T.segTolerance \in Nat /\ T.gapHard \in Nat /\ T.gapSoft \in Nat /\ T.gmHardOver \in Nat /\ T.gmSoftUnder \in Nat
    /\ T.kitHard \in Nat /\ T.kitFixTons \in Nat /\ T.cashHard \in Nat /\ T.cashSoft \in Nat
    /\ T.essShareBaseline \in Nat /\ T.essShareTol \in Nat /\ T.capexSoft \in Nat
    /\ T.gapSoft < T.gapHard /\ T.cashHard < T.cashSoft
  BY AuditAssumption

\* When a finding is a hard one.
LEMMA HardFindings ==
    ASSUME NEW f
    PROVE  /\ Severity(f, "X01") = "H" <=> Distance(SegmentSum(f), f.dem) > T.segTolerance
           /\ Severity(f, "X02") = "H" <=> f.dem - f.sup > T.gapHard
           /\ Severity(f, "X03") = "H" <=> 100 * f.gmTarget > GmStruct(f) + T.gmHardOver
           /\ Severity(f, "X04") = "H" <=> f.kitGap > T.kitHard
           /\ Severity(f, "X05") = "H" <=> f.cashCushion < T.cashHard
           /\ Severity(f, "R01") # "H" /\ Severity(f, "R02") # "H"
  BY DEF Severity

\* Which findings of two forms that agree on some fields are hard in both or in neither.
LEMMA HardFindingsStay ==
    ASSUME NEW f, NEW g
    PROVE  /\ g.dem = f.dem /\ g.seg_pas = f.seg_pas /\ g.seg_ess = f.seg_ess /\ g.seg_com = f.seg_com =>
                /\ SegmentSum(g) = SegmentSum(f) /\ GmStruct(g) = GmStruct(f)
                /\ Severity(g, "X01") = "H" <=> Severity(f, "X01") = "H"
                /\ g.gmTarget = f.gmTarget => (Severity(g, "X03") = "H" <=> Severity(f, "X03") = "H")
           /\ g.dem = f.dem /\ g.sup = f.sup => (Severity(g, "X02") = "H" <=> Severity(f, "X02") = "H")
           /\ g.kitGap = f.kitGap => (Severity(g, "X04") = "H" <=> Severity(f, "X04") = "H")
           /\ g.cashCushion = f.cashCushion => (Severity(g, "X05") = "H" <=> Severity(f, "X05") = "H")
  BY HardFindings DEF SegmentSum, GmStruct

\* Nothing but the finding itself, or the margin, can have become hard.
LEMMA FewBecomeHard ==
    ASSUME NEW f, NEW g, NEW some,
           \A id \in {"X01", "X02", "X03", "X04", "X05"} : Severity(g, id) = "H" => Severity(f, id) = "H" \/ id \in some
    PROVE  Found(g, "H") \ Found(f, "H") \subseteq some
  BY HardFindings DEF Found, FindingIds

LEMMA NoneBecomeHard ==
    ASSUME NEW f, NEW g,
           \A id \in {"X01", "X02", "X03", "X04", "X05"} : Severity(g, id) = "H" => Severity(f, id) = "H"
    PROVE  Found(g, "H") \ Found(f, "H") = {}
  BY HardFindings DEF Found, FindingIds

\* Rounding leaves what is not negative so.
LEMMA RoundedNat ==
    ASSUME NEW a \in Int, a >= 0, NEW b \in Int, b > 0
    PROVE  Rounded(a, b) \in Int /\ Rounded(a, b) >= 0
  <1>1. PICK x \in Int : x = Rounded(a, b) /\ 2 * a + b < 2 * b * x + 2 * b
    BY RoundedBounds
  <1>2. 2 * b * x + 2 * b = b * (2 * x + 2) /\ b * 0 = 0
    BY SMT
  <1>3. b * 0 < b * (2 * x + 2) /\ 2 * x + 2 \in Int
    BY <1>1, <1>2
  <1>4. 0 < 2 * x + 2
    BY <1>3, Cancelling
  <1> QED
    BY <1>1, <1>4

LEMMA ScaledSegmentsNat ==
    ASSUME NEW f, FormOK(f)
    PROVE  \A x \in Segments3 : ScaledSegments(f)[x] \in Int /\ ScaledSegments(f)[x] >= 0
  <1> SUFFICES ASSUME NEW x \in Segments3 PROVE ScaledSegments(f)[x] \in Int /\ ScaledSegments(f)[x] >= 0
    OBVIOUS
  <1>1. CASE SegmentSum(f) = 0
    BY <1>1 DEF ScaledSegments
  <1>2. CASE SegmentSum(f) # 0
    <2>1. PICK n \in Int, d \in Int, s \in Int : n = f[x] /\ d = f.dem /\ s = SegmentSum(f) /\ n >= 0 /\ d > 0 /\ s > 0
      BY <1>2, FormFields DEF Segments3
    <2>2. n * d \in Int /\ n * d >= 0
      BY <2>1, SMT
    <2>3. Rounded(n * d, s) \in Int /\ Rounded(n * d, s) >= 0
      BY <2>1, <2>2, RoundedNat
    <2> QED
      BY <1>2, <2>1, <2>3 DEF ScaledSegments
  <1> QED
    BY <1>1, <1>2

\* A fix laid over any form.
LEMMA PatchKeepsForm ==
    ASSUME NEW f, FormOK(f), NEW g, FormOK(g), NEW id \in FindingIds \ {"R01", "R02"}
    PROVE  FormOK(Patched(f, PatchOf(g, id)))
  <1>1. /\ g.dem \in Int /\ g.kitGap \in Int /\ g.capex \in Int /\ g.cashCushion \in Int /\ GmStruct(g) \in Int
    BY FormFields
  <1>2. f \in [Fields -> Int] /\ f.dem > 0 /\ f.seg_pas >= 0 /\ f.seg_ess >= 0 /\ f.seg_com >= 0
    BY DEF FormOK
  <1> DEFINE patch == PatchOf(g, id)
  <1>3. /\ \A x \in Fields \cap DOMAIN patch : patch[x] \in Int
        /\ \A x \in Segments3 \cap DOMAIN patch : patch[x] >= 0
        /\ "dem" \notin DOMAIN patch
    <2>1. CASE id = "X01"
      <3>1. patch = ScaledSegments(g) /\ DOMAIN patch = Segments3
        BY <2>1 DEF PatchOf, ScaledSegments
      <3> HIDE DEF patch
      <3> QED
        BY <3>1, ScaledSegmentsNat DEF Segments3
    <2>2. CASE id = "X02"
      BY <1>1, <2>2 DEF PatchOf, Segments3
    <2>3. CASE id = "X03"
      <3>1. Rounded(GmStruct(g), 100) \in Int
        BY <1>1, RoundedBounds
      <3> QED
        BY <2>3, <3>1 DEF PatchOf, Segments3
    <2>4. CASE id = "X04"
      BY <1>1, <2>4, Thresholds DEF PatchOf, Segments3, AtLeastZero
    <2>5. CASE id = "X05"
      <3>1. PICK cash \in Int : cash = IF Severity(g, "X05") = "H" THEN T.cashHard ELSE T.cashSoft
        BY Thresholds
      <3>2. AtLeastZero(g.capex - (cash - g.cashCushion)) \in Int
        BY <1>1 DEF AtLeastZero
      <3>3. patch = [cashCushion |-> cash, capex |-> AtLeastZero(g.capex - (cash - g.cashCushion))]
        BY <2>5, <3>1 DEF PatchOf
      <3> HIDE DEF patch
      <3> QED
        BY <3>1, <3>2, <3>3 DEF Segments3
    <2> QED
      BY <2>1, <2>2, <2>3, <2>4, <2>5 DEF FindingIds
  <1> HIDE DEF patch
  <1>4. FormOK(Patched(f, patch))
    <2>1. Patched(f, patch) \in [Fields -> Int]
      BY <1>2, <1>3 DEF Patched
    <2>2. \A x \in Fields : Patched(f, patch)[x] = IF x \in DOMAIN patch THEN patch[x] ELSE f[x]
      BY DEF Patched
    <2>3. Patched(f, patch).dem = f.dem
      BY <1>3, <2>2 DEF Fields
    <2>4. \A x \in Segments3 : Patched(f, patch)[x] >= 0
      BY <1>2, <1>3, <2>2 DEF Fields, Segments3
    <2> QED
      BY <1>2, <2>1, <2>3, <2>4 DEF FormOK, Segments3
  <1> QED
    BY <1>4 DEF patch

\* The scaled segments come within one of the demand.
LEMMA SegmentsScaled ==
    ASSUME T.segTolerance >= 1, NEW f, FormOK(f)
    PROVE  FixHelps(f, "X01")
  <1> DEFINE after == Patched(f, PatchOf(f, "X01"))
  <1>0. FormOK(f)
    OBVIOUS
  <1>1. PatchOf(f, "X01") = ScaledSegments(f) /\ DOMAIN ScaledSegments(f) = Segments3
    BY DEF PatchOf, ScaledSegments
  <1>2. /\ after.dem = f.dem /\ after.sup = f.sup /\ after.kitGap = f.kitGap /\ after.gmTarget = f.gmTarget
        /\ after.cashCushion = f.cashCushion /\ after.capex = f.capex
        /\ after.seg_pas = ScaledSegments(f).seg_pas /\ after.seg_ess = ScaledSegments(f).seg_ess
        /\ after.seg_com = ScaledSegments(f).seg_com
        /\ DOMAIN after = Fields
    BY <1>1 DEF Patched, Fields, Segments3
  <1> HIDE DEF after
  <1>3. CASE SegmentSum(f) = 0
    <2>1. after.seg_pas = 0 /\ after.seg_ess = 0 /\ after.seg_com = 0
      BY <1>2, <1>3 DEF ScaledSegments, Segments3
    <2>3. \A id \in {"X02", "X04", "X05"} : Severity(after, id) = "H" => Severity(f, id) = "H"
      BY <1>2, HardFindingsStay
    <2>4. Severity(after, "X01") = "H" => Severity(f, "X01") = "H"
      <3>1. SegmentSum(after) = 0
        BY <2>1 DEF SegmentSum
      <3> QED
        BY <1>2, <1>3, <3>1, HardFindings
    <2>5. Found(after, "H") \ Found(f, "H") \subseteq {"X03"}
      <3>1. \A id \in {"X01", "X02", "X03", "X04", "X05"} : Severity(after, id) = "H" => Severity(f, id) = "H" \/ id \in {"X03"}
        BY <2>3, <2>4
      <3> QED
        BY <3>1, FewBecomeHard
    <2> QED
      BY <1>3, <2>5 DEF FixHelps, after
  <1>4. CASE SegmentSum(f) # 0
    <2> DEFINE s == SegmentSum(f)
    <2>1. /\ f.seg_pas \in Int /\ f.seg_ess \in Int /\ f.seg_com \in Int /\ f.dem \in Int /\ s \in Int /\ s > 0
          /\ s = f.seg_pas + f.seg_ess + f.seg_com /\ f.dem > 0
          /\ f.seg_pas >= 0 /\ f.seg_ess >= 0 /\ f.seg_com >= 0
      BY <1>0, <1>4, FormFields
    <2>2. /\ after.seg_pas = Rounded(f.seg_pas * f.dem, s) /\ after.seg_ess = Rounded(f.seg_ess * f.dem, s)
          /\ after.seg_com = Rounded(f.seg_com * f.dem, s)
      BY <1>2, <1>4 DEF ScaledSegments, Segments3
    <2> HIDE DEF s
    <2>30. PICK a \in Int, b \in Int, c \in Int, d \in Int, m \in Int :
               a = f.seg_pas /\ b = f.seg_ess /\ c = f.seg_com /\ d = f.dem /\ m = s
      BY <2>1
    <2>31. LET sum == Rounded(a * d, m) + Rounded(b * d, m) + Rounded(c * d, m) IN
           sum \in Int /\ sum <= d + 1 /\ d - 1 <= sum
      <3>1. a \in Int /\ b \in Int /\ c \in Int /\ d \in Int /\ m \in Int /\ m = a + b + c /\ m > 0
        BY <2>1, <2>30
      <3> QED
        BY ONLY <3>1, ScaledSum
    <2>3. /\ SegmentSum(after) \in Int /\ SegmentSum(after) <= f.dem + 1 /\ f.dem - 1 <= SegmentSum(after)
      BY <2>2, <2>30, <2>31 DEF SegmentSum
    <2>6. Severity(after, "X01") # "H"
      <3>1. Distance(SegmentSum(after), after.dem) <= 1
        BY <1>2, <2>1, <2>3 DEF Distance
      <3>2. Distance(SegmentSum(after), after.dem) \in Int
        BY <1>2, <2>1, <2>3 DEF Distance
      <3> QED
        BY <3>1, <3>2, HardFindings, Thresholds
    <2>7. \A id \in {"X02", "X04", "X05"} : Severity(after, id) = "H" => Severity(f, id) = "H"
      BY <1>2, HardFindingsStay
    <2>8. Found(after, "H") \ Found(f, "H") \subseteq {"X03"}
      <3>1. \A id \in {"X01", "X02", "X03", "X04", "X05"} : Severity(after, id) = "H" => Severity(f, id) = "H" \/ id \in {"X03"}
        BY <2>6, <2>7
      <3> QED
        BY <3>1, FewBecomeHard
    <2> QED
      BY <2>6, <2>8 DEF FixHelps, after
  <1> QED
    BY <1>3, <1>4

\* A fix of one or two fields takes its finding down and touches no other.
LEMMA FieldsFixed ==
    ASSUME T.gmHardOver >= 50, NEW f, FormOK(f), NEW id \in {"X02", "X03", "X04", "X05"}
    PROVE  FixHelps(f, id)
  <1> DEFINE patch == PatchOf(f, id)
             after == Patched(f, patch)
  <1>1. /\ f.dem \in Int /\ f.sup \in Int /\ f.kitGap \in Int /\ f.gmTarget \in Int /\ f.cashCushion \in Int /\ f.capex \in Int
        /\ GmStruct(f) \in Int
    BY FormFields
  <1>2. \A x \in Fields : after[x] = IF x \in DOMAIN patch THEN patch[x] ELSE f[x]
    BY DEF Patched
  <1>3. CASE id = "X02"
    <2>1. patch = [x \in {"sup"} |-> f.dem]
      BY <1>3 DEF PatchOf
    <2> HIDE DEF patch
    <2>2. /\ after.sup = f.dem /\ after.dem = f.dem /\ after.seg_pas = f.seg_pas /\ after.seg_ess = f.seg_ess
          /\ after.seg_com = f.seg_com /\ after.kitGap = f.kitGap /\ after.gmTarget = f.gmTarget
          /\ after.cashCushion = f.cashCushion
      BY <1>2, <2>1 DEF Fields, Segments3
    <2> HIDE DEF after
    <2>3. Severity(after, "X02") # "H"
      BY <1>1, <2>2, HardFindings, Thresholds
    <2>4. \A x \in {"X01", "X02", "X03", "X04", "X05"} : Severity(after, x) = "H" => Severity(f, x) = "H"
      BY <2>2, <2>3, HardFindingsStay
    <2>5. Found(after, "H") \ Found(f, "H") = {}
      BY <2>4, NoneBecomeHard
    <2> QED
      BY <1>3, <2>3, <2>5 DEF FixHelps, after, patch
  <1>4. CASE id = "X03"
    <2>1. patch = [x \in {"gmTarget"} |-> Rounded(GmStruct(f), 100)]
      BY <1>4 DEF PatchOf
    <2> HIDE DEF patch
    <2>2. /\ after.sup = f.sup /\ after.dem = f.dem /\ after.seg_pas = f.seg_pas /\ after.seg_ess = f.seg_ess
          /\ after.seg_com = f.seg_com /\ after.kitGap = f.kitGap /\ after.gmTarget = Rounded(GmStruct(f), 100)
          /\ after.cashCushion = f.cashCushion
      BY <1>2, <2>1 DEF Fields, Segments3
    <2> HIDE DEF after
    <2>3. Severity(after, "X03") # "H"
      <3>1. PICK g \in Int : g = GmStruct(f)
        BY <1>1
      <3>2. PICK r \in Int : r = Rounded(g, 100) /\ 2 * 100 * r <= 2 * g + 100
        <4>1. PICK c \in Int : c = 100 /\ c > 0
          OBVIOUS
        <4>2. Rounded(g, c) \in Int /\ 2 * c * Rounded(g, c) <= 2 * g + c
          BY <4>1, RoundedBounds
        <4> QED
          BY <4>1, <4>2
      <3>3. ~(100 * r > g + T.gmHardOver)
        BY <3>2, Thresholds
      <3>4. GmStruct(after) = g
        BY <2>2, <3>1, HardFindingsStay
      <3> QED
        BY <2>2, <3>1, <3>2, <3>3, <3>4, HardFindings
    <2>4. \A x \in {"X01", "X02", "X03", "X04", "X05"} : Severity(after, x) = "H" => Severity(f, x) = "H"
      BY <2>2, <2>3, HardFindingsStay
    <2>5. Found(after, "H") \ Found(f, "H") = {}
      BY <2>4, NoneBecomeHard
    <2> QED
      BY <1>4, <2>3, <2>5 DEF FixHelps, after, patch
  <1>5. CASE id = "X04"
    <2>1. patch = [x \in {"kitGap"} |-> AtLeastZero(f.kitGap - T.kitFixTons)]
      BY <1>5 DEF PatchOf
    <2> HIDE DEF patch
    <2>2. /\ after.sup = f.sup /\ after.dem = f.dem /\ after.seg_pas = f.seg_pas /\ after.seg_ess = f.seg_ess
          /\ after.seg_com = f.seg_com /\ after.kitGap = AtLeastZero(f.kitGap - T.kitFixTons) /\ after.gmTarget = f.gmTarget
          /\ after.cashCushion = f.cashCushion
      BY <1>2, <2>1 DEF Fields, Segments3
    <2> HIDE DEF after
    <2>3. Severity(after, "X04") = "H" => after.kitGap = f.kitGap - T.kitFixTons /\ Severity(f, "X04") = "H"
      <3>1. Severity(after, "X04") = "H" <=> after.kitGap > T.kitHard
        BY HardFindings
      <3>2. Severity(f, "X04") = "H" <=> f.kitGap > T.kitHard
        BY HardFindings
      <3> QED
        BY <1>1, <2>2, <3>1, <3>2, Thresholds DEF AtLeastZero
    <2>4. \A x \in {"X01", "X02", "X03", "X04", "X05"} : Severity(after, x) = "H" => Severity(f, x) = "H"
      BY <2>2, <2>3, HardFindingsStay
    <2>5. Found(after, "H") \ Found(f, "H") = {}
      BY <2>4, NoneBecomeHard
    <2> QED
      BY <1>5, <2>3, <2>5 DEF FixHelps, after, patch
  <1>6. CASE id = "X05"
    <2>1. PICK cash \in Int : cash = (IF Severity(f, "X05") = "H" THEN T.cashHard ELSE T.cashSoft) /\ cash >= T.cashHard
      BY Thresholds
    <2>2. patch = [cashCushion |-> cash, capex |-> AtLeastZero(f.capex - (cash - f.cashCushion))]
      BY <1>6, <2>1 DEF PatchOf
    <2> HIDE DEF patch
    <2>3. /\ after.sup = f.sup /\ after.dem = f.dem /\ after.seg_pas = f.seg_pas /\ after.seg_ess = f.seg_ess
          /\ after.seg_com = f.seg_com /\ after.kitGap = f.kitGap /\ after.gmTarget = f.gmTarget
          /\ after.cashCushion = cash
      BY <1>2, <2>2 DEF Fields, Segments3
    <2> HIDE DEF after
    <2>4. Severity(after, "X05") # "H"
      BY <2>1, <2>3, HardFindings, Thresholds
    <2>5. \A x \in {"X01", "X02", "X03", "X04", "X05"} : Severity(after, x) = "H" => Severity(f, x) = "H"
      BY <2>3, <2>4, HardFindingsStay
    <2>6. Found(after, "H") \ Found(f, "H") = {}
      BY <2>5, NoneBecomeHard
    <2> QED
      BY <1>6, <2>4, <2>6 DEF FixHelps, after, patch
  <1> QED
    BY <1>3, <1>4, <1>5, <1>6

\* A plan that passes has nothing hard: one hard finding takes the score below the mark.
LEMMA PassedIsClean ==
    ASSUME T.passScore > 0, NEW f, Verdict(f) = "pass"
    PROVE  Found(f, "H") = {}
  <1>1. IsFiniteSet(FindingIds)
    <2>1. FindingIds = {"X01"} \cup ({"X02"} \cup ({"X03"} \cup ({"X04"} \cup ({"X05"} \cup ({"R01"} \cup {"R02"})))))
      BY DEF FindingIds
    <2> QED
      BY <2>1, FS_Singleton, FS_Union
  <1>2. PICK h \in Nat, m \in Nat : h = Cardinality(Found(f, "H")) /\ m = Cardinality(Found(f, "M"))
    <2>1. Found(f, "H") \subseteq FindingIds /\ Found(f, "M") \subseteq FindingIds
      BY DEF Found
    <2> QED
      BY <1>1, <2>1, FS_Subset, FS_CardinalityType
  <1>3. T.passScore \in Nat /\ T.condScore \in Nat /\ T.scoreH \in Nat /\ T.scoreM \in Nat /\ 100 - T.scoreH < T.passScore
    BY AuditAssumption
  <1>4. ASSUME h >= 1 PROVE FALSE
    <2>1. T.scoreH * h \in Nat /\ T.scoreM * m \in Nat /\ T.scoreH * h >= T.scoreH
      <3>1. T.scoreH * h \in Nat /\ T.scoreM * m \in Nat
        BY <1>2, <1>3
      <3>2. T.scoreH * h = T.scoreH * (h - 1) + T.scoreH /\ h - 1 \in Nat /\ T.scoreH * (h - 1) \in Nat
        BY <1>2, <1>3, <1>4, SMT
      <3> QED
        BY <1>3, <3>1, <3>2
    <2>2. Score(f) < T.passScore
      BY <1>2, <1>3, <2>1 DEF Score, AtLeastZero
    <2>3. Score(f) \in Int
      BY <1>2, <1>3, <2>1 DEF Score, AtLeastZero
    <2> QED
      BY <1>3, <2>2, <2>3 DEF Verdict
  <1>5. h = 0
    BY <1>2, <1>4
  <1> QED
    <2>1. IsFiniteSet(Found(f, "H"))
      BY <1>1, FS_Subset DEF Found
    <2> QED
      BY <1>2, <1>5, <2>1, FS_EmptySet

PlanRequest == [seq : Nat, form : {f \in [Fields -> Int] : FormOK(f)}]

\* The request that asks for the form as it is.
AsksForm(r) == r.seq = asked.seq /\ r.form = form

\* Once the debounce is over, the last request is for the form; if it is answered and did not fail, the
\* form is shown.
ViewFollows ==
    ~debounce =>
        /\ \A r \in asked.open : r.seq = asked.seq => r.form = form
        /\ (\E r \in asked.open : r.seq = asked.seq) \/ failed \/ (shown # NotShown /\ shown.form = form)

AuditInv ==
    /\ baseline \in Baselines /\ FormOK(form) /\ debounce \in BOOLEAN /\ failed \in BOOLEAN
    /\ asked \in [seq : Nat, open : SUBSET PlanRequest] /\ \A r \in asked.open : r.seq <= asked.seq
    /\ shown \in PlanRequest \cup {NotShown} /\ ViewFollows

LEMMA BaselineOK == \A f \in Baselines : FormOK(f)
  <1> SUFFICES ASSUME NEW f \in Baselines PROVE FormOK(f)
    OBVIOUS
  <1>1. f \in [Fields -> Nat] /\ f.dem > 0
    BY AuditAssumption
  <1>2. f \in [Fields -> Int]
    <2>1. \A x \in Fields : f[x] \in Int
      BY <1>1
    <2> QED
      BY <1>1, <2>1
  <1> QED
    BY <1>1, <1>2 DEF FormOK, Fields, Segments3

\* The form changes, to any form there may be: unless it is the same, the debounce begins.
LEMMA FormSetKeeps ==
    ASSUME AuditInv, NEW new, FormOK(new), FormSet(new), UNCHANGED <<baseline, asked, shown, failed>>
    PROVE  AuditInv'
  <1>1. form' = new /\ debounce' = (debounce \/ new # form) /\ debounce \in BOOLEAN
    BY DEF FormSet, AuditInv
  <1>2. ViewFollows'
    <2>1. CASE debounce'
      BY <2>1 DEF ViewFollows
    <2>2. CASE ~debounce'
      BY <1>1, <2>2 DEF ViewFollows, AuditInv
    <2> QED
      BY <2>1, <2>2
  <1>3. debounce' \in BOOLEAN
    BY <1>1
  <1>4. FormOK(form)'
    BY <1>1 DEF FormOK
  <1> QED
    BY <1>2, <1>3, <1>4 DEF AuditInv

LEMMA EditKeeps ==
    ASSUME AuditInv, NEW field \in DOMAIN FieldValues, FieldEdited(field)
    PROVE  AuditInv'
  <1>1. PICK v \in FieldValues[field] :
            FormSet([form EXCEPT ![field] = v]) /\ UNCHANGED <<baseline, asked, shown, failed>>
    BY DEF FieldEdited
  <1>2. field \in Fields /\ v \in Nat /\ (field = "dem" => v > 0)
    <2>1. field \in Fields /\ v \in Nat /\ (field = "dem" => v # 0)
      BY AuditAssumption
    <2> QED
      BY <2>1
  <1>3. PICK new : new = [form EXCEPT ![field] = v]
    OBVIOUS
  <1>4. FormOK(new)
    <2>1. form \in [Fields -> Int] /\ FormOK(form)
      BY DEF AuditInv, FormOK
    <2>2. new \in [Fields -> Int] /\ \A x \in Fields : new[x] = IF x = field THEN v ELSE form[x]
      BY <1>2, <1>3, <2>1
    <2>3. new.dem > 0 /\ new.seg_pas >= 0 /\ new.seg_ess >= 0 /\ new.seg_com >= 0
      <3>1. /\ new["dem"] = IF "dem" = field THEN v ELSE form["dem"]
            /\ \A x \in Segments3 : new[x] = IF x = field THEN v ELSE form[x]
        BY <2>2 DEF Fields
      <3> QED
        BY <1>2, <2>1, <3>1 DEF FormOK, Segments3
    <2> QED
      BY <2>2, <2>3 DEF FormOK
  <1> QED
    BY <1>1, <1>3, <1>4, FormSetKeeps

LEMMA FixKeeps ==
    ASSUME AuditInv, NEW id \in FindingIds, FixApplied(id)
    PROVE  AuditInv'
  <1>1. shown # NotShown /\ id \in Fixable(shown.form) /\ UNCHANGED <<baseline, asked, shown, failed>>
        /\ FormSet(Patched(form, PatchOf(shown.form, id)))
    BY DEF FixApplied
  <1>2. PICK g : g = shown.form /\ FormOK(g) /\ FormOK(form)
    <2>1. shown \in PlanRequest
      BY <1>1 DEF AuditInv
    <2>2. FormOK(shown.form)
      BY <2>1 DEF PlanRequest
    <2> QED
      BY <2>2 DEF AuditInv
  <1>3. id \in FindingIds \ {"R01", "R02"}
    BY <1>1 DEF Fixable
  <1>4. FormOK(Patched(form, PatchOf(g, id)))
    BY <1>2, <1>3, PatchKeepsForm
  <1>5. PICK new : new = Patched(form, PatchOf(g, id)) /\ FormOK(new)
    BY <1>4
  <1> QED
    BY <1>1, <1>2, <1>5, FormSetKeeps

LEMMA RequestsKeep ==
    ASSUME AuditInv, DebounceEnds \/ \E r \in asked.open : AnswerShown(r) \/ AnswerFails(r) \/ LateAnswerDropped(r)
    PROVE  AuditInv'
  <1>1. /\ asked \in [seq : Nat, open : SUBSET PlanRequest] /\ shown \in PlanRequest \cup {NotShown}
        /\ \A r \in asked.open : r.seq <= asked.seq
        /\ FormOK(form) /\ debounce \in BOOLEAN /\ failed \in BOOLEAN /\ baseline \in Baselines /\ ViewFollows
    BY DEF AuditInv
  <1>2. asked.seq \in Nat /\ asked.open \subseteq PlanRequest
    BY <1>1
  <1>3. CASE DebounceEnds
    <2> DEFINE mine == [seq |-> asked.seq + 1, form |-> form]
    <2>1. /\ debounce' = FALSE /\ asked' = [seq |-> asked.seq + 1, open |-> asked.open \cup {mine}]
          /\ UNCHANGED <<baseline, form, shown, failed>>
      BY <1>3 DEF DebounceEnds
    <2>2. mine \in PlanRequest /\ mine.seq = asked.seq + 1 /\ mine.form = form
      BY <1>1, <1>2 DEF PlanRequest, FormOK
    <2> HIDE DEF mine
    <2>3. /\ asked' \in [seq : Nat, open : SUBSET PlanRequest]
          /\ asked'.seq = asked.seq + 1 /\ asked'.open = asked.open \cup {mine}
      BY <1>2, <2>1, <2>2
    <2>4. \A r \in asked'.open : r.seq <= asked'.seq /\ (r.seq = asked'.seq => r = mine)
      <3>1. \A r \in asked.open : r.seq \in Nat
        BY <1>2 DEF PlanRequest
      <3> QED
        BY <1>1, <1>2, <2>2, <2>3, <3>1
    <2>5. ViewFollows'
      BY <2>1, <2>2, <2>3, <2>4 DEF ViewFollows
    <2>6. FormOK(form)'
      BY <1>1, <2>1 DEF FormOK
    <2> QED
      BY <1>1, <2>1, <2>3, <2>4, <2>5, <2>6 DEF AuditInv
  <1>4. ASSUME NEW r \in asked.open, AnswerShown(r) \/ AnswerFails(r) \/ LateAnswerDropped(r) PROVE AuditInv'
    <2>1. /\ asked' = [asked EXCEPT !.open = @ \ {r}] /\ UNCHANGED <<baseline, form, debounce>>
          /\ \/ r.seq = asked.seq /\ shown' = r /\ failed' = FALSE
             \/ r.seq = asked.seq /\ failed' = TRUE /\ UNCHANGED shown
             \/ r.seq # asked.seq /\ UNCHANGED <<shown, failed>>
      BY <1>4 DEF AnswerShown, AnswerFails, LateAnswerDropped
    <2>2. /\ asked' \in [seq : Nat, open : SUBSET PlanRequest] /\ asked'.seq = asked.seq /\ asked'.open = asked.open \ {r}
      BY <1>1, <2>1
    <2>3. r \in PlanRequest /\ shown' \in PlanRequest \cup {NotShown} /\ failed' \in BOOLEAN
      BY <1>1, <1>2, <2>1
    <2>4. r # NotShown
      <3>1. "form" \in DOMAIN r
        BY <2>3 DEF PlanRequest
      <3>2. DOMAIN NotShown = {"seq"}
        BY DEF NotShown
      <3> QED
        BY <3>1, <3>2
    <2>5. ViewFollows'
      <3>1. CASE debounce
        BY <2>1, <3>1 DEF ViewFollows
      <3>2. CASE ~debounce
        <4>1. /\ \A q \in asked.open : q.seq = asked.seq => q.form = form
              /\ (\E q \in asked.open : q.seq = asked.seq) \/ failed \/ (shown # NotShown /\ shown.form = form)
          BY <1>1, <3>2 DEF ViewFollows
        <4>2. CASE r.seq = asked.seq
          BY <2>1, <2>2, <2>4, <4>1, <4>2 DEF ViewFollows
        <4>3. CASE r.seq # asked.seq
          BY <2>1, <2>2, <4>1, <4>3 DEF ViewFollows
        <4> QED
          BY <4>2, <4>3
      <3> QED
        BY <1>1, <3>1, <3>2
    <2>6. FormOK(form)'
      BY <1>1, <2>1 DEF FormOK
    <2> QED
      BY <1>1, <2>1, <2>2, <2>3, <2>5, <2>6 DEF AuditInv
  <1> QED
    BY <1>3, <1>4

LEMMA AuditStarts == AuditInit => AuditInv
  <1> SUFFICES ASSUME AuditInit PROVE AuditInv
    OBVIOUS
  <1>1. /\ baseline \in Baselines /\ form = baseline /\ debounce = TRUE /\ failed = FALSE /\ shown = NotShown
        /\ asked = [seq |-> 0, open |-> {}]
    BY DEF AuditInit
  <1> QED
    BY <1>1, BaselineOK DEF AuditInv, ViewFollows

LEMMA AuditInvSound ==
    ASSUME AuditInv, T.segTolerance >= 1, T.gmHardOver >= 50, T.passScore > 0
    PROVE  LiveSound
  <1>1. ~debounce /\ (\A r \in asked.open : r.seq < asked.seq) /\ ~failed => shown # NotShown /\ shown.form = form
    <2>1. \A r \in asked.open : r.seq < asked.seq => r.seq # asked.seq
      <3>1. asked.seq \in Nat /\ \A r \in asked.open : r.seq \in Nat
        BY DEF AuditInv, PlanRequest
      <3> QED
        BY <3>1
    <2> QED
      BY <2>1 DEF AuditInv, ViewFollows
  <1>2. ASSUME shown # NotShown
        PROVE  /\ \A id \in Fixable(shown.form) : FixHelps(shown.form, id)
               /\ Verdict(shown.form) = "pass" => Found(shown.form, "H") = {}
    <2>1. PICK f : f = shown.form /\ FormOK(f)
      BY <1>2 DEF AuditInv, PlanRequest
    <2>2. ASSUME NEW id \in Fixable(f) PROVE FixHelps(f, id)
      <3>1. id \in {"X01", "X02", "X03", "X04", "X05"}
        BY DEF Fixable, FindingIds
      <3>2. CASE id = "X01"
        BY <2>1, <3>2, SegmentsScaled
      <3>3. CASE id \in {"X02", "X03", "X04", "X05"}
        BY <2>1, <3>3, FieldsFixed
      <3> QED
        BY <3>1, <3>2, <3>3
    <2>3. Verdict(f) = "pass" => Found(f, "H") = {}
      BY PassedIsClean
    <2> QED
      BY <2>1, <2>2, <2>3
  <1> QED
    BY <1>1, <1>2 DEF LiveSound

LEMMA NextAudit ==
    ASSUME T.segTolerance >= 1, T.gmHardOver >= 50, T.passScore > 0
    PROVE  AuditInv /\ [AuditNext]_auditVars => AuditInv'
  <1> SUFFICES ASSUME AuditInv, [AuditNext]_auditVars PROVE AuditInv'
    OBVIOUS
  <1>1. ASSUME NEW field \in DOMAIN FieldValues, FieldEdited(field) PROVE AuditInv'
    BY <1>1, EditKeeps
  <1>2. ASSUME NEW id \in FindingIds, FixApplied(id) PROVE AuditInv'
    BY <1>2, FixKeeps
  <1>3. CASE FormReset
    <2>1. FormOK(baseline)
      BY BaselineOK DEF AuditInv
    <2>2. FormSet(baseline) /\ UNCHANGED <<baseline, asked, shown, failed>>
      BY <1>3 DEF FormReset
    <2> QED
      BY <2>1, <2>2, FormSetKeeps
  <1>4. CASE DebounceEnds \/ \E r \in asked.open : AnswerShown(r) \/ AnswerFails(r) \/ LateAnswerDropped(r)
    BY <1>4, RequestsKeep
  <1>5. CASE UNCHANGED auditVars
    <2>1. UNCHANGED <<baseline, form, debounce, asked, shown, failed>>
      BY <1>5 DEF auditVars
    <2>2. FormOK(form)'
      BY <2>1 DEF AuditInv, FormOK
    <2> QED
      BY <2>1, <2>2 DEF AuditInv, ViewFollows
  <1> QED
    BY <1>1, <1>2, <1>3, <1>4, <1>5 DEF AuditNext

\* The numbers of requests, and how often the form was changed.
AuditCounts ==
    /\ \A r \in asked.open : r.seq \in 1..asked.seq
    /\ shown.seq \in 0..asked.seq /\ changes \in 0..MaxChanges

LEMMA CountsStart == AuditInit => AuditCounts
  BY AuditAssumption DEF AuditInit, AuditCounts, NotShown

LEMMA NextCounts ==
    ASSUME AuditInv, AuditCounts, [AuditNext]_auditVars
    PROVE  AuditCounts'
  <1>0. /\ asked.seq \in Nat /\ asked \in [seq : Nat, open : SUBSET PlanRequest] /\ MaxChanges \in Nat
        /\ \A r \in asked.open : r.seq \in 1..asked.seq
        /\ shown.seq \in 0..asked.seq /\ changes \in 0..MaxChanges
    BY AuditAssumption DEF AuditInv, AuditCounts
  <1>1. ASSUME NEW new, FormSet(new), UNCHANGED <<baseline, asked, shown, failed>> PROVE AuditCounts'
    <2>1. changes' \in 0..MaxChanges
      BY <1>0, <1>1 DEF FormSet
    <2> QED
      BY <1>0, <1>1, <2>1 DEF AuditCounts
  <1>2. CASE DebounceEnds
    <2>1. /\ asked'.seq = asked.seq + 1 /\ asked'.open = asked.open \cup {[seq |-> asked.seq + 1, form |-> form]}
          /\ UNCHANGED <<shown, changes>>
      BY <1>2 DEF DebounceEnds
    <2>2. \A r \in asked'.open : r.seq \in 1..asked'.seq
      BY <1>0, <2>1
    <2>3. shown'.seq \in 0..asked'.seq /\ changes' \in 0..MaxChanges
      BY <1>0, <2>1
    <2> QED
      BY <2>2, <2>3 DEF AuditCounts
  <1>3. ASSUME NEW r \in asked.open, AnswerShown(r) \/ AnswerFails(r) \/ LateAnswerDropped(r) PROVE AuditCounts'
    <2>1. asked' = [asked EXCEPT !.open = @ \ {r}] /\ shown' \in {r, shown} /\ changes' = changes
      BY <1>3 DEF AnswerShown, AnswerFails, LateAnswerDropped
    <2>2. asked'.seq = asked.seq /\ asked'.open = asked.open \ {r}
      BY <1>0, <2>1
    <2>3. shown'.seq \in 0..asked'.seq
      BY <1>0, <2>1, <2>2
    <2>4. \A q \in asked'.open : q.seq \in 1..asked'.seq
      BY <1>0, <2>2
    <2>5. changes' \in 0..MaxChanges
      BY <1>0, <2>1
    <2> QED
      BY <2>3, <2>4, <2>5 DEF AuditCounts
  <1>4. CASE UNCHANGED auditVars
    <2>1. UNCHANGED <<asked, shown, changes>>
      BY <1>4 DEF auditVars
    <2> QED
      BY <1>0, <2>1 DEF AuditCounts
  <1>5. ASSUME NEW field \in DOMAIN FieldValues, FieldEdited(field) PROVE AuditCounts'
    <2>1. PICK v : FormSet([form EXCEPT ![field] = v]) /\ UNCHANGED <<baseline, asked, shown, failed>>
      BY <1>5 DEF FieldEdited
    <2> QED
      BY <1>1, <2>1
  <1>6. ASSUME NEW id \in FindingIds, FixApplied(id) PROVE AuditCounts'
    BY <1>1, <1>6 DEF FixApplied
  <1>7. CASE FormReset
    BY <1>1, <1>7 DEF FormReset
  <1> QED
    BY <1>2, <1>3, <1>4, <1>5, <1>6, <1>7 DEF AuditNext

LEMMA AuditTyped ==
    ASSUME AuditInv, AuditCounts
    PROVE  AuditTypeOK
  BY DEF AuditInv, AuditCounts, AuditTypeOK, FormOK

\* For every form, any thresholds that leave room for what rounding adds (a hundredth of the demand for
\* the segments, half of one for the margin), any edits, resets and fixes made for another form, and
\* answers that come late, in any order or not at all: what is on the screen once all is quiet belongs
\* to the form, a fix helps, and a plan that passes has no hard finding.
THEOREM LiveSoundAlways ==
    ASSUME T.segTolerance >= 1, T.gmHardOver >= 50, T.passScore > 0
    PROVE  AuditSpec => []LiveSound
  <1>1. AuditInv /\ [AuditNext]_auditVars => AuditInv'
    BY NextAudit
  <1>2. AuditInv => LiveSound
    BY AuditInvSound
  <1> QED
    BY <1>1, <1>2, AuditStarts, PTL DEF AuditSpec

-----------------------------------------------------------------------------
(* The directory of LLM providers *)

\* How recent the record is that a call has got, at each point of the call.
CallRecent(call) ==
    /\ call.pc # "idle" => call.since <= llmClock /\ llmClock <= call.since + LlmLatency
    /\ call.pc \notin {"idle", "lists"} => call.record \in RecordNos
    /\ call.pc = "listed" => llmGone[call.record] >= call.since
    /\ call.pc = "adapts" => call.since = llmClock
    /\ call.pc \in {"adapts", "asks", "answered"} => llmGone[call.record] + ListTTL + LlmLatency > call.since
    /\ call.pc = "speaks" => llmGone[call.record] + ListTTL + 2 * LlmLatency > llmClock

\* A list in the cache was current when it was asked for.
ListRecent ==
    llmList # NotCached =>
        llmList.value \in RecordNos /\ llmList.at <= llmClock /\ llmGone[llmList.value] + LlmLatency >= llmList.at

DirectoryInv ==
    /\ LlmTypeOK /\ ListRecent /\ llmEvents < llmSaved /\ (llmKey # NotCached => llmKey.value \in KnownLlmKeys)
    /\ \A r \in RecordNos : r >= llmSaved => llmGone[r] = LlmClockBound + 1
    /\ \A c \in LlmCalls : CallRecent(llmCalls[c])

LEMMA LlmNumbers ==
    /\ ListTTL \in Nat /\ LlmLatency \in Nat /\ LlmClockBound \in Nat /\ MaxRecords \in Nat /\ KeyTTL \in Nat
    /\ MaxRecords > 0 /\ ListTTL > 0
    /\ RecordNos \subseteq Nat /\ NoLlmCall \in LlmCall /\ NoLlmCall.pc = "idle"
  <1>1. /\ ListTTL \in Nat /\ LlmLatency \in Nat /\ LlmClockBound \in Nat /\ MaxRecords \in Nat /\ KeyTTL \in Nat
        /\ MaxRecords > 0 /\ ListTTL > 0
    BY LlmAssumption
  <1> QED
    BY <1>1 DEF RecordNos, NoLlmCall, LlmCall, Absent, NoKeyYet, KnownLlmKeys

\* One call goes on; the records and the clock stay.
LEMMA GoesKeeps ==
    ASSUME DirectoryInv, NEW c \in LlmCalls, NEW call \in LlmCall, LlmGoes(c, call), CallRecent(call),
           UNCHANGED <<llmSaved, llmGone, llmEvents, llmClock>>,
           llmList' \in CachedValue, llmKey' \in CachedValue, adapters' \in [RecordNos -> KnownLlmKeys \cup {Absent}],
           ListRecent', llmKey' # NotCached => llmKey'.value \in KnownLlmKeys
    PROVE  DirectoryInv'
  <1>1. /\ llmCalls' \in [LlmCalls -> LlmCall] /\ llmCalls'[c] = call
        /\ \A d \in LlmCalls : d # c => llmCalls'[d] = llmCalls[d]
    BY DEF LlmGoes, DirectoryInv, LlmTypeOK
  <1>2. ASSUME NEW d \in LlmCalls PROVE CallRecent(llmCalls[d])'
    <2>1. CallRecent(llmCalls'[d])
      BY <1>1 DEF DirectoryInv
    <2> QED
      BY <2>1 DEF CallRecent
  <1> QED
    BY <1>1, <1>2 DEF DirectoryInv, LlmTypeOK

LEMMA LlmCallsKeep ==
    ASSUME DirectoryInv, NEW c \in LlmCalls,
           \/ ProviderSought(c) \/ ProviderRead(c) \/ ProviderStored(c) \/ AdapterSought(c)
           \/ KeyRead(c) \/ KeyStored(c) \/ LlmCallEnds(c)
    PROVE  DirectoryInv'
  <1> USE LlmNumbers
  <1>1. PICK call \in LlmCall : call = llmCalls[c] /\ CallRecent(call)
    BY DEF DirectoryInv, LlmTypeOK
  <1>2. /\ call.since \in 0..LlmClockBound /\ call.record \in RecordNos \cup {Absent} /\ call.key \in KnownLlmKeys
        /\ llmClock \in 0..LlmClockBound /\ llmSaved \in RecordNos /\ llmGone \in [RecordNos -> 0..LlmClockBound + 1]
        /\ llmGone[llmSaved] = LlmClockBound + 1
        /\ llmList \in CachedValue /\ llmKey \in CachedValue /\ adapters \in [RecordNos -> KnownLlmKeys \cup {Absent}]
        /\ ListRecent /\ (llmKey # NotCached => llmKey.value \in KnownLlmKeys)
    BY DEF DirectoryInv, LlmTypeOK, LlmCall
  <1>20. llmClock \in Nat /\ call.since \in Nat /\ llmList.at \in Nat /\ \A r \in RecordNos : llmGone[r] \in Nat
    <2>1. \A n \in 0..LlmClockBound + 1 : n \in Nat
      OBVIOUS
    <2>2. \A n \in 0..LlmClockBound : n \in Nat
      OBVIOUS
    <2>3. llmList.at \in 0..LlmClockBound
      BY <1>2 DEF CachedValue
    <2> QED
      BY <1>2, <2>1, <2>2, <2>3
  <1>3. CASE ProviderSought(c)
    <2>1. UNCHANGED <<llmSaved, llmGone, llmEvents, llmList, llmKey, adapters, llmClock>>
      BY <1>3 DEF ProviderSought
    <2>2. ListRecent'
      BY <1>2, <2>1 DEF ListRecent
    <2>3. CASE Current(llmList, ListTTL)
      <3> DEFINE new == [NoLlmCall EXCEPT !.pc = "adapts", !.record = llmList.value, !.since = llmClock]
      <3>1. llmList.value \in RecordNos /\ llmList.at \in 0..LlmClockBound /\ llmClock - llmList.at < ListTTL
            /\ llmGone[llmList.value] + LlmLatency >= llmList.at
        BY <1>2, <2>3 DEF Current, ListRecent, CachedValue
      <3>2. new \in LlmCall /\ new.pc = "adapts" /\ new.record = llmList.value /\ new.since = llmClock
        BY <1>2, <3>1 DEF LlmCall
      <3>3. LlmGoes(c, new)
        BY <1>3, <2>3 DEF ProviderSought
      <3> HIDE DEF new
      <3>4. llmGone[llmList.value] \in Nat /\ llmGone[llmList.value] + ListTTL + LlmLatency > llmClock
        <4>1. PICK g \in Nat : g = llmGone[llmList.value]
          BY <1>20, <3>1
        <4>2. PICK t \in Nat, l \in Nat : t = ListTTL /\ l = LlmLatency
          BY LlmNumbers
        <4> QED
          BY <1>20, <3>1, <4>1, <4>2
      <3>5. CallRecent(new)
        BY <1>2, <3>1, <3>2, <3>4 DEF CallRecent
      <3> QED
        BY <1>2, <2>1, <2>2, <3>2, <3>3, <3>5, GoesKeeps
    <2>4. CASE ~Current(llmList, ListTTL)
      <3> DEFINE new == [NoLlmCall EXCEPT !.pc = "lists", !.since = llmClock]
      <3>1. new \in LlmCall /\ new.pc = "lists" /\ new.since = llmClock
        BY <1>2 DEF LlmCall
      <3>2. LlmGoes(c, new)
        BY <1>3, <2>4 DEF ProviderSought
      <3> HIDE DEF new
      <3>3. CallRecent(new)
        BY <1>2, <3>1 DEF CallRecent
      <3> QED
        BY <1>2, <2>1, <2>2, <3>1, <3>2, <3>3, GoesKeeps
    <2> QED
      BY <2>3, <2>4
  <1>4. CASE ProviderRead(c)
    <2> DEFINE new == [call EXCEPT !.pc = "listed", !.record = llmSaved]
    <2>1. LlmGoes(c, new) /\ call.pc = "lists" /\ UNCHANGED <<llmSaved, llmGone, llmEvents, llmList, llmKey, adapters, llmClock>>
      BY <1>1, <1>4 DEF ProviderRead
    <2>2. new \in LlmCall /\ new.pc = "listed" /\ new.record = llmSaved /\ new.since = call.since
      BY <1>2 DEF LlmCall
    <2> HIDE DEF new
    <2>3. CallRecent(new)
      BY <1>1, <1>2, <2>1, <2>2 DEF CallRecent
    <2>4. ListRecent'
      BY <1>2, <2>1 DEF ListRecent
    <2> QED
      BY <1>2, <2>1, <2>2, <2>3, <2>4, GoesKeeps
  <1>5. CASE ProviderStored(c)
    <2> DEFINE new == [call EXCEPT !.pc = "adapts", !.since = llmClock]
    <2>1. LlmGoes(c, new) /\ call.pc = "listed" /\ llmList' = [value |-> call.record, at |-> llmClock]
          /\ UNCHANGED <<llmSaved, llmGone, llmEvents, llmKey, adapters, llmClock>>
      BY <1>1, <1>5 DEF ProviderStored
    <2>2. new \in LlmCall /\ new.pc = "adapts" /\ new.record = call.record /\ new.since = llmClock
      BY <1>2 DEF LlmCall
    <2> HIDE DEF new
    <2>3. call.record \in RecordNos /\ llmGone[call.record] >= call.since /\ llmClock <= call.since + LlmLatency
      BY <1>1, <2>1 DEF CallRecent
    <2>4. llmGone[call.record] \in Nat /\ llmGone[call.record] + LlmLatency >= llmClock
      <3>1. PICK g \in Nat : g = llmGone[call.record]
        BY <1>20, <2>3
      <3>2. PICK t \in Nat, l \in Nat : t = ListTTL /\ l = LlmLatency
        BY LlmNumbers
      <3> QED
        BY <1>20, <2>3, <3>1, <3>2
    <2>5. CallRecent(new)
      BY <1>2, <2>2, <2>3, <2>4 DEF CallRecent
    <2>6. llmList'.value = call.record /\ llmList'.at = llmClock /\ llmList' \in CachedValue
      BY <1>2, <2>1, <2>3 DEF CachedValue, KnownLlmKeys
    <2>7. ListRecent'
      BY <1>2, <2>1, <2>3, <2>4, <2>6 DEF ListRecent
    <2> QED
      BY <1>2, <2>1, <2>2, <2>5, <2>6, <2>7, GoesKeeps
  <1>6. CASE AdapterSought(c)
    <2> DEFINE speaks(key) == [call EXCEPT !.pc = "speaks", !.key = key]
               asks == [call EXCEPT !.pc = "asks", !.since = llmClock]
    <2>1. /\ call.pc = "adapts" /\ UNCHANGED <<llmSaved, llmGone, llmEvents, llmList, llmKey, llmClock>>
          /\ \/ adapters[call.record] # Absent /\ LlmGoes(c, speaks(adapters[call.record])) /\ UNCHANGED adapters
             \/ Current(llmKey, KeyTTL) /\ LlmGoes(c, speaks(llmKey.value))
                /\ adapters' = [adapters EXCEPT ![call.record] = llmKey.value]
             \/ LlmGoes(c, asks) /\ UNCHANGED adapters
      BY <1>1, <1>6 DEF AdapterSought
    <2>2. /\ call.record \in RecordNos /\ call.since = llmClock /\ llmGone[call.record] + ListTTL + LlmLatency > call.since
      BY <1>1, <2>1 DEF CallRecent
    <2>3. llmGone[call.record] \in Nat /\ llmGone[call.record] + ListTTL + 2 * LlmLatency > llmClock
      <3>1. PICK g \in Nat : g = llmGone[call.record]
        BY <1>20, <2>2
      <3>2. PICK t \in Nat, l \in Nat : t = ListTTL /\ l = LlmLatency
        BY LlmNumbers
      <3> QED
        BY <1>20, <2>2, <3>1, <3>2
    <2>4. ListRecent'
      BY <1>2, <2>1 DEF ListRecent
    <2>5. ASSUME NEW key \in KnownLlmKeys PROVE speaks(key) \in LlmCall /\ CallRecent(speaks(key))
      <3>1. PICK new : new = speaks(key)
        OBVIOUS
      <3>2. new \in LlmCall /\ new.pc = "speaks" /\ new.record = call.record /\ new.since = call.since
        BY <3>1 DEF LlmCall
      <3>3. CallRecent(new)
        BY <1>2, <2>2, <2>3, <3>2 DEF CallRecent
      <3> QED
        BY <3>1, <3>2, <3>3
    <2>6. asks \in LlmCall /\ CallRecent(asks)
      <3>1. asks \in LlmCall /\ asks.pc = "asks" /\ asks.record = call.record /\ asks.since = llmClock
        BY <1>2 DEF LlmCall
      <3> HIDE DEF asks
      <3> QED
        BY <1>2, <2>2, <3>1 DEF CallRecent
    <2> HIDE DEF speaks, asks
    <2>7. CASE adapters[call.record] # Absent /\ LlmGoes(c, speaks(adapters[call.record])) /\ UNCHANGED adapters
      <3>1. adapters[call.record] \in KnownLlmKeys
        BY <1>2, <2>2, <2>7
      <3> QED
        BY <1>2, <2>1, <2>4, <2>5, <2>7, <3>1, GoesKeeps
    <2>8. CASE /\ Current(llmKey, KeyTTL) /\ LlmGoes(c, speaks(llmKey.value))
               /\ adapters' = [adapters EXCEPT ![call.record] = llmKey.value]
      <3>1. llmKey.value \in KnownLlmKeys
        BY <1>2, <2>8 DEF Current
      <3>2. adapters' \in [RecordNos -> KnownLlmKeys \cup {Absent}]
        BY <1>2, <2>8, <3>1
      <3> QED
        BY <1>2, <2>1, <2>4, <2>5, <2>8, <3>1, <3>2, GoesKeeps
    <2>9. CASE LlmGoes(c, asks) /\ UNCHANGED adapters
      BY <1>2, <2>1, <2>4, <2>6, <2>9, GoesKeeps
    <2> QED
      BY <2>1, <2>7, <2>8, <2>9
  <1>7. CASE KeyRead(c)
    <2>1. PICK key \in {llmSaved, NoKeyYet} :
            /\ LlmGoes(c, [call EXCEPT !.pc = "answered", !.key = key]) /\ call.pc = "asks"
            /\ UNCHANGED <<llmSaved, llmGone, llmEvents, llmList, llmKey, adapters, llmClock>>
      BY <1>1, <1>7 DEF KeyRead
    <2> DEFINE new == [call EXCEPT !.pc = "answered", !.key = key]
    <2>2. new \in LlmCall /\ new.pc = "answered" /\ new.record = call.record /\ new.since = call.since
      BY <1>2 DEF LlmCall, KnownLlmKeys
    <2>3. LlmGoes(c, new)
      BY <2>1
    <2> HIDE DEF new
    <2>4. CallRecent(new)
      BY <1>1, <2>1, <2>2 DEF CallRecent
    <2>5. ListRecent'
      BY <1>2, <2>1 DEF ListRecent
    <2> QED
      BY <1>2, <2>1, <2>2, <2>3, <2>4, <2>5, GoesKeeps
  <1>8. CASE KeyStored(c)
    <2> DEFINE new == [call EXCEPT !.pc = "speaks"]
    <2>1. /\ LlmGoes(c, new) /\ call.pc = "answered" /\ llmKey' = [value |-> call.key, at |-> llmClock]
          /\ adapters' = [adapters EXCEPT ![call.record] = call.key]
          /\ UNCHANGED <<llmSaved, llmGone, llmEvents, llmList, llmClock>>
      BY <1>1, <1>8 DEF KeyStored
    <2>2. new \in LlmCall /\ new.pc = "speaks" /\ new.record = call.record /\ new.since = call.since
      BY DEF LlmCall
    <2> HIDE DEF new
    <2>3. /\ call.record \in RecordNos /\ llmGone[call.record] + ListTTL + LlmLatency > call.since
          /\ llmClock <= call.since + LlmLatency
      BY <1>1, <2>1 DEF CallRecent
    <2>4. llmGone[call.record] \in Nat /\ llmGone[call.record] + ListTTL + 2 * LlmLatency > llmClock
      <3>1. PICK g \in Nat : g = llmGone[call.record]
        BY <1>20, <2>3
      <3>2. PICK t \in Nat, l \in Nat : t = ListTTL /\ l = LlmLatency
        BY LlmNumbers
      <3> QED
        BY <1>20, <2>3, <3>1, <3>2
    <2>5. CallRecent(new)
      BY <1>1, <1>2, <2>1, <2>2, <2>3, <2>4 DEF CallRecent
    <2>6. ListRecent'
      BY <1>2, <2>1 DEF ListRecent
    <2>7. llmKey' \in CachedValue /\ llmKey'.value \in KnownLlmKeys /\ adapters' \in [RecordNos -> KnownLlmKeys \cup {Absent}]
      BY <1>2, <2>1 DEF CachedValue
    <2> QED
      BY <1>2, <2>1, <2>2, <2>5, <2>6, <2>7, GoesKeeps
  <1>9. CASE LlmCallEnds(c)
    <2>1. LlmGoes(c, NoLlmCall) /\ UNCHANGED <<llmSaved, llmGone, llmEvents, llmList, llmKey, adapters, llmClock>>
      BY <1>9 DEF LlmCallEnds
    <2>2. CallRecent(NoLlmCall)
      BY DEF CallRecent
    <2>3. ListRecent'
      BY <1>2, <2>1 DEF ListRecent
    <2> QED
      BY <1>2, <2>1, <2>2, <2>3, GoesKeeps
  <1> QED
    BY <1>3, <1>4, <1>5, <1>6, <1>7, <1>8, <1>9

\* A record ceases to be current: not before now, so not before anyone has asked for it.
LEMMA RecordSavedKeeps == ASSUME DirectoryInv, ProviderUpdated PROVE DirectoryInv'
  <1>1. /\ llmSaved < MaxRecords /\ llmSaved' = llmSaved + 1 /\ llmEvents' = llmEvents + 1
        /\ llmGone' = [llmGone EXCEPT ![llmSaved] = llmClock]
        /\ UNCHANGED <<llmList, llmKey, adapters, llmCalls, llmClock>>
    BY DEF ProviderUpdated
  <1>2. /\ llmSaved \in RecordNos /\ llmGone \in [RecordNos -> 0..LlmClockBound + 1] /\ llmClock \in 0..LlmClockBound
        /\ llmEvents \in 0..MaxRecords /\ llmEvents < llmSaved
        /\ ListTTL \in Nat /\ LlmLatency \in Nat /\ MaxRecords \in Nat /\ LlmClockBound \in Nat /\ ListTTL > 0
        /\ \A r \in RecordNos : r >= llmSaved => llmGone[r] = LlmClockBound + 1
    BY LlmNumbers DEF DirectoryInv, LlmTypeOK
  <1>3. llmSaved \in Nat /\ llmSaved' \in RecordNos /\ llmClock \in Nat /\ llmEvents' \in 0..MaxRecords /\ llmEvents' < llmSaved'
    BY <1>1, <1>2 DEF RecordNos
  <1>4. /\ llmGone' \in [RecordNos -> 0..LlmClockBound + 1] /\ llmGone'[llmSaved] = llmClock
        /\ \A r \in RecordNos : r # llmSaved => llmGone'[r] = llmGone[r]
    BY <1>1, <1>2
  <1>5. \A r \in RecordNos : r >= llmSaved' => llmGone'[r] = LlmClockBound + 1
    BY <1>1, <1>2, <1>3, <1>4 DEF RecordNos
  <1>6. \A r \in RecordNos : llmGone'[r] \in Nat /\ (llmGone'[r] = llmGone[r] \/ llmGone'[r] = llmClock)
    BY <1>2, <1>3, <1>4
  <1>7. ListRecent'
    <2>1. ASSUME llmList # NotCached
          PROVE llmList.value \in RecordNos /\ llmList.at <= llmClock /\ llmGone'[llmList.value] + LlmLatency >= llmList.at
      <3>1. /\ llmList.value \in RecordNos /\ llmList.at <= llmClock /\ llmGone[llmList.value] + LlmLatency >= llmList.at
            /\ llmList.at \in Nat
        BY <1>2, <2>1 DEF DirectoryInv, ListRecent, LlmTypeOK, CachedValue
      <3>2. llmGone'[llmList.value] = llmGone[llmList.value] \/ llmGone'[llmList.value] = llmClock
        BY <1>6, <3>1
      <3> QED
        BY <1>2, <1>3, <3>1, <3>2
    <2> QED
      BY <1>1, <2>1 DEF ListRecent
  <1>8. ASSUME NEW c \in LlmCalls PROVE CallRecent(llmCalls[c])'
    <2>1. PICK call \in LlmCall : call = llmCalls[c] /\ CallRecent(call)
      BY DEF DirectoryInv, LlmTypeOK
    <2>2. call.since \in Nat
      BY <1>2 DEF LlmCall
    <2>3. ASSUME call.record \in RecordNos, call.pc # "idle"
          PROVE  /\ llmGone[call.record] >= call.since => llmGone'[call.record] >= call.since
                 /\ llmGone[call.record] + ListTTL + LlmLatency > call.since =>
                        llmGone'[call.record] + ListTTL + LlmLatency > call.since
                 /\ llmGone[call.record] + ListTTL + 2 * LlmLatency > llmClock =>
                        llmGone'[call.record] + ListTTL + 2 * LlmLatency > llmClock
      <3>1. call.since <= llmClock
        BY <2>1, <2>3 DEF CallRecent
      <3>2. llmGone'[call.record] = llmGone[call.record] \/ llmGone'[call.record] = llmClock
        BY <1>6, <2>3
      <3>3. CASE llmGone'[call.record] = llmGone[call.record]
        BY <3>3
      <3>4. CASE llmGone'[call.record] = llmClock
        BY <1>2, <1>3, <2>2, <3>1, <3>4
      <3> QED
        BY <3>2, <3>3, <3>4
    <2>4. CallRecent(call)'
      BY <1>1, <2>1, <2>3 DEF CallRecent
    <2> QED
      BY <1>1, <2>1, <2>4 DEF CallRecent
  <1> QED
    BY <1>1, <1>2, <1>3, <1>4, <1>5, <1>7, <1>8 DEF DirectoryInv, LlmTypeOK

\* The directory is emptied, or the announcement does not come.
LEMMA AnnouncedKeeps == ASSUME DirectoryInv, DirectoryInvalidated \/ AnnouncementLost PROVE DirectoryInv'
  <1>1. /\ llmEvents > 0 /\ llmEvents' = llmEvents - 1 /\ UNCHANGED <<llmSaved, llmGone, adapters, llmCalls, llmClock>>
        /\ llmList' \in {llmList, NotCached} /\ llmKey' \in {llmKey, NotCached}
    BY DEF DirectoryInvalidated, AnnouncementLost
  <1>2. llmEvents' \in 0..MaxRecords /\ llmEvents' < llmSaved'
    <2>1. llmEvents \in 0..MaxRecords /\ llmSaved \in Nat /\ llmEvents < llmSaved /\ MaxRecords \in Nat
      BY LlmNumbers DEF DirectoryInv, LlmTypeOK
    <2> QED
      BY <1>1, <2>1
  <1>3. NotCached \in CachedValue
    BY LlmNumbers DEF NotCached, CachedValue
  <1>4. ListRecent'
    BY <1>1 DEF DirectoryInv, ListRecent
  <1>5. ASSUME NEW c \in LlmCalls PROVE CallRecent(llmCalls[c])'
    BY <1>1 DEF DirectoryInv, CallRecent
  <1> QED
    BY <1>1, <1>2, <1>3, <1>4, <1>5 DEF DirectoryInv, LlmTypeOK

LEMMA LlmTickKeeps == ASSUME DirectoryInv, LlmTick PROVE DirectoryInv'
  <1>1. /\ llmClock < LlmClockBound /\ llmClock' = llmClock + 1
        /\ \A c \in LlmCalls : /\ llmCalls[c].pc \notin {"adapts", "speaks"}
                               /\ llmCalls[c].pc # "idle" => llmClock - llmCalls[c].since < LlmLatency
        /\ UNCHANGED <<llmSaved, llmGone, llmEvents, llmList, llmKey, adapters, llmCalls>>
    BY DEF LlmTick
  <1>2. llmClock \in Nat /\ llmClock' \in 0..LlmClockBound /\ LlmLatency \in Nat
    BY <1>1, LlmNumbers DEF DirectoryInv, LlmTypeOK
  <1>3. ListRecent'
    <2>1. llmList.at \in Nat
      BY LlmNumbers DEF DirectoryInv, LlmTypeOK, CachedValue
    <2> QED
      BY <1>1, <1>2, <2>1 DEF DirectoryInv, ListRecent
  <1>4. ASSUME NEW c \in LlmCalls PROVE CallRecent(llmCalls[c])'
    <2>1. PICK call \in LlmCall : call = llmCalls[c] /\ CallRecent(call)
      BY DEF DirectoryInv, LlmTypeOK
    <2>2. call.since \in Nat
      BY LlmNumbers DEF LlmCall
    <2>3. call.pc # "idle" => call.since <= llmClock' /\ llmClock' <= call.since + LlmLatency
      BY <1>1, <1>2, <2>1, <2>2 DEF CallRecent
    <2>4. CallRecent(call)'
      BY <1>1, <2>1, <2>3 DEF CallRecent
    <2> QED
      BY <1>1, <2>1, <2>4 DEF CallRecent
  <1> QED
    BY <1>1, <1>2, <1>3, <1>4 DEF DirectoryInv, LlmTypeOK

LEMMA DirectoryStarts == LlmInit => DirectoryInv
  <1> SUFFICES ASSUME LlmInit PROVE DirectoryInv
    OBVIOUS
  <1> USE LlmNumbers
  <1>1. /\ llmSaved = 1 /\ llmGone = [r \in RecordNos |-> LlmClockBound + 1] /\ llmEvents = 0
        /\ llmList = NotCached /\ llmKey = NotCached /\ adapters = [r \in RecordNos |-> Absent]
        /\ llmCalls = [c \in LlmCalls |-> NoLlmCall] /\ llmClock = 0
    BY DEF LlmInit
  <1>2. NotCached \in CachedValue
    BY DEF NotCached, CachedValue
  <1>3. 1 \in RecordNos /\ LlmClockBound + 1 \in 0..LlmClockBound + 1 /\ 0 \in 0..LlmClockBound /\ 0 \in 0..MaxRecords
    BY DEF RecordNos
  <1>4. LlmTypeOK
    BY <1>1, <1>2, <1>3 DEF LlmTypeOK
  <1>5. \A c \in LlmCalls : CallRecent(llmCalls[c])
    BY <1>1 DEF CallRecent
  <1> QED
    BY <1>1, <1>4, <1>5 DEF DirectoryInv, ListRecent

LEMMA NextDirectory == DirectoryInv /\ [LlmNext]_llmVars => DirectoryInv'
  <1> SUFFICES ASSUME DirectoryInv, [LlmNext]_llmVars PROVE DirectoryInv'
    OBVIOUS
  <1>1. CASE UNCHANGED llmVars
    <2>1. UNCHANGED <<llmSaved, llmGone, llmEvents, llmList, llmKey, adapters, llmCalls, llmClock>>
      BY <1>1 DEF llmVars
    <2> QED
      BY <2>1 DEF DirectoryInv, LlmTypeOK, ListRecent, CallRecent
  <1> QED
    BY <1>1, RecordSavedKeeps, AnnouncedKeeps, LlmTickKeeps, LlmCallsKeep DEF LlmNext

\* However many calls overlap and records are saved, and whatever becomes of the announcements, the
\* record a call goes by was current less than a TTL and two requests ago.
THEOREM RecordIsRecentAlways == LlmSpec => []RecordIsRecent
  <1>1. DirectoryInv /\ [LlmNext]_llmVars => DirectoryInv'
    BY NextDirectory
  <1>2. DirectoryInv => RecordIsRecent
    <2> SUFFICES ASSUME DirectoryInv, NEW c \in LlmCalls, llmCalls[c].pc = "speaks"
                 PROVE  llmClock - llmGone[llmCalls[c].record] < ListTTL + 2 * LlmLatency
      BY DEF RecordIsRecent
    <2>1. CallRecent(llmCalls[c]) /\ llmGone \in [RecordNos -> 0..LlmClockBound + 1] /\ llmClock \in 0..LlmClockBound
      BY DEF DirectoryInv, LlmTypeOK
    <2>2. PICK r \in RecordNos : r = llmCalls[c].record /\ llmGone[r] + ListTTL + 2 * LlmLatency > llmClock
      BY <2>1 DEF CallRecent
    <2>3. PICK g \in Nat, t \in Nat, l \in Nat, n \in Nat : g = llmGone[r] /\ t = ListTTL /\ l = LlmLatency /\ n = llmClock
      BY <2>1, LlmNumbers
    <2> QED
      BY <2>2, <2>3
  <1> QED
    BY <1>1, <1>2, DirectoryStarts, PTL DEF LlmSpec

-----------------------------------------------------------------------------
(* The cache of a tenant's features *)

\* With one saver at a time a version says what was saved, and the contents follow each other.
RowsFollow ==
    /\ fcRow.version = fcRow.content
    /\ \A n \in Contents : (fcGone[n] # Never <=> n < fcRow.content) /\ (n < fcRow.content => fcGone[n] <= fcClock)
    /\ \A s \in Savers : /\ fcSaves[s].version = fcSaves[s].content
                         /\ fcSaves[s].content \in {0, fcRow.content + 1}

\* An entry holds one save, which was current when its fetch was sent.
EntryRecent ==
    fcEntry.cached => /\ fcEntry.version = fcEntry.content /\ fcEntry.content <= fcRow.content
                      /\ fcEntry.fetchedAt <= fcClock
                      /\ fcGone[fcEntry.content] + FetchLatency >= fcEntry.fetchedAt

\* A fetch under way; what it was answered was current after it was sent.
FetchRecent(f) ==
    /\ f.pc # "idle" => f.sentAt <= fcClock /\ fcClock <= f.sentAt + FetchLatency
    /\ f.entry.cached => f.entry.version = f.entry.content
    /\ f.held => f.entry.cached /\ fcEntry.cached /\ fcEntry.content = f.entry.content
    /\ f.pc = "body" => f.version = f.content /\ f.content <= fcRow.content /\ fcGone[f.content] >= f.sentAt
    /\ f.pc = "unchanged" => f.entry.cached /\ fcGone[f.entry.content] >= f.sentAt

CacheInv ==
    /\ FeatureTypeOK /\ RowsFollow /\ EntryRecent
    /\ \A c \in Lookups : FetchRecent(fcFetches[c])

LEMMA CacheNumbers ==
    /\ MaxSaves \in Nat /\ FeatureTTL \in Nat /\ FetchLatency \in Nat /\ MaxClock \in Nat
    /\ Contents \subseteq Nat /\ 0 \in Contents /\ Never \in Nat /\ Versions = Contents
    /\ NoEntry \in Entry /\ ~NoEntry.cached
    /\ NoFetch \in Fetch /\ NoFetch.pc = "idle" /\ ~NoFetch.held /\ NoFetch.entry = NoEntry
  <1>1. MaxSaves \in Nat /\ FeatureTTL \in Nat /\ FetchLatency \in Nat /\ MaxClock \in Nat
    BY FeatureAssumption
  <1>2. Contents \subseteq Nat /\ 0 \in Contents /\ Never \in Nat /\ Versions = Contents
    BY <1>1 DEF Contents, Never, Versions
  <1>3. NoEntry \in Entry /\ ~NoEntry.cached
    BY <1>2 DEF NoEntry, Entry
  <1> QED
    BY <1>1, <1>2, <1>3 DEF NoFetch, Fetch

\* What the types say of the fields.
LEMMA CacheFields ==
    ASSUME FeatureTypeOK
    PROVE  /\ fcRow.content \in Contents /\ fcRow.version \in Contents /\ fcClock \in Nat /\ fcClock <= MaxClock
           /\ \A n \in Contents : fcGone[n] \in Nat /\ fcGone[n] <= Never
           /\ fcEntry \in Entry /\ fcEntry.content \in Contents /\ fcEntry.fetchedAt \in Nat
           /\ \A c \in Lookups : /\ fcFetches[c] \in Fetch /\ fcFetches[c].sentAt \in Nat
                                 /\ fcFetches[c].entry \in Entry /\ fcFetches[c].entry.content \in Contents
                                 /\ fcFetches[c].content \in Contents
           /\ \A s \in Savers : fcSaves[s].content \in Contents
  <1> USE CacheNumbers
  <1>1. fcRow.content \in Contents /\ fcRow.version \in Contents
    BY DEF FeatureTypeOK
  <1>2. fcClock \in Nat /\ fcClock <= MaxClock
    BY DEF FeatureTypeOK
  <1>3. ASSUME NEW n \in Contents PROVE fcGone[n] \in Nat /\ fcGone[n] <= Never
    <2>1. fcGone[n] \in 0..Never
      BY DEF FeatureTypeOK, Never
    <2> QED
      BY <2>1
  <1>4. fcEntry \in Entry /\ fcEntry.content \in Contents /\ fcEntry.fetchedAt \in Nat
    BY DEF FeatureTypeOK, Entry
  <1>5. ASSUME NEW c \in Lookups
        PROVE  /\ fcFetches[c] \in Fetch /\ fcFetches[c].sentAt \in Nat
               /\ fcFetches[c].entry \in Entry /\ fcFetches[c].entry.content \in Contents
               /\ fcFetches[c].content \in Contents
    <2>1. fcFetches[c] \in Fetch
      BY DEF FeatureTypeOK
    <2> QED
      BY <2>1 DEF Fetch, Entry
  <1>6. \A s \in Savers : fcSaves[s].content \in Contents
    BY DEF FeatureTypeOK
  <1> QED
    BY <1>1, <1>2, <1>3, <1>4, <1>5, <1>6

LEMMA CacheStarts == FeatureInit => CacheInv
  <1> SUFFICES ASSUME FeatureInit PROVE CacheInv
    OBVIOUS
  <1> USE CacheNumbers
  <1>1. FeatureTypeOK
    <2>1. /\ fcRow \in [version : Versions, content : Contents]
          /\ fcSaves \in [Savers -> [version : Versions, content : Contents]]
      BY DEF FeatureInit
    <2>2. fcGone \in [Contents -> 0..MaxClock + 1]
      BY DEF FeatureInit, Never
    <2>3. fcEntry \in Entry /\ fcFetches \in [Lookups -> Fetch] /\ fcClock \in 0..MaxClock
      BY DEF FeatureInit
    <2> QED
      BY <2>1, <2>2, <2>3 DEF FeatureTypeOK
  <1>2. RowsFollow
    <2>1. ASSUME NEW n \in Contents PROVE fcGone[n] = Never /\ ~(n < fcRow.content)
      BY DEF FeatureInit
    <2>2. ASSUME NEW s \in Savers PROVE fcSaves[s].version = 0 /\ fcSaves[s].content = 0
      BY DEF FeatureInit
    <2> QED
      BY <2>1, <2>2 DEF FeatureInit, RowsFollow
  <1>3. EntryRecent
    BY DEF FeatureInit, EntryRecent
  <1>4. ASSUME NEW c \in Lookups PROVE FetchRecent(fcFetches[c])
    <2>1. fcFetches[c] = NoFetch
      BY DEF FeatureInit
    <2> QED
      BY <2>1 DEF FetchRecent
  <1> QED
    BY <1>1, <1>2, <1>3, <1>4 DEF CacheInv

\* As many contents as the current one's number and one: the next is that of the save that begins.
LEMMA NextContent ==
    ASSUME CacheInv, \A s, t \in Savers : s = t, NEW s \in Savers, fcSaves[s].content = 0
    PROVE  Begun = fcRow.content + 1
  <1> USE CacheNumbers
  <1>1. FeatureTypeOK /\ RowsFollow
    BY DEF CacheInv
  <1>2. PICK k \in Contents : k = fcRow.content
    BY <1>1, CacheFields
  <1>3. {fcSaves[t].content : t \in Savers} = {0}
    <2>1. \A t \in Savers : t = s
      OBVIOUS
    <2> QED
      BY <2>1
  <1>4. {n \in Contents : fcGone[n] # Never} = {n \in Contents : n < k}
    BY <1>1, <1>2 DEF RowsFollow
  <1>5. {0, k} \cup {0} \cup {n \in Contents : n < k} = 0..k
    BY <1>2 DEF Contents
  <1>6. Begun = Cardinality(0..k)
    BY <1>2, <1>3, <1>4, <1>5 DEF Begun
  <1>7. Cardinality(0..k) = k + 1
    <2>1. k \in Nat
      BY <1>2
    <2>2. Cardinality(0..k) = IF 0 > k THEN 0 ELSE k - 0 + 1
      BY <2>1, FS_Interval
    <2>3. PICK m \in Nat : m = k
      BY <2>1
    <2>4. (IF 0 > m THEN 0 ELSE m - 0 + 1) = m + 1
      OBVIOUS
    <2> QED
      BY <2>2, <2>3, <2>4
  <1> QED
    BY <1>2, <1>6, <1>7

LEMMA SaveReadsKeeps ==
    ASSUME CacheInv, \A s, t \in Savers : s = t, NEW s \in Savers, SaveReads(s)
    PROVE  CacheInv'
  <1> USE CacheNumbers
  <1>1. FeatureTypeOK /\ RowsFollow
    BY DEF CacheInv
  <1>2. UNCHANGED <<fcRow, fcGone, fcEntry, fcFetches, fcClock>>
    BY DEF SaveReads
  <1>3. fcSaves' = [fcSaves EXCEPT ![s] = [version |-> fcRow.content + 1, content |-> fcRow.content + 1]]
        /\ fcRow.content + 1 <= MaxSaves
    BY <1>1, NextContent DEF SaveReads, RowsFollow
  <1>4. fcRow.content + 1 \in Contents
    BY <1>1, <1>3, CacheFields DEF Contents
  <1>5. FeatureTypeOK'
    BY <1>1, <1>2, <1>3, <1>4 DEF FeatureTypeOK
  <1>6. RowsFollow'
    <2>1. ASSUME NEW t \in Savers
          PROVE  fcSaves'[t].version = fcSaves'[t].content /\ fcSaves'[t].content \in {0, fcRow.content + 1}
      BY <1>1, <1>3 DEF RowsFollow, FeatureTypeOK
    <2> QED
      BY <1>1, <1>2, <2>1 DEF RowsFollow, Never
  <1>7. EntryRecent' /\ \A c \in Lookups : FetchRecent(fcFetches[c])'
    BY <1>2 DEF CacheInv, EntryRecent, FetchRecent
  <1> QED
    BY <1>5, <1>6, <1>7 DEF CacheInv

LEMMA SavePutsKeeps ==
    ASSUME CacheInv, \A s, t \in Savers : s = t, NEW s \in Savers, SavePuts(s)
    PROVE  CacheInv'
  <1> USE CacheNumbers
  <1>1. FeatureTypeOK /\ RowsFollow /\ EntryRecent
    BY DEF CacheInv
  <1>2. UNCHANGED <<fcEntry, fcFetches, fcClock>>
    BY DEF SavePuts
  <1>3. PICK k \in Contents : k = fcRow.content
    BY <1>1, CacheFields
  <1>30. k \in Nat /\ (\A n \in Nat : n < k + 1 <=> n < k \/ n = k) /\ \A n \in Nat : n <= k => n <= k + 1
    <2>1. PICK m \in Nat : m = k
      OBVIOUS
    <2>2. (\A n \in Nat : n < m + 1 <=> n < m \/ n = m) /\ \A n \in Nat : n <= m => n <= m + 1
      OBVIOUS
    <2> QED
      BY <2>1, <2>2
  <1>4. /\ fcRow' \in [version : Versions, content : Contents] /\ fcRow'.content = k + 1 /\ fcRow'.version = k + 1
        /\ k + 1 \in Contents
    <2>1. fcSaves[s] \in [version : Versions, content : Contents] /\ fcRow' = fcSaves[s] /\ fcSaves[s].content # 0
      BY <1>1 DEF FeatureTypeOK, SavePuts
    <2>2. fcSaves[s].content = k + 1 /\ fcSaves[s].version = k + 1
      BY <1>1, <1>3, <2>1 DEF RowsFollow
    <2> QED
      BY <2>1, <2>2
  <1>5. /\ fcGone' \in [Contents -> 0..MaxClock + 1] /\ fcGone'[k] = fcClock /\ fcClock # Never
        /\ \A n \in Contents : n # k => fcGone'[n] = fcGone[n]
    <2>1. fcGone' = [fcGone EXCEPT ![k] = fcClock] /\ fcClock \in 0..MaxClock + 1 /\ fcClock # Never
      BY <1>1, <1>3, CacheFields DEF SavePuts, Never
    <2> QED
      BY <1>1, <1>3, <2>1 DEF FeatureTypeOK
  <1>6. \A t \in Savers : fcSaves'[t] = [version |-> 0, content |-> 0]
    <2>1. \A t \in Savers : t = s
      OBVIOUS
    <2>2. fcSaves'[s] = [version |-> 0, content |-> 0]
      BY <1>1 DEF SavePuts, FeatureTypeOK
    <2> QED
      BY <2>1, <2>2
  <1>7. fcSaves' \in [Savers -> [version : Versions, content : Contents]]
    <2>1. [version |-> 0, content |-> 0] \in [version : Versions, content : Contents]
      OBVIOUS
    <2> QED
      BY <1>1, <2>1 DEF SavePuts, FeatureTypeOK
  <1>8. FeatureTypeOK'
    BY <1>1, <1>2, <1>4, <1>5, <1>7 DEF FeatureTypeOK
  <1>9. RowsFollow'
    <2>1. ASSUME NEW n \in Contents
          PROVE  (fcGone'[n] # Never <=> n < k + 1) /\ (n < k + 1 => fcGone'[n] <= fcClock)
      <3>1. CASE n = k
        <4>1. n < k + 1 /\ fcClock \in Nat /\ fcGone'[n] = fcClock
          BY <1>30, <1>5, <3>1, <1>1, CacheFields
        <4> QED
          BY <1>5, <4>1
      <3>2. CASE n # k
        <4>1. n < k + 1 <=> n < k
          BY <3>2, <1>30
        <4>2. (fcGone[n] # Never <=> n < k) /\ (n < k => fcGone[n] <= fcClock)
          BY <1>1, <1>3 DEF RowsFollow
        <4> QED
          BY <1>5, <3>2, <4>1, <4>2
      <3> QED
        BY <3>1, <3>2
    <2>2. \A t \in Savers : fcSaves'[t].version = 0 /\ fcSaves'[t].content = 0
      BY <1>6
    <2> QED
      BY <1>2, <1>4, <2>1, <2>2 DEF RowsFollow, Never
  <1>10. \A n \in Contents, m \in Nat : fcGone[n] >= m /\ m <= fcClock => fcGone'[n] >= m
    BY <1>5
  <1>11. EntryRecent'
    <2>1. SUFFICES ASSUME fcEntry.cached
          PROVE  /\ fcEntry.version = fcEntry.content /\ fcEntry.content <= k + 1 /\ fcEntry.fetchedAt <= fcClock
                 /\ fcGone'[fcEntry.content] + FetchLatency >= fcEntry.fetchedAt
      BY <1>2, <1>4 DEF EntryRecent
    <2>2. /\ fcEntry.version = fcEntry.content /\ fcEntry.content <= k /\ fcEntry.fetchedAt <= fcClock
          /\ fcGone[fcEntry.content] + FetchLatency >= fcEntry.fetchedAt
      BY <1>1, <1>3, <2>1 DEF EntryRecent
    <2>3. PICK n \in Contents, t \in Nat : n = fcEntry.content /\ t = fcEntry.fetchedAt
      BY <1>1, CacheFields
    <2>4. fcGone'[n] + FetchLatency >= t
      <3>1. CASE n = k
        BY <1>5, <2>2, <2>3, <3>1, <1>1, CacheFields
      <3>2. CASE n # k
        BY <1>5, <2>2, <2>3, <3>2
      <3> QED
        BY <3>1, <3>2
    <2>5. n <= k + 1
      BY <1>30, <2>2, <2>3
    <2> QED
      BY <2>2, <2>3, <2>4, <2>5
  <1>12. ASSUME NEW c \in Lookups PROVE FetchRecent(fcFetches[c])'
    <2>1. PICK f \in Fetch : f = fcFetches[c] /\ FetchRecent(f) /\ f.sentAt \in Nat /\ f.content \in Contents
                             /\ f.entry.content \in Contents
      BY <1>1, CacheFields DEF CacheInv
    <2>2. f.pc # "idle" => f.sentAt <= fcClock /\ fcClock <= f.sentAt + FetchLatency
      BY <2>1 DEF FetchRecent
    <2>3. f.pc = "body" => f.version = f.content /\ f.content <= k + 1 /\ fcGone'[f.content] >= f.sentAt
      <3>1. SUFFICES ASSUME f.pc = "body" PROVE f.version = f.content /\ f.content <= k + 1 /\ fcGone'[f.content] >= f.sentAt
        OBVIOUS
      <3>2. f.version = f.content /\ f.content <= k /\ fcGone[f.content] >= f.sentAt
        BY <1>3, <2>1, <3>1 DEF FetchRecent
      <3> QED
        BY <1>30, <1>10, <2>1, <2>2, <3>1, <3>2
    <2>4. f.pc = "unchanged" => f.entry.cached /\ fcGone'[f.entry.content] >= f.sentAt
      BY <1>10, <2>1, <2>2 DEF FetchRecent
    <2>5. (f.entry.cached => f.entry.version = f.entry.content)
          /\ (f.held => f.entry.cached /\ fcEntry.cached /\ fcEntry.content = f.entry.content)
      BY <2>1 DEF FetchRecent
    <2>6. fcFetches'[c] = f /\ fcRow'.content = k + 1 /\ fcClock' = fcClock /\ fcEntry' = fcEntry
      BY <1>2, <1>4, <2>1
    <2> QED
      BY <2>2, <2>3, <2>4, <2>5, <2>6 DEF FetchRecent
  <1> QED
    BY <1>8, <1>9, <1>11, <1>12 DEF CacheInv

\* One fetch goes on; the record, the entry and the clock stay.
LEMMA FetchGoesKeeps ==
    ASSUME CacheInv, NEW c \in Lookups, NEW f \in Fetch, FetchRecent(f),
           fcFetches' = [fcFetches EXCEPT ![c] = f], UNCHANGED <<fcRow, fcSaves, fcGone, fcEntry, fcClock>>
    PROVE  CacheInv'
  <1>1. fcFetches' \in [Lookups -> Fetch] /\ \A d \in Lookups : fcFetches'[d] = IF d = c THEN f ELSE fcFetches[d]
    BY DEF CacheInv, FeatureTypeOK
  <1>2. \A d \in Lookups : FetchRecent(fcFetches'[d])
    BY <1>1 DEF CacheInv
  <1>3. FeatureTypeOK' /\ RowsFollow' /\ EntryRecent'
    BY <1>1 DEF CacheInv, FeatureTypeOK, RowsFollow, EntryRecent, Never
  <1> QED
    BY <1>2, <1>3 DEF CacheInv, FetchRecent

LEMMA NoFetchIsRecent == FetchRecent(NoFetch)
  BY CacheNumbers DEF FetchRecent

\* An entry is put where the old one was; the others, if they hold one, hold this.
LEMMA EntryPutKeeps ==
    ASSUME CacheInv, UNCHANGED <<fcRow, fcSaves, fcGone, fcClock>>, fcEntry' \in Entry, EntryRecent',
           fcFetches' \in [Lookups -> Fetch],
           \A d \in Lookups :
              \/ fcFetches'[d] = NoFetch
              \/ fcFetches'[d] = [fcFetches[d] EXCEPT !.held = FALSE]
              \/ fcFetches'[d] = fcFetches[d] /\ fcEntry'.cached = fcEntry.cached /\ fcEntry'.content = fcEntry.content
    PROVE  CacheInv'
  <1>1. FeatureTypeOK' /\ RowsFollow'
    BY DEF CacheInv, FeatureTypeOK, RowsFollow, Never
  <1>2. ASSUME NEW d \in Lookups PROVE FetchRecent(fcFetches[d])'
    <2>1. CASE fcFetches'[d] = NoFetch
      BY <2>1, CacheNumbers DEF FetchRecent
    <2>2. CASE fcFetches'[d] = [fcFetches[d] EXCEPT !.held = FALSE]
      <3>1. PICK f \in Fetch : f = fcFetches[d] /\ FetchRecent(f)
        BY DEF CacheInv, FeatureTypeOK
      <3>2. PICK g : g = fcFetches'[d]
        OBVIOUS
      <3>3. /\ g.pc = f.pc /\ g.entry = f.entry /\ ~g.held /\ g.sentAt = f.sentAt /\ g.content = f.content
            /\ g.version = f.version
        BY <2>2, <3>1, <3>2 DEF Fetch
      <3> QED
        BY <3>1, <3>2, <3>3 DEF FetchRecent
    <2>3. CASE fcFetches'[d] = fcFetches[d] /\ fcEntry'.cached = fcEntry.cached /\ fcEntry'.content = fcEntry.content
      <3>1. FetchRecent(fcFetches[d])
        BY DEF CacheInv
      <3> QED
        BY <2>3, <3>1 DEF FetchRecent
    <2> QED
      BY <2>1, <2>2, <2>3
  <1> QED
    BY <1>1, <1>2 DEF CacheInv

LEMMA LookupsKeep ==
    ASSUME CacheInv, NEW c \in Lookups,
           \/ FeaturesAnswered(c) \/ FetchSent(c) \/ FetchStored(c) \/ FetchNotModified(c) \/ FetchFails(c)
    PROVE  CacheInv'
  <1> USE CacheNumbers
  <1>1. FeatureTypeOK /\ RowsFollow /\ EntryRecent
    BY DEF CacheInv
  <1>2. PICK f \in Fetch : /\ f = fcFetches[c] /\ FetchRecent(f) /\ f.sentAt \in Nat /\ f.content \in Contents
                           /\ f.entry \in Entry /\ f.entry.content \in Contents
    BY <1>1, CacheFields DEF CacheInv
  <1>3. /\ fcRow.content \in Contents /\ fcRow.version \in Contents /\ fcClock \in Nat
        /\ fcEntry \in Entry /\ fcEntry.content \in Contents /\ fcEntry.fetchedAt \in Nat
        /\ fcRow.version = fcRow.content /\ fcGone[fcRow.content] >= fcClock
    <2>1. fcRow.content \in Contents /\ fcRow.version \in Contents /\ fcClock \in Nat /\ fcClock <= MaxClock
          /\ fcEntry \in Entry /\ fcEntry.content \in Contents /\ fcEntry.fetchedAt \in Nat
      BY <1>1, CacheFields
    <2>2. fcRow.version = fcRow.content
      BY <1>1 DEF RowsFollow
    <2>3. fcGone[fcRow.content] = Never
      <3>1. PICK k \in Nat : k = fcRow.content
        BY <2>1
      <3>2. ~(k < k)
        OBVIOUS
      <3> QED
        BY <1>1, <2>1, <3>1, <3>2 DEF RowsFollow
    <2>4. Never >= fcClock
      BY <2>1 DEF Never
    <2> QED
      BY <2>1, <2>2, <2>3, <2>4
  <1>4. CASE FeaturesAnswered(c)
    <2> DEFINE same == f.entry.cached /\ f.entry.version = fcRow.version
               new == [f EXCEPT !.pc = IF same THEN "unchanged" ELSE "body",
                                !.content = fcRow.content, !.version = fcRow.version]
    <2>1. /\ f.pc = "sent" /\ fcFetches' = [fcFetches EXCEPT ![c] = new]
          /\ UNCHANGED <<fcRow, fcSaves, fcGone, fcEntry, fcClock>>
      BY <1>1, <1>2, <1>4 DEF FeaturesAnswered
    <2>2. /\ new \in Fetch /\ new.pc = (IF same THEN "unchanged" ELSE "body") /\ new.entry = f.entry /\ new.held = f.held
          /\ new.sentAt = f.sentAt /\ new.content = fcRow.content /\ new.version = fcRow.version
      BY <1>3 DEF Fetch
    <2>3. /\ f.sentAt <= fcClock /\ fcClock <= f.sentAt + FetchLatency
          /\ (f.entry.cached => f.entry.version = f.entry.content)
          /\ (f.held => f.entry.cached /\ fcEntry.cached /\ fcEntry.content = f.entry.content)
      BY <1>2, <2>1 DEF FetchRecent
    <2>4. fcGone[fcRow.content] >= f.sentAt
      <3>1. fcGone[fcRow.content] \in Nat
        BY <1>1, <1>3, CacheFields
      <3> QED
        BY <1>2, <1>3, <2>3, <3>1
    <2>5. same => fcGone[f.entry.content] >= f.sentAt
      BY <1>3, <2>3, <2>4
    <2>6. fcRow.content <= fcRow.content
      <3>1. PICK k \in Nat : k = fcRow.content
        BY <1>3
      <3>2. k <= k
        OBVIOUS
      <3> QED
        BY <3>1, <3>2
    <2> HIDE DEF new
    <2>7. FetchRecent(new)
      BY <1>3, <2>2, <2>3, <2>4, <2>5, <2>6 DEF FetchRecent
    <2> QED
      BY <2>1, <2>2, <2>7, FetchGoesKeeps
  <1>5. CASE FetchSent(c)
    <2> DEFINE new == [NoFetch EXCEPT !.pc = "sent", !.entry = fcEntry, !.held = fcEntry.cached, !.sentAt = fcClock]
    <2>1. fcFetches' = [fcFetches EXCEPT ![c] = new] /\ UNCHANGED <<fcRow, fcSaves, fcGone, fcEntry, fcClock>>
      BY <1>5 DEF FetchSent
    <2>2. new \in Fetch /\ new.pc = "sent" /\ new.entry = fcEntry /\ new.held = fcEntry.cached /\ new.sentAt = fcClock
      BY <1>3 DEF Fetch, Entry
    <2> HIDE DEF new
    <2>3. FetchRecent(new)
      BY <1>1, <1>3, <2>2 DEF FetchRecent, EntryRecent
    <2> QED
      BY <2>1, <2>2, <2>3, FetchGoesKeeps
  <1>6. CASE FetchStored(c)
    <2> DEFINE new == [cached |-> TRUE, content |-> f.content, version |-> f.version, fetchedAt |-> fcClock]
    <2>1. /\ f.pc = "body" /\ fcEntry' = new /\ fcFetches' = Replaced(c)
          /\ UNCHANGED <<fcRow, fcSaves, fcGone, fcClock>>
      BY <1>2, <1>6 DEF FetchStored
    <2>2. /\ new \in Entry /\ new.cached /\ new.content = f.content /\ new.version = f.version /\ new.fetchedAt = fcClock
      BY <1>2, <1>3 DEF Entry, Fetch
    <2>3. /\ f.version = f.content /\ f.content <= fcRow.content
          /\ fcGone[f.content] >= f.sentAt /\ fcClock <= f.sentAt + FetchLatency
      BY <1>2, <2>1 DEF FetchRecent
    <2>4. fcGone[f.content] + FetchLatency >= fcClock
      <3>1. PICK g \in Nat : g = fcGone[f.content]
        BY <1>1, <1>2, CacheFields
      <3> QED
        BY <1>2, <1>3, <2>3, <3>1
    <2> HIDE DEF new
    <2>5. EntryRecent'
      BY <1>3, <2>1, <2>2, <2>3, <2>4 DEF EntryRecent
    <2>6. \A d \in Lookups : fcFetches'[d] = NoFetch \/ fcFetches'[d] = [fcFetches[d] EXCEPT !.held = FALSE]
      BY <2>1 DEF Replaced
    <2>7. fcFetches' \in [Lookups -> Fetch]
      <3>1. \A d \in Lookups : [fcFetches[d] EXCEPT !.held = FALSE] \in Fetch
        BY <1>1 DEF FeatureTypeOK, Fetch
      <3> QED
        BY <2>1, <3>1 DEF Replaced
    <2> QED
      BY <2>1, <2>2, <2>5, <2>6, <2>7, EntryPutKeeps
  <1>7. CASE FetchNotModified(c)
    <2>1. /\ f.pc = "unchanged" /\ fcFetches' = [fcFetches EXCEPT ![c] = NoFetch]
          /\ fcEntry' = (IF f.held THEN [fcEntry EXCEPT !.fetchedAt = fcClock] ELSE fcEntry)
          /\ UNCHANGED <<fcRow, fcSaves, fcGone, fcClock>>
      BY <1>2, <1>7 DEF FetchNotModified
    <2>2. /\ fcEntry' \in Entry /\ fcEntry'.cached = fcEntry.cached /\ fcEntry'.content = fcEntry.content
          /\ fcEntry'.version = fcEntry.version
          /\ fcEntry'.fetchedAt = (IF f.held THEN fcClock ELSE fcEntry.fetchedAt)
      BY <1>3, <2>1 DEF Entry
    <2>3. /\ f.held => fcEntry.cached /\ fcEntry.content = f.entry.content
          /\ fcGone[f.entry.content] >= f.sentAt /\ fcClock <= f.sentAt + FetchLatency
      BY <1>2, <2>1 DEF FetchRecent
    <2>4. f.held => fcGone[fcEntry.content] + FetchLatency >= fcClock
      <3>1. PICK g \in Nat : g = fcGone[f.entry.content]
        BY <1>1, <1>2, CacheFields
      <3> QED
        BY <1>2, <1>3, <2>3, <3>1
    <2>5. EntryRecent'
      BY <1>1, <1>3, <2>1, <2>2, <2>4 DEF EntryRecent
    <2>6. fcFetches' \in [Lookups -> Fetch] /\ \A d \in Lookups : fcFetches'[d] = NoFetch \/ fcFetches'[d] = fcFetches[d]
      BY <1>1, <2>1 DEF FeatureTypeOK
    <2> QED
      BY <2>1, <2>2, <2>5, <2>6, EntryPutKeeps
  <1>8. CASE FetchFails(c)
    BY <1>8, NoFetchIsRecent, FetchGoesKeeps DEF FetchFails
  <1> QED
    BY <1>4, <1>5, <1>6, <1>7, <1>8

LEMMA InvalidatedKeeps ==
    ASSUME CacheInv, FeaturesInvalidated
    PROVE  CacheInv'
  <1>1. FeatureTypeOK
    BY DEF CacheInv
  <1>2. fcEntry' = NoEntry /\ UNCHANGED <<fcRow, fcSaves, fcGone, fcClock>>
        /\ fcFetches' = [c \in Lookups |-> [fcFetches[c] EXCEPT !.held = FALSE]]
    BY DEF FeaturesInvalidated
  <1>3. fcEntry' \in Entry /\ EntryRecent'
    BY <1>2, CacheNumbers DEF EntryRecent
  <1>4. fcFetches' \in [Lookups -> Fetch]
    <2>1. \A d \in Lookups : [fcFetches[d] EXCEPT !.held = FALSE] \in Fetch
      BY <1>1 DEF FeatureTypeOK, Fetch
    <2> QED
      BY <1>2, <2>1
  <1>5. \A d \in Lookups : fcFetches'[d] = [fcFetches[d] EXCEPT !.held = FALSE]
    BY <1>2
  <1> QED
    BY <1>2, <1>3, <1>4, <1>5, EntryPutKeeps

LEMMA FeatureTickKeeps ==
    ASSUME CacheInv, FeatureTick
    PROVE  CacheInv'
  <1> USE CacheNumbers
  <1>1. FeatureTypeOK /\ RowsFollow /\ EntryRecent
    BY DEF CacheInv
  <1>2. /\ fcClock' = fcClock + 1 /\ fcClock < MaxClock /\ UNCHANGED <<fcRow, fcSaves, fcGone, fcEntry, fcFetches>>
        /\ \A c \in Lookups : fcFetches[c].pc # "idle" => fcClock < fcFetches[c].sentAt + FetchLatency
    BY DEF FeatureTick
  <1>3. FeatureTypeOK'
    BY <1>1, <1>2, CacheFields DEF FeatureTypeOK
  <1>4. fcClock \in Nat /\ \A n \in Nat : n <= fcClock => n <= fcClock + 1
    BY <1>1, CacheFields
  <1>5. RowsFollow'
    <2>1. ASSUME NEW n \in Contents
          PROVE  (fcGone[n] # Never <=> n < fcRow.content) /\ (n < fcRow.content => fcGone[n] <= fcClock + 1)
      BY <1>1, <1>4, CacheFields DEF RowsFollow
    <2> QED
      BY <1>1, <1>2, <2>1 DEF RowsFollow, Never
  <1>6. EntryRecent'
    BY <1>1, <1>2, <1>4, CacheFields DEF EntryRecent
  <1>7. ASSUME NEW c \in Lookups PROVE FetchRecent(fcFetches[c])'
    <2>1. PICK f \in Fetch : f = fcFetches[c] /\ FetchRecent(f) /\ f.sentAt \in Nat
      BY <1>1, CacheFields DEF CacheInv
    <2>2. f.pc # "idle" => f.sentAt <= fcClock + 1 /\ fcClock + 1 <= f.sentAt + FetchLatency
      BY <1>2, <1>4, <2>1 DEF FetchRecent
    <2> QED
      BY <1>2, <2>1, <2>2 DEF FetchRecent
  <1> QED
    BY <1>3, <1>5, <1>6, <1>7 DEF CacheInv

LEMMA NextCache == ASSUME \A s, t \in Savers : s = t PROVE CacheInv /\ [FeatureNext]_featureVars => CacheInv'
  <1>1. SUFFICES ASSUME CacheInv, [FeatureNext]_featureVars PROVE CacheInv'
    OBVIOUS
  <1>2. CASE FeatureNext
    <2>1. ASSUME NEW s \in Savers, SaveReads(s) \/ SavePuts(s) PROVE CacheInv'
      BY <1>1, <2>1, SaveReadsKeeps, SavePutsKeeps
    <2>2. ASSUME NEW c \in Lookups,
                 \/ FeaturesAnswered(c) \/ FetchSent(c) \/ FetchStored(c) \/ FetchNotModified(c) \/ FetchFails(c)
          PROVE  CacheInv'
      BY <1>1, <2>2, LookupsKeep
    <2> QED
      BY <1>1, <1>2, <2>1, <2>2, InvalidatedKeeps, FeatureTickKeeps DEF FeatureNext
  <1>3. CASE UNCHANGED featureVars
    BY <1>1, <1>3
       DEF featureVars, CacheInv, FeatureTypeOK, RowsFollow, EntryRecent, FetchRecent, Never
  <1> QED
    BY <1>1, <1>2, <1>3

\* What a lookup is served from the cache was the tenant's configuration less than a TTL and a
\* latency ago, for any TTL and latency and any number of lookups, however their answers, the saves
\* and the webhook interleave; saves of one tenant do not overlap.
THEOREM PropagatesAlways ==
    ASSUME \A s, t \in Savers : s = t
    PROVE  FeatureSpec => []Propagates
  <1>1. FeatureInit => CacheInv
    BY CacheStarts
  <1>2. CacheInv /\ [FeatureNext]_featureVars => CacheInv'
    BY NextCache
  <1>3. CacheInv => Propagates
    <2>1. SUFFICES ASSUME CacheInv, Fresh PROVE fcGone[fcEntry.content] + FeatureTTL + FetchLatency > fcClock
      BY DEF Propagates
    <2>2. fcEntry.cached /\ fcClock < fcEntry.fetchedAt + FeatureTTL /\ FeatureTypeOK /\ EntryRecent
      BY <2>1 DEF Fresh, CacheInv
    <2>3. PICK g \in Nat, at \in Nat : g = fcGone[fcEntry.content] /\ at = fcEntry.fetchedAt
      BY <2>2, CacheFields
    <2>4. g + FetchLatency >= at
      BY <2>2, <2>3 DEF EntryRecent
    <2>5. fcClock \in Nat /\ FeatureTTL \in Nat /\ FetchLatency \in Nat
      BY <2>2, CacheFields, CacheNumbers
    <2> QED
      BY <2>2, <2>3, <2>4, <2>5
  <1> QED
    BY <1>1, <1>2, <1>3, PTL DEF FeatureSpec

\* Both caches follow what DataCore keeps: whatever the TTLs, the latencies and the numbers of
\* lookups and calls, and also when announcements are lost or come late.
THEOREM CachesFollowAlways ==
    ASSUME \A s, t \in Savers : s = t
    PROVE  FeatureSpec /\ LlmSpec => []CachesFollow
  <1>1. FeatureSpec => []Propagates
    BY PropagatesAlways
  <1>2. LlmSpec => []RecordIsRecent
    BY RecordIsRecentAlways
  <1>3. Propagates /\ RecordIsRecent => CachesFollow
    BY DEF CachesFollow
  <1> QED
    BY <1>1, <1>2, <1>3, PTL

-----------------------------------------------------------------------------
(* The parts together *)

\* Whoever moves, a part takes a step of its own or none.
LEMMA PartsMove ==
    ASSUME [Next]_partVars
    PROVE  /\ [FeatureNext]_featureVars /\ [ClockNext]_clockVars /\ [SopNext]_sopVars /\ [GovNext]_govVars
           /\ [CalNext]_calVars /\ [MatNext]_matVars /\ [RuleNext]_ruleVars /\ [DocNext]_docVars
           /\ [SeriesNext]_seriesVars /\ [FeatNext]_featVars /\ [LlmNext]_llmVars /\ [CatalogNext]_catalogVars
           /\ [ConnNext]_connVars /\ [FlowNext]_flowVars /\ [DerivationNext]_derivationVars
           /\ [SliceNext]_sliceVars /\ [AuditNext]_auditVars /\ [RefsNext]_refVars
           /\ part' = part
  <1>1. CASE Next
    BY <1>1 DEF Next, Rest
  <1>2. CASE UNCHANGED partVars
    BY <1>2 DEF partVars
  <1> QED
    BY <1>1, <1>2

\* The features of a tenant, and of each of its roles, are those its layers leave on, whatever else DataCore does
\* (features.ts, adminplatform.ts).
THEOREM FeaturesSoundAlways == Spec => []FeaturesSound
  <1>1. Init => FeatInvariant
    BY InitFeat DEF Init
  <1>2. FeatInvariant /\ [Next]_partVars => FeatInvariant'
    BY PartsMove, NextFeat
  <1>3. FeatInvariant => FeaturesSound
    BY FeatInvariantSound DEF FeaturesSound
  <1> QED
    BY <1>1, <1>2, <1>3, PTL DEF Spec

\* When nothing is left to aggregate and every change has been reported, windows hold what the points give and
\* derived values what their formulas give (timeseries.ts, ontology-core.ts).
THEOREM ComputedIsCurrentAlways ==
    ASSUME ~WritersRace, OneAggregator,
           FormulasPlain, LinksLeadElsewhere, DerivedSeparate, NewcomersReport, ~RecomputeOverlaps
    PROVE  Spec => []ComputedIsCurrent
  <1> DEFINE Both == SeriesInvariant /\ DerivationInvariant
  <1>1. Init => Both
    BY InitSeries, InitDerivation DEF Init
  <1>2. Both /\ [Next]_partVars => Both'
    <2> SUFFICES ASSUME Both, [Next]_partVars PROVE Both'
      OBVIOUS
    <2>1. [SeriesNext]_seriesVars /\ [DerivationNext]_derivationVars
      BY PartsMove
    <2>2. SeriesInvariant'
      BY <2>1, NextSeries
    <2>3. DerivationInvariant'
      BY <2>1, NextDerivation, StillDerivation
    <2> QED
      BY <2>2, <2>3
  <1>3. Both => ComputedIsCurrent
    BY SeriesSuffices, DerivationSuffices DEF ComputedIsCurrent
  <1> QED
    BY <1>1, <1>2, <1>3, PTL DEF Spec

\* The parts by name; the invariant of each holds, whichever of them moves.
PartNames ==
    {"features", "clock", "sop", "governance", "calibration", "materialize", "rules", "docs",
     "series", "entitlements", "llm", "catalog", "connection", "flow", "derivation", "slice", "audit", "references"}

StoresInv == CacheInv /\ ClockInv /\ SopInv /\ CalInv /\ MatInv /\ RuleInv /\ DocInv /\ DirectoryInv /\ CatalogInv
OntologyInv == GovInvariant /\ RefsInv /\ FlowInv /\ ConnInv /\ FeatInvariant /\ SeriesInvariant /\ SliceInv
ValuesInv == DerivationInvariant /\ DerivationTyped
PlanInv == AuditInv /\ AuditCounts

PartsInv == part \in PartNames /\ StoresInv /\ OntologyInv /\ ValuesInv /\ PlanInv

\* At first every part's invariant holds,
LEMMA PartsStart ==
    ASSUME PartPremises, Init
    PROVE  PartsInv
  <1>1. part \in PartNames
    BY DEF Init, PartNames
  <1>2. StoresInv
    BY CacheStarts, InitClock, InitSop, InitCal, InitMat, InitRule, InitDoc, DirectoryStarts, CatalogStartsSound DEF Init, StoresInv
  <1>3. OntologyInv
    BY InitGov, InitRefs, FlowStarts, ConnStarts, InitFeat, InitSeries, SliceStarts DEF Init, OntologyInv
  <1>4. ValuesInv
    BY InitDerivation, InitTyped DEF Init, ValuesInv, PartPremises
  <1>5. PlanInv
    BY AuditStarts, CountsStart DEF Init, PlanInv
  <1> QED
    BY <1>1, <1>2, <1>3, <1>4, <1>5 DEF PartsInv

\* a step of any part keeps it and leaves the others',
LEMMA PartsStep ==
    ASSUME PartPremises, PartsInv, [Next]_partVars
    PROVE  PartsInv'
  <1>0. /\ \A s, t \in Savers : s = t
        /\ \A v, w \in SopWorkers : v = w
        /\ \A s, t \in Syncers : s = t
        /\ ~OverlapsAllowed /\ ~ResetsBreak /\ ~CollisionsAllowed /\ ~EditsDuringSync /\ ~UpdatesDuringPublish
        /\ ~WritersRace /\ OneAggregator /\ ~CopiesRace
        /\ FormulasPlain /\ LinksLeadElsewhere /\ DerivedSeparate /\ NewcomersReport /\ ~RecomputeOverlaps /\ ValuesTyped
        /\ T.segTolerance >= 1 /\ T.gmHardOver >= 50 /\ T.passScore > 0
    BY DEF PartPremises
  <1>1. part' \in PartNames
    BY PartsMove DEF PartsInv
  <1>2. StoresInv'
    <2>1. CacheInv'
      BY <1>0, NextCache, PartsMove DEF PartsInv, StoresInv
    <2>2. ClockInv'
      BY <1>0, NextClock, PartsMove DEF PartsInv, StoresInv
    <2>3. SopInv'
      BY <1>0, NextSop, PartsMove DEF PartsInv, StoresInv
    <2>4. CalInv' /\ MatInv' /\ RuleInv' /\ DocInv' /\ DirectoryInv'
      BY <1>0, NextCal, NextMat, NextRule, NextDoc, NextDirectory, PartsMove DEF PartsInv, StoresInv
    <2>5. CatalogInv'
      BY <1>0, NextCatalog, PartsMove DEF PartsInv, StoresInv
    <2> QED
      BY <2>1, <2>2, <2>3, <2>4, <2>5 DEF StoresInv
  <1>3. OntologyInv'
    <2>1. GovInvariant' /\ RefsInv' /\ FeatInvariant' /\ SliceInv'
      BY NextGov, NextRefs, NextFeat, SliceSteps, PartsMove DEF PartsInv, OntologyInv
    <2>2. FlowInv'
      BY <1>0, FlowKeeps, PartsMove DEF PartsInv, OntologyInv
    <2>3. ConnInv'
      BY <1>0, ConnKeeps, PartsMove DEF PartsInv, OntologyInv
    <2>4. SeriesInvariant'
      BY <1>0, NextSeries, PartsMove DEF PartsInv, OntologyInv
    <2> QED
      BY <2>1, <2>2, <2>3, <2>4 DEF OntologyInv
  <1>4. ValuesInv'
    <2>1. DerivationInvariant /\ DerivationTyped /\ [DerivationNext]_derivationVars
      BY PartsMove DEF PartsInv, ValuesInv
    <2>2. CASE DerivationNext
      BY <1>0, <2>1, <2>2, NextDerivation, NextTyped DEF ValuesInv
    <2>3. CASE UNCHANGED derivationVars
      BY <2>1, <2>3, StillDerivation, StillTyped DEF ValuesInv
    <2> QED
      BY <2>1, <2>2, <2>3
  <1>5. PlanInv'
    <2>1. AuditInv /\ AuditCounts /\ [AuditNext]_auditVars
      BY PartsMove DEF PartsInv, PlanInv
    <2>2. AuditInv'
      BY <1>0, <2>1, NextAudit
    <2>3. AuditCounts'
      BY <2>1, NextCounts
    <2> QED
      BY <2>2, <2>3 DEF PlanInv
  <1> QED
    BY <1>1, <1>2, <1>3, <1>4, <1>5 DEF PartsInv

\* and it has the part's type among its conjuncts, or gives it.
LEMMA PartsTyped ==
    ASSUME PartPremises, PartsInv
    PROVE  PartTypeOK
  <1>1. FeatureTypeOK /\ ClockTypeOK /\ SopTypeOK /\ CalTypeOK /\ MatTypeOK /\ RuleTypeOK /\ DocTypeOK
    BY DEF PartsInv, StoresInv, CacheInv, ClockInv, SopInv, CalInv, MatInv, RuleInv, DocInv
  <1>2. LlmTypeOK /\ CatalogTypeOK
    BY DEF PartsInv, StoresInv, DirectoryInv, CatalogInv
  <1>3. GovTypeOK /\ RefsTypeOK /\ FlowTypeOK /\ ConnTypeOK
    BY DEF PartsInv, OntologyInv, GovInvariant, RefsInv, FlowInv, ConnInv
  <1>4. FeatTypeOK /\ SeriesTypeOK /\ SliceTypeOK
    BY DEF PartsInv, OntologyInv, FeatInvariant, SeriesInvariant, SliceInv
  <1>5. DerivationTypeOK
    BY TypedSuffices DEF PartPremises, PartsInv, ValuesInv
  <1>6. AuditTypeOK
    BY AuditTyped DEF PartsInv, PlanInv
  <1>7. part \in PartNames
    BY DEF PartsInv
  <1> QED
    BY <1>1, <1>2, <1>3, <1>4, <1>5, <1>6, <1>7 DEF PartTypeOK, PartNames

\* Every value that DataCore's parts store, and AgentCore's copies of them, keeps its type, for any number of
\* actors, records and steps, where each part's premise holds (the stores and services of src/apps/datacore/src).
THEOREM DataCoreTypesAlways ==
    ASSUME PartPremises
    PROVE  Spec => []PartTypeOK
  <1>1. Init => PartsInv
    BY PartsStart
  <1>2. PartsInv /\ [Next]_partVars => PartsInv'
    BY PartsStep
  <1>3. PartsInv => PartTypeOK
    BY PartsTyped
  <1> QED
    BY <1>1, <1>2, <1>3, PTL DEF Spec

\* The run's behaviours are behaviours of every part.
LEMMA PartsImplemented ==
    /\ Spec => FeatureSpec /\ ClockSpec /\ SopSpec /\ GovSpec /\ CalSpec /\ MatSpec
    /\ Spec => RuleSpec /\ DocSpec /\ LlmSpec /\ CatalogSpec /\ ConnSpec /\ FlowSpec
    /\ Spec => SliceSpecification /\ AuditSpec /\ RefsSpec
  <1>1. Init => /\ FeatureInit /\ ClockInit /\ SopInit /\ GovInit /\ CalInit /\ MatInit /\ RuleInit /\ DocInit
                /\ LlmInit /\ CatalogInit /\ ConnInit /\ FlowInit /\ SliceInit /\ AuditInit /\ RefsInit
    BY DEF Init
  <1>2. [Next]_partVars =>
            /\ [FeatureNext]_featureVars /\ [ClockNext]_clockVars /\ [SopNext]_sopVars /\ [GovNext]_govVars
            /\ [CalNext]_calVars /\ [MatNext]_matVars
    BY PartsMove
  <1>3. [Next]_partVars =>
            /\ [RuleNext]_ruleVars /\ [DocNext]_docVars /\ [LlmNext]_llmVars /\ [CatalogNext]_catalogVars
            /\ [ConnNext]_connVars /\ [FlowNext]_flowVars
    BY PartsMove
  <1>4. [Next]_partVars => [SliceNext]_sliceVars /\ [AuditNext]_auditVars /\ [RefsNext]_refVars
    BY PartsMove
  <1>5. Spec => FeatureSpec /\ ClockSpec /\ SopSpec /\ GovSpec /\ CalSpec /\ MatSpec
    BY <1>1, <1>2, PTL DEF Spec, FeatureSpec, ClockSpec, SopSpec, GovSpec, CalSpec, MatSpec
  <1>6. Spec => RuleSpec /\ DocSpec /\ LlmSpec /\ CatalogSpec /\ ConnSpec /\ FlowSpec
    BY <1>1, <1>3, PTL DEF Spec, RuleSpec, DocSpec, LlmSpec, CatalogSpec, ConnSpec, FlowSpec
  <1>7. Spec => SliceSpecification /\ AuditSpec /\ RefsSpec
    BY <1>1, <1>4, PTL DEF Spec, SliceSpecification, AuditSpec, RefsSpec
  <1> QED
    BY <1>5, <1>6, <1>7

\* So what is said of each part (the theorem of each says which code it is about) holds of all of them at
\* once, in the states that TLC explores: ticks once, sign-offs, history, rows, rules, reviews, caches, catalogue,
\* imports, slices, findings, and the month that, once closed, stays closed.
THEOREM DataCoreSoundAlways ==
    ASSUME PartPremises
    PROVE  Spec =>
               /\ [](TicksOnce /\ PublishedIsApproved /\ HistoryExplains /\ NothingLost /\ RuleServed /\ ReviewDecides)
               /\ [](CachesFollow /\ CatalogServes /\ ImportsSound /\ SliceSound /\ LiveSound)
               /\ MonthCloses
  <1>1. /\ \A s, t \in Savers : s = t
        /\ \A v, w \in SopWorkers : v = w
        /\ \A s, t \in Syncers : s = t
        /\ ~OverlapsAllowed /\ ~ResetsBreak /\ ~CollisionsAllowed /\ ~EditsDuringSync /\ ~UpdatesDuringPublish
        /\ ~CopiesRace /\ T.segTolerance >= 1 /\ T.gmHardOver >= 50 /\ T.passScore > 0
    BY DEF PartPremises
  <1>2. ClockSpec => []TicksOnce
    BY <1>1, TicksOnceAlways
  <1>3. FeatureSpec /\ LlmSpec => []CachesFollow
    BY <1>1, CachesFollowAlways
  <1>4. CatalogSpec => []CatalogServes
    BY <1>1, CatalogServesAlways
  <1>5. ConnSpec /\ FlowSpec /\ RefsSpec => []ImportsSound
    BY <1>1, ImportsSoundAlways
  <1>6. AuditSpec => []LiveSound
    BY <1>1, LiveSoundAlways
  <1>7. SopSpec => MonthCloses
    BY <1>1, MonthClosesAlways
  <1>8. CalSpec => []HistoryExplains
    BY <1>1, HistoryExplainsAlways
  <1> QED
    BY <1>2, <1>3, <1>4, <1>5, <1>6, <1>7, <1>8, PartsImplemented, PublishedIsApprovedAlways,
       NothingLostAlways, RuleServedAlways, ReviewDecidesAlways, SliceSoundAlways, PTL

=============================================================================
