---------------------------- MODULE OutboxProofs ----------------------------
(***************************************************************************)
(* At-least-once and in-order delivery of Outbox, for every set of events, *)
(* aggregates, webhooks and overlapping passes; and, with one pass at a    *)
(* time, that it implements OutboxPromise.                                 *)
(***************************************************************************)
EXTENDS Outbox, FiniteSetTheorems, TLAPS

-----------------------------------------------------------------------------
(* Initial states *)

LEMMA InitDelivery == Init => DeliveryInvariant
<1> SUFFICES ASSUME Init PROVE DeliveryInvariant
    OBVIOUS
<1>1. NoRow \in Row
    BY OutboxAssumption DEF NoRow, Row
<1>2. TypeOK
    BY <1>1, OutboxAssumption DEF Init, TypeOK, Resting, PassState
<1>3. RowSound
    BY DEF Init, RowSound, NoRow
<1>4. ReceiptSound
    BY DEF Init, ReceiptSound, Received
<1>5. PassSound
    BY DEF Init, PassSound, Resting
<1> QED
    BY <1>2, <1>3, <1>4, <1>5 DEF DeliveryInvariant

-----------------------------------------------------------------------------
(* Records *)

LEMMA RowWith ==
    ASSUME NEW r \in Row, NEW s \in {"ABSENT", "PENDING", "DELIVERED", "DEAD"},
           NEW n \in 0..Tiers + 1, NEW d \in BOOLEAN
    PROVE  /\ [r EXCEPT !.status = s, !.attempts = n] \in Row
           /\ [r EXCEPT !.status = s, !.attempts = n, !.due = d] \in Row
           /\ [r EXCEPT !.attempts = n, !.status = s, !.due = d] \in Row
BY DEF Row

LEMMA PassWith ==
    ASSUME NEW r \in PassState, NEW todo \in SUBSET Event, NEW cur \in SUBSET Event,
           NEW left \in SUBSET Hook, NEW b \in BOOLEAN
    PROVE  /\ [r EXCEPT !.todo = todo, !.cur = cur, !.left = left, !.allOk = b] \in PassState
           /\ [r EXCEPT !.left = left, !.allOk = b] \in PassState
BY DEF PassState

-----------------------------------------------------------------------------
(* What a step keeps *)

\* Only the put of an emit stores an event; no step changes the seq of a stored one.
LEMMA StoredStays ==
    ASSUME DeliveryInvariant, [Next]_vars, NEW e \in Event, Stored(e)
    PROVE  Stored(e)' /\ row'[e].seq = row[e].seq
<1> USE DEF DeliveryInvariant, Stored
<1>1. CASE row' = row
    BY <1>1
<1>2. ASSUME NEW f \in Event, EmitPut(f) PROVE Stored(e)' /\ row'[e].seq = row[e].seq
  <2>1. f # e
      BY <1>2 DEF EmitPut, RowSound
  <2> QED
      BY <1>2, <2>1 DEF EmitPut, TypeOK
<1>3. ASSUME NEW f \in Event, Elapse(f) \/ RedeliverPut(f)
      PROVE  Stored(e)' /\ row'[e].seq = row[e].seq
  <2>1. row[f] \in Row /\ row[f].status # "ABSENT"
      BY <1>3 DEF Elapse, RedeliverPut, TypeOK, RowSound
  <2>2. CASE Elapse(f)
      BY <2>1, <2>2 DEF Elapse, TypeOK, Row
  <2>3. CASE RedeliverPut(f)
      BY <2>1, <2>3 DEF RedeliverPut, TypeOK, Row
  <2> QED
      BY <1>3, <2>2, <2>3
<1>4. ASSUME NEW p \in Pass, NEW f \in Event, PutDelivered(p, f) \/ PutFailed(p, f)
      PROVE  Stored(e)' /\ row'[e].seq = row[e].seq
  <2>1. f \in pass[p].cur
      BY <1>4 DEF PutDelivered, PutFailed, Outcome
  <2>2. pass[p].copy[f].seq = row[f].seq /\ pass[p].copy[f] \in Row
      BY <2>1 DEF PassSound, TypeOK, PassState
  <2>3. CASE PutDelivered(p, f)
      BY <2>2, <2>3 DEF PutDelivered, Outcome, TypeOK, Row
  <2>4. CASE PutFailed(p, f)
      BY <2>2, <2>4 DEF PutFailed, Outcome, TypeOK, Row
  <2> QED
      BY <1>4, <2>3, <2>4
<1>5. ASSUME NEW f \in Event, NEW n \in 0..Cardinality(Event), EmitList(f, n) PROVE row' = row
    BY <1>5 DEF EmitList
<1>6. ASSUME NEW f \in Event, RedeliverGet(f) PROVE row' = row
    BY <1>6 DEF RedeliverGet
<1>7. ASSUME NEW p \in Pass, StartPass(p) PROVE row' = row
    BY <1>7 DEF StartPass
<1>8. ASSUME NEW p \in Pass, NEW f \in Event, NextHead(p, f) PROVE row' = row
    BY <1>8 DEF NextHead
<1>9. ASSUME NEW p \in Pass, NEW f \in Event, NEW h \in Hook,
             NEW received \in BOOLEAN, NEW ok \in BOOLEAN, Post(p, f, h, received, ok)
      PROVE  row' = row
    BY <1>9 DEF Post
<1>10. CASE Crash \/ UNCHANGED vars
    BY <1>10, <1>1 DEF Crash, vars
<1> QED
    BY <1>1, <1>2, <1>3, <1>4, <1>5, <1>6, <1>7, <1>8, <1>9, <1>10 DEF Next, PassStep

\* Only a call of a webhook changes what has been received and acknowledged.
LEMMA OnlyPost ==
    ASSUME [Next]_vars, ~UNCHANGED <<got, acked>>
    PROVE  \E p \in Pass, f \in Event, k \in Hook, received, ok \in BOOLEAN :
               Post(p, f, k, received, ok)
<1>1. \A e \in Event : /\ \A n \in 0..Cardinality(Event) : ~EmitList(e, n)
                       /\ ~EmitPut(e) /\ ~Elapse(e) /\ ~RedeliverGet(e) /\ ~RedeliverPut(e)
    BY DEF EmitList, EmitPut, Elapse, RedeliverGet, RedeliverPut
<1>2. ~Crash /\ ~UNCHANGED vars
    BY DEF Crash, vars
<1>3. PICK p \in Pass : PassStep(p)
    BY <1>1, <1>2 DEF Next
<1>4. ~StartPass(p)
    BY DEF StartPass
<1>5. \A e \in Event : ~NextHead(p, e) /\ ~PutDelivered(p, e) /\ ~PutFailed(p, e)
    BY DEF NextHead, PutDelivered, PutFailed, Outcome
<1> QED
    BY <1>3, <1>4, <1>5 DEF PassStep

\* A webhook does not lose what it has received.
LEMMA ReceivedStays ==
    ASSUME TypeOK, [Next]_vars, NEW e \in Event, NEW h \in Hook
    PROVE  /\ Received(h, e) => Received(h, e)'
           /\ got[h] \in Seq(Event)
           /\ \A i \in DOMAIN got[h] : i \in DOMAIN got'[h] /\ got'[h][i] = got[h][i]
<1>1. got[h] \in Seq(Event)
    BY DEF TypeOK
<1>2. SUFFICES ASSUME got' # got
               PROVE  \A i \in DOMAIN got[h] : i \in DOMAIN got'[h] /\ got'[h][i] = got[h][i]
    BY <1>1, <1>2 DEF Received
<1>3. PICK p \in Pass, f \in Event, k \in Hook, received \in BOOLEAN, ok \in BOOLEAN :
          Post(p, f, k, received, ok)
    BY <1>2, OnlyPost
<1>4. got' = [got EXCEPT ![k] = Append(@, f)]
    BY <1>2, <1>3 DEF Post
<1>5. CASE k = h
  <2>1. got'[h] = Append(got[h], f)
      BY <1>4, <1>5 DEF TypeOK
  <2> QED
      BY <1>1, <2>1
<1>6. CASE k # h
    BY <1>4, <1>6 DEF TypeOK
<1> QED
    BY <1>5, <1>6
-----------------------------------------------------------------------------
(* Type correctness *)

LEMMA TypeStep == DeliveryInvariant /\ [Next]_vars => TypeOK'
<1> SUFFICES ASSUME DeliveryInvariant, [Next]_vars PROVE TypeOK'
    OBVIOUS
<1> USE OutboxAssumption DEF DeliveryInvariant
<1>1. ASSUME NEW e \in Event, NEW n \in 0..Cardinality(Event), EmitList(e, n) PROVE TypeOK'
  <2>1. n \in Nat
      BY FS_CardinalityType
  <2> QED
      BY <1>1, <2>1 DEF EmitList, TypeOK
<1>2. ASSUME NEW e \in Event, EmitPut(e) PROVE TypeOK'
  <2>1. Cardinality({f \in Event : Stored(f)}) \in Nat
      BY FS_Subset, FS_CardinalityType
  <2>2. PICK n \in emitting[e] :
          row' = [row EXCEPT ![e] = [status |-> "PENDING", seq |-> n, attempts |-> 0, due |-> TRUE,
                                     created |-> Cardinality({f \in Event : Stored(f)})]]
      BY <1>2 DEF EmitPut
  <2>3. row' \in [Event -> Row]
      BY <2>1, <2>2 DEF TypeOK, Row
  <2> QED
      BY <1>2, <2>3 DEF EmitPut, TypeOK
<1>3. ASSUME NEW e \in Event, Elapse(e) PROVE TypeOK'
  <2>1. row' \in [Event -> Row]
      BY <1>3 DEF Elapse, TypeOK, Row
  <2> QED
      BY <1>3, <2>1 DEF Elapse, TypeOK
<1>4. ASSUME NEW e \in Event, RedeliverGet(e) PROVE TypeOK'
    BY <1>4 DEF RedeliverGet, TypeOK
<1>5. ASSUME NEW e \in Event, RedeliverPut(e) PROVE TypeOK'
  <2> DEFINE next == [row[e] EXCEPT !.status = "PENDING", !.attempts = 0, !.due = TRUE]
  <2>1. row[e] \in Row
      BY DEF TypeOK
  <2>2. next \in Row
    <3>1. 0 \in 0..Tiers + 1
        OBVIOUS
    <3> QED
        BY <2>1, <3>1, RowWith
  <2>3. row' = [row EXCEPT ![e] = next]
      BY <1>5 DEF RedeliverPut
  <2>4. row' \in [Event -> Row]
      BY <2>2, <2>3 DEF TypeOK
  <2> QED
      BY <1>5, <2>4 DEF RedeliverPut, TypeOK
<1>6. ASSUME NEW p \in Pass, StartPass(p) PROVE TypeOK'
  <2>1. NoRow \in Row
      BY DEF NoRow, Row
  <2>2. PICK H \in SUBSET Event : pass' = [pass EXCEPT ![p] = Listed(H)]
      BY <1>6 DEF StartPass, Pending
  <2>3. Listed(H) \in PassState
      BY <2>1 DEF Listed, Resting, TypeOK, PassState
  <2>4. pass' \in [Pass -> PassState]
      BY <2>2, <2>3 DEF TypeOK
  <2> QED
      BY <1>6, <2>4 DEF StartPass, TypeOK
<1>7. ASSUME NEW p \in Pass, NEW e \in Event, NextHead(p, e) PROVE TypeOK'
  <2> DEFINE next == [pass[p] EXCEPT !.todo = @ \ {e}, !.cur = {e},
                                     !.left = Wants[e], !.allOk = TRUE]
  <2>1. pass[p] \in PassState /\ pass[p].todo \ {e} \in SUBSET Event /\ Wants[e] \in SUBSET Hook
      BY DEF TypeOK, PassState
  <2>2. next \in PassState
      BY <2>1, PassWith
  <2>3. pass' = [pass EXCEPT ![p] = next]
      BY <1>7 DEF NextHead
  <2>4. pass' \in [Pass -> PassState]
      BY <2>2, <2>3 DEF TypeOK
  <2> QED
      BY <1>7, <2>4 DEF NextHead, TypeOK
<1>8. ASSUME NEW p \in Pass, NEW e \in Event, NEW h \in Hook,
             NEW received \in BOOLEAN, NEW ok \in BOOLEAN, Post(p, e, h, received, ok)
      PROVE  TypeOK'
  <2> DEFINE next == [pass[p] EXCEPT !.left = @ \ {h}, !.allOk = @ /\ ok]
  <2>a. pass[p] \in PassState /\ pass[p].left \ {h} \in SUBSET Hook
      BY DEF TypeOK, PassState
  <2>b. (pass[p].allOk /\ ok) \in BOOLEAN
      OBVIOUS
  <2>c. next \in PassState
      BY <2>a, <2>b, PassWith, Zenon
  <2>d. pass' = [pass EXCEPT ![p] = next]
      BY <1>8 DEF Post
  <2>1. pass' \in [Pass -> PassState]
      BY <2>c, <2>d DEF TypeOK
  <2>2. got' \in [Hook -> Seq(Event)]
      BY <1>8 DEF Post, TypeOK
  <2>3. acked' \subseteq Event \X Hook
      BY <1>8 DEF Post, TypeOK
  <2> QED
      BY <1>8, <2>1, <2>2, <2>3 DEF Post, TypeOK
<1>9. ASSUME NEW p \in Pass, NEW e \in Event, NEW next \in Row, Outcome(p, e, next)
      PROVE  row' \in [Event -> Row] /\ pass' \in [Pass -> PassState]
  <2>1. NoRow \in Row /\ Resting \in PassState
      BY DEF NoRow, Row, Resting, PassState
  <2>2. pass' \in [Pass -> PassState]
      BY <1>9, <2>1 DEF Outcome, TypeOK, PassState
  <2> QED
      BY <1>9, <2>2 DEF Outcome, TypeOK
<1>10. ASSUME NEW p \in Pass, NEW e \in Event, PutDelivered(p, e) PROVE TypeOK'
  <2> DEFINE next == [pass[p].copy[e] EXCEPT !.status = "DELIVERED",
                         !.attempts = IF Wants[e] = {} THEN @ ELSE @ + 1]
  <2>1. e \in pass[p].cur /\ pass[p].copy[e] \in Row
      BY <1>10 DEF PutDelivered, Outcome, TypeOK, PassState
  <2>2. pass[p].copy[e].attempts <= Tiers
      BY <2>1 DEF PassSound
  <2>n. /\ pass[p].copy[e].attempts + 1 \in 0..Tiers + 1
        /\ pass[p].copy[e].attempts \in 0..Tiers + 1
      BY <2>1, <2>2 DEF Row
  <2>3. next \in Row
    <3>1. CASE Wants[e] = {}
        BY <2>1, <2>n, <3>1, RowWith
    <3>2. CASE Wants[e] # {}
        BY <2>1, <2>n, <3>2, RowWith
    <3> QED
        BY <3>1, <3>2
  <2> QED
      BY <1>10, <1>9, <2>3 DEF PutDelivered, Outcome, TypeOK
<1>11. ASSUME NEW p \in Pass, NEW e \in Event, PutFailed(p, e) PROVE TypeOK'
  <2> DEFINE dead == pass[p].copy[e].attempts + 1 > Tiers
             next == [pass[p].copy[e] EXCEPT !.attempts = @ + 1,
                         !.status = IF dead THEN "DEAD" ELSE "PENDING", !.due = dead /\ @]
  <2>1. e \in pass[p].cur /\ pass[p].copy[e] \in Row
      BY <1>11 DEF PutFailed, Outcome, TypeOK, PassState
  <2>2. pass[p].copy[e].attempts <= Tiers
      BY <2>1 DEF PassSound
  <2>n. pass[p].copy[e].attempts + 1 \in 0..Tiers + 1
      BY <2>1, <2>2 DEF Row
  <2>d. (dead /\ pass[p].copy[e].due) \in BOOLEAN
      OBVIOUS
  <2>s. (IF dead THEN "DEAD" ELSE "PENDING") \in {"ABSENT", "PENDING", "DELIVERED", "DEAD"}
      OBVIOUS
  <2> HIDE DEF dead
  <2>3. next \in Row
      BY <2>1, <2>n, <2>d, <2>s, RowWith, Zenon
  <2> USE DEF dead
  <2> QED
      BY <1>11, <1>9, <2>3 DEF PutFailed, Outcome, TypeOK
<1>12. CASE Crash
  <2>1. Resting \in PassState
      BY DEF Resting, PassState, NoRow, Row
  <2> QED
      BY <1>12, <2>1 DEF Crash, TypeOK
<1>13. CASE UNCHANGED vars
    BY <1>13 DEF vars, TypeOK
<1> QED
    BY <1>1, <1>2, <1>3, <1>4, <1>5, <1>6, <1>7, <1>8, <1>10, <1>11, <1>12, <1>13
    DEF Next, PassStep
-----------------------------------------------------------------------------
(* At least once *)

LEMMA RowSoundStep == DeliveryInvariant /\ [Next]_vars => RowSound'
<1> SUFFICES ASSUME DeliveryInvariant, [Next]_vars, NEW x \in Event
             PROVE  /\ row'[x].status = "PENDING" => row'[x].attempts <= Tiers
                    /\ row'[x].status = "DELIVERED" => \A h \in Wants[x] : <<x, h>> \in acked'
                    /\ row'[x].status = "DEAD" => x \in buried'
                    /\ x \in redo' => Stored(x)' /\ x \in buried'
                    /\ emitting'[x] # {} => ~Stored(x)'
    BY DEF RowSound
<1> DEFINE Goal == /\ row'[x].status = "PENDING" => row'[x].attempts <= Tiers
                   /\ row'[x].status = "DELIVERED" => \A h \in Wants[x] : <<x, h>> \in acked'
                   /\ row'[x].status = "DEAD" => x \in buried'
                   /\ x \in redo' => Stored(x)' /\ x \in buried'
                   /\ emitting'[x] # {} => ~Stored(x)'
<1> USE OutboxAssumption DEF DeliveryInvariant
<1>0. /\ row[x].status = "PENDING" => row[x].attempts <= Tiers
      /\ row[x].status = "DELIVERED" => \A h \in Wants[x] : <<x, h>> \in acked
      /\ row[x].status = "DEAD" => x \in buried
      /\ x \in redo => Stored(x) /\ x \in buried
      /\ emitting[x] # {} => ~Stored(x)
      /\ row[x] \in Row
    BY DEF RowSound, TypeOK
<1>1. ASSUME NEW e \in Event, NEW n \in 0..Cardinality(Event), EmitList(e, n) PROVE Goal
    BY <1>0, <1>1 DEF EmitList, Stored, TypeOK
<1>2. ASSUME NEW e \in Event, EmitPut(e) PROVE Goal
  <2>1. x \in redo => x # e
      BY <1>0, <1>2 DEF EmitPut, RowSound
  <2> QED
      BY <1>0, <1>2, <2>1 DEF EmitPut, Stored, TypeOK
<1>3. ASSUME NEW e \in Event, Elapse(e) PROVE Goal
    BY <1>0, <1>3 DEF Elapse, Stored, TypeOK, Row
<1>4. ASSUME NEW e \in Event, RedeliverGet(e) PROVE Goal
    BY <1>0, <1>4 DEF RedeliverGet, Stored
<1>5. ASSUME NEW e \in Event, RedeliverPut(e) PROVE Goal
  <2>1. row[e] \in Row /\ Stored(e)
      BY <1>5 DEF RedeliverPut, TypeOK, RowSound
  <2> QED
      BY <1>0, <1>5, <2>1 DEF RedeliverPut, Stored, TypeOK, Row
<1>6. ASSUME NEW p \in Pass, StartPass(p) PROVE Goal
    BY <1>0, <1>6 DEF StartPass, Stored
<1>7. ASSUME NEW p \in Pass, NEW e \in Event, NextHead(p, e) PROVE Goal
    BY <1>0, <1>7 DEF NextHead, Stored
<1>8. ASSUME NEW p \in Pass, NEW e \in Event, NEW h \in Hook,
             NEW received \in BOOLEAN, NEW ok \in BOOLEAN, Post(p, e, h, received, ok)
      PROVE  Goal
    BY <1>0, <1>8 DEF Post, Stored
<1>9. ASSUME NEW p \in Pass, NEW e \in Event, PutDelivered(p, e) PROVE Goal
  <2> DEFINE next == [pass[p].copy[e] EXCEPT !.status = "DELIVERED",
                         !.attempts = IF Wants[e] = {} THEN @ ELSE @ + 1]
  <2>1. e \in pass[p].cur /\ pass[p].left = {} /\ pass[p].copy[e] \in Row
      BY <1>9 DEF PutDelivered, Outcome, TypeOK, PassState
  <2>2. \A h \in Wants[e] : <<e, h>> \in acked
      BY <1>9, <2>1 DEF PutDelivered, PassSound
  <2>3. Stored(e)
      BY <2>1 DEF PassSound
  <2>4. row' = [row EXCEPT ![e] = next] /\ next.status = "DELIVERED"
      BY <1>9, <2>1 DEF PutDelivered, Outcome, Row
  <2>5. UNCHANGED <<emitting, redo, acked, buried>>
      BY <1>9 DEF PutDelivered, Outcome
  <2> QED
      BY <1>0, <2>2, <2>3, <2>4, <2>5 DEF Stored, TypeOK
<1>10. ASSUME NEW p \in Pass, NEW e \in Event, PutFailed(p, e) PROVE Goal
  <2> DEFINE dead == pass[p].copy[e].attempts + 1 > Tiers
             next == [pass[p].copy[e] EXCEPT !.attempts = @ + 1,
                         !.status = IF dead THEN "DEAD" ELSE "PENDING", !.due = dead /\ @]
  <2>1. e \in pass[p].cur /\ pass[p].copy[e] \in Row
      BY <1>10 DEF PutFailed, Outcome, TypeOK, PassState
  <2>2. Stored(e)
      BY <2>1 DEF PassSound
  <2>3. row' = [row EXCEPT ![e] = next]
      BY <1>10 DEF PutFailed, Outcome
  <2>4. /\ next.status = IF dead THEN "DEAD" ELSE "PENDING"
        /\ next.attempts = pass[p].copy[e].attempts + 1
      BY <2>1 DEF Row
  <2>5. /\ UNCHANGED <<emitting, redo, acked>>
        /\ buried' = IF dead THEN buried \cup {e} ELSE buried
      BY <1>10 DEF PutFailed, Outcome
  <2>6. CASE x = e
    <3>1. /\ row'[e].status = IF dead THEN "DEAD" ELSE "PENDING"
          /\ row'[e].attempts = pass[p].copy[e].attempts + 1
          /\ pass[p].copy[e].attempts + 1 \in Nat
      <4>1. row'[e] = next
        BY <2>3 DEF TypeOK
      <4> HIDE DEF next
      <4> QED
        BY <2>1, <2>4, <4>1 DEF Row
    <3>2. row'[e].status # "DELIVERED" /\ (row'[e].status = "PENDING" => row'[e].attempts <= Tiers)
      BY <3>1
    <3>3. row'[e].status = "DEAD" => e \in buried'
      BY <2>5, <3>1
    <3>4. Stored(e)'
      BY <3>1 DEF Stored
    <3>5. (e \in redo' => e \in buried') /\ emitting'[e] = {}
      BY <1>0, <2>2, <2>5, <2>6
    <3> QED
      BY <2>6, <3>2, <3>3, <3>4, <3>5
  <2>7. CASE x # e
      BY <1>0, <2>3, <2>5, <2>7 DEF Stored, TypeOK
  <2> QED
      BY <2>6, <2>7
<1>11. CASE Crash
    BY <1>0, <1>11 DEF Crash, Stored
<1>12. CASE UNCHANGED vars
    BY <1>0, <1>12 DEF vars, Stored
<1> QED
    BY <1>1, <1>2, <1>3, <1>4, <1>5, <1>6, <1>7, <1>8, <1>9, <1>10, <1>11, <1>12
    DEF Next, PassStep

LEMMA ReceiptSoundStep == DeliveryInvariant /\ [Next]_vars => ReceiptSound'
<1> SUFFICES ASSUME DeliveryInvariant, [Next]_vars, NEW e \in Event, NEW h \in Hook
             PROVE  /\ <<e, h>> \in acked' => Received(h, e)'
                    /\ Received(h, e)' => Stored(e)'
    BY DEF ReceiptSound
<1>1. Stored(e) => Stored(e)'
    BY StoredStays
<1>2. Received(h, e) => Received(h, e)'
    BY ReceivedStays DEF DeliveryInvariant
<1>3. (<<e, h>> \in acked => Received(h, e)) /\ (Received(h, e) => Stored(e))
    BY DEF DeliveryInvariant, ReceiptSound
<1>4. CASE UNCHANGED <<got, acked>>
    BY <1>1, <1>3, <1>4 DEF Received
<1>5. ASSUME NEW p \in Pass, NEW f \in Event, NEW k \in Hook,
             NEW received \in BOOLEAN, NEW ok \in BOOLEAN, Post(p, f, k, received, ok)
      PROVE  /\ <<e, h>> \in acked' => Received(h, e)'
             /\ Received(h, e)' => Stored(e)'
  <2>1. Stored(f) /\ f \in pass[p].cur
      BY <1>5 DEF Post, DeliveryInvariant, PassSound
  <2>2. got[k] \in Seq(Event) /\ got \in [Hook -> Seq(Event)]
      BY DEF DeliveryInvariant, TypeOK
  <2>3. got' # got => got' = [got EXCEPT ![k] = Append(@, f)]
      BY <1>5 DEF Post
  <2>4. received => Received(k, f)'
    <3>1. CASE got' = got
        BY <1>5, <3>1, <2>2, ReceivedStays DEF Post, Received, DeliveryInvariant
    <3>2. CASE got' # got
      <4>1. got'[k] = Append(got[k], f)
          BY <2>2, <2>3, <3>2
      <4>2. Len(got[k]) + 1 \in DOMAIN got'[k] /\ got'[k][Len(got[k]) + 1] = f
          BY <2>2, <4>1
      <4> QED
          BY <4>2 DEF Received
    <3> QED
        BY <3>1, <3>2
  <2>5. Received(h, e)' => Received(h, e) \/ (e = f /\ h = k)
    <3>1. CASE got' = got
        BY <3>1 DEF Received
    <3>2. CASE got' # got
        BY <2>2, <2>3, <3>2 DEF Received
    <3> QED
        BY <3>1, <3>2
  <2>6. <<e, h>> \in acked' => <<e, h>> \in acked \/ (e = f /\ h = k /\ received)
      BY <1>5 DEF Post
  <2>7. Stored(f)'
      BY <2>1, StoredStays
  <2> QED
      BY <1>1, <1>2, <1>3, <2>4, <2>5, <2>6, <2>7
<1> QED
    BY <1>4, <1>5, OnlyPost

\* What a pass holds for an event it has not settled.
LEMMA HeldStays ==
    ASSUME DeliveryInvariant, [Next]_vars, NEW p \in Pass,
           pass'[p].todo \cup pass'[p].cur \subseteq pass[p].todo \cup pass[p].cur,
           \A e \in pass'[p].todo \cup pass'[p].cur : pass'[p].copy[e] = pass[p].copy[e]
    PROVE  \A e \in pass'[p].todo \cup pass'[p].cur :
               /\ Stored(e)'
               /\ pass'[p].copy[e].status = "PENDING"
               /\ pass'[p].copy[e].attempts <= Tiers
               /\ pass'[p].copy[e].seq = row'[e].seq
<1> SUFFICES ASSUME NEW e \in pass'[p].todo \cup pass'[p].cur
             PROVE  /\ Stored(e)'
                    /\ pass[p].copy[e].status = "PENDING"
                    /\ pass[p].copy[e].attempts <= Tiers
                    /\ pass[p].copy[e].seq = row'[e].seq
    OBVIOUS
<1>1. e \in Event
    BY DEF DeliveryInvariant, TypeOK, PassState
<1>2. /\ Stored(e)
      /\ pass[p].copy[e].status = "PENDING"
      /\ pass[p].copy[e].attempts <= Tiers
      /\ pass[p].copy[e].seq = row[e].seq
    BY DEF DeliveryInvariant, PassSound
<1> QED
    BY <1>1, <1>2, StoredStays

LEMMA PassSoundStep == DeliveryInvariant /\ [Next]_vars => PassSound'
<1> SUFFICES ASSUME DeliveryInvariant, [Next]_vars, NEW q \in Pass
             PROVE  /\ \A e \in pass'[q].todo \cup pass'[q].cur :
                          /\ Stored(e)'
                          /\ pass'[q].copy[e].status = "PENDING"
                          /\ pass'[q].copy[e].attempts <= Tiers
                          /\ pass'[q].copy[e].seq = row'[e].seq
                    /\ \A e, f \in pass'[q].cur : e = f /\ e \notin pass'[q].todo
                    /\ \A e \in pass'[q].cur : pass'[q].allOk =>
                          \A h \in Wants[e] \ pass'[q].left : <<e, h>> \in acked'
    BY DEF PassSound
<1> DEFINE Goal == /\ \A e \in pass'[q].todo \cup pass'[q].cur :
                          /\ Stored(e)'
                          /\ pass'[q].copy[e].status = "PENDING"
                          /\ pass'[q].copy[e].attempts <= Tiers
                          /\ pass'[q].copy[e].seq = row'[e].seq
                   /\ \A e, f \in pass'[q].cur : e = f /\ e \notin pass'[q].todo
                   /\ \A e \in pass'[q].cur : pass'[q].allOk =>
                          \A h \in Wants[e] \ pass'[q].left : <<e, h>> \in acked'
<1>0. /\ \A e, f \in pass[q].cur : e = f /\ e \notin pass[q].todo
      /\ \A e \in pass[q].cur :
            pass[q].allOk => \A h \in Wants[e] \ pass[q].left : <<e, h>> \in acked
      /\ pass \in [Pass -> PassState]
    BY DEF DeliveryInvariant, PassSound, TypeOK
<1>a. acked \subseteq acked'
  <2>1. CASE acked' = acked
      BY <2>1
  <2>2. ASSUME NEW p \in Pass, NEW e \in Event, NEW h \in Hook,
               NEW received \in BOOLEAN, NEW ok \in BOOLEAN, Post(p, e, h, received, ok)
        PROVE  acked \subseteq acked'
      BY <2>2 DEF Post
  <2> QED
      BY <2>1, <2>2, OnlyPost
<1>1. CASE pass'[q] = pass[q]
    BY <1>0, <1>a, <1>1, HeldStays
<1>2. CASE pass'[q] = Resting
    BY <1>2 DEF Resting
<1>3. CASE StartPass(q)
  <2>1. PICK H \in SUBSET Pending : pass' = [pass EXCEPT ![q] = Listed(H)]
      BY <1>3 DEF StartPass
  <2>2. /\ pass'[q].todo = H /\ pass'[q].cur = {}
        /\ \A e \in H : pass'[q].copy[e] = row[e]
      BY <1>0, <2>1 DEF Listed, Resting, Pending, PassState
  <2>3. row' = row
      BY <1>3 DEF StartPass
  <2>4. \A e \in H : e \in Event /\ row[e].status = "PENDING" /\ row[e].attempts <= Tiers
      BY DEF Pending, DeliveryInvariant, RowSound
  <2> QED
      BY <2>2, <2>3, <2>4 DEF Stored
<1>4. ASSUME NEW e \in Event, NextHead(q, e) PROVE Goal
  <2>1. /\ pass'[q].todo = pass[q].todo \ {e} /\ pass'[q].cur = {e} /\ e \in pass[q].todo
        /\ pass'[q].left = Wants[e] /\ pass'[q].copy = pass[q].copy
      BY <1>0, <1>4 DEF NextHead, PassState
  <2> QED
      BY <2>1, HeldStays
<1>5. ASSUME NEW e \in Event, NEW k \in Hook,
             NEW received \in BOOLEAN, NEW ok \in BOOLEAN, Post(q, e, k, received, ok)
      PROVE  Goal
  <2> DEFINE next == [pass[q] EXCEPT !.left = @ \ {k}, !.allOk = @ /\ ok]
  <2>1. pass' = [pass EXCEPT ![q] = next] /\ e \in pass[q].cur
      BY <1>5 DEF Post
  <2>2. /\ next.todo = pass[q].todo /\ next.cur = pass[q].cur /\ next.copy = pass[q].copy
        /\ next.left = pass[q].left \ {k}
      BY <1>0 DEF PassState
  <2>3. next.allOk => pass[q].allOk /\ ok
      BY <1>0 DEF PassState
  <2>4. ok => <<e, k>> \in acked'
      BY <1>5 DEF Post
  <2>5. pass'[q] = next
      BY <1>0, <2>1
  <2> HIDE DEF next
  <2>6. \A f \in next.cur : next.allOk => \A h \in Wants[f] \ next.left : <<f, h>> \in acked'
      BY <1>0, <1>a, <2>1, <2>2, <2>3, <2>4
  <2> QED
      BY <1>0, <2>2, <2>5, <2>6, HeldStays
<1>6. ASSUME NEW e \in Event, NEW next, Outcome(q, e, next) PROVE Goal
  <2>1. CASE pass[q].todo = {}
      BY <1>0, <1>2, <1>6, <2>1 DEF Outcome
  <2>2. CASE pass[q].todo # {}
    <3> DEFINE then == [pass[q] EXCEPT !.cur = {}, !.copy[e] = NoRow]
    <3>1. pass'[q] = then
        BY <1>0, <1>6, <2>2 DEF Outcome
    <3>2. /\ then.todo = pass[q].todo /\ then.cur = {}
          /\ then.copy = [pass[q].copy EXCEPT ![e] = NoRow]
        BY <1>0 DEF PassState
    <3>3. \A f \in Event \ {e} : then.copy[f] = pass[q].copy[f]
        BY <1>0, <3>2 DEF PassState
    <3>4. e \notin pass[q].todo /\ pass[q].todo \subseteq Event
        BY <1>0, <1>6 DEF Outcome, PassState
    <3> HIDE DEF then
    <3> QED
        BY <3>1, <3>2, <3>3, <3>4, HeldStays
  <2> QED
      BY <2>1, <2>2
<1>7. CASE Crash
    BY <1>2, <1>7 DEF Crash
<1>8. ASSUME NEW p \in Pass, PassStep(p), p # q PROVE pass'[q] = pass[q]
    BY <1>0, <1>8 DEF PassStep, StartPass, NextHead, Post, PutDelivered, PutFailed, Outcome
<1>9. CASE PassStep(q)
    BY <1>3, <1>4, <1>5, <1>6, <1>9 DEF PassStep, PutDelivered, PutFailed
<1>10. CASE UNCHANGED pass
    BY <1>1, <1>10
<1> QED
    BY <1>1, <1>7, <1>8, <1>9, <1>10
    DEF Next, vars, EmitList, EmitPut, Elapse, RedeliverGet, RedeliverPut

\* Whatever passes, redeliveries and restarts do, the rows of the outbox, what webhooks
\* have received and what the passes hold agree (processOnce, deliver and redeliver).
THEOREM DeliveryHolds == Spec => []DeliveryInvariant
<1>1. DeliveryInvariant /\ [Next]_vars => DeliveryInvariant'
    BY TypeStep, RowSoundStep, ReceiptSoundStep, PassSoundStep DEF DeliveryInvariant
<1> QED
    BY <1>1, InitDelivery, PTL DEF Spec

\* The variables of the outbox keep their types; attempts never exceed the tiers by
\* more than one (deliver).
THEOREM TypeCorrect == Spec => []TypeOK
<1>1. DeliveryInvariant => TypeOK
    BY DEF DeliveryInvariant
<1> QED
    BY <1>1, DeliveryHolds, PTL

\* An event is marked DELIVERED only after every webhook that wants it has answered 2xx
\* for it (deliver).
THEOREM AtLeastOnceAlways == Spec => []AtLeastOnce
<1>1. DeliveryInvariant => AtLeastOnce
    BY DEF DeliveryInvariant, RowSound, AtLeastOnce
<1> QED
    BY <1>1, DeliveryHolds, PTL

-----------------------------------------------------------------------------
(* In order, as long as the emits of an aggregate do not overlap *)

\* The actions that write rows.
LEMMA RowChange ==
    ASSUME [Next]_vars, row' # row
    PROVE  \E e \in Event :
               \/ EmitPut(e)
               \/ (Elapse(e) \/ RedeliverPut(e)) /\ UNCHANGED <<emitting, buried>>
               \/ \E p \in Pass : \E next : Outcome(p, e, next)
<1>1. ASSUME NEW p \in Pass, NEW e \in Event, PutDelivered(p, e)
      PROVE  \E next : Outcome(p, e, next)
    BY <1>1, Zenon DEF PutDelivered
<1>2. ASSUME NEW p \in Pass, NEW e \in Event, PutFailed(p, e)
      PROVE  \E next : Outcome(p, e, next)
    BY <1>2, Zenon DEF PutFailed
<1>3. ASSUME NEW e \in Event, Elapse(e) \/ RedeliverPut(e) PROVE UNCHANGED <<emitting, buried>>
    BY <1>3 DEF Elapse, RedeliverPut
<1>4. \A e \in Event : /\ \A n \in 0..Cardinality(Event) : ~EmitList(e, n)
                       /\ ~RedeliverGet(e)
    BY DEF EmitList, RedeliverGet
<1>5. \A p \in Pass : /\ ~StartPass(p)
                      /\ \A e \in Event : ~NextHead(p, e)
                      /\ \A e \in Event, h \in Hook, received, ok \in BOOLEAN :
                            ~Post(p, e, h, received, ok)
  <2>1. \A p \in Pass : ~StartPass(p)
      BY Zenon DEF StartPass
  <2>2. \A p \in Pass, e \in Event : ~NextHead(p, e)
      BY Zenon DEF NextHead
  <2>3. \A p \in Pass, e \in Event, h \in Hook, received, ok \in BOOLEAN : ~Post(p, e, h, received, ok)
      BY Zenon DEF Post
  <2> QED
      BY ONLY <2>1, <2>2, <2>3, Zenon
<1>6. ~Crash /\ ~UNCHANGED vars
    BY DEF Crash, vars
<1> QED
    BY <1>1, <1>2, <1>3, <1>4, <1>5, <1>6 DEF Next, PassStep

LEMMA InitOrder == Init => OrderInvariant
BY DEF Init, OrderInvariant, EmitSound, PassOrdered, InOrder, Resting

LEMMA EmitSoundStep ==
    ~EmitOverlap /\ DeliveryInvariant /\ EmitSound /\ [Next]_vars => EmitSound'
<1> SUFFICES ASSUME ~EmitOverlap, DeliveryInvariant, EmitSound, [Next]_vars
             PROVE  EmitSound'
    OBVIOUS
<1>0. /\ emitting \in [Event -> SUBSET Nat]
      /\ \A e \in Event : row[e] \in Row
    BY DEF DeliveryInvariant, TypeOK
<1>1. ASSUME NEW e \in Event, NEW n \in 0..Cardinality(Event), EmitList(e, n) PROVE EmitSound'
  <2>1. /\ emitting' = [emitting EXCEPT ![e] = {n}] /\ row' = row
        /\ \A f \in Event : AggOf[f] = AggOf[e] => emitting[f] = {}
        /\ \A f \in Event : (Stored(f) /\ AggOf[f] = AggOf[e]) => row[f].seq < n
      BY <1>1 DEF EmitList, IsNextSeq, Siblings
  <2> QED
      BY <1>0, <2>1 DEF EmitSound, Stored
<1>2. ASSUME NEW e \in Event, EmitPut(e) PROVE EmitSound'
  <2>1. /\ emitting' = [emitting EXCEPT ![e] = {}] /\ emitting[e] # {}
        /\ \A f \in Event \ {e} : row'[f] = row[f]
      BY <1>0, <1>2 DEF EmitPut, DeliveryInvariant, TypeOK
  <2> QED
      BY <1>0, <2>1 DEF EmitSound, Stored
<1>3. CASE emitting' = [e \in Event |-> {}]
    BY <1>3 DEF EmitSound
<1>4. ASSUME emitting' = emitting, \A e \in Event : Stored(e)' => Stored(e) PROVE EmitSound'
  <2>1. \A e \in Event : Stored(e)' => row'[e].seq = row[e].seq
      BY <1>4, StoredStays
  <2> QED
      BY <1>4, <2>1 DEF EmitSound
<1>5. CASE row' = row /\ emitting' = emitting
    BY <1>4, <1>5 DEF Stored
<1>6. ASSUME NEW e \in Event, Elapse(e) \/ RedeliverPut(e) PROVE EmitSound'
  <2>1. Stored(e) /\ emitting' = emitting
      BY <1>6 DEF Elapse, RedeliverPut, DeliveryInvariant, RowSound, Stored
  <2>2. \A f \in Event \ {e} : row'[f] = row[f]
      BY <1>6 DEF Elapse, RedeliverPut, DeliveryInvariant, TypeOK
  <2> QED
      BY <1>4, <2>1, <2>2 DEF Stored
<1>7. ASSUME NEW p \in Pass, NEW e \in Event, NEW next, Outcome(p, e, next) PROVE EmitSound'
  <2>1. Stored(e) /\ emitting' = emitting
      BY <1>7 DEF Outcome, DeliveryInvariant, PassSound
  <2>2. \A f \in Event \ {e} : row'[f] = row[f]
      BY <1>7 DEF Outcome, DeliveryInvariant, TypeOK
  <2> QED
      BY <1>4, <2>1, <2>2 DEF Stored
<1>8. CASE row' # row
    BY <1>2, <1>6, <1>7, <1>8, RowChange
<1>9. CASE row' = row
  <2>1. ASSUME NEW p \in Pass, NEW e \in Event, PutDelivered(p, e) \/ PutFailed(p, e)
        PROVE  emitting' = emitting
      BY <2>1 DEF PutDelivered, PutFailed, Outcome
  <2>2. ASSUME NEW e \in Event, Elapse(e) \/ RedeliverGet(e) \/ RedeliverPut(e)
        PROVE  emitting' = emitting
      BY <2>2 DEF Elapse, RedeliverGet, RedeliverPut
  <2>3. ASSUME NEW p \in Pass, StartPass(p) \/ \E e \in Event : NextHead(p, e)
        PROVE  emitting' = emitting
      BY <2>3 DEF StartPass, NextHead
  <2>4. ASSUME NEW p \in Pass, NEW e \in Event, NEW h \in Hook,
               NEW received \in BOOLEAN, NEW ok \in BOOLEAN, Post(p, e, h, received, ok)
        PROVE  emitting' = emitting
      BY <2>4 DEF Post
  <2>5. CASE UNCHANGED vars
      BY <1>5, <1>9, <2>5 DEF vars
  <2>6. CASE Crash
      BY <1>3, <2>6 DEF Crash
  <2> QED
      BY <1>1, <1>2, <1>5, <1>9, <2>1, <2>2, <2>3, <2>4, <2>5, <2>6 DEF Next, PassStep
<1> QED
    BY <1>8, <1>9

\* An event that is stored by this step comes after everything stored before.
LEMMA NewcomersAreLast ==
    ASSUME ~EmitOverlap, DeliveryInvariant, EmitSound, [Next]_vars,
           NEW e \in Event, NEW f \in Event, Stored(e), f \in Siblings(e)',
           row'[f].seq < row'[e].seq
    PROVE  f \in Siblings(e) /\ row[f].seq < row[e].seq
<1>1. row'[e].seq = row[e].seq
    BY StoredStays
<1>2. CASE Stored(f)
    BY <1>1, <1>2, StoredStays DEF Siblings
<1>3. CASE ~Stored(f)
  <2>1. EmitPut(f)
    <3>1. row'[f] # row[f]
        BY <1>3 DEF Siblings, Stored
    <3>2. \A p \in Pass : \A x : ~Outcome(p, f, x)
        BY <1>3 DEF Outcome, DeliveryInvariant, PassSound
    <3>3. ~Elapse(f) /\ ~RedeliverPut(f)
        BY <1>3 DEF Elapse, RedeliverPut, DeliveryInvariant, RowSound, Stored
    <3>4. row \in [Event -> Row]
        BY DEF DeliveryInvariant, TypeOK
    <3>5. \A g \in Event : Elapse(g) \/ RedeliverPut(g) \/ EmitPut(g) => g = f
        BY <3>1, <3>4 DEF Elapse, RedeliverPut, EmitPut
    <3>6. \A g \in Event, p \in Pass : \A x : Outcome(p, g, x) => g = f
        BY <3>1, <3>4 DEF Outcome
    <3>7. row' # row
        BY <3>1
    <3> QED
        BY <3>2, <3>3, <3>5, <3>6, <3>7, RowChange
  <2>2. PICK n \in emitting[f] : row'[f].seq = n
      BY <2>1 DEF EmitPut, DeliveryInvariant, TypeOK
  <2>3. row[e].seq < n /\ n \in Nat /\ row[e].seq \in Nat
      BY <2>2 DEF EmitSound, Siblings, DeliveryInvariant, TypeOK, Row
  <2> QED
      BY <1>1, <2>2, <2>3
<1> QED
    BY <1>2, <1>3

LEMMA BuriedStays == [Next]_vars => buried \subseteq buried'
<1>1. ASSUME NEW p \in Pass, NEW f \in Event, PutFailed(p, f) PROVE buried \subseteq buried'
    BY <1>1 DEF PutFailed
<1>2. \A e \in Event : /\ \A n \in 0..Cardinality(Event) : EmitList(e, n) => buried' = buried
                       /\ EmitPut(e) \/ Elapse(e) \/ RedeliverGet(e) \/ RedeliverPut(e)
                             => buried' = buried
    BY DEF EmitList, EmitPut, Elapse, RedeliverGet, RedeliverPut
<1>3. \A p \in Pass : /\ StartPass(p) => buried' = buried
                      /\ \A e \in Event : NextHead(p, e) \/ PutDelivered(p, e) => buried' = buried
    BY DEF StartPass, NextHead, PutDelivered
<1>4. \A p \in Pass, e \in Event, h \in Hook, received, ok \in BOOLEAN :
          Post(p, e, h, received, ok) => buried' = buried
    BY DEF Post
<1>5. Crash \/ UNCHANGED vars => buried' = buried
    BY DEF Crash, vars
<1> QED
    BY <1>1, <1>2, <1>3, <1>4, <1>5 DEF Next, PassStep

LEMMA SettledStays ==
    ASSUME TypeOK, [Next]_vars, NEW e \in Event, NEW h \in Hook, Settled(e, h)
    PROVE  Settled(e, h)'
BY BuriedStays, ReceivedStays DEF Settled

LEMMA PassOrderedStep ==
    ~EmitOverlap /\ DeliveryInvariant /\ OrderInvariant /\ [Next]_vars => PassOrdered'
<1> SUFFICES ASSUME ~EmitOverlap, DeliveryInvariant, OrderInvariant, [Next]_vars,
                    NEW p \in Pass, NEW e \in pass'[p].todo \cup pass'[p].cur,
                    NEW f \in Siblings(e)', row'[f].seq < row'[e].seq, NEW h \in Wants[f]
             PROVE  Settled(f, h)'
    BY DEF PassOrdered
<1> USE OutboxAssumption DEF DeliveryInvariant, OrderInvariant
<1>1. f \in Event /\ h \in Hook
    BY DEF Siblings
<1>2. CASE e \in pass[p].todo \cup pass[p].cur
  <2>1. e \in Event /\ Stored(e)
      BY <1>2 DEF TypeOK, PassState, PassSound
  <2>2. f \in Siblings(e) /\ row[f].seq < row[e].seq
      BY <1>1, <2>1, NewcomersAreLast
  <2> QED
      BY <1>1, <1>2, <2>2, SettledStays DEF PassOrdered
<1>3. CASE e \notin pass[p].todo \cup pass[p].cur
  <2>1. StartPass(p)
    <3>1. ASSUME NEW q \in Pass, StartPass(q), q # p PROVE pass'[p] = pass[p]
        BY <3>1 DEF StartPass, TypeOK
    <3>2. ASSUME NEW q \in Pass, NEW g \in Event, NextHead(q, g)
          PROVE  pass'[p].todo \cup pass'[p].cur \subseteq pass[p].todo \cup pass[p].cur
      <4>1. CASE q = p
          BY <3>2, <4>1 DEF NextHead, TypeOK, PassState
      <4>2. CASE q # p
          BY <3>2, <4>2 DEF NextHead, TypeOK
      <4> QED
          BY <4>1, <4>2
    <3>3. ASSUME NEW q \in Pass, NEW g \in Event, NEW k \in Hook,
                 NEW received \in BOOLEAN, NEW ok \in BOOLEAN, Post(q, g, k, received, ok)
          PROVE  pass'[p].todo \cup pass'[p].cur = pass[p].todo \cup pass[p].cur
      <4>1. CASE q = p
        <5> DEFINE next == [pass[p] EXCEPT !.left = @ \ {k}, !.allOk = @ /\ ok]
        <5>1. pass'[p] = next
            BY <3>3, <4>1 DEF Post, TypeOK
        <5>2. next.todo = pass[p].todo /\ next.cur = pass[p].cur
            BY DEF TypeOK, PassState
        <5> QED
            BY <5>1, <5>2
      <4>2. CASE q # p
          BY <3>3, <4>2 DEF Post, TypeOK
      <4> QED
          BY <4>1, <4>2
    <3>4. ASSUME NEW q \in Pass, NEW g \in Event, NEW next, Outcome(q, g, next)
          PROVE  pass'[p].todo \cup pass'[p].cur \subseteq pass[p].todo \cup pass[p].cur
      <4>1. CASE q = p /\ pass[p].todo = {}
          BY <3>4, <4>1 DEF Outcome, TypeOK, Resting
      <4>2. CASE q = p /\ pass[p].todo # {}
        <5> DEFINE then == [pass[p] EXCEPT !.cur = {}, !.copy[g] = NoRow]
        <5>1. pass'[p] = then
            BY <3>4, <4>2 DEF Outcome, TypeOK
        <5>2. then.todo = pass[p].todo /\ then.cur = {}
            BY DEF TypeOK, PassState
        <5> QED
            BY <5>1, <5>2
      <4>3. CASE q # p
          BY <3>4, <4>3 DEF Outcome, TypeOK
      <4> QED
          BY <4>1, <4>2, <4>3
    <3>5. CASE Crash
        BY <3>5 DEF Crash, Resting
    <3>6. ASSUME NEW q \in Pass, NEW g \in Event, PutDelivered(q, g) \/ PutFailed(q, g)
          PROVE  \E next : Outcome(q, g, next)
        BY <3>6, Zenon DEF PutDelivered, PutFailed
    <3>7. ~(pass'[p].todo \cup pass'[p].cur \subseteq pass[p].todo \cup pass[p].cur)
        BY <1>3
    <3>8. ASSUME NEW q \in Pass, PassStep(q) PROVE StartPass(p)
        BY <3>1, <3>2, <3>3, <3>4, <3>6, <3>7, <3>8 DEF PassStep
    <3> QED
        BY <3>5, <3>7, <3>8
        DEF Next, vars, EmitList, EmitPut, Elapse, RedeliverGet, RedeliverPut
  <2>2. PICK H \in SUBSET Pending :
          LET heads == {x \in H : row[x].due}
          IN  IsHeads(H) /\ pass' = [pass EXCEPT ![p] = Listed(heads)]
      BY <2>1 DEF StartPass
  <2>3. e \in H
      BY <2>2 DEF Listed, Resting, TypeOK
  <2>4. row' = row
      BY <2>1 DEF StartPass
  <2>5. row[f].seq \in Nat /\ row[e].seq \in Nat /\ e \in Event
      BY <1>1, <2>3 DEF TypeOK, Row, Pending
  <2>6. row[f].status # "PENDING" /\ Stored(f)
      BY <1>1, <2>2, <2>3, <2>4, <2>5 DEF IsHeads, Pending, Siblings, Stored
  <2>7. row[f].status \in {"DELIVERED", "DEAD"}
      BY <1>1, <2>6 DEF Stored, TypeOK, Row
  <2>8. Settled(f, h)
      BY <1>1, <2>7 DEF RowSound, ReceiptSound, Settled
  <2> QED
      BY <1>1, <2>8, SettledStays
<1> QED
    BY <1>2, <1>3

LEMMA InOrderStep ==
    ~EmitOverlap /\ DeliveryInvariant /\ OrderInvariant /\ [Next]_vars => InOrder'
<1> SUFFICES ASSUME ~EmitOverlap, DeliveryInvariant, OrderInvariant, [Next]_vars,
                    NEW h \in Hook, NEW j \in DOMAIN got'[h], NEW e \in Siblings(got[h][j])',
                    row'[e].seq < row'[got'[h][j]].seq, h \in Wants[e], e \notin buried'
             PROVE  \E i \in 1..j-1 : got'[h][i] = e
    BY DEF InOrder
<1> USE DEF DeliveryInvariant, OrderInvariant
<1>1. e \in Event /\ got \in [Hook -> Seq(Event)]
    BY DEF Siblings, TypeOK
<1>2. \A i \in DOMAIN got[h] : i \in DOMAIN got'[h] /\ got'[h][i] = got[h][i]
    BY <1>1, ReceivedStays
<1>3. e \notin buried
    BY BuriedStays
<1>4. CASE j \in DOMAIN got[h]
  <2>0. PICK f : f = got[h][j]
      OBVIOUS
  <2>1. f \in Event /\ Stored(f) /\ got'[h][j] = f
    <3>1. f \in Event /\ got'[h][j] = f
        BY <1>1, <1>2, <1>4, <2>0
    <3>2. Received(h, f)
        BY <1>4, <2>0 DEF Received
    <3> QED
        BY <3>1, <3>2 DEF ReceiptSound
  <2>a. e \in Siblings(f)' /\ row'[e].seq < row'[f].seq
    <3>1. AggOf[e] = AggOf[f] /\ row'[e].seq < row'[f].seq /\ Stored(e)'
        BY <1>1, <2>1 DEF Siblings
    <3> QED
        BY <1>1, <3>1 DEF Siblings
  <2>2. e \in Siblings(f) /\ row[e].seq < row[f].seq
      BY <1>1, <2>1, <2>a, NewcomersAreLast
  <2>3. PICK i \in 1..j-1 : got[h][i] = e
      BY <1>3, <1>4, <2>0, <2>2 DEF InOrder
  <2>4. i \in DOMAIN got[h]
      BY <1>1, <1>4, <2>3
  <2> QED
      BY <1>2, <2>3, <2>4
<1>5. CASE j \notin DOMAIN got[h]
  <2>0. got' # got
      BY <1>5
  <2>b. PICK p \in Pass, f \in Event, k \in Hook, received \in BOOLEAN, ok \in BOOLEAN :
            Post(p, f, k, received, ok)
      BY <2>0, OnlyPost
  <2>1. Post(p, f, k, received, ok) /\ got' # got
      BY <2>0, <2>b
  <2>2. got' = [got EXCEPT ![k] = Append(@, f)]
      BY <2>1 DEF Post
  <2>3. k = h
      BY <1>1, <1>5, <2>2
  <2>4. got'[h] = Append(got[h], f) /\ got[h] \in Seq(Event)
      BY <1>1, <2>2, <2>3
  <2>5. j = Len(got[h]) + 1 /\ got'[h][j] = f
      BY <1>5, <2>4
  <2>6. f \in pass[p].cur /\ Stored(f)
      BY <2>1 DEF Post, PassSound
  <2>7. e \in Siblings(f) /\ row[e].seq < row[f].seq
      BY <1>1, <2>5, <2>6, NewcomersAreLast
  <2>8. Received(h, e)
      BY <1>3, <2>6, <2>7 DEF PassOrdered, Settled
  <2>9. PICK i \in DOMAIN got[h] : got[h][i] = e
      BY <2>8 DEF Received
  <2>10. i \in 1..j-1
      BY <2>4, <2>5, <2>9
  <2> QED
      BY <1>2, <2>9, <2>10
<1> QED
    BY <1>4, <1>5

\* When the emits of an aggregate come one by one, emit and processOnce keep the order
\* they are meant to keep, with any number of overlapping passes.
THEOREM OrderHolds == ASSUME ~EmitOverlap PROVE Spec => []OutboxInvariant
<1>1. OutboxInvariant /\ [Next]_vars => OutboxInvariant'
  <2>1. DeliveryInvariant /\ [Next]_vars => DeliveryInvariant'
      BY TypeStep, RowSoundStep, ReceiptSoundStep, PassSoundStep DEF DeliveryInvariant
  <2>2. DeliveryInvariant /\ OrderInvariant /\ [Next]_vars => OrderInvariant'
      BY EmitSoundStep, PassOrderedStep, InOrderStep DEF OrderInvariant
  <2> QED
      BY <2>1, <2>2 DEF OutboxInvariant
<1>2. Init => OutboxInvariant
    BY InitDelivery, InitOrder DEF OutboxInvariant
<1> QED
    BY <1>1, <1>2, PTL DEF Spec

\* No webhook sees a later event of an aggregate before an earlier one it wants, unless
\* the earlier one has been a dead letter (processOnce sends only the head).
THEOREM InOrderAlways == ASSUME ~EmitOverlap PROVE Spec => []InOrder
<1>1. OutboxInvariant => InOrder
    BY DEF OutboxInvariant, OrderInvariant
<1> QED
    BY <1>1, OrderHolds, PTL

-----------------------------------------------------------------------------
(* One pass at a time, the outbox keeps its promise *)

Held(p) == pass[p].todo \cup pass[p].cur

\* Nothing of its aggregate waits before e, unless it is a dead letter revived.
ClearAhead(e) == \A f \in Siblings(e) :
    row[f].seq < row[e].seq => row[f].status # "PENDING" \/ f \in buried

SerialInv ==
    /\ \A p \in Pass : \A e \in Held(p) : row[e].status = "PENDING" /\ ClearAhead(e)
    /\ \A p \in Pass : \A e \in pass[p].cur : pass[p].left \subseteq Wants[e]
    /\ \A e \in redo : row[e].status = "DEAD"

\* What a step may do to what the consumers see.
PromiseStep == [Promise!PromiseNext]_(Promise!promiseVars)

LEMMA HeldIsEvent ==
    ASSUME TypeOK, NEW p \in Pass
    PROVE  Held(p) \subseteq Event /\ pass[p].left \subseteq Hook
BY DEF TypeOK, PassState, Held

\* Whatever is PENDING was so before, is new, or is a dead letter revived.
LEMMA PendingComes ==
    ASSUME OutboxInvariant, SerialInv, [Next]_vars, NEW f \in Event, row'[f].status = "PENDING"
    PROVE  row[f].status \in {"PENDING", "ABSENT"} \/ f \in buried
<1> SUFFICES ASSUME row'[f] # row[f] PROVE row[f].status \in {"PENDING", "ABSENT"} \/ f \in buried
    OBVIOUS
<1>1. row \in [Event -> Row] /\ RowSound
    BY DEF OutboxInvariant, DeliveryInvariant, TypeOK
<1>2. PICK e \in Event :
          \/ EmitPut(e)
          \/ (Elapse(e) \/ RedeliverPut(e)) /\ UNCHANGED <<emitting, buried>>
          \/ \E p \in Pass : \E next : Outcome(p, e, next)
    BY RowChange
<1>3. CASE EmitPut(e)
    BY <1>1, <1>3 DEF EmitPut, RowSound, Stored
<1>4. CASE Elapse(e)
    BY <1>1, <1>4 DEF Elapse
<1>5. CASE RedeliverPut(e)
    BY <1>1, <1>5 DEF RedeliverPut, RowSound
<1>6. CASE \E p \in Pass : \E next : Outcome(p, e, next)
    BY <1>1, <1>6 DEF Outcome, SerialInv, Held
<1> QED
    BY <1>2, <1>3, <1>4, <1>5, <1>6

LEMMA AheadStays ==
    ASSUME ~EmitOverlap, OutboxInvariant, SerialInv, [Next]_vars, NEW e \in Event, Stored(e), ClearAhead(e)
    PROVE  ClearAhead(e)'
<1> SUFFICES ASSUME NEW f \in Siblings(e)', row'[f].seq < row'[e].seq, row'[f].status = "PENDING"
             PROVE  f \in buried'
    BY DEF ClearAhead
<1>1. f \in Event
    BY DEF Siblings
<1>2. f \in Siblings(e) /\ row[f].seq < row[e].seq
    BY <1>1, NewcomersAreLast DEF OutboxInvariant, OrderInvariant
<1>3. row[f].status = "PENDING" \/ f \in buried
    BY <1>1, <1>2, PendingComes DEF Siblings, Stored
<1> QED
    BY <1>2, <1>3, BuriedStays DEF ClearAhead

\* A step after which no pass holds what it did not hold before.
LEMMA SerialKeeps ==
    ASSUME ~EmitOverlap, OutboxInvariant, SerialInv, [Next]_vars,
           \A p \in Pass : Held(p)' \subseteq Held(p),
           \A p \in Pass : \A e \in Held(p)' : row'[e].status = "PENDING",
           \A p \in Pass : \A e \in pass'[p].cur : pass'[p].left \subseteq Wants[e],
           \A e \in redo' : row'[e].status = "DEAD"
    PROVE  SerialInv'
<1>1. ASSUME NEW p \in Pass, NEW e \in Held(p)' PROVE ClearAhead(e)'
  <2>1. e \in Held(p) /\ e \in Event
      BY HeldIsEvent DEF OutboxInvariant, DeliveryInvariant
  <2>2. ClearAhead(e) /\ Stored(e)
      BY <2>1 DEF SerialInv, Stored
  <2> QED
      BY <2>1, <2>2, AheadStays
<1> QED
    BY <1>1 DEF SerialInv

-----------------------------------------------------------------------------
(* What the consumers see of it *)

LEMMA ConsumersSeeNothing ==
    ASSUME UNCHANGED <<got, buried>>,
           \A e \in Event : row'[e].status = row[e].status /\ row'[e].seq = row[e].seq
    PROVE  PromiseStep
BY DEF PromiseStep, Promise!promiseVars, Received

\* Only the state of e changes.
LEMMA Becomes ==
    ASSUME NEW e \in Event, NEW to, \A f \in Event \ {e} : row'[f] = row[f],
           row'[e].seq = row[e].seq, row'[e].status = to
    PROVE  /\ [f \in Event |-> row[f].status]' = [[f \in Event |-> row[f].status] EXCEPT ![e] = to]
           /\ [f \in Event |-> row[f].seq]' = [f \in Event |-> row[f].seq]
OBVIOUS

LEMMA EnqueueSeen ==
    ASSUME OutboxInvariant, NEW e \in Event, EmitPut(e)
    PROVE  PromiseStep
<1>1. /\ row \in [Event -> Row] /\ emitting \in [Event -> SUBSET Nat]
      /\ RowSound /\ EmitSound
    BY DEF OutboxInvariant, DeliveryInvariant, OrderInvariant, TypeOK
<1> DEFINE k == Cardinality({f \in Event : Stored(f)})
<1>2. PICK n \in emitting[e] :
          row' = [row EXCEPT ![e] = [status |-> "PENDING", seq |-> n, attempts |-> 0, due |-> TRUE, created |-> k]]
    BY DEF EmitPut
<1> HIDE DEF k
<1>3. /\ n \in Nat /\ row[e].status = "ABSENT" /\ UNCHANGED <<got, buried>>
      /\ \A f \in Siblings(e) : row[f].seq < n
    BY <1>1, <1>2 DEF EmitPut, RowSound, EmitSound, Siblings, Stored
<1>4. /\ row'[e].status = "PENDING" /\ row'[e].seq = n
      /\ \A f \in Event \ {e} : row'[f] = row[f]
    BY <1>1, <1>2
<1>5. [f \in Event |-> row[f].status]' = [[f \in Event |-> row[f].status] EXCEPT ![e] = "PENDING"]
    BY <1>4
<1>6. [f \in Event |-> row[f].seq]' \in [Event -> Nat]
    BY <1>1, <1>3, <1>4 DEF Row
<1>7. UNCHANGED {x \in Event \X Hook : Received(x[2], x[1])}
    BY <1>3 DEF Received
<1>8. \A f \in Promise!Present : AggOf[f] = AggOf[e] => row[f].seq < n
    BY <1>3 DEF Promise!Present, Siblings, Stored
<1>9. Promise!Enqueue(e)
    BY <1>3, <1>4, <1>5, <1>6, <1>7, <1>8 DEF Promise!Enqueue, Promise!Become, Promise!Present
<1> QED
    BY <1>9 DEF PromiseStep, Promise!PromiseNext

LEMMA ReceiveSeen ==
    ASSUME OutboxInvariant, SerialInv, NEW p \in Pass, NEW e \in Event, NEW h \in Hook,
           NEW received \in BOOLEAN, NEW ok \in BOOLEAN, Post(p, e, h, received, ok)
    PROVE  PromiseStep
<1>1. UNCHANGED <<row, buried>> /\ e \in pass[p].cur /\ h \in pass[p].left
    BY DEF Post
<1>2. CASE got' = got
    BY <1>1, <1>2, ConsumersSeeNothing
<1>3. CASE got' # got
  <2>1. got' = [got EXCEPT ![h] = Append(got[h], e)]
      BY <1>3 DEF Post
  <2>2. got \in [Hook -> Seq(Event)]
      BY DEF OutboxInvariant, DeliveryInvariant, TypeOK
  <2>3. \A g \in Hook, f \in Event : Received(g, f)' <=> Received(g, f) \/ (g = h /\ f = e)
    <3>1. ASSUME NEW g \in Hook, NEW f \in Event, g # h PROVE Received(g, f)' <=> Received(g, f)
        BY <2>1, <2>2, <3>1 DEF Received
    <3>2. ASSUME NEW f \in Event PROVE Received(h, f)' <=> Received(h, f) \/ f = e
      <4>1. got[h] \in Seq(Event) /\ got'[h] = Append(got[h], e)
          BY <2>1, <2>2
      <4> QED
          BY <4>1 DEF Received
    <3> QED
        BY <3>1, <3>2
  <2>4. {x \in Event \X Hook : Received(x[2], x[1])}' = {x \in Event \X Hook : Received(x[2], x[1])} \cup {<<e, h>>}
      BY <2>3
  <2>5. row[e].status = "PENDING" /\ ClearAhead(e) /\ h \in Wants[e]
      BY <1>1 DEF SerialInv, Held
  <2>6. \A f \in Promise!Before(e) : row[f].status # "PENDING" \/ f \in buried
      BY <2>5 DEF Promise!Before, Promise!Present, ClearAhead, Siblings, Stored
  <2>7. Promise!Before(e) \subseteq Event
      BY DEF Promise!Before, Promise!Present
  <2>8. Promise!Receive(e, h)
      BY <1>1, <2>4, <2>5, <2>6, <2>7 DEF Promise!Receive
  <2> QED
      BY <2>8 DEF PromiseStep, Promise!PromiseNext
<1> QED
    BY <1>2, <1>3

LEMMA OutcomeSeen ==
    ASSUME OutboxInvariant, SerialInv, NEW p \in Pass, NEW e \in Event, PutDelivered(p, e) \/ PutFailed(p, e)
    PROVE  PromiseStep
<1>1. /\ row \in [Event -> Row] /\ pass \in [Pass -> PassState] /\ acked \subseteq Event \X Hook
      /\ PassSound /\ ReceiptSound
    BY DEF OutboxInvariant, DeliveryInvariant, TypeOK
<1>2. e \in pass[p].cur /\ pass[p].left = {} /\ got' = got
    BY DEF PutDelivered, PutFailed, Outcome
<1>3. PICK copy \in Row : copy = pass[p].copy[e] /\ copy.seq = row[e].seq
    BY <1>1, <1>2 DEF PassSound, PassState
<1>4. row[e].status = "PENDING"
    BY <1>2 DEF SerialInv, Held
<1>5. UNCHANGED {x \in Event \X Hook : Received(x[2], x[1])}
    BY <1>2 DEF Received
<1>6. CASE PutDelivered(p, e)
  <2>1. PICK n : row' = [row EXCEPT ![e] = [copy EXCEPT !.status = "DELIVERED", !.attempts = n]]
      BY <1>3, <1>6 DEF PutDelivered, Outcome
  <2>2. /\ row'[e].status = "DELIVERED" /\ row'[e].seq = row[e].seq
        /\ \A f \in Event \ {e} : row'[f] = row[f]
      BY <1>1, <1>3, <2>1 DEF Row
  <2>3. \A h \in Wants[e] : <<e, h>> \in acked
      BY <1>1, <1>2, <1>6 DEF PassSound, PutDelivered
  <2>4. \A h \in Wants[e] : <<e, h>> \in {x \in Event \X Hook : Received(x[2], x[1])}
      BY <1>1, <2>3 DEF ReceiptSound
  <2>5. buried' = buried
      BY <1>6 DEF PutDelivered
  <2>6. Promise!Deliver(e)
      BY <1>4, <1>5, <2>2, <2>4, <2>5, Becomes DEF Promise!Deliver, Promise!Become
  <2> QED
      BY <2>6 DEF PromiseStep, Promise!PromiseNext
<1>7. CASE PutFailed(p, e)
  <2> DEFINE dead == copy.attempts + 1 > Tiers
  <2>1. /\ row' = [row EXCEPT ![e] = [copy EXCEPT !.attempts = @ + 1,
                                         !.status = IF dead THEN "DEAD" ELSE "PENDING", !.due = dead /\ @]]
        /\ buried' = IF dead THEN buried \cup {e} ELSE buried
      BY <1>3, <1>7 DEF PutFailed, Outcome
  <2> HIDE DEF dead
  <2>2. /\ row'[e].status = (IF dead THEN "DEAD" ELSE "PENDING") /\ row'[e].seq = row[e].seq
        /\ \A f \in Event \ {e} : row'[f] = row[f]
      BY <1>1, <1>3, <2>1 DEF Row
  <2>3. CASE dead
    <3>1. Promise!Bury(e)
        BY <1>4, <1>5, <2>1, <2>2, <2>3, Becomes DEF Promise!Bury, Promise!Become
    <3> QED
        BY <3>1 DEF PromiseStep, Promise!PromiseNext
  <2>4. CASE ~dead
    <3>1. \A f \in Event : row'[f].status = row[f].status /\ row'[f].seq = row[f].seq
        BY <1>4, <2>2, <2>4
    <3> QED
        BY <1>2, <2>1, <2>4, <3>1, ConsumersSeeNothing
  <2> QED
      BY <2>3, <2>4
<1> QED
    BY <1>6, <1>7

LEMMA ReviveSeen ==
    ASSUME OutboxInvariant, SerialInv, NEW e \in Event, RedeliverPut(e)
    PROVE  PromiseStep
<1>1. row \in [Event -> Row] /\ row[e].status = "DEAD" /\ UNCHANGED <<got, buried>>
    BY DEF OutboxInvariant, DeliveryInvariant, TypeOK, SerialInv, RedeliverPut
<1>2. /\ row'[e].status = "PENDING" /\ row'[e].seq = row[e].seq
      /\ \A f \in Event \ {e} : row'[f] = row[f]
    BY <1>1 DEF RedeliverPut, Row
<1>3. UNCHANGED {x \in Event \X Hook : Received(x[2], x[1])}
    BY <1>1 DEF Received
<1>4. Promise!Revive(e)
    BY <1>1, <1>2, <1>3, Becomes DEF Promise!Revive, Promise!Become
<1> QED
    BY <1>4 DEF PromiseStep, Promise!PromiseNext

-----------------------------------------------------------------------------
(* What a pass holds stays PENDING, as long as nobody else writes it *)

LEMMA RowStepsSerial ==
    ASSUME ~EmitOverlap, OutboxInvariant, SerialInv, [Next]_vars, NEW e \in Event,
           EmitPut(e) \/ Elapse(e) \/ RedeliverPut(e) \/ RedeliverGet(e)
    PROVE  SerialInv'
<1>1. /\ row \in [Event -> Row] /\ redo \subseteq Event /\ RowSound /\ UNCHANGED pass
    BY DEF OutboxInvariant, DeliveryInvariant, TypeOK, EmitPut, Elapse, RedeliverPut, RedeliverGet
<1>2. \A p \in Pass : Held(p)' = Held(p) /\ Held(p) \subseteq Event
    BY <1>1, HeldIsEvent DEF Held, OutboxInvariant, DeliveryInvariant
<1>3. \A p \in Pass : \A f \in Held(p) : row[f].status = "PENDING"
    BY DEF SerialInv
<1>4. \A p \in Pass : \A f \in pass'[p].cur : pass'[p].left \subseteq Wants[f]
    BY <1>1 DEF SerialInv
<1>5. (\A f \in Event : row[f].status = "PENDING" => row'[f].status = "PENDING")
      /\ \A f \in redo' : row'[f].status = "DEAD"
  <2>1. CASE EmitPut(e)
    <3>1. row[e].status = "ABSENT" /\ redo' = redo
        BY <1>1, <2>1 DEF EmitPut, RowSound, Stored
    <3>2. \A f \in Event \ {e} : row'[f] = row[f]
        BY <1>1, <2>1 DEF EmitPut
    <3> QED
        BY <1>1, <3>1, <3>2 DEF SerialInv
  <2>2. CASE Elapse(e)
    <3>1. redo' = redo /\ \A f \in Event : row'[f].status = row[f].status
        BY <1>1, <2>2 DEF Elapse, Row
    <3> QED
        BY <1>1, <3>1 DEF SerialInv
  <2>3. CASE RedeliverPut(e)
    <3>1. row'[e].status = "PENDING" /\ redo' = redo \ {e}
        BY <1>1, <2>3 DEF RedeliverPut, Row
    <3>2. \A f \in Event \ {e} : row'[f] = row[f]
        BY <1>1, <2>3 DEF RedeliverPut
    <3> QED
        BY <1>1, <3>1, <3>2 DEF SerialInv
  <2>4. CASE RedeliverGet(e)
      BY <1>1, <2>4 DEF RedeliverGet, SerialInv
  <2> QED
      BY <2>1, <2>2, <2>3, <2>4
<1> QED
    BY <1>2, <1>3, <1>4, <1>5, SerialKeeps

LEMMA StartSerial ==
    ASSUME ~EmitOverlap, OutboxInvariant, SerialInv, [Next]_vars, NEW p \in Pass, StartPass(p)
    PROVE  SerialInv'
<1>1. row \in [Event -> Row] /\ pass \in [Pass -> PassState] /\ UNCHANGED <<row, redo, buried>>
    BY DEF OutboxInvariant, DeliveryInvariant, TypeOK, StartPass
<1>2. PICK H \in SUBSET Pending :
          IsHeads(H) /\ pass' = [pass EXCEPT ![p] = Listed({e \in H : row[e].due})]
    BY DEF StartPass
<1>3. Held(p)' \subseteq H /\ pass'[p].cur = {}
    BY <1>1, <1>2 DEF Held, Listed, Resting
<1>4. ASSUME NEW e \in H PROVE row[e].status = "PENDING" /\ ClearAhead(e)
  <2>1. ASSUME NEW f \in Siblings(e), row[f].seq < row[e].seq PROVE row[f].status # "PENDING"
    <3>1. f \in Pending => row[e].seq <= row[f].seq
        BY <1>2, <2>1 DEF IsHeads, Siblings
    <3>2. row[e].seq \in Nat /\ row[f].seq \in Nat
        BY <1>1, <1>2 DEF Pending, Siblings, Row
    <3> QED
        BY <2>1, <3>1, <3>2 DEF Pending, Siblings
  <2> QED
      BY <1>2, <2>1 DEF ClearAhead, Pending
<1>5. \A q \in Pass : q # p => pass'[q] = pass[q]
    BY <1>1, <1>2
<1>6. ASSUME NEW q \in Pass, NEW e \in Held(q)' PROVE row[e].status = "PENDING" /\ ClearAhead(e)
    BY <1>3, <1>4, <1>5, <1>6 DEF SerialInv, Held
<1>7. \A q \in Pass : \A e \in pass'[q].cur : pass'[q].left \subseteq Wants[e]
    BY <1>3, <1>5 DEF SerialInv
<1>8. \A e : ClearAhead(e)' <=> ClearAhead(e)
    BY <1>1 DEF ClearAhead, Siblings, Stored
<1> QED
    BY <1>1, <1>6, <1>7, <1>8 DEF SerialInv

LEMMA DeliverSerial ==
    ASSUME ~EmitOverlap, \A p, q \in Pass : p = q,
           OutboxInvariant, SerialInv, [Next]_vars, NEW p \in Pass, NEW e \in Event,
           \/ NextHead(p, e) \/ PutDelivered(p, e) \/ PutFailed(p, e)
           \/ \E h \in Hook, received, ok \in BOOLEAN : Post(p, e, h, received, ok)
    PROVE  SerialInv'
<1>1. /\ row \in [Event -> Row] /\ pass \in [Pass -> PassState] /\ pass[p] \in PassState
      /\ PassSound /\ \A q \in Pass : q = p
    BY DEF OutboxInvariant, DeliveryInvariant, TypeOK
<1>2. CASE NextHead(p, e)
  <2>1. /\ e \in pass[p].todo /\ UNCHANGED <<row, redo>>
        /\ pass'[p].todo = pass[p].todo \ {e} /\ pass'[p].cur = {e} /\ pass'[p].left = Wants[e]
      BY <1>1, <1>2 DEF NextHead, PassState
  <2>2. Held(p)' \subseteq Held(p)
      BY <2>1 DEF Held
  <2>3. \A q \in Pass : Held(q)' \subseteq Held(q) /\ \A f \in Held(q)' : row'[f].status = "PENDING"
      BY <1>1, <2>1, <2>2 DEF SerialInv
  <2>4. \A q \in Pass : \A f \in pass'[q].cur : pass'[q].left \subseteq Wants[f]
      BY <1>1, <2>1
  <2>5. \A f \in redo' : row'[f].status = "DEAD"
      BY <2>1 DEF SerialInv
  <2> QED
      BY <2>3, <2>4, <2>5, SerialKeeps
<1>3. CASE \E h \in Hook, received, ok \in BOOLEAN : Post(p, e, h, received, ok)
  <2>1. PICK h \in Hook, received \in BOOLEAN, ok \in BOOLEAN : Post(p, e, h, received, ok)
      BY <1>3
  <2>2. /\ UNCHANGED <<row, redo>>
        /\ pass'[p].todo = pass[p].todo /\ pass'[p].cur = pass[p].cur /\ pass'[p].left = pass[p].left \ {h}
      BY <1>1, <2>1 DEF Post, PassState
  <2>3. \A q \in Pass : Held(q)' \subseteq Held(q) /\ \A f \in Held(q)' : row'[f].status = "PENDING"
      BY <1>1, <2>2 DEF SerialInv, Held
  <2>4. \A q \in Pass : \A f \in pass'[q].cur : pass'[q].left \subseteq Wants[f]
      BY <1>1, <2>2 DEF SerialInv
  <2>5. \A f \in redo' : row'[f].status = "DEAD"
      BY <2>2 DEF SerialInv
  <2> QED
      BY <2>3, <2>4, <2>5, SerialKeeps
<1>4. CASE PutDelivered(p, e) \/ PutFailed(p, e)
  <2>1. PICK next : Outcome(p, e, next)
      BY <1>4, Zenon DEF PutDelivered, PutFailed
  <2>2. e \in pass[p].cur /\ redo' = redo /\ \A f \in Event \ {e} : row'[f] = row[f]
      BY <1>1, <2>1 DEF Outcome
  <2>3. pass'[p].cur = {} /\ pass'[p].todo \subseteq pass[p].todo
      BY <1>1, <2>1 DEF Outcome, Resting, PassState
  <2>4. e \notin pass[p].todo /\ row[e].status = "PENDING"
      BY <1>1, <2>2 DEF PassSound, SerialInv, Held
  <2>5. Held(p)' \subseteq Held(p) \ {e} /\ Held(p) \subseteq Event
      BY <2>3, <2>4, HeldIsEvent DEF Held, OutboxInvariant, DeliveryInvariant
  <2>6. \A q \in Pass : Held(q)' \subseteq Held(q) /\ \A f \in Held(q)' : row'[f].status = "PENDING"
      BY <1>1, <2>2, <2>5 DEF SerialInv
  <2>7. \A q \in Pass : \A f \in pass'[q].cur : pass'[q].left \subseteq Wants[f]
      BY <1>1, <2>3
  <2>8. ASSUME NEW f \in redo' PROVE row'[f].status = "DEAD"
    <3>1. f \in Event /\ row[f].status = "DEAD"
        BY <2>2 DEF SerialInv, OutboxInvariant, DeliveryInvariant, TypeOK
    <3> QED
        BY <2>2, <2>4, <3>1
  <2> QED
      BY <2>6, <2>7, <2>8, SerialKeeps
<1> QED
    BY <1>2, <1>3, <1>4

LEMMA NextSerial ==
    ASSUME ~EmitOverlap, \A p, q \in Pass : p = q, OutboxInvariant, SerialInv, [Next]_vars
    PROVE  SerialInv' /\ PromiseStep
<1>1. CASE UNCHANGED vars
  <2>1. UNCHANGED <<row, emitting, pass, redo, got, acked, buried>>
      BY <1>1 DEF vars
  <2>2. SerialInv'
      BY <2>1 DEF SerialInv, Held, ClearAhead, Siblings, Stored
  <2> QED
      BY <2>1, <2>2, ConsumersSeeNothing
<1>2. CASE Crash
  <2>1. UNCHANGED <<row, got, buried>> /\ redo' = {} /\ pass' = [p \in Pass |-> Resting]
      BY <1>2 DEF Crash
  <2>2. \A p \in Pass : Held(p)' = {} /\ pass'[p].cur = {}
      BY <2>1 DEF Held, Resting
  <2> QED
      BY <2>1, <2>2, ConsumersSeeNothing DEF SerialInv
<1>3. ASSUME NEW e \in Event, NEW n \in 0..Cardinality(Event), EmitList(e, n) PROVE SerialInv' /\ PromiseStep
  <2>1. UNCHANGED <<row, pass, redo, got, buried>>
      BY <1>3 DEF EmitList
  <2>2. SerialInv'
      BY <2>1 DEF SerialInv, Held, ClearAhead, Siblings, Stored
  <2> QED
      BY <2>1, <2>2, ConsumersSeeNothing
<1>4. ASSUME NEW e \in Event, EmitPut(e) \/ RedeliverPut(e) PROVE SerialInv' /\ PromiseStep
    BY <1>4, RowStepsSerial, EnqueueSeen, ReviveSeen
<1>5. ASSUME NEW e \in Event, Elapse(e) \/ RedeliverGet(e) PROVE SerialInv' /\ PromiseStep
  <2>1. row \in [Event -> Row]
      BY DEF OutboxInvariant, DeliveryInvariant, TypeOK
  <2>2. UNCHANGED <<got, buried>> /\ \A f \in Event : row'[f].status = row[f].status /\ row'[f].seq = row[f].seq
      BY <1>5, <2>1 DEF Elapse, RedeliverGet, Row
  <2> QED
      BY <1>5, <2>2, RowStepsSerial, ConsumersSeeNothing
<1>6. ASSUME NEW p \in Pass, StartPass(p) \/ \E e \in Event : NextHead(p, e) PROVE SerialInv' /\ PromiseStep
  <2>1. UNCHANGED <<row, got, buried>>
      BY <1>6 DEF StartPass, NextHead
  <2> QED
      BY <1>6, <2>1, StartSerial, DeliverSerial, ConsumersSeeNothing
<1>7. ASSUME NEW p \in Pass, NEW e \in Event, PutDelivered(p, e) \/ PutFailed(p, e) PROVE SerialInv' /\ PromiseStep
    BY <1>7, DeliverSerial, OutcomeSeen
<1>8. ASSUME NEW p \in Pass, NEW e \in Event, NEW h \in Hook, NEW received \in BOOLEAN, NEW ok \in BOOLEAN,
             Post(p, e, h, received, ok)
      PROVE  SerialInv' /\ PromiseStep
  <2>1. SerialInv'
      BY <1>8, DeliverSerial
  <2>2. PromiseStep
      BY <1>8, ReceiveSeen
  <2> QED
      BY <2>1, <2>2
<1> QED
    BY <1>1, <1>2, <1>3, <1>4, <1>5, <1>6, <1>7, <1>8 DEF Next, PassStep

\* With one pass at a time, and the emits of an aggregate one by one, the outbox implements its
\* promise, through any number of failures, redeliveries and restarts: an event becomes
\* DELIVERED only when every subscriber has it, and none is sent while an earlier one of its
\* aggregate is PENDING, unless that is a dead letter that came back.
THEOREM KeepsPromiseAlways ==
    ASSUME ~EmitOverlap, \A p, q \in Pass : p = q
    PROVE  Spec => KeepsPromise
<1>1. Init => SerialInv /\ Promise!PromiseInit
  <2> SUFFICES ASSUME Init PROVE SerialInv /\ Promise!PromiseInit
      OBVIOUS
  <2>1. SerialInv
      BY DEF Init, SerialInv, Held, Resting
  <2>2. \A h \in Hook, e \in Event : ~Received(h, e)
      BY DEF Init, Received
  <2>3. {x \in Event \X Hook : Received(x[2], x[1])} = {}
      BY <2>2
  <2> QED
      BY <2>1, <2>3 DEF Init, NoRow, Promise!PromiseInit
<1>2. OutboxInvariant /\ SerialInv /\ [Next]_vars => SerialInv' /\ [Promise!PromiseNext]_(Promise!promiseVars)
    BY NextSerial DEF PromiseStep
<1> QED
    BY <1>1, <1>2, OrderHolds, PTL DEF Spec, KeepsPromise, Promise!PromiseSafety

=============================================================================
