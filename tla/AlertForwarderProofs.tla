------------------------- MODULE AlertForwarderProofs -------------------------
(* AlertForwarder for every set of ids, alerts and publishers: a consumer and *)
(* the list agree under every trusted id, with any number of batches on their *)
(* way at once.                                                               *)
EXTENDS AlertForwarder, TLAPS

\* A batch has one alert per id, and an id that is trusted is in one batch only.
OnePerId == \A p \in Publishers : \A a, b \in queue[p] : a.id = b.id => a = b
Unraced ==
  \A p, q \in Publishers : \A a \in queue[p], b \in queue[q] :
    a.id = b.id /\ Channel!Trusted(a.id) => p = q

IInv == TypeOK /\ OnePerId /\ Unraced /\ Agreement

LEMMA PendingShape ==
  ASSUME NEW a
  PROVE  a \in Channel!Pending <=> \E p \in Publishers : a \in queue[p]
BY DEF Channel!Pending

LEMMA PendingShapeNext ==
  ASSUME NEW a
  PROVE  a \in Channel!Pending' <=> \E p \in Publishers : a \in queue'[p]
BY DEF Channel!Pending

\* Projected, without its CHOOSE, when all pending alerts of the id are the same.
LEMMA ProjectedShape ==
  ASSUME NEW id
  PROVE  /\ \A a \in Channel!Pending :
              /\ a.id = id
              /\ \A b \in Channel!Pending : b.id = id => b = a
              => Channel!Projected(id) = Channel!Effect(a)
         /\ (\A a \in Channel!Pending : a.id # id) => Channel!Projected(id) = standing[id]
<1>1. ASSUME NEW a \in Channel!Pending, a.id = id,
             \A b \in Channel!Pending : b.id = id => b = a
      PROVE  Channel!Projected(id) = Channel!Effect(a)
  <2>1. (CHOOSE b \in Channel!Pending : b.id = id) = a
    BY <1>1
  <2> QED BY <1>1, <2>1 DEF Channel!Projected
<1>2. ASSUME \A a \in Channel!Pending : a.id # id
      PROVE  Channel!Projected(id) = standing[id]
  BY <1>2 DEF Channel!Projected
<1> QED BY <1>1, <1>2

LEMMA ProjectedShapeNext ==
  ASSUME NEW id
  PROVE  /\ \A a \in Channel!Pending' :
              /\ a.id = id
              /\ \A b \in Channel!Pending' : b.id = id => b = a
              => Channel!Projected(id)' = Channel!Effect(a)
         /\ (\A a \in Channel!Pending' : a.id # id) => Channel!Projected(id)' = standing'[id]
<1>1. ASSUME NEW a \in Channel!Pending', a.id = id,
             \A b \in Channel!Pending' : b.id = id => b = a
      PROVE  Channel!Projected(id)' = Channel!Effect(a)
  <2>1. (CHOOSE b \in Channel!Pending' : b.id = id) = a
    BY <1>1
  <2> QED BY <1>1, <2>1 DEF Channel!Projected, Channel!Effect
<1>2. ASSUME \A a \in Channel!Pending' : a.id # id
      PROVE  Channel!Projected(id)' = standing'[id]
  BY <1>2 DEF Channel!Projected
<1> QED BY <1>1, <1>2

\* Under a trusted id there is one alert on its way, or none.
LEMMA TrustedAlone ==
  ASSUME OnePerId, Unraced, NEW id, Channel!Trusted(id)
  PROVE  \A a, b \in Channel!Pending : a.id = id /\ b.id = id => a = b
BY DEF OnePerId, Unraced, Channel!Pending

LEMMA TrustedAloneNext ==
  ASSUME OnePerId', Unraced', NEW id, Channel!Trusted(id)'
  PROVE  \A a, b \in Channel!Pending' : a.id = id /\ b.id = id => a = b
BY DEF OnePerId, Unraced, Channel!Pending, Channel!Trusted

LEMMA InitIInv == Init => IInv
<1> SUFFICES ASSUME Init PROVE IInv
  OBVIOUS
<1> USE DEF Init, Channel!Init
<1>1. TypeOK
  BY DEF TypeOK, Channel!Trust
<1>2. OnePerId /\ Unraced
  BY DEF OnePerId, Unraced
<1>3. ASSUME NEW id \in Ids PROVE Channel!Projected(id) = listed[id]
  <2>1. \A a \in Channel!Pending : a.id # id
    BY PendingShape
  <2> QED BY <2>1, ProjectedShape
<1> QED BY <1>1, <1>2, <1>3 DEF IInv, Agreement

LEMMA AlertFacts ==
  ASSUME WellFormed, TypeOK, NEW p \in Publishers, NEW a \in queue[p]
  PROVE  a \in Alert /\ a.id \in Ids /\ Channel!Effect(a) \in Alert \cup {NoAlert}
BY DEF WellFormed, TypeOK, Channel!Effect

LEMMA TypeStep == WellFormed /\ IInv /\ [Next]_vars => TypeOK'
<1> SUFFICES ASSUME WellFormed, TypeOK, [Next]_vars PROVE TypeOK'
  BY DEF IInv
<1> USE DEF TypeOK
<1>0. \A ids : Channel!Lost(ids) \in [Ids -> Channel!Trust]
  BY DEF Channel!Lost, Channel!Trust
<1>1. ASSUME NEW p \in Publishers, NEW dropped \in SUBSET Ids,
             Judge(p, queue'[p], dropped), queue'[p] \in SUBSET Alert
      PROVE  TypeOK'
  <2>1. \A id \in Ids : Channel!Handed(id, queue'[p], dropped) \in Channel!Trust
    BY DEF Channel!Handed, Channel!Trust
  <2>2. trust' \in [Ids -> Channel!Trust]
    BY <1>1, <2>1 DEF Judge, Channel!Hand
  <2>3. queue' \in [Publishers -> SUBSET Alert]
    BY <1>1 DEF Judge, Channel!Hand
  <2>4. standing' = standing /\ listed' \in [Ids -> Alert \cup {NoAlert}]
    BY <1>1 DEF Judge, Channel!Hand, ChangesOnly
  <2> QED BY <2>2, <2>3, <2>4
<1>2. ASSUME NEW p \in Publishers, NEW a \in queue[p], Publish(p, a)
      PROVE  TypeOK'
  <2>1. a.id \in Ids /\ Channel!Effect(a) \in Alert \cup {NoAlert}
    BY AlertFacts
  <2>2. Channel!Reached(a.id) \in [Ids -> Channel!Trust]
    BY <2>1 DEF Channel!Reached, Channel!Trust
  <2>3. CASE Channel!Deliver(p, a)
    BY <1>2, <2>1, <2>2, <2>3 DEF Publish, Channel!Deliver
  <2>4. CASE Channel!Skip(p, a)
    BY <1>0, <1>2, <2>4 DEF Publish, Channel!Skip
  <2>5. CASE \E reached \in BOOLEAN : Channel!Raise(p, a, reached)
    BY <1>0, <1>2, <2>1, <2>5 DEF Publish, Channel!Raise
  <2> QED BY <1>2, <2>3, <2>4, <2>5 DEF Publish
<1>3. ASSUME NEW ids \in SUBSET Ids, Drop(ids) PROVE TypeOK'
  BY <1>0, <1>3 DEF Drop, ChangesOnly, Channel!Forget
<1>4. ASSUME NEW ids \in SUBSET Ids, Down(ids) PROVE TypeOK'
  BY <1>0, <1>4 DEF Down, ChangesOnly, Channel!Down
<1>5. CASE LinkChange
  BY <1>5 DEF LinkChange, Channel!LinkChange
<1>6. CASE UNCHANGED vars
  BY <1>6 DEF vars, channelVars
<1> QED BY <1>1, <1>2, <1>3, <1>4, <1>5, <1>6 DEF Next

-----------------------------------------------------------------------------
\* Batches shrink, ids become lost: what is still trusted was trusted, and what
\* is on its way was on its way.
LEMMA ShapeShrinks ==
  ASSUME WellFormed, TypeOK, OnePerId, Unraced,
         \A p \in Publishers : queue'[p] \subseteq queue[p],
         \A id \in Ids : Channel!Trusted(id)' => Channel!Trusted(id)
  PROVE  OnePerId' /\ Unraced'
<1>1. OnePerId'
  BY DEF OnePerId
<1>2. ASSUME NEW p \in Publishers, NEW q \in Publishers,
             NEW a \in queue'[p], NEW b \in queue'[q],
             a.id = b.id, Channel!Trusted(a.id)'
      PROVE  p = q
  <2>1. a \in queue[p] /\ b \in queue[q] /\ a.id \in Ids
    BY AlertFacts
  <2> QED BY <1>2, <2>1 DEF Unraced
<1> QED BY <1>1, <1>2 DEF Unraced, Channel!Trusted

\* A trusted id keeps its list entry, and its alert on the way or at the consumer.
LEMMA AgreementSame ==
  ASSUME IInv, OnePerId', Unraced', NEW id \in Ids, Channel!Trusted(id),
         Channel!Trusted(id)',
         \A a : a.id = id => (a \in Channel!Pending' <=> a \in Channel!Pending),
         standing'[id] = standing[id], listed'[id] = listed[id]
  PROVE  Channel!Projected(id)' = listed'[id]
<1>1. Channel!Projected(id) = listed[id]
  BY DEF IInv, Agreement
<1>2. CASE \E a \in Channel!Pending : a.id = id
  <2>1. PICK a \in Channel!Pending : a.id = id
    BY <1>2
  <2>2. a \in Channel!Pending'
    BY <2>1
  <2>3. Channel!Projected(id) = Channel!Effect(a)
    BY <2>1, TrustedAlone, ProjectedShape DEF IInv
  <2>4. Channel!Projected(id)' = Channel!Effect(a)
    BY <2>1, <2>2, TrustedAloneNext, ProjectedShapeNext
  <2> QED BY <1>1, <2>3, <2>4
<1>3. CASE \A a \in Channel!Pending : a.id # id
  <2>1. \A a \in Channel!Pending' : a.id # id
    BY <1>3
  <2> QED BY <1>1, <1>3, <2>1, ProjectedShape, ProjectedShapeNext
<1> QED BY <1>2, <1>3

\* Which ids are trusted once a batch was handed over.
LEMMA HandedTrusted ==
  ASSUME NEW id, NEW batch, NEW dropped,
         Channel!Handed(id, batch, dropped) \in {"agrees", "healing"}
  PROVE  /\ id \notin dropped
         /\ id \in Channel!IdsOf(batch) => id \notin Channel!IdsOf(Channel!Pending)
         /\ id \notin Channel!IdsOf(batch) => Channel!Trusted(id)
<1>1. CASE id \in dropped
  BY <1>1 DEF Channel!Handed
<1>2. CASE id \notin dropped /\ id \notin Channel!IdsOf(batch)
  <2>1. Channel!Handed(id, batch, dropped) = trust[id]
    BY <1>2 DEF Channel!Handed
  <2> QED BY <1>2, <2>1 DEF Channel!Trusted
<1>3. CASE id \notin dropped /\ id \in Channel!IdsOf(batch)
                             /\ id \in Channel!IdsOf(Channel!Pending)
  <2>1. Channel!Handed(id, batch, dropped) = IF trust[id] = "lost" THEN "lost" ELSE "raced"
    BY <1>3 DEF Channel!Handed
  <2> QED BY <2>1
<1>4. CASE id \notin dropped /\ id \in Channel!IdsOf(batch)
                             /\ id \notin Channel!IdsOf(Channel!Pending)
  BY <1>4
<1> QED BY <1>1, <1>2, <1>3, <1>4

LEMMA JudgeStep ==
  ASSUME WellFormed, IInv, TypeOK', NEW p \in Publishers, NEW dropped \in SUBSET Ids,
         Judge(p, queue'[p], dropped), queue'[p] \in SUBSET Alert
  PROVE  OnePerId' /\ Unraced' /\ Agreement'
<1> USE DEF IInv
<1> DEFINE batch == queue'[p]
<1>1. /\ queue[p] = {}
      /\ \A q \in Publishers : q # p => queue'[q] = queue[q]
      /\ standing' = standing
      /\ \A id \in Ids : trust'[id] = Channel!Handed(id, batch, dropped)
      /\ \A a, b \in batch : a.id = b.id => a = b
  BY DEF Judge, Channel!Hand, Channel!Idle, TypeOK
<1>2. \A id \in Ids : \A a \in batch : a.id \notin dropped => listed'[a.id] = Channel!Effect(a)
  BY DEF Judge
<1>3. \A id \in Ids : id \notin Channel!IdsOf(batch) /\ id \notin dropped
                        => listed'[id] = listed[id]
  BY DEF Judge, ChangesOnly
<1>4. ASSUME NEW id \in Ids, Channel!Trusted(id)'
      PROVE  /\ id \notin dropped
             /\ \A a \in batch : a.id = id => \A b \in Channel!Pending : b.id # id
             /\ (\A a \in batch : a.id # id) => Channel!Trusted(id)
  <2>1. Channel!Handed(id, batch, dropped) \in {"agrees", "healing"}
    BY <1>1, <1>4 DEF Channel!Trusted
  <2>2. /\ id \notin dropped
        /\ id \in Channel!IdsOf(batch) => id \notin Channel!IdsOf(Channel!Pending)
        /\ id \notin Channel!IdsOf(batch) => Channel!Trusted(id)
    BY <2>1, HandedTrusted
  <2> QED BY <2>2 DEF Channel!IdsOf
<1>5. OnePerId'
  BY <1>1 DEF OnePerId
<1>6. Unraced'
  <2> SUFFICES ASSUME NEW q \in Publishers, NEW r \in Publishers,
                      NEW a \in queue'[q], NEW b \in queue'[r],
                      a.id = b.id, Channel!Trusted(a.id)'
               PROVE  q = r
    BY DEF Unraced, Channel!Trusted
  <2>1. a.id \in Ids
    BY DEF WellFormed, TypeOK
  <2>2. CASE q = p /\ r # p
    <3>1. b \in Channel!Pending
      BY <1>1, <2>2, PendingShape
    <3> QED BY <1>4, <2>1, <2>2, <3>1
  <2>3. CASE q # p /\ r = p
    <3>1. a \in Channel!Pending
      BY <1>1, <2>3, PendingShape
    <3> QED BY <1>4, <2>1, <2>3, <3>1
  <2>4. CASE q # p /\ r # p
    <3>1. a \in queue[q] /\ b \in queue[r] /\ a \in Channel!Pending
      BY <1>1, <2>4, PendingShape
    <3>2. Channel!Trusted(a.id)
      BY <1>4, <2>1, <3>1
    <3> QED BY <3>1, <3>2 DEF Unraced
  <2> QED BY <2>2, <2>3, <2>4
<1>7. Agreement'
  <2> SUFFICES ASSUME NEW id \in Ids, Channel!Trusted(id)'
               PROVE  Channel!Projected(id)' = listed'[id]
    BY DEF Agreement, Channel!Trusted
  <2>1. CASE \E a \in batch : a.id = id
    <3>1. PICK a \in batch : a.id = id
      BY <2>1
    <3>2. a \in Channel!Pending'
      BY <3>1, PendingShapeNext
    <3>3. Channel!Projected(id)' = Channel!Effect(a)
      BY <1>5, <1>6, <3>1, <3>2, TrustedAloneNext, ProjectedShapeNext
    <3> QED BY <1>2, <1>4, <3>1, <3>3
  <2>2. CASE \A a \in batch : a.id # id
    <3>1. \A a : a.id = id => (a \in Channel!Pending' <=> a \in Channel!Pending)
      <4> SUFFICES ASSUME NEW a, a.id = id
                   PROVE  a \in Channel!Pending' <=> a \in Channel!Pending
        OBVIOUS
      <4>1. \A q \in Publishers : a \in queue'[q] <=> a \in queue[q]
        BY <1>1, <2>2
      <4> QED BY <4>1, PendingShape, PendingShapeNext
    <3>2. listed'[id] = listed[id]
      BY <1>3, <1>4, <2>2 DEF Channel!IdsOf
    <3> QED BY <1>1, <1>4, <1>5, <1>6, <2>2, <3>1, <3>2, AgreementSame
  <2> QED BY <2>1, <2>2
<1> QED BY <1>5, <1>6, <1>7

\* Alerts leave the batches undelivered, or one of them delivered with an error;
\* their ids are lost, and the list may change under lost ids only.
LEMMA LosesStep ==
  ASSUME WellFormed, IInv, NEW ids, trust' = Channel!Lost(ids),
         \A p \in Publishers : /\ queue'[p] \subseteq queue[p]
                                /\ \A a \in queue[p] \ queue'[p] : a.id \in ids,
         \A id \in Ids \ ids : standing'[id] = standing[id] /\ listed'[id] = listed[id]
  PROVE  OnePerId' /\ Unraced' /\ Agreement'
<1> USE DEF IInv
<1>1. \A id \in Ids : Channel!Trusted(id)' => id \notin ids /\ Channel!Trusted(id)
  BY DEF TypeOK, Channel!Lost, Channel!Trusted
<1>2. OnePerId' /\ Unraced'
  BY <1>1, ShapeShrinks
<1>3. ASSUME NEW id \in Ids, Channel!Trusted(id)'
      PROVE  Channel!Projected(id)' = listed'[id]
  <2>1. \A a : a.id = id => (a \in Channel!Pending' <=> a \in Channel!Pending)
    <3> SUFFICES ASSUME NEW a, a.id = id
                 PROVE  a \in Channel!Pending' <=> a \in Channel!Pending
      OBVIOUS
    <3>1. \A q \in Publishers : a \in queue'[q] <=> a \in queue[q]
      BY <1>1, <1>3
    <3> QED BY <3>1, PendingShape, PendingShapeNext
  <2> QED BY <1>1, <1>2, <1>3, <2>1, AgreementSame
<1> QED BY <1>2, <1>3 DEF Agreement, Channel!Trusted

LEMMA DeliverStep ==
  ASSUME WellFormed, IInv, NEW p \in Publishers, NEW a, Channel!Deliver(p, a), listed' = listed
  PROVE  OnePerId' /\ Unraced' /\ Agreement'
<1> USE DEF IInv
<1>1. /\ a \in queue[p] /\ queue'[p] = queue[p] \ {a}
      /\ \A q \in Publishers : q # p => queue'[q] = queue[q]
      /\ standing' = [standing EXCEPT ![a.id] = Channel!Effect(a)]
      /\ trust' = Channel!Reached(a.id)
  BY DEF Channel!Deliver, Channel!IsNext, TypeOK
<1>2. a.id \in Ids
  BY <1>1, AlertFacts
<1>3. \A id \in Ids : Channel!Trusted(id)' => Channel!Trusted(id)
  BY <1>1, <1>2 DEF TypeOK, Channel!Reached, Channel!Trusted, Channel!Trust
<1>4. OnePerId' /\ Unraced'
  <2>1. \A q \in Publishers : queue'[q] \subseteq queue[q]
    BY <1>1
  <2> QED BY <1>3, <2>1, ShapeShrinks
<1>5. ASSUME NEW id \in Ids, Channel!Trusted(id)'
      PROVE  Channel!Projected(id)' = listed[id]
  <2>1. CASE id = a.id
    <3>1. \A b \in Channel!Pending : b.id = id => b = a
      BY <1>1, <1>3, <1>5, <2>1, PendingShape, TrustedAlone
    <3>2. Channel!Projected(id) = Channel!Effect(a)
      BY <1>1, <2>1, <3>1, PendingShape, ProjectedShape
    <3>3. \A b \in Channel!Pending' : b.id # id
      <4> SUFFICES ASSUME NEW b \in Channel!Pending', b.id = id PROVE FALSE
        OBVIOUS
      <4>1. PICK q \in Publishers : b \in queue'[q]
        BY PendingShapeNext
      <4>2. b \in queue[q]
        BY <1>1, <4>1
      <4>3. b = a
        BY <3>1, <4>2, PendingShape
      <4>4. q = p
        BY <1>1, <1>3, <1>5, <2>1, <4>2, <4>3 DEF Unraced
      <4> QED BY <1>1, <4>1, <4>3, <4>4
    <3>4. Channel!Projected(id)' = Channel!Effect(a)
      BY <1>1, <2>1, <3>3, ProjectedShapeNext DEF TypeOK
    <3> QED BY <1>3, <1>5, <3>2, <3>4 DEF Agreement
  <2>2. CASE id # a.id
    <3>1. standing'[id] = standing[id]
      BY <1>1, <2>2 DEF TypeOK
    <3>2. \A b : b.id = id => (b \in Channel!Pending' <=> b \in Channel!Pending)
      <4> SUFFICES ASSUME NEW b, b.id = id
                   PROVE  b \in Channel!Pending' <=> b \in Channel!Pending
        OBVIOUS
      <4>1. \A q \in Publishers : b \in queue'[q] <=> b \in queue[q]
        BY <1>1, <2>2
      <4> QED BY <4>1, PendingShape, PendingShapeNext
    <3> QED BY <1>3, <1>4, <1>5, <3>1, <3>2, AgreementSame
  <2> QED BY <2>1, <2>2
<1> QED BY <1>4, <1>5 DEF Agreement, Channel!Trusted

LEMMA PublishStep ==
  ASSUME WellFormed, IInv, NEW p \in Publishers, NEW a \in queue[p], Publish(p, a)
  PROVE  OnePerId' /\ Unraced' /\ Agreement'
<1> USE DEF IInv
<1>1. listed' = listed
  BY DEF Publish
<1>2. CASE Channel!Deliver(p, a)
  BY <1>1, <1>2, DeliverStep
<1>3. CASE Channel!Skip(p, a)
  <2>1. \A q \in Publishers : /\ queue'[q] \subseteq queue[q]
                               /\ \A b \in queue[q] \ queue'[q] : b.id \in {a.id}
    BY <1>3 DEF Channel!Skip, TypeOK
  <2> QED BY <1>1, <1>3, <2>1, LosesStep DEF Channel!Skip
<1>4. CASE \E reached \in BOOLEAN : Channel!Raise(p, a, reached)
  <2>1. PICK reached \in BOOLEAN : Channel!Raise(p, a, reached)
    BY <1>4
  <2>2. \A b \in queue[p] : b.id \in Channel!IdsOf(queue[p])
    BY DEF Channel!IdsOf
  <2>3. \A q \in Publishers : /\ queue'[q] \subseteq queue[q]
                               /\ \A b \in queue[q] \ queue'[q] : b.id \in Channel!IdsOf(queue[p])
    BY <2>1, <2>2 DEF Channel!Raise, TypeOK
  <2>4. \A id \in Ids \ Channel!IdsOf(queue[p]) : standing'[id] = standing[id]
    BY <2>1, <2>2 DEF Channel!Raise, TypeOK
  <2>5. trust' = Channel!Lost(Channel!IdsOf(queue[p]))
    BY <2>1 DEF Channel!Raise
  <2> QED BY <1>1, <2>3, <2>4, <2>5, LosesStep
<1> QED BY <1>2, <1>3, <1>4 DEF Publish

LEMMA ForwardStep == WellFormed /\ IInv /\ TypeOK' /\ [Next]_vars => OnePerId' /\ Unraced' /\ Agreement'
<1> SUFFICES ASSUME WellFormed, IInv, TypeOK', [Next]_vars PROVE OnePerId' /\ Unraced' /\ Agreement'
  OBVIOUS
<1>1. ASSUME NEW p \in Publishers, NEW dropped \in SUBSET Ids,
             Judge(p, queue'[p], dropped), queue'[p] \in SUBSET Alert
      PROVE  OnePerId' /\ Unraced' /\ Agreement'
  BY <1>1, JudgeStep
<1>2. ASSUME NEW p \in Publishers, NEW a \in queue[p], Publish(p, a)
      PROVE  OnePerId' /\ Unraced' /\ Agreement'
  BY <1>2, PublishStep
<1>3. ASSUME NEW ids \in SUBSET Ids, Drop(ids) PROVE OnePerId' /\ Unraced' /\ Agreement'
  <2>1. /\ \A p \in Publishers : queue'[p] = queue[p]
        /\ standing' = standing /\ trust' = Channel!Lost(ids)
        /\ \A id \in Ids \ ids : listed'[id] = listed[id]
    BY <1>3 DEF Drop, Channel!Forget, ChangesOnly
  <2> QED BY <2>1, LosesStep
<1>4. ASSUME NEW ids \in SUBSET Ids, Down(ids) PROVE OnePerId' /\ Unraced' /\ Agreement'
  <2>1. /\ \A p \in Publishers : queue'[p] = {}
        /\ standing' = standing
        /\ trust' = Channel!Lost(ids \cup Channel!IdsOf(Channel!Pending))
        /\ \A id \in Ids \ ids : listed'[id] = listed[id]
    BY <1>4 DEF Down, Channel!Down, ChangesOnly
  <2>2. \A p \in Publishers : \A a \in queue[p] : a.id \in Channel!IdsOf(Channel!Pending)
    BY PendingShape DEF Channel!IdsOf
  <2> QED BY <2>1, <2>2, LosesStep
<1>5. CASE LinkChange \/ UNCHANGED vars
  <2>1. UNCHANGED <<listed, queue, standing, trust>>
    BY <1>5 DEF LinkChange, Channel!LinkChange, vars, channelVars
  <2>2. trust' = Channel!Lost({})
    BY <2>1 DEF Channel!Lost, IInv, TypeOK
  <2> QED BY <2>1, <2>2, LosesStep
<1> QED BY <1>1, <1>2, <1>3, <1>4, <1>5 DEF Next

\* What consumer and list need to agree, for any number of publishers.
THEOREM Invariance ==
  ASSUME WellFormed
  PROVE  Spec => []IInv
<1>1. IInv /\ [Next]_vars => IInv'
  BY TypeStep, ForwardStep DEF IInv
<1> QED BY InitIInv, <1>1, PTL DEF Spec

\* Whatever a tracker tracks: as long as the poll tasks and handlers of a service
\* hand over what its calls return, the list of open alerts and the consumer
\* agree on every id that no lost, raced or silently dropped alert has set apart.
THEOREM AgreementHolds ==
  ASSUME WellFormed
  PROVE  Spec => []Agreement
BY Invariance, PTL DEF IInv

-----------------------------------------------------------------------------
\* An alert of this id is on its way.
UnderWay(id) == \E a \in Channel!Pending : a.id = id

HealingIsUnderWay == \A id \in Ids : trust[id] = "healing" => UnderWay(id)

\* Alerts of an id that stay in their queues.
LEMMA StaysUnderWay ==
  ASSUME NEW id, UnderWay(id),
         \A p \in Publishers : \A a \in queue[p] : a.id = id => a \in queue'[p]
  PROVE  UnderWay(id)'
BY PendingShape, PendingShapeNext DEF UnderWay

LEMMA HealingStep == WellFormed /\ TypeOK /\ HealingIsUnderWay /\ [Next]_vars
                       => HealingIsUnderWay'
<1> SUFFICES ASSUME WellFormed, TypeOK, HealingIsUnderWay, [Next]_vars,
                    NEW id \in Ids, trust'[id] = "healing"
             PROVE  UnderWay(id)'
  BY DEF HealingIsUnderWay
<1>1. ASSUME NEW p \in Publishers, NEW dropped \in SUBSET Ids,
             Judge(p, queue'[p], dropped)
      PROVE  UnderWay(id)'
  <2>1. /\ trust'[id] = Channel!Handed(id, queue'[p], dropped)
        /\ queue[p] = {} /\ \A q \in Publishers \ {p} : queue'[q] = queue[q]
    BY <1>1 DEF Judge, Channel!Hand, Channel!Idle, TypeOK
  <2>2. CASE id \in Channel!IdsOf(queue'[p])
    BY <2>2, PendingShapeNext DEF UnderWay, Channel!IdsOf
  <2>3. CASE id \notin Channel!IdsOf(queue'[p])
    <3>1. trust[id] = "healing"
      BY <2>1, <2>3 DEF Channel!Handed
    <3> QED BY <2>1, <3>1, StaysUnderWay DEF HealingIsUnderWay
  <2> QED BY <2>2, <2>3
<1>2. ASSUME NEW p \in Publishers, NEW a \in queue[p], Channel!Deliver(p, a)
      PROVE  UnderWay(id)'
  <2>1. trust[id] = "healing" /\ id # a.id
    BY <1>2, AlertFacts DEF Channel!Deliver, Channel!Reached, TypeOK
  <2>2. \A q \in Publishers : \A b \in queue[q] : b.id = id => b \in queue'[q]
    BY <1>2, <2>1 DEF Channel!Deliver, TypeOK
  <2> QED BY <2>1, <2>2, StaysUnderWay DEF HealingIsUnderWay
<1>3. ASSUME NEW ids, trust' = Channel!Lost(ids),
             \A p \in Publishers : \A a \in queue[p] : a.id \notin ids => a \in queue'[p]
      PROVE  UnderWay(id)'
  <2>1. trust[id] = "healing" /\ id \notin ids
    BY <1>3 DEF Channel!Lost, TypeOK
  <2> QED BY <1>3, <2>1, StaysUnderWay DEF HealingIsUnderWay
<1>4. ASSUME NEW p \in Publishers, NEW a \in queue[p], Publish(p, a) PROVE UnderWay(id)'
  <2>1. CASE Channel!Deliver(p, a)
    BY <1>2, <2>1
  <2>2. CASE Channel!Skip(p, a)
    <3>1. /\ trust' = Channel!Lost({a.id})
          /\ \A q \in Publishers : \A b \in queue[q] : b.id \notin {a.id} => b \in queue'[q]
      BY <2>2 DEF Channel!Skip, TypeOK
    <3> QED BY <1>3, <3>1
  <2>3. ASSUME NEW reached \in BOOLEAN, Channel!Raise(p, a, reached) PROVE UnderWay(id)'
    <3>1. /\ trust' = Channel!Lost(Channel!IdsOf(queue[p]))
          /\ \A q \in Publishers : \A b \in queue[q] :
               b.id \notin Channel!IdsOf(queue[p]) => b \in queue'[q]
      BY <2>3 DEF Channel!Raise, Channel!IdsOf, TypeOK
    <3> QED BY <1>3, <3>1
  <2> QED BY <1>4, <2>1, <2>2, <2>3 DEF Publish
<1>5. ASSUME NEW ids \in SUBSET Ids, Drop(ids) PROVE UnderWay(id)'
  BY <1>3, <1>5 DEF Drop, Channel!Forget
<1>6. ASSUME NEW ids \in SUBSET Ids, Down(ids) PROVE UnderWay(id)'
  <2>1. trust' = Channel!Lost(ids \cup Channel!IdsOf(Channel!Pending))
    BY <1>6 DEF Down, Channel!Down
  <2>2. \A p \in Publishers : \A a \in queue[p] :
          a.id \in ids \cup Channel!IdsOf(Channel!Pending)
    BY PendingShape DEF Channel!IdsOf
  <2> QED BY <1>3, <2>1, <2>2
<1>7. CASE LinkChange \/ UNCHANGED vars
  <2>1. trust' = trust /\ queue' = queue
    BY <1>7 DEF LinkChange, Channel!LinkChange, vars, channelVars
  <2> QED BY <2>1, StaysUnderWay DEF HealingIsUnderWay
<1> QED BY <1>1, <1>4, <1>5, <1>6, <1>7 DEF Next

\* A repair is never waited for in vain: as long as an id counts as being repaired,
\* the alert that repairs it is on its way.  With nothing on its way an id agrees,
\* or it was lost or raced and no alert of it was handed over alone since.
THEOREM HealingIsUnderWayHolds ==
  ASSUME WellFormed
  PROVE  Spec => []HealingIsUnderWay
<1>1. Init => HealingIsUnderWay
  BY DEF Init, Channel!Init, HealingIsUnderWay
<1>2. IInv => TypeOK
  BY DEF IInv
<1> QED BY <1>1, <1>2, HealingStep, Invariance, PTL DEF Spec

-----------------------------------------------------------------------------
\* In this step a call of p returned an alert of the id, and no other was on its way.
ToldAlone(p, id) == /\ queue[p] = {}
                    /\ ~UnderWay(id)
                    /\ \E a \in queue'[p] : a.id = id /\ listed'[id] = Channel!Effect(a)

\* Nothing but an alert sets an id right again: after a lost, raced or silently
\* dropped alert, consumer and list stay apart until a call returns an alert of
\* that id, saying what is then listed, while no other alert of it is on its way.
\* A repeat that the tracker keeps quiet, a restart and time repair nothing.
THEOREM OnlyAnAlertHeals ==
  ASSUME WellFormed
  PROVE  Spec => [][\A id \in Ids : ~Channel!Trusted(id) /\ Channel!Trusted(id)'
                                      => \E p \in Publishers : ToldAlone(p, id)]_vars
<1>1. IInv /\ [Next]_vars
        => [\A id \in Ids : ~Channel!Trusted(id) /\ Channel!Trusted(id)'
                              => \E p \in Publishers : ToldAlone(p, id)]_vars
  <2> SUFFICES ASSUME TypeOK, Next, NEW id \in Ids,
                      ~Channel!Trusted(id), Channel!Trusted(id)'
               PROVE  \E p \in Publishers : ToldAlone(p, id)
    BY DEF IInv, vars, channelVars, Channel!Trusted
  <2>1. \A ids : trust' # Channel!Lost(ids)
    BY DEF TypeOK, Channel!Lost, Channel!Trusted
  <2>2. trust' # trust
    BY DEF Channel!Trusted
  <2>3. ASSUME NEW p \in Publishers, NEW a \in queue[p] PROVE ~Publish(p, a)
    <3>1. trust' # Channel!Reached(a.id)
      BY DEF TypeOK, Channel!Reached, Channel!Trusted
    <3> QED BY <2>1, <3>1 DEF Publish, Channel!Deliver, Channel!Skip, Channel!Raise
  <2>4. \A ids \in SUBSET Ids : ~Drop(ids) /\ ~Down(ids)
    BY <2>1 DEF Drop, Down, Channel!Forget, Channel!Down
  <2>5. ~LinkChange
    BY <2>2 DEF LinkChange, Channel!LinkChange
  <2>6. PICK p \in Publishers, dropped \in SUBSET Ids : Judge(p, queue'[p], dropped)
    BY <2>3, <2>4, <2>5 DEF Next
  <2>7. Channel!Handed(id, queue'[p], dropped) \in {"agrees", "healing"} /\ queue[p] = {}
    BY <2>6 DEF Judge, Channel!Hand, Channel!Idle, TypeOK, Channel!Trusted
  <2>8. id \notin dropped /\ id \in Channel!IdsOf(queue'[p])
                          /\ id \notin Channel!IdsOf(Channel!Pending)
    BY <2>7, HandedTrusted
  <2>9. PICK a \in queue'[p] : a.id = id
    BY <2>8 DEF Channel!IdsOf
  <2>10. listed'[id] = Channel!Effect(a)
    BY <2>6, <2>8, <2>9 DEF Judge
  <2> QED BY <2>7, <2>8, <2>9, <2>10 DEF ToldAlone, UnderWay, Channel!IdsOf
<1> QED BY <1>1, Invariance, PTL DEF Spec

\* One alert is enough: what a call returns about an id, with no other alert of it
\* on its way, is what the consumer will hold under it, whatever was lost, raced or
\* dropped of that id before.
THEOREM AnAlertAloneHeals ==
  ASSUME WellFormed
  PROVE  Spec => [][\A p \in Publishers, dropped \in SUBSET Ids :
                      Judge(p, queue'[p], dropped) =>
                        \A a \in queue'[p] : a.id \notin dropped /\ ~UnderWay(a.id)
                          => /\ Channel!Trusted(a.id)'
                             /\ Channel!Projected(a.id)' = Channel!Effect(a)]_vars
<1>1. IInv /\ IInv'
        => [\A p \in Publishers, dropped \in SUBSET Ids :
              Judge(p, queue'[p], dropped) =>
                \A a \in queue'[p] : a.id \notin dropped /\ ~UnderWay(a.id)
                  => /\ Channel!Trusted(a.id)'
                     /\ Channel!Projected(a.id)' = Channel!Effect(a)]_vars
  <2> SUFFICES ASSUME IInv, IInv', NEW p \in Publishers, NEW dropped \in SUBSET Ids,
                      Judge(p, queue'[p], dropped), NEW a \in queue'[p],
                      a.id \notin dropped, ~UnderWay(a.id)
               PROVE  /\ Channel!Trusted(a.id)'
                      /\ Channel!Projected(a.id)' = Channel!Effect(a)
    BY DEF Channel!Trusted
  <2>1. a.id \in Ids
    BY DEF IInv, TypeOK, WellFormed
  <2>2. trust'[a.id] = Channel!Handed(a.id, queue'[p], dropped)
    BY <2>1 DEF Judge, Channel!Hand, IInv, TypeOK
  <2>3. a.id \in Channel!IdsOf(queue'[p]) /\ a.id \notin Channel!IdsOf(Channel!Pending)
    BY DEF UnderWay, Channel!IdsOf
  <2>4. Channel!Trusted(a.id)'
    BY <2>2, <2>3 DEF Channel!Handed, Channel!Trusted
  <2>5. Channel!Projected(a.id)' = listed'[a.id]
    BY <2>1, <2>4 DEF IInv, Agreement, Channel!Trusted
  <2>6. listed'[a.id] = Channel!Effect(a)
    BY DEF Judge
  <2> QED BY <2>4, <2>5, <2>6
<1> QED BY <1>1, Invariance, PTL

\* The list never changes behind the back of the consumer without a trace: a step
\* that changes an entry returns the alert that says so, or marks the id as lost.
THEOREM NoUntoldChange ==
  ASSUME WellFormed
  PROVE  Spec => [][\A id \in Ids : listed'[id] # listed[id] =>
                      \/ trust'[id] = "lost"
                      \/ \E p \in Publishers : \E a \in queue'[p] \ queue[p] :
                           a.id = id /\ listed'[id] = Channel!Effect(a)]_vars
<1>1. IInv /\ [Next]_vars
        => [\A id \in Ids : listed'[id] # listed[id] =>
              \/ trust'[id] = "lost"
              \/ \E p \in Publishers : \E a \in queue'[p] \ queue[p] :
                   a.id = id /\ listed'[id] = Channel!Effect(a)]_vars
  <2> SUFFICES ASSUME TypeOK, Next, NEW id \in Ids, listed'[id] # listed[id]
               PROVE  \/ trust'[id] = "lost"
                      \/ \E p \in Publishers : \E a \in queue'[p] \ queue[p] :
                           a.id = id /\ listed'[id] = Channel!Effect(a)
    BY DEF IInv, vars
  <2>1. ASSUME NEW p \in Publishers, NEW dropped \in SUBSET Ids, Judge(p, queue'[p], dropped)
        PROVE  \/ trust'[id] = "lost"
               \/ \E a \in queue'[p] \ queue[p] : a.id = id /\ listed'[id] = Channel!Effect(a)
    <3>1. queue[p] = {} /\ trust'[id] = Channel!Handed(id, queue'[p], dropped)
      BY <2>1 DEF Judge, Channel!Hand, Channel!Idle, TypeOK
    <3>2. id \in Channel!IdsOf(queue'[p]) \cup dropped
      BY <2>1 DEF Judge, ChangesOnly
    <3>3. CASE id \in dropped
      BY <3>1, <3>3 DEF Channel!Handed
    <3>4. CASE id \notin dropped
      BY <2>1, <3>1, <3>2, <3>4 DEF Judge, Channel!IdsOf
    <3> QED BY <3>3, <3>4
  <2>2. ASSUME NEW ids \in SUBSET Ids, Drop(ids) \/ Down(ids) PROVE trust'[id] = "lost"
    BY <2>2 DEF Drop, Down, ChangesOnly, Channel!Forget, Channel!Down, Channel!Lost, TypeOK
  <2> QED BY <2>1, <2>2 DEF Next, Publish, LinkChange
<1> QED BY <1>1, Invariance, PTL DEF Spec
=============================================================================
