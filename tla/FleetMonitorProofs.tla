-------------------------- MODULE FleetMonitorProofs --------------------------
(* FleetMonitor for every configuration and every set of failures: types,     *)
(* agreement of consumer and tracker, one condition shown per service, no     *)
(* tracked alert of a silenced service, and the promise of AlertForwarder.    *)
EXTENDS FleetMonitor, TLAPS

\* The facts proved of the tracker alone; its own operators are those of this
\* module, and what its last call returned plays no role in them.
Facts == INSTANCE FleetStateTrackerProofs WITH edges <- {}

Table == [Services -> Alert \cup {NoAlert}]
Proper(table) == \A s \in Services :
                   table[s] # NoAlert => table[s].id[1] = s /\ table[s].resolution = "open"
Tells(e) == IF e.resolution = "open" THEN e ELSE NoAlert

LEMMA SameCardinality ==
  ASSUME NEW X
  PROVE  Facts!Cardinality(X) = Cardinality(X) /\ Facts!IsFiniteSet(X) = IsFiniteSet(X)
BY DEF Facts!Cardinality, Cardinality, Facts!IsFiniteSet, IsFiniteSet

LEMMA SameTypes ==
  /\ Facts!Ids = Ids /\ Facts!Alert = Alert /\ Facts!Replies = Replies
  /\ Facts!Table = Table
<1>1. Facts!Ids = Ids
  BY DEF Facts!Ids, Ids, Facts!Kinds, Kinds
<1>2. \A X : Facts!Cardinality(X) = Cardinality(X)
  BY DEF Facts!Cardinality, Cardinality
<1>3. Facts!Alert = Alert
  BY <1>1, <1>2 DEF Facts!Alert, Alert, Facts!Resolutions, Resolutions
<1> QED BY <1>1, <1>3 DEF Facts!Replies, Replies, Facts!Snapshot, Snapshot,
                          Facts!Statuses, Statuses, Facts!Table, Table

LEMMA SameJudgment ==
  ASSUME NEW table, NEW services, NEW names
  PROVE  /\ Facts!Edges(table, services, names) = Edges(table, services, names)
         /\ Facts!NextOpen(table, services, names) = NextOpen(table, services, names)
         /\ Facts!Drop(table, names) = Drop(table, names)
         /\ Facts!ComputeOpen(services, names) = ComputeOpen(services, names)
         /\ \A s, k, r : Facts!BuildAlert(s, k, services, r) = BuildAlert(s, k, services, r)
         /\ \A d : Facts!Listed(table, d) = Listed(table, d)
         /\ Facts!Proper(table) <=> Proper(table)
<1>1. Facts!ComputeOpen(services, names) = ComputeOpen(services, names)
  BY SameCardinality DEF Facts!ComputeOpen, ComputeOpen, Facts!Condition, Condition,
     Facts!Registered, Registered, Facts!ActiveCount, ActiveCount
<1>2. \A s, k, r : Facts!BuildAlert(s, k, services, r) = BuildAlert(s, k, services, r)
  BY SameCardinality DEF Facts!BuildAlert, BuildAlert, Facts!Rank, Rank,
     Facts!ActiveCount, ActiveCount
<1>3. Facts!Drop(table, names) = Drop(table, names)
  BY DEF Facts!Drop, Drop
<1>4. \A tab, d : Facts!Listed(tab, d) = Listed(tab, d)
  BY DEF Facts!Listed, Listed
<1>5. Facts!NextOpen(table, services, names) = NextOpen(table, services, names)
  BY <1>1, <1>2, <1>3, <1>4 DEF Facts!NextOpen, NextOpen, Facts!Kinds, Kinds
<1>6. Facts!Edges(table, services, names) = Edges(table, services, names)
  BY <1>1, <1>2, <1>3, <1>4, SameTypes
     DEF Facts!Edges, Edges, Facts!Recovers, Recovers, Facts!Opens, Opens
<1>7. Facts!Proper(table) <=> Proper(table)
  BY DEF Facts!Proper, Proper
<1> QED BY <1>1, <1>2, <1>3, <1>4, <1>5, <1>6, <1>7

LEMMA FactsAssumptions == Facts!FleetAssumption /\ Facts!NoAlertAssumption
BY FleetAssumption, NoAlertAssumption, SameCardinality, SameTypes
   DEF Facts!FleetAssumption, Facts!NoAlertAssumption

LEMMA DropType ==
  ASSUME NEW table \in Table, NEW names, Proper(table)
  PROVE  \A id \in Ids : Listed(Drop(table, names), id) =
           IF id[1] \in names THEN NoAlert ELSE Listed(table, id)
BY DEF Drop, Proper, Listed, Ids

LEMMA EdgeShape ==
  ASSUME NEW table \in Table, NEW services \in Replies, NEW names,
         NEW e \in Edges(table, services, names)
  PROVE  e \in Alert /\ e.id \in Ids
BY FactsAssumptions, Facts!EdgeShape, SameTypes, SameJudgment

LEMMA OneEdgePerId ==
  ASSUME NEW table \in Table, NEW services \in Replies, NEW names,
         NEW e \in Edges(table, services, names),
         NEW f \in Edges(table, services, names), e.id = f.id
  PROVE  e = f
BY FactsAssumptions, Facts!OneEdgePerId, SameTypes, SameJudgment

LEMMA NextOpenShape ==
  ASSUME NEW table \in Table, Proper(table), NEW services \in Replies, NEW names
  PROVE  /\ NextOpen(table, services, names) \in Table
         /\ Proper(NextOpen(table, services, names))
BY FactsAssumptions, Facts!NextOpenShape, SameTypes, SameJudgment

LEMMA EdgesTellAll ==
  ASSUME NEW table \in Table, Proper(table), NEW services \in Replies, NEW names,
         NEW id \in Ids
  PROVE  LET E == Edges(table, services, names)
             next == NextOpen(table, services, names)
         IN  /\ \A e \in E : e.id = id => Listed(next, id) = Tells(e)
             /\ (\A e \in E : e.id # id) =>
                  Listed(next, id) = Listed(Drop(table, names), id)
<1>1. /\ Facts!Proper(table) /\ table \in Facts!Table
      /\ services \in Facts!Replies /\ id \in Facts!Ids
  BY SameTypes, SameJudgment
<1>2. LET E == Facts!Edges(table, services, names)
          next == Facts!NextOpen(table, services, names)
      IN  /\ \A e \in E : e.id = id => Facts!Listed(next, id) = Facts!Tells(e)
          /\ (\A e \in E : e.id # id) =>
               Facts!Listed(next, id) = Facts!Listed(Facts!Drop(table, names), id)
  BY FactsAssumptions, <1>1, Facts!EdgesTellAll
<1>3. \A t : Facts!Listed(t, id) = Listed(t, id)
  BY DEF Facts!Listed, Listed
<1>4. \A e : Facts!Tells(e) = Tells(e)
  BY DEF Facts!Tells, Tells
<1> QED BY <1>2, <1>3, <1>4, SameJudgment

LEMMA EdgeRank ==
  ASSUME NEW table, NEW services, NEW names, NEW e \in Edges(table, services, names)
  PROVE  e.id[1] \in Services /\ e.rank = Rank(e.id[1], e.resolution)
BY DEF Edges, Recovers, Opens, BuildAlert, Ids

LEMMA RecoverRanksFirst ==
  ASSUME NEW s \in Services
  PROVE  Rank(s, "recovered") < Rank(s, "open")
BY FactsAssumptions, Facts!RecoverRanksFirst, SameCardinality DEF Facts!Rank, Rank

-----------------------------------------------------------------------------
\* A batch has one alert per id, and the table holds open alerts of its services.
OnePerId == \A a, b \in queue[Poll] : a.id = b.id => a = b
IInv == TypeOK /\ Proper(open) /\ OnePerId /\ Agreement

LEMMA ListedType ==
  ASSUME NEW table \in Table, NEW id \in Ids
  PROVE  Listed(table, id) \in Alert \cup {NoAlert}
BY DEF Listed, Table, Ids

LEMMA PendingIsQueue == Channel!Pending = queue[Poll]
BY DEF Channel!Pending

LEMMA PendingIsQueueNext == Channel!Pending' = queue'[Poll]
BY DEF Channel!Pending

\* Projected, without its CHOOSE: the effect of the one alert on its way, or else
\* what the consumer holds.
LEMMA ProjectedShape ==
  ASSUME NEW id
  PROVE  /\ OnePerId => \A a \in queue[Poll] : a.id = id =>
                          Channel!Projected(id) = Tells(a)
         /\ (\A a \in queue[Poll] : a.id # id) => Channel!Projected(id) = standing[id]
<1>1. ASSUME OnePerId, NEW a \in queue[Poll], a.id = id
      PROVE  Channel!Projected(id) = Tells(a)
  <2>1. (CHOOSE b \in queue[Poll] : b.id = id) = a
    BY <1>1 DEF OnePerId
  <2> QED BY <1>1, <2>1, PendingIsQueue DEF Channel!Projected, Channel!Effect, Tells
<1>2. ASSUME \A a \in queue[Poll] : a.id # id
      PROVE  Channel!Projected(id) = standing[id]
  BY <1>2, PendingIsQueue DEF Channel!Projected
<1> QED BY <1>1, <1>2

\* The same for the next state.
LEMMA ProjectedShapeNext ==
  ASSUME NEW id
  PROVE  /\ OnePerId' => \A a \in queue'[Poll] : a.id = id =>
                           Channel!Projected(id)' = Tells(a)
         /\ (\A a \in queue'[Poll] : a.id # id) => Channel!Projected(id)' = standing'[id]
<1>1. ASSUME OnePerId', NEW a \in queue'[Poll], a.id = id
      PROVE  Channel!Projected(id)' = Tells(a)
  <2>1. (CHOOSE b \in queue'[Poll] : b.id = id) = a
    BY <1>1 DEF OnePerId
  <2> QED BY <1>1, <2>1, PendingIsQueueNext DEF Channel!Projected, Channel!Effect, Tells
<1>2. ASSUME \A a \in queue'[Poll] : a.id # id
      PROVE  Channel!Projected(id)' = standing'[id]
  BY <1>2, PendingIsQueueNext DEF Channel!Projected
<1> QED BY <1>1, <1>2

LEMMA InitIInv == Init => IInv
<1> SUFFICES ASSUME Init PROVE IInv
  OBVIOUS
<1> USE DEF Init, Channel!Init
<1>1. TypeOK
  BY DEF TypeOK, Channel!Trust
<1>2. Proper(open) /\ OnePerId
  BY DEF Proper, OnePerId
<1>3. ASSUME NEW id \in Ids PROVE Channel!Projected(id) = Listed(open, id)
  <2>1. Channel!Projected(id) = NoAlert
    BY ProjectedShape
  <2>2. id[1] \in Services
    BY DEF Ids
  <2> QED BY <2>1, <2>2 DEF Listed
<1> QED BY <1>1, <1>2, <1>3 DEF IInv, Agreement

\* The actions of the channel keep its variables in their types.
LEMMA PublishType ==
  ASSUME TypeOK, Publish
  PROVE  /\ queue' \in [{Poll} -> SUBSET Alert]
         /\ queue'[Poll] \subseteq queue[Poll]
         /\ standing' \in [Ids -> Alert \cup {NoAlert}]
         /\ trust' \in [Ids -> Channel!Trust]
         /\ fresh' \in SUBSET {Poll}
         /\ link' \in BOOLEAN
<1>1. PICK a \in queue[Poll] : \/ Channel!Deliver(Poll, a)
                               \/ Channel!Skip(Poll, a)
                               \/ \E reached \in BOOLEAN : Channel!Raise(Poll, a, reached)
  BY DEF Publish
<1>2. a \in Alert /\ a.id \in Ids /\ Channel!Effect(a) \in Alert \cup {NoAlert}
  BY DEF TypeOK, Alert, Channel!Effect
<1>3. \A ids : Channel!Lost(ids) \in [Ids -> Channel!Trust]
  BY DEF TypeOK, Channel!Lost, Channel!Trust
<1>4. Channel!Reached(a.id) \in [Ids -> Channel!Trust]
  BY <1>2 DEF TypeOK, Channel!Reached, Channel!Trust
<1>5. CASE Channel!Deliver(Poll, a)
  BY <1>2, <1>4, <1>5 DEF TypeOK, Channel!Deliver
<1>6. CASE Channel!Skip(Poll, a)
  BY <1>3, <1>6 DEF TypeOK, Channel!Skip
<1>7. CASE \E reached \in BOOLEAN : Channel!Raise(Poll, a, reached)
  BY <1>2, <1>3, <1>7 DEF TypeOK, Channel!Raise
<1> QED BY <1>1, <1>5, <1>6, <1>7

\* An evaluation, whatever the registry answered.
LEMMA EvaluateType ==
  ASSUME TypeOK, Proper(open), NEW services \in Replies, PollReturns(services)
  PROVE  /\ open' \in Table
         /\ Proper(open')
         /\ queue[Poll] = {}
         /\ queue' \in [{Poll} -> SUBSET Alert]
         /\ queue'[Poll] = Edges(open, services, silenced)
         /\ trust' \in [Ids -> Channel!Trust]
         /\ fresh' \in SUBSET {Poll}
<1>1. open \in Table
  BY DEF TypeOK, Table
<1>2. open' \in Table /\ Proper(open')
  BY <1>1, NextOpenShape DEF PollReturns
<1>3. Edges(open, services, silenced) \subseteq Alert
  BY <1>1, EdgeShape
<1>4. Channel!Hand(Poll, Edges(open, services, silenced), Tracked(silenced))
  BY DEF PollReturns
<1>5. /\ queue[Poll] = {}
      /\ queue' = [queue EXCEPT ![Poll] = Edges(open, services, silenced)]
  BY <1>4 DEF Channel!Hand, Channel!Idle
<1>6. \A id \in Ids :
        Channel!Handed(id, Edges(open, services, silenced), Tracked(silenced))
          \in Channel!Trust
  BY DEF TypeOK, Channel!Handed, Channel!Trust
<1>7. trust' \in [Ids -> Channel!Trust]
  BY <1>4, <1>6 DEF Channel!Hand, TypeOK
<1>8. fresh' \in SUBSET {Poll}
  BY <1>4 DEF Channel!Hand, TypeOK
<1> QED BY <1>2, <1>3, <1>5, <1>7, <1>8 DEF TypeOK

LEMMA TypeStep == IInv /\ [Next]_vars => TypeOK'
<1> SUFFICES ASSUME TypeOK, Proper(open), [Next]_vars PROVE TypeOK'
  BY DEF IInv
<1>0. \A ids : Channel!Lost(ids) \in [Ids -> Channel!Trust]
  BY DEF TypeOK, Channel!Lost, Channel!Trust
<1>1. CASE Start
  BY <1>1 DEF Start, TypeOK, channelVars
<1>2. CASE PollStart
  BY <1>2 DEF PollStart, TypeOK, channelVars
<1>3. CASE PollFails
  BY <1>3 DEF PollFails, TypeOK, channelVars
<1>4. CASE Publish
  BY <1>4, PublishType DEF Publish, TypeOK
<1>5. CASE Crash
  BY <1>0, <1>5 DEF Crash, Channel!Down, TypeOK
<1>6. CASE LinkChange
  BY <1>6 DEF LinkChange, Channel!LinkChange, TypeOK
<1>7. ASSUME NEW services \in Replies, PollReturns(services) PROVE TypeOK'
  <2>1. UNCHANGED <<up, silenced, file, standing, link>> /\ phase' = "idle" /\ unsaved' = {}
    BY <1>7 DEF PollReturns, Channel!Hand
  <2> QED BY <1>7, <2>1, EvaluateType DEF TypeOK, Table
<1>8. ASSUME NEW n \in Names, NEW saved \in BOOLEAN, AddSilence(n, saved) PROVE TypeOK'
  BY <1>0, <1>8 DEF AddSilence, Drop, Channel!Forget, TypeOK, channelVars
<1>9. ASSUME NEW n \in Names, NEW saved \in BOOLEAN, ClearSilence(n, saved) PROVE TypeOK'
  BY <1>9 DEF ClearSilence, TypeOK, channelVars
<1>10. CASE UNCHANGED vars
  BY <1>10 DEF vars, channelVars, TypeOK
<1> QED BY <1>1, <1>2, <1>3, <1>4, <1>5, <1>6, <1>7, <1>8, <1>9, <1>10 DEF Next

LEMMA ShapeStep == IInv /\ [Next]_vars => Proper(open)' /\ OnePerId'
<1> SUFFICES ASSUME TypeOK, Proper(open), OnePerId, [Next]_vars
             PROVE  Proper(open)' /\ OnePerId'
  BY DEF IInv
<1> USE DEF Proper, OnePerId
<1>1. CASE Start \/ PollStart \/ PollFails
  BY <1>1 DEF Start, PollStart, PollFails, channelVars
<1>2. CASE Publish
  <2>1. open' = open
    BY <1>2 DEF Publish
  <2>2. queue'[Poll] \subseteq queue[Poll]
    BY <1>2, PublishType
  <2> QED BY <2>1, <2>2
<1>3. CASE Crash
  BY <1>3 DEF Crash, Channel!Down
<1>4. CASE LinkChange
  BY <1>4 DEF LinkChange, Channel!LinkChange
<1>5. ASSUME NEW services \in Replies, PollReturns(services)
      PROVE  Proper(open)' /\ OnePerId'
  <2>1. Proper(open') /\ queue'[Poll] = Edges(open, services, silenced)
    BY <1>5, EvaluateType
  <2>2. open \in Table
    BY DEF TypeOK, Table
  <2>3. OnePerId'
    BY <2>1, <2>2, OneEdgePerId
  <2> QED BY <2>1, <2>3
<1>6. ASSUME NEW n \in Names, NEW saved \in BOOLEAN, AddSilence(n, saved) PROVE Proper(open)' /\ OnePerId'
  BY <1>6 DEF AddSilence, Drop, Channel!Forget, TypeOK, channelVars
<1>7. ASSUME NEW n \in Names, NEW saved \in BOOLEAN, ClearSilence(n, saved) PROVE Proper(open)' /\ OnePerId'
  BY <1>7 DEF ClearSilence, channelVars
<1>8. CASE UNCHANGED vars
  BY <1>8 DEF vars, channelVars
<1> QED BY <1>1, <1>2, <1>3, <1>4, <1>5, <1>6, <1>7, <1>8 DEF Next

-----------------------------------------------------------------------------
\* Nothing that Agreement speaks of changes.
LEMMA AgreementSame ==
  ASSUME Agreement, UNCHANGED <<open, queue, standing, trust>>
  PROVE  Agreement'
BY DEF Agreement, Channel!Trusted, Channel!Projected, Channel!Pending, Listed

\* Ids become lost, and the list may change under these only.
LEMMA AgreementLost ==
  ASSUME TypeOK, Agreement, NEW ids,
         trust' = Channel!Lost(ids),
         UNCHANGED <<queue, standing>>,
         \A id \in Ids \ ids : Listed(open, id)' = Listed(open, id)
  PROVE  Agreement'
<1> SUFFICES ASSUME NEW id \in Ids, Channel!Trusted(id)'
             PROVE  Channel!Projected(id)' = Listed(open, id)'
  BY DEF Agreement
<1>1. id \notin ids /\ trust[id] = trust'[id]
  BY DEF TypeOK, Channel!Lost, Channel!Trusted
<1>2. Channel!Trusted(id)
  BY <1>1 DEF Channel!Trusted
<1>3. Channel!Projected(id)' = Channel!Projected(id)
  BY DEF Channel!Projected, Channel!Pending
<1> QED BY <1>1, <1>2, <1>3 DEF Agreement

\* An alert of the batch is delivered.
LEMMA AgreementDeliver ==
  ASSUME IInv, OnePerId', NEW a, Channel!Deliver(Poll, a), open' = open
  PROVE  Agreement'
<1> USE DEF IInv
<1>1. /\ a \in queue[Poll] /\ a.id \in Ids
      /\ queue'[Poll] = queue[Poll] \ {a}
      /\ standing' = [standing EXCEPT ![a.id] = Tells(a)]
      /\ trust' = Channel!Reached(a.id)
  BY DEF Channel!Deliver, Channel!IsNext, Channel!Effect, Tells, TypeOK, Alert
<1> SUFFICES ASSUME NEW id \in Ids, Channel!Trusted(id)'
             PROVE  Channel!Projected(id)' = Listed(open, id)
  BY DEF Agreement, Listed
<1>2. Channel!Trusted(id)
  BY <1>1 DEF Channel!Trusted, Channel!Reached, TypeOK, Channel!Trust
<1>3. Channel!Projected(id) = Listed(open, id)
  BY <1>2 DEF Agreement
<1>4. CASE id = a.id
  <2>1. \A b \in queue'[Poll] : b.id # id
    BY <1>1, <1>4 DEF OnePerId
  <2>2. Channel!Projected(id)' = Tells(a)
    BY <1>1, <1>4, <2>1, ProjectedShapeNext DEF TypeOK
  <2> QED BY <1>1, <1>3, <1>4, <2>2, ProjectedShape
<1>5. CASE id # a.id
  <2>1. standing'[id] = standing[id]
    BY <1>1, <1>5 DEF TypeOK
  <2>2. CASE \E b \in queue[Poll] : b.id = id
    <3>1. PICK b \in queue[Poll] : b.id = id
      BY <2>2
    <3>2. b \in queue'[Poll]
      BY <1>1, <1>5, <3>1
    <3> QED BY <1>3, <3>1, <3>2, ProjectedShape, ProjectedShapeNext
  <2>3. CASE \A b \in queue[Poll] : b.id # id
    BY <1>1, <1>3, <2>1, <2>3, ProjectedShape, ProjectedShapeNext
  <2> QED BY <2>2, <2>3
<1> QED BY <1>4, <1>5

\* Alerts leave the batch undelivered, or one of them delivered with an error:
\* all their ids are lost, and nothing else is touched.
LEMMA AgreementLoses ==
  ASSUME IInv, OnePerId', NEW ids, open' = open,
         trust' = Channel!Lost(ids),
         queue'[Poll] \subseteq queue[Poll],
         \A a \in queue[Poll] \ queue'[Poll] : a.id \in ids,
         \A id \in Ids \ ids : standing'[id] = standing[id]
  PROVE  Agreement'
<1> USE DEF IInv
<1> SUFFICES ASSUME NEW id \in Ids, Channel!Trusted(id)'
             PROVE  Channel!Projected(id)' = Listed(open, id)
  BY DEF Agreement, Listed
<1>1. id \notin ids /\ Channel!Trusted(id)
  BY DEF TypeOK, Channel!Lost, Channel!Trusted
<1>2. Channel!Projected(id) = Listed(open, id)
  BY <1>1 DEF Agreement
<1>3. CASE \E b \in queue[Poll] : b.id = id
  <2>1. PICK b \in queue[Poll] : b.id = id
    BY <1>3
  <2>2. b \in queue'[Poll]
    BY <1>1, <2>1
  <2> QED BY <1>2, <2>1, <2>2, ProjectedShape, ProjectedShapeNext
<1>4. CASE \A b \in queue[Poll] : b.id # id
  BY <1>1, <1>2, <1>4, ProjectedShape, ProjectedShapeNext
<1> QED BY <1>3, <1>4

\* The list of open alerts changes under the ids of a batch, which are told, and
\* under those of silenced services, which are lost.
LEMMA AgreementEvaluate ==
  ASSUME IInv, OnePerId', NEW services \in Replies, PollReturns(services)
  PROVE  Agreement'
<1> USE DEF IInv
<1> DEFINE E == Edges(open, services, silenced)
<1>1. /\ queue[Poll] = {} /\ queue'[Poll] = E
      /\ open' = NextOpen(open, services, silenced)
      /\ standing' = standing
      /\ trust' = [id \in Ids |-> Channel!Handed(id, E, Tracked(silenced))]
  BY EvaluateType DEF PollReturns, Channel!Hand, TypeOK
<1>2. open \in Table
  BY DEF TypeOK, Table
<1> SUFFICES ASSUME NEW id \in Ids, Channel!Trusted(id)'
             PROVE  Channel!Projected(id)' = Listed(open', id)
  BY DEF Agreement, Listed
<1>3. id \notin Tracked(silenced)
  BY <1>1 DEF Channel!Trusted, Channel!Handed
<1>4. CASE \E e \in E : e.id = id
  <2>1. PICK e \in E : e.id = id
    BY <1>4
  <2>2. Listed(open', id) = Tells(e)
    BY <1>1, <1>2, <2>1, EdgesTellAll
  <2> QED BY <1>1, <2>1, <2>2, ProjectedShapeNext
<1>5. CASE \A e \in E : e.id # id
  <2>1. Channel!Trusted(id)
    BY <1>1, <1>3, <1>5 DEF Channel!Trusted, Channel!Handed, Channel!IdsOf
  <2>2. standing[id] = Listed(open, id)
    BY <1>1, <2>1, ProjectedShape DEF Agreement
  <2>3. Listed(Drop(open, silenced), id) = Listed(open, id)
    BY <1>2, <1>3, DropType DEF Tracked
  <2>4. Listed(open', id) = Listed(open, id)
    BY <1>1, <1>2, <1>5, <2>3, EdgesTellAll
  <2> QED BY <1>1, <1>5, <2>2, <2>4, ProjectedShapeNext
<1> QED BY <1>4, <1>5

LEMMA AgreementStep == IInv /\ [Next]_vars => Agreement'
<1> SUFFICES ASSUME IInv, [Next]_vars PROVE Agreement'
  OBVIOUS
<1> USE DEF IInv
<1>0. OnePerId'
  BY ShapeStep
<1>1. CASE Start \/ PollStart \/ PollFails
  BY <1>1, AgreementSame DEF Start, PollStart, PollFails, channelVars
<1>2. CASE Publish
  <2>1. open' = open
    BY <1>2 DEF Publish
  <2>2. PICK a \in queue[Poll] :
          \/ Channel!Deliver(Poll, a)
          \/ Channel!Skip(Poll, a)
          \/ \E reached \in BOOLEAN : Channel!Raise(Poll, a, reached)
    BY <1>2 DEF Publish
  <2>3. CASE Channel!Deliver(Poll, a)
    BY <1>0, <2>1, <2>3, AgreementDeliver
  <2>4. CASE Channel!Skip(Poll, a)
    <3>1. /\ trust' = Channel!Lost({a.id})
          /\ queue'[Poll] = queue[Poll] \ {a}
          /\ standing' = standing
      BY <2>4 DEF Channel!Skip, TypeOK
    <3> QED BY <1>0, <2>1, <3>1, AgreementLoses
  <2>5. CASE \E reached \in BOOLEAN : Channel!Raise(Poll, a, reached)
    <3>1. PICK reached \in BOOLEAN : Channel!Raise(Poll, a, reached)
      BY <2>5
    <3>2. /\ trust' = Channel!Lost(Channel!IdsOf(queue[Poll]))
          /\ queue'[Poll] = {}
          /\ \A id \in Ids \ {a.id} : standing'[id] = standing[id]
      BY <3>1 DEF Channel!Raise, TypeOK
    <3>3. \A b \in queue[Poll] : b.id \in Channel!IdsOf(queue[Poll])
      BY DEF Channel!IdsOf
    <3> QED BY <1>0, <2>1, <3>2, <3>3, AgreementLoses
  <2> QED BY <2>2, <2>3, <2>4, <2>5
<1>3. CASE Crash
  <2>1. /\ trust' = Channel!Lost(Tracked(Services) \cup Channel!IdsOf(Channel!Pending))
        /\ queue'[Poll] = {} /\ standing' = standing
        /\ open' = [s \in Services |-> NoAlert]
    BY <1>3 DEF Crash, Channel!Down
  <2> SUFFICES ASSUME NEW id \in Ids, Channel!Trusted(id)'
               PROVE  Channel!Projected(id)' = Listed(open', id)
    BY DEF Agreement, Listed
  <2>2. /\ id \notin Tracked(Services)
        /\ id \notin Channel!IdsOf(queue[Poll])
        /\ Channel!Trusted(id)
    BY <2>1, PendingIsQueue DEF Channel!Lost, Channel!Trusted, TypeOK
  <2>3. id[1] \in Services
    BY DEF Ids
  <2>4. Listed(open, id) = NoAlert /\ Listed(open', id) = NoAlert
    BY <2>1, <2>2, <2>3 DEF Tracked, Listed
  <2>5. \A a \in queue[Poll] : a.id # id
    BY <2>2 DEF Channel!IdsOf
  <2> QED BY <2>1, <2>2, <2>4, <2>5, ProjectedShape, ProjectedShapeNext DEF Agreement
<1>4. CASE LinkChange
  BY <1>4, AgreementSame DEF LinkChange, Channel!LinkChange
<1>5. ASSUME NEW services \in Replies, PollReturns(services) PROVE Agreement'
  BY <1>0, <1>5, AgreementEvaluate
<1>6. ASSUME NEW n \in Names, NEW saved \in BOOLEAN, AddSilence(n, saved) PROVE Agreement'
  <2>1. CASE UNCHANGED <<file, open, channelVars>>
    BY <2>1, AgreementSame DEF channelVars
  <2>2. CASE open' = Drop(open, {n}) /\ Channel!Forget(Tracked({n}))
    <3>1. \A id \in Ids \ Tracked({n}) : Listed(open', id) = Listed(open, id)
      BY <2>2 DEF Drop, Tracked, Listed, Ids, TypeOK
    <3>2. trust' = Channel!Lost(Tracked({n})) /\ UNCHANGED <<queue, standing>>
      BY <2>2 DEF Channel!Forget
    <3> QED BY <3>1, <3>2, AgreementLost DEF Listed
  <2> QED BY <1>6, <2>1, <2>2 DEF AddSilence
<1>7. ASSUME NEW n \in Names, NEW saved \in BOOLEAN, ClearSilence(n, saved) PROVE Agreement'
  BY <1>7, AgreementSame DEF ClearSilence, channelVars
<1>8. CASE UNCHANGED vars
  BY <1>8, AgreementSame DEF vars, channelVars
<1> QED BY <1>1, <1>2, <1>3, <1>4, <1>5, <1>6, <1>7, <1>8 DEF Next

THEOREM Invariance == Spec => []IInv
<1>1. IInv /\ [Next]_vars => IInv'
  BY TypeStep, ShapeStep, AgreementStep DEF IInv
<1> QED BY InitIInv, <1>1, PTL DEF Spec

\* Every variable keeps its type, for any services, instances and failures.
THEOREM TypeCorrect == Spec => []TypeOK
BY Invariance, PTL DEF IInv

\* Consumer and list_open_alerts agree on every id that no lost alert and no
\* silent drop has set apart, once what is on its way has arrived.
THEOREM AgreementHolds == Spec => []Agreement
BY Invariance, PTL DEF IInv

-----------------------------------------------------------------------------
\* A process that is down tracks nothing and awaits nothing.
DownIsEmpty == ~up => phase = "idle" /\ \A s \in Services : open[s] = NoAlert

LEMMA SilencedStep ==
  TypeOK /\ SilencedNotTracked /\ DownIsEmpty /\ [Next]_vars
    => SilencedNotTracked' /\ DownIsEmpty'
<1> SUFFICES ASSUME TypeOK, SilencedNotTracked, DownIsEmpty, [Next]_vars
             PROVE  SilencedNotTracked' /\ DownIsEmpty'
  OBVIOUS
<1> USE DEF SilencedNotTracked, DownIsEmpty
<1>1. CASE Start
  BY <1>1 DEF Start, TypeOK
<1>2. CASE PollStart \/ PollFails
  BY <1>2 DEF PollStart, PollFails
<1>3. CASE Publish
  BY <1>3 DEF Publish
<1>4. CASE Crash
  BY <1>4 DEF Crash
<1>5. CASE LinkChange
  BY <1>5 DEF LinkChange
<1>6. ASSUME NEW services \in Replies, PollReturns(services)
      PROVE  SilencedNotTracked' /\ DownIsEmpty'
  <2>1. \A s \in Services : s \in silenced => NextOpen(open, services, silenced)[s] = NoAlert
    BY DEF NextOpen, ComputeOpen, Kinds, TypeOK
  <2>2. up
    BY <1>6 DEF PollReturns
  <2> QED BY <1>6, <2>1, <2>2 DEF PollReturns
<1>7. ASSUME NEW n \in Names, NEW saved \in BOOLEAN, AddSilence(n, saved)
      PROVE  SilencedNotTracked' /\ DownIsEmpty'
  BY <1>7 DEF AddSilence, Drop, TypeOK
<1>8. ASSUME NEW n \in Names, NEW saved \in BOOLEAN, ClearSilence(n, saved)
      PROVE  SilencedNotTracked' /\ DownIsEmpty'
  BY <1>8 DEF ClearSilence
<1>9. CASE UNCHANGED vars
  BY <1>9 DEF vars
<1> QED
  BY <1>1, <1>2, <1>3, <1>4, <1>5, <1>6, <1>7, <1>8, <1>9 DEF Next

\* A silenced service has no open alert, whichever await of the poll the silence
\* came in, until an add_silence whose save raised.
THEOREM SilencedNotTrackedHolds == Spec => []SilencedNotTracked
<1>1. Init => SilencedNotTracked /\ DownIsEmpty
  BY DEF Init, SilencedNotTracked, DownIsEmpty
<1> QED BY <1>1, SilencedStep, TypeCorrect, PTL DEF Spec

-----------------------------------------------------------------------------
\* No service has two conditions standing, and recovers leave before opens.
Ranked == \A a \in queue[Poll] : a.rank = Rank(a.id[1], a.resolution)

LEMMA RankedStep == IInv /\ Ranked /\ [Next]_vars => Ranked'
<1> SUFFICES ASSUME IInv, Ranked, [Next]_vars PROVE Ranked'
  OBVIOUS
<1>1. ASSUME NEW services, PollReturns(services) PROVE Ranked'
  <2>1. queue'[Poll] = Edges(open, services, silenced)
    BY <1>1 DEF PollReturns, Channel!Hand, IInv, TypeOK
  <2> QED BY <2>1, EdgeRank DEF Ranked
<1>2. CASE queue'[Poll] \subseteq queue[Poll]
  BY <1>2 DEF Ranked
<1>3. CASE Publish
  BY <1>2, <1>3 DEF Publish, Channel!Deliver, Channel!Skip, Channel!Raise, IInv, TypeOK
<1> QED BY <1>1, <1>2, <1>3
        DEF Next, vars, channelVars, Start, PollStart, PollFails, Crash, LinkChange,
            AddSilence, ClearSilence, Channel!Forget, Channel!Down, Channel!LinkChange

\* When the open alert of one condition arrives, nothing of the other one stands:
\* the table has one condition per service, and the recover has left before.
LEMMA OpenArrivesAlone ==
  ASSUME IInv, Ranked, NEW a \in queue[Poll], Channel!IsNext(Poll, a), a.resolution = "open",
         Channel!Trusted(a.id), NEW id \in Ids, id # a.id, id[1] = a.id[1],
         Channel!Trusted(id)
  PROVE  standing[id] = NoAlert
<1>1. a \in Alert /\ a.id \in Ids /\ a # NoAlert
  BY NoAlertAssumption DEF IInv, TypeOK, Alert
<1>2. Listed(open, a.id) = a
  BY <1>1, ProjectedShape DEF IInv, Agreement, Tells
<1>3. Listed(open, id) = NoAlert
  BY <1>1, <1>2 DEF Listed
<1>4. Channel!Projected(id) = NoAlert
  BY <1>3 DEF IInv, Agreement
<1>5. ASSUME NEW b \in queue[Poll], b.id = id PROVE FALSE
  <2>1. b \in Alert /\ b # NoAlert
    BY NoAlertAssumption DEF IInv, TypeOK
  <2>2. b.resolution = "recovered"
    BY <1>4, <1>5, <2>1, ProjectedShape DEF IInv, Tells, Alert, Resolutions
  <2>3. id[1] \in Services
    BY DEF Ids
  <2>4. b.rank = Rank(id[1], "recovered") /\ a.rank = Rank(id[1], "open")
    BY <1>5, <2>2 DEF Ranked
  <2>5. a.rank <= b.rank
    BY DEF Channel!IsNext
  <2>6. a.rank \in Int /\ b.rank \in Int
    BY <1>1, <2>1 DEF Alert
  <2> QED BY <2>3, <2>4, <2>5, <2>6, RecoverRanksFirst
<1> QED BY <1>4, <1>5, ProjectedShape DEF IInv

\* No id comes to be shown that was not.
NothingShown ==
  \A id \in Ids : trust'[id] = "agrees" /\ standing'[id] # NoAlert
                    => trust[id] = "agrees" /\ standing[id] # NoAlert

LEMMA DeliverShows ==
  ASSUME IInv, Ranked, OneConditionShown, NEW a \in queue[Poll], Channel!Deliver(Poll, a)
  PROVE  OneConditionShown'
<1>1. /\ a.id \in Ids /\ a.resolution \in {"open", "recovered"}
      /\ Channel!IsNext(Poll, a)
      /\ trust' = Channel!Reached(a.id)
      /\ standing' = [standing EXCEPT ![a.id] = Channel!Effect(a)]
  BY DEF Channel!Deliver, IInv, TypeOK, Alert, Resolutions
<1>2. \A id \in Ids : id # a.id => standing'[id] = standing[id] /\ trust'[id] = trust[id]
  BY <1>1 DEF IInv, TypeOK, Channel!Reached
<1>3. trust'[a.id] = "agrees" => Channel!Trusted(a.id)
  BY <1>1 DEF IInv, TypeOK, Channel!Reached, Channel!Trusted
<1>4. standing'[a.id] = Channel!Effect(a)
  BY <1>1 DEF IInv, TypeOK
<1> SUFFICES ASSUME NEW s \in Services, NEW k \in Kinds, NEW l \in Kinds,
                    trust'[<<s, k>>] = "agrees", trust'[<<s, l>>] = "agrees",
                    standing'[<<s, k>>] # NoAlert, standing'[<<s, l>>] # NoAlert, k # l
             PROVE  FALSE
  BY DEF OneConditionShown
<1>5. <<s, k>> \in Ids /\ <<s, l>> \in Ids /\ <<s, k>> # <<s, l>>
      /\ <<s, k>>[1] = s /\ <<s, l>>[1] = s
  BY DEF Ids
<1>6. ASSUME NEW id \in Ids, id # a.id, id[1] = a.id[1], trust'[id] = "agrees",
             trust'[a.id] = "agrees", standing'[a.id] # NoAlert
      PROVE  standing'[id] = NoAlert
  <2>1. a.resolution = "open"
    BY <1>4, <1>6 DEF Channel!Effect
  <2>2. Channel!Trusted(id)
    BY <1>2, <1>6 DEF Channel!Trusted
  <2> QED BY <1>1, <1>2, <1>3, <1>6, <2>1, <2>2, OpenArrivesAlone
<1>7. CASE a.id = <<s, k>>
  BY <1>5, <1>6, <1>7
<1>8. CASE a.id = <<s, l>>
  BY <1>5, <1>6, <1>8
<1>9. CASE a.id # <<s, k>> /\ a.id # <<s, l>>
  BY <1>2, <1>5, <1>9 DEF OneConditionShown
<1> QED BY <1>7, <1>8, <1>9

LEMMA OneConditionStep == IInv /\ Ranked /\ OneConditionShown /\ [Next]_vars
                            => OneConditionShown'
<1> SUFFICES ASSUME IInv, Ranked, OneConditionShown, [Next]_vars PROVE OneConditionShown'
  OBVIOUS
<1>1. CASE NothingShown
  <2>1. \A s \in Services, k \in Kinds : <<s, k>> \in Ids
    BY DEF Ids
  <2> QED BY <1>1, <2>1 DEF NothingShown, OneConditionShown
<1>2. CASE UNCHANGED <<standing, trust>>
  BY <1>1, <1>2 DEF NothingShown
<1>3. ASSUME NEW ids, standing' = standing, trust' = Channel!Lost(ids) PROVE NothingShown
  BY <1>3 DEF NothingShown, Channel!Lost, IInv, TypeOK
<1>4. ASSUME NEW services \in Replies, PollReturns(services) PROVE NothingShown
  <2>1. /\ standing' = standing
        /\ \A id \in Ids : trust'[id] =
             Channel!Handed(id, Edges(open, services, silenced), Tracked(silenced))
    BY <1>4 DEF PollReturns, Channel!Hand, IInv, TypeOK
  <2> QED BY <2>1 DEF NothingShown, Channel!Handed
<1>5. ASSUME NEW a \in queue[Poll], NEW reached \in BOOLEAN,
             Channel!Raise(Poll, a, reached)
      PROVE  NothingShown
  <2>1. /\ trust' = Channel!Lost(Channel!IdsOf(queue[Poll]))
        /\ \A id \in Ids : id # a.id => standing'[id] = standing[id]
    BY <1>5 DEF Channel!Raise, IInv, TypeOK
  <2>2. a.id \in Channel!IdsOf(queue[Poll])
    BY DEF Channel!IdsOf
  <2> QED BY <2>1, <2>2 DEF NothingShown, Channel!Lost, IInv, TypeOK
<1>6. ASSUME NEW a \in queue[Poll], Channel!Skip(Poll, a) PROVE NothingShown
  BY <1>3, <1>6 DEF Channel!Skip
<1>7. CASE Publish
  BY <1>1, <1>5, <1>6, <1>7, DeliverShows DEF Publish
<1>8. CASE Crash
  BY <1>1, <1>3, <1>8 DEF Crash, Channel!Down
<1>9. ASSUME NEW n \in Names, NEW saved \in BOOLEAN, AddSilence(n, saved)
      PROVE  OneConditionShown'
  BY <1>1, <1>2, <1>3, <1>9 DEF AddSilence, Channel!Forget, channelVars
<1> QED BY <1>1, <1>2, <1>4, <1>7, <1>8, <1>9
        DEF Next, vars, channelVars, Start, PollStart, PollFails, LinkChange, ClearSilence,
            Channel!LinkChange

\* The consumer never shows a service as missing and as short of instances at
\* once, at any point of a batch, for any number of services.
THEOREM OneConditionShownHolds == Spec => []OneConditionShown
<1>1. Init => Ranked /\ OneConditionShown
  BY DEF Init, Channel!Init, Ranked, OneConditionShown, Ids
<1> QED BY <1>1, Invariance, RankedStep, OneConditionStep, PTL DEF Spec

-----------------------------------------------------------------------------
\* The list as the forwarder sees it.
LEMMA ChangesShape ==
  ASSUME open' \in Table, NEW ids,
         \A id \in Ids \ ids : Listed(open, id)' = Listed(open, id)
  PROVE  Forwarder!ChangesOnly(ids)
<1>1. \A id \in Ids : Listed(open, id)' \in Alert \cup {NoAlert}
  <2> SUFFICES ASSUME NEW id \in Ids PROVE Listed(open', id) \in Alert \cup {NoAlert}
    BY DEF Listed
  <2> QED BY ListedType
<1> QED BY <1>1 DEF Forwarder!ChangesOnly

LEMMA SameList ==
  ASSUME UNCHANGED channelVars, \A id \in Ids : Listed(open, id)' = Listed(open, id)
  PROVE  UNCHANGED Forwarder!vars
BY DEF Forwarder!vars, Forwarder!channelVars, channelVars

\* An evaluation hands over a batch that says everything that changes.
LEMMA EvaluateRefines ==
  ASSUME IInv, NEW services \in Replies, PollReturns(services)
  PROVE  Forwarder!Next
<1> DEFINE E == Edges(open, services, silenced)
           dropped == Tracked(silenced)
<1>1. /\ open' = NextOpen(open, services, silenced)
      /\ Channel!Hand(Poll, E, dropped)
      /\ queue'[Poll] = E
  BY DEF PollReturns, Channel!Hand, IInv, TypeOK
<1>2. open \in Table /\ Proper(open) /\ open' \in Table
  BY <1>1, NextOpenShape DEF IInv, TypeOK, Table
<1>3. E \in SUBSET Alert /\ \A a \in E : a.id \in Ids
  BY <1>2, EdgeShape DEF Alert
<1>4. \A a, b \in E : a.id = b.id => a = b
  BY <1>2, OneEdgePerId
<1>5. \A a \in E : Listed(open, a.id)' = Forwarder!Channel!Effect(a)
  <2> SUFFICES ASSUME NEW a \in E PROVE Listed(open', a.id) = Forwarder!Channel!Effect(a)
    BY DEF Listed
  <2> QED BY <1>1, <1>2, <1>3, EdgesTellAll DEF Tells, Forwarder!Channel!Effect
<1>6. ASSUME NEW id \in Ids, id \notin dropped, \A a \in E : a.id # id
      PROVE  Listed(open, id)' = Listed(open, id)
  <2>1. Listed(open', id) = Listed(Drop(open, silenced), id)
    BY <1>1, <1>2, <1>6, EdgesTellAll
  <2>2. Listed(Drop(open, silenced), id) = Listed(open, id)
    BY <1>2, <1>6, DropType DEF Tracked
  <2> QED BY <2>1, <2>2 DEF Listed
<1> HIDE DEF E
<1>7. Forwarder!ChangesOnly(Forwarder!Channel!IdsOf(E) \cup dropped)
  BY <1>2, <1>6, ChangesShape DEF Forwarder!Channel!IdsOf
<1>8. Forwarder!Channel!Hand(Poll, E, dropped)
  BY <1>1 DEF Channel!Hand, Forwarder!Channel!Hand, Channel!Idle, Forwarder!Channel!Idle,
              Channel!Handed, Forwarder!Channel!Handed, Channel!IdsOf,
              Forwarder!Channel!IdsOf, Channel!Pending, Forwarder!Channel!Pending
<1>9. Forwarder!Judge(Poll, E, dropped)
  BY <1>3, <1>4, <1>5, <1>7, <1>8 DEF Forwarder!Judge
<1>10. dropped \in SUBSET Ids
  BY DEF Tracked
<1> QED BY <1>1, <1>3, <1>9, <1>10 DEF Forwarder!Next

LEMMA PublishRefines == Publish => Forwarder!Next
<1> SUFFICES ASSUME Publish PROVE Forwarder!Next
  OBVIOUS
<1>1. PICK a \in queue[Poll] :
        Channel!Deliver(Poll, a) \/ Channel!Skip(Poll, a) \/
          \E reached \in BOOLEAN : Channel!Raise(Poll, a, reached)
  BY DEF Publish
<1>2. UNCHANGED [id \in Ids |-> Listed(open, id)]
  BY DEF Publish, Listed
<1>3. \/ Forwarder!Channel!Deliver(Poll, a)
      \/ Forwarder!Channel!Skip(Poll, a)
      \/ \E reached \in BOOLEAN : Forwarder!Channel!Raise(Poll, a, reached)
  BY <1>1 DEF Channel!Deliver, Channel!Skip, Channel!Raise, Channel!IsNext, Channel!OtherTurn,
              Channel!Effect, Channel!Reached, Channel!Lost, Channel!IdsOf,
              Forwarder!Channel!Deliver, Forwarder!Channel!Skip, Forwarder!Channel!Raise,
              Forwarder!Channel!IsNext, Forwarder!Channel!OtherTurn,
              Forwarder!Channel!Effect, Forwarder!Channel!Reached,
              Forwarder!Channel!Lost, Forwarder!Channel!IdsOf
<1>4. Forwarder!Publish(Poll, a)
  BY <1>2, <1>3 DEF Forwarder!Publish
<1> QED BY <1>4 DEF Forwarder!Next

LEMMA StepRefines == IInv /\ [Next]_vars => [Forwarder!Next]_(Forwarder!vars)
<1> SUFFICES ASSUME IInv, [Next]_vars PROVE Forwarder!Next \/ UNCHANGED Forwarder!vars
  OBVIOUS
<1>0. open \in Table
  BY DEF IInv, TypeOK, Table
<1>1. CASE UNCHANGED <<open, channelVars>>
  BY <1>1, SameList DEF Listed
<1>2. CASE Publish
  BY <1>2, PublishRefines
<1>3. ASSUME NEW services \in Replies, PollReturns(services) PROVE Forwarder!Next
  BY <1>3, EvaluateRefines
<1>4. CASE Crash
  <2> DEFINE ids == Tracked(Services)
  <2>1. open' \in Table /\ ids \in SUBSET Ids
    BY <1>4 DEF Crash, Table, Tracked
  <2>2. \A id \in Ids \ ids : Listed(open, id)' = Listed(open, id)
    BY <1>4 DEF Crash, Listed, Tracked, Ids
  <2>3. Forwarder!ChangesOnly(ids)
    BY <2>1, <2>2, ChangesShape
  <2>4. Forwarder!Channel!Down(ids)
    BY <1>4 DEF Crash, Channel!Down, Forwarder!Channel!Down, Channel!Lost,
                Forwarder!Channel!Lost, Channel!IdsOf, Forwarder!Channel!IdsOf,
                Channel!Pending, Forwarder!Channel!Pending
  <2> HIDE DEF ids
  <2> QED BY <2>1, <2>3, <2>4 DEF Forwarder!Next, Forwarder!Down
<1>5. CASE LinkChange
  <2>1. Forwarder!LinkChange
    BY <1>5 DEF LinkChange, Channel!LinkChange, Forwarder!LinkChange,
                Forwarder!Channel!LinkChange, Listed
  <2> QED BY <2>1 DEF Forwarder!Next
<1>6. ASSUME NEW n, open' = Drop(open, {n}), Channel!Forget(Tracked({n}))
      PROVE  Forwarder!Next
  <2>1. open' \in Table /\ Tracked({n}) \in SUBSET Ids
    BY <1>0, <1>6 DEF Drop, Table, Tracked
  <2>2. \A id \in Ids \ Tracked({n}) : Listed(open, id)' = Listed(open, id)
    BY <1>6 DEF Drop, Tracked, Listed, Ids
  <2>3. Forwarder!ChangesOnly(Tracked({n}))
    BY <2>1, <2>2, ChangesShape
  <2>4. Forwarder!Channel!Forget(Tracked({n}))
    BY <1>6 DEF Channel!Forget, Forwarder!Channel!Forget, Channel!Lost,
                Forwarder!Channel!Lost
  <2> QED BY <2>1, <2>3, <2>4 DEF Forwarder!Next, Forwarder!Drop
<1> QED BY <1>1, <1>2, <1>3, <1>4, <1>5, <1>6
        DEF Next, vars, Start, PollStart, PollFails, AddSilence, ClearSilence

\* Tracker and poll task of the fleet half keep the promise of AlertForwarder.
THEOREM Refinement == Spec => ImplementsForwarder
<1>1. Init => Forwarder!Init
  BY DEF Init, Forwarder!Init, Channel!Init, Forwarder!Channel!Init, Listed, Ids
<1> QED BY <1>1, Invariance, StepRefines, PTL
        DEF Spec, ImplementsForwarder, Forwarder!Spec
-----------------------------------------------------------------------------
\* A publish that does not raise takes one alert from the batch.
LEMMA OneLeaves ==
  ASSUME TypeOK, [Next]_vars, "raise" \notin Failures, "crash" \notin Failures,
         NEW a \in queue[Poll], NEW b \in queue[Poll],
         a \notin queue'[Poll], b \notin queue'[Poll]
  PROVE  a = b
<1>1. CASE Publish
  <2>1. PICK c \in queue[Poll] : Channel!Deliver(Poll, c) \/ Channel!Skip(Poll, c)
    BY <1>1 DEF Publish
  <2> QED BY <2>1 DEF Channel!Deliver, Channel!Skip, TypeOK
<1>2. ASSUME NEW services, PollReturns(services) PROVE FALSE
  BY <1>2 DEF PollReturns, Channel!Hand, Channel!Idle
<1>3. CASE UNCHANGED queue
  BY <1>3
<1> QED BY <1>1, <1>2, <1>3
        DEF Next, vars, channelVars, Start, PollStart, PollFails, Crash, LinkChange,
            AddSilence, ClearSilence, Channel!Forget, Channel!LinkChange

\* What README's "Each edge is published once" takes: where no publish raises and
\* no process dies, no alert leaves its batch unattempted, disconnects and failed
\* saves or polls included.  MCFleetMonitorRaise shows that one raise is enough
\* to break it: the loop is the only place that loses an edge unattempted.
THEOREM AttemptedUnlessRaised ==
  ASSUME Failures \cap {"raise", "crash"} = {}
  PROVE  Spec => EachEdgeIsAttempted
<1>1. TypeOK /\ [Next]_vars
        => [\A a, b \in queue[Poll] : {a, b} \cap queue'[Poll] = {} => a = b]_vars
  <2> SUFFICES ASSUME TypeOK, [Next]_vars, NEW a \in queue[Poll], NEW b \in queue[Poll],
                      {a, b} \cap queue'[Poll] = {}
               PROVE  a = b
    OBVIOUS
  <2> QED BY OneLeaves
<1> QED BY <1>1, TypeCorrect, PTL DEF Spec, EachEdgeIsAttempted

-----------------------------------------------------------------------------
\* No silence is added for the service s.
NotSilencing(s) == [][\A saved \in BOOLEAN : ~AddSilence(s, saved)]_vars

\* What is then true of s throughout: a restart does not silence it either.
Undisturbed(s) == /\ s \notin silenced
                  /\ s \notin file
                  /\ link
                  /\ \A k \in Kinds : trust[<<s, k>>] = "agrees"

LEMMA UndisturbedStep ==
  ASSUME Failures \subseteq {"save"}, NEW s \in Services,
         IInv, Undisturbed(s), [Next]_vars,
         \A saved \in BOOLEAN : ~AddSilence(s, saved)
  PROVE  Undisturbed(s)'
<1>0. \A k \in Kinds : <<s, k>> \in Ids /\ <<s, k>>[1] = s
  BY DEF Ids
<1> USE DEF Undisturbed
<1>1. CASE Start
  BY <1>1 DEF Start, channelVars
<1>2. CASE PollStart \/ PollFails
  BY <1>2 DEF PollStart, PollFails, channelVars
<1>3. CASE Publish
  <2>1. PICK a \in queue[Poll] : Channel!Deliver(Poll, a)
    BY <1>3 DEF Publish, Channel!Skip
  <2>2. UNCHANGED <<silenced, file, link>>
    BY <1>3, <2>1 DEF Publish, Channel!Deliver
  <2>3. \A k \in Kinds : trust'[<<s, k>>] = "agrees"
    BY <1>0, <2>1 DEF Channel!Deliver, Channel!Reached, IInv, TypeOK
  <2> QED BY <2>2, <2>3
<1>4. ASSUME NEW services \in Replies, PollReturns(services) PROVE Undisturbed(s)'
  <2>1. UNCHANGED <<silenced, file, link>>
    BY <1>4 DEF PollReturns, Channel!Hand
  <2>2. \A id \in Ids : trust'[id] =
          Channel!Handed(id, Edges(open, services, silenced), Tracked(silenced))
    BY <1>4 DEF PollReturns, Channel!Hand, IInv, TypeOK
  <2>3. Channel!Pending = {}
    BY <1>4, PendingIsQueue DEF PollReturns, Channel!Hand, Channel!Idle
  <2>4. \A k \in Kinds : <<s, k>> \notin Tracked(silenced)
    BY DEF Tracked
  <2>5. \A k \in Kinds : trust'[<<s, k>>] = "agrees"
    BY <1>0, <2>2, <2>3, <2>4 DEF Channel!Handed, Channel!IdsOf
  <2> QED BY <2>1, <2>5
<1>5. ASSUME NEW n \in Names, NEW saved \in BOOLEAN, AddSilence(n, saved)
      PROVE  Undisturbed(s)'
  <2>1. n # s
    BY <1>5
  <2>2. s \notin silenced' /\ s \notin file' /\ link'
    BY <1>5, <2>1 DEF AddSilence, Channel!Forget, channelVars
  <2>3. \A k \in Kinds : trust'[<<s, k>>] = "agrees"
    BY <1>0, <1>5, <2>1
       DEF AddSilence, Channel!Forget, Channel!Lost, channelVars, Tracked, IInv, TypeOK
  <2> QED BY <2>2, <2>3
<1>6. ASSUME NEW n \in Names, NEW saved \in BOOLEAN, ClearSilence(n, saved)
      PROVE  Undisturbed(s)'
  BY <1>6 DEF ClearSilence, channelVars
<1>7. CASE UNCHANGED vars
  BY <1>7 DEF vars, channelVars
<1> QED BY <1>1, <1>2, <1>3, <1>4, <1>5, <1>6, <1>7 DEF Next, Crash, LinkChange

\* That ids are set apart is the failures' and the silences' doing, and of nothing
\* else: where no link breaks, no publish raises and the process lives, whatever
\* polls fail and whatever else is silenced, what the consumer will hold of a
\* service that nobody silences is at every moment what list_open_alerts shows.
THEOREM UndisturbedAgrees ==
  ASSUME Failures \subseteq {"save"}, NEW s \in Services
  PROVE  Spec /\ s \notin file /\ NotSilencing(s)
           => [](\A k \in Kinds : Channel!Projected(<<s, k>>) = Listed(open, <<s, k>>))
<1>1. Init /\ s \notin file => Undisturbed(s)
  BY DEF Init, Channel!Init, Undisturbed, Ids
<1>2. IInv /\ Undisturbed(s) /\ [Next]_vars
        /\ [\A saved \in BOOLEAN : ~AddSilence(s, saved)]_vars => Undisturbed(s)'
  <2>1. CASE UNCHANGED vars
    BY <2>1 DEF vars, channelVars, Undisturbed
  <2> QED BY <2>1, UndisturbedStep
<1>3. IInv /\ Undisturbed(s)
        => \A k \in Kinds : Channel!Projected(<<s, k>>) = Listed(open, <<s, k>>)
  BY DEF IInv, Agreement, Undisturbed, Channel!Trusted, Ids
<1> QED BY <1>1, <1>2, <1>3, Invariance, PTL DEF Spec, NotSilencing

-----------------------------------------------------------------------------
LEMMA TableOfTheReply ==
  ASSUME NEW table \in Table, Proper(table), NEW services \in Replies, NEW names,
         NEW s \in Services, NEW k \in Kinds
  PROVE  Listed(NextOpen(table, services, names), <<s, k>>) # NoAlert
           <=> s \notin names /\ Condition(s, services[s]) = k
<1>1. Facts!Proper(table) /\ table \in Facts!Table /\ services \in Facts!Replies /\ k \in Facts!Kinds
  BY SameTypes, SameJudgment DEF Kinds, Facts!Kinds
<1>2. Facts!Listed(Facts!NextOpen(table, services, names), <<s, k>>) # NoAlert
        <=> s \notin names /\ Facts!Condition(s, services[s]) = k
  BY FactsAssumptions, <1>1, Facts!TableOfTheReply
<1>3. Facts!Condition(s, services[s]) = Condition(s, services[s])
  BY SameCardinality DEF Facts!Condition, Condition, Facts!Registered, Registered,
     Facts!ActiveCount, ActiveCount
<1>4. \A t : Facts!Listed(t, <<s, k>>) = Listed(t, <<s, k>>)
  BY DEF Facts!Listed, Listed
<1> QED BY <1>2, <1>3, <1>4, SameJudgment

\* One answer of the registry is enough.  The step that evaluates it lists exactly
\* the conditions of that answer, for the silences of that moment, and with what it
\* hands over the consumer will hold the same of every id that is not lost: neither
\* earlier answers and batches nor what happened while the answer was awaited
\* matter.  An id is still lost only where the answer changes nothing about it, or
\* its service is silenced.  It is what ConditionReachesConsumer and
\* RecoveryReachesConsumer need besides fairness.
AnswerTells(services, s, k) ==
  LET holds == s \notin silenced /\ Condition(s, services[s]) = k
  IN  /\ Listed(open', <<s, k>>) # NoAlert <=> holds
      /\ \/ trust'[<<s, k>>] = "lost"
         \/ Channel!Projected(<<s, k>>)' # NoAlert <=> holds
      /\ \/ trust'[<<s, k>>] # "lost"
         \/ s \in silenced
         \/ Listed(open', <<s, k>>) = Listed(open, <<s, k>>)

OneAnswerTells ==
  [][\A services \in Replies : PollReturns(services) =>
       \A s \in Services, k \in Kinds : AnswerTells(services, s, k)]_vars

\* One publisher races with nobody.
NotRaced == \A id \in Ids : trust[id] # "raced"

LEMMA NotRacedStep == IInv /\ NotRaced /\ [Next]_vars => NotRaced'
<1> SUFFICES ASSUME IInv, NotRaced, [Next]_vars PROVE NotRaced'
  OBVIOUS
<1>0. trust \in [Ids -> Channel!Trust]
  BY DEF IInv, TypeOK
<1>1. CASE UNCHANGED trust
  BY <1>1 DEF NotRaced
<1>2. ASSUME NEW ids, trust' = Channel!Lost(ids) PROVE NotRaced'
  BY <1>0, <1>2 DEF NotRaced, Channel!Lost
<1>3. ASSUME NEW a \in queue[Poll], trust' = Channel!Reached(a.id) PROVE NotRaced'
  BY <1>0, <1>3 DEF NotRaced, Channel!Reached
<1>4. ASSUME NEW services \in Replies, PollReturns(services) PROVE NotRaced'
  <2>1. Channel!Pending = {}
    BY <1>4, PendingIsQueue DEF PollReturns, Channel!Hand, Channel!Idle
  <2>2. \A id \in Ids : trust'[id] =
          Channel!Handed(id, Edges(open, services, silenced), Tracked(silenced))
    BY <1>0, <1>4 DEF PollReturns, Channel!Hand
  <2> QED BY <2>1, <2>2 DEF NotRaced, Channel!Handed, Channel!IdsOf
<1>5. CASE Publish
  BY <1>2, <1>3, <1>5 DEF Publish, Channel!Deliver, Channel!Skip, Channel!Raise
<1>6. CASE Crash
  BY <1>2, <1>6 DEF Crash, Channel!Down
<1>7. ASSUME NEW n \in Names, NEW saved \in BOOLEAN, AddSilence(n, saved) PROVE NotRaced'
  BY <1>1, <1>2, <1>7 DEF AddSilence, Channel!Forget, channelVars
<1> QED BY <1>1, <1>4, <1>5, <1>6, <1>7
        DEF Next, vars, channelVars, Start, PollStart, PollFails, ClearSilence, LinkChange,
            Channel!LinkChange

\* An id that is lost after an answer was evaluated had no edge in it.
LEMMA LostStays ==
  ASSUME IInv, NEW services \in Replies, PollReturns(services), NEW s \in Services,
         NEW k \in Kinds, trust'[<<s, k>>] = "lost", s \notin silenced
  PROVE  Listed(open', <<s, k>>) = Listed(open, <<s, k>>)
<1> DEFINE id == <<s, k>>
           E == Edges(open, services, silenced)
<1>1. /\ id \in Ids /\ open \in Table /\ Proper(open) /\ trust \in [Ids -> Channel!Trust]
      /\ open' = NextOpen(open, services, silenced)
  BY DEF IInv, TypeOK, Table, Ids, PollReturns
<1>2. Channel!Pending = {} /\ trust'[id] = Channel!Handed(id, E, Tracked(silenced))
  BY <1>1, PendingIsQueue DEF PollReturns, Channel!Hand, Channel!Idle
<1>3. id \notin Tracked(silenced)
  BY DEF Tracked
<1>4. \A e \in E : e.id # id
  BY <1>2, <1>3 DEF Channel!Handed, Channel!IdsOf
<1>5. Listed(open', id) = Listed(Drop(open, silenced), id)
  BY <1>1, <1>4, EdgesTellAll
<1> QED BY <1>5 DEF Listed, Drop

\* One answer sets the table right and all that is not lost at the consumer, for
\* any services and after any history, and finds every lost id it changes.
THEOREM OneAnswerIsEnough == Spec => OneAnswerTells
<1>1. Init => NotRaced
  BY DEF Init, Channel!Init, NotRaced
<1>2. IInv /\ IInv' /\ NotRaced'
        => [\A services \in Replies : PollReturns(services) =>
              \A s \in Services, k \in Kinds : AnswerTells(services, s, k)]_vars
  <2> SUFFICES ASSUME IInv, IInv', NotRaced', NEW services \in Replies, PollReturns(services),
                      NEW s \in Services, NEW k \in Kinds
               PROVE  AnswerTells(services, s, k)
    OBVIOUS
  <2>1. open' = NextOpen(open, services, silenced) /\ open \in Table /\ Proper(open)
    BY DEF PollReturns, IInv, TypeOK, Table
  <2>2. Listed(open', <<s, k>>) # NoAlert
          <=> s \notin silenced /\ Condition(s, services[s]) = k
    BY <2>1, TableOfTheReply
  <2>3. <<s, k>> \in Ids
    BY DEF Ids
  <2>4. trust'[<<s, k>>] # "lost" => Channel!Trusted(<<s, k>>)'
    BY <2>3 DEF IInv, TypeOK, NotRaced, Channel!Trust, Channel!Trusted
  <2>5. Channel!Trusted(<<s, k>>)' => Channel!Projected(<<s, k>>)' = Listed(open', <<s, k>>)
    BY <2>3 DEF IInv, Agreement
  <2> QED BY <2>2, <2>4, <2>5, LostStays DEF AnswerTells
<1> QED BY <1>1, <1>2, NotRacedStep, Invariance, PTL DEF Spec, OneAnswerTells
=============================================================================
