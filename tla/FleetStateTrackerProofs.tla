----------------------- MODULE FleetStateTrackerProofs -----------------------
(* The fleet tracker, for every set of services and instances: how the edges  *)
(* of an evaluation relate the table before it to the table after it; quiet   *)
(* repeats, and the promise of AlertFeed.                                     *)
EXTENDS FleetStateTracker, FiniteSetTheorems, TLAPS

\* A table as the tracker keeps it: under a service an open alert of that service.
Table == [Services -> Alert \cup {NoAlert}]
Proper(table) == \A s \in Services :
                  table[s] # NoAlert => table[s].id[1] = s /\ table[s].resolution = "open"

\* What an edge says is listed under its id from now on.
Tells(e) == IF e.resolution = "open" THEN e ELSE NoAlert

LEMMA ActiveCountType ==
  ASSUME NEW snapshot \in Snapshot
  PROVE  ActiveCount(snapshot) \in 0..Cardinality(Instances)
<1> DEFINE active == {i \in Instances : snapshot[i] = "active"}
<1>1. IsFiniteSet(Instances) /\ active \subseteq Instances
  BY FleetAssumption
<1>2. /\ IsFiniteSet(active)
      /\ Cardinality(active) <= Cardinality(Instances)
  BY <1>1, FS_Subset
<1>3. Cardinality(active) \in Nat /\ Cardinality(Instances) \in Nat
  BY <1>1, <1>2, FS_CardinalityType
<1> QED BY <1>2, <1>3 DEF ActiveCount

LEMMA BuildAlertType ==
  ASSUME NEW s \in Services, NEW kind \in Kinds, NEW services \in Replies,
         NEW resolution \in Resolutions
  PROVE  /\ BuildAlert(s, kind, services, resolution) \in Alert
         /\ BuildAlert(s, kind, services, resolution) # NoAlert
         /\ BuildAlert(s, kind, services, resolution).id = <<s, kind>>
         /\ BuildAlert(s, kind, services, resolution).resolution = resolution
<1>1. Cardinality(Services) \in Nat
  BY FleetAssumption, FS_CardinalityType
<1>2. Rank(s, resolution) \in 1..(2 * Cardinality(Services))
  BY <1>1, FleetAssumption DEF Rank
<1>3. ActiveCount(services[s]) \in 0..Cardinality(Instances)
  BY ActiveCountType DEF Replies
<1>4. <<s, kind>> \in Ids
  BY DEF Ids
<1>5. BuildAlert(s, kind, services, resolution) \in Alert
  BY <1>2, <1>3, <1>4 DEF BuildAlert, Alert
<1> QED BY <1>5, NoAlertAssumption DEF BuildAlert

LEMMA DropType ==
  ASSUME NEW table \in Table, NEW names, Proper(table)
  PROVE  /\ Drop(table, names) \in Table
         /\ Proper(Drop(table, names))
         /\ \A id \in Ids : Listed(Drop(table, names), id) =
              IF id[1] \in names THEN NoAlert ELSE Listed(table, id)
BY DEF Drop, Table, Proper, Listed, Ids

\* What evaluate returns, seen from one id: a recovered edge exactly when the id
\* is listed and its condition is over, an open one exactly when it is new.
LEMMA EdgeShape ==
  ASSUME NEW table \in Table, NEW services \in Replies, NEW names,
         NEW e \in Edges(table, services, names)
  PROVE  /\ e \in Alert
         /\ e.id \in Ids
         /\ e = BuildAlert(e.id[1], e.id[2], services, e.resolution)
         /\ \/ /\ e.resolution = "recovered"
               /\ Listed(Drop(table, names), e.id) # NoAlert
               /\ ComputeOpen(services, names)[e.id[1]] # e.id[2]
            \/ /\ e.resolution = "open"
               /\ Listed(Drop(table, names), e.id) = NoAlert
               /\ ComputeOpen(services, names)[e.id[1]] = e.id[2]
<1> DEFINE kept == Drop(table, names)
           current == ComputeOpen(services, names)
<1>1. CASE e \in Recovers(kept, services, current)
  <2>1. PICK id \in Ids : /\ Listed(kept, id) # NoAlert
                          /\ current[id[1]] # id[2]
                          /\ e = BuildAlert(id[1], id[2], services, "recovered")
    BY <1>1 DEF Recovers
  <2>2. id[1] \in Services /\ id[2] \in Kinds /\ id = <<id[1], id[2]>>
    BY DEF Ids
  <2>3. e \in Alert /\ e.id = id /\ e.resolution = "recovered"
    BY <2>1, <2>2, BuildAlertType DEF Resolutions
  <2> QED BY <2>1, <2>3
<1>2. CASE e \in Opens(kept, services, current)
  <2>1. PICK id \in Ids : /\ Listed(kept, id) = NoAlert
                          /\ current[id[1]] = id[2]
                          /\ e = BuildAlert(id[1], id[2], services, "open")
    BY <1>2 DEF Opens
  <2>2. id[1] \in Services /\ id[2] \in Kinds /\ id = <<id[1], id[2]>>
    BY DEF Ids
  <2>3. e \in Alert /\ e.id = id /\ e.resolution = "open"
    BY <2>1, <2>2, BuildAlertType DEF Resolutions
  <2> QED BY <2>1, <2>3
<1> QED BY <1>1, <1>2 DEF Edges

\* One evaluation returns at most one edge per id.
LEMMA OneEdgePerId ==
  ASSUME NEW table \in Table, NEW services \in Replies, NEW names,
         NEW e \in Edges(table, services, names),
         NEW f \in Edges(table, services, names), e.id = f.id
  PROVE  e = f
BY EdgeShape

\* The table after an evaluation, seen from one id.
LEMMA NextOpenShape ==
  ASSUME NEW table \in Table, Proper(table), NEW services \in Replies, NEW names
  PROVE  /\ NextOpen(table, services, names) \in Table
         /\ Proper(NextOpen(table, services, names))
         /\ \A id \in Ids :
              Listed(NextOpen(table, services, names), id) =
                IF ComputeOpen(services, names)[id[1]] # id[2] THEN NoAlert
                ELSE IF Listed(Drop(table, names), id) # NoAlert
                     THEN Listed(Drop(table, names), id)
                     ELSE BuildAlert(id[1], id[2], services, "open")
<1> DEFINE kept == Drop(table, names)
           current == ComputeOpen(services, names)
           next == NextOpen(table, services, names)
<1>0. kept \in Table /\ Proper(kept)
  BY DropType
<1>1. ASSUME NEW s \in Services
      PROVE  /\ next[s] \in Alert \cup {NoAlert}
             /\ next[s] # NoAlert => /\ current[s] \in Kinds
                                     /\ next[s].id = <<s, current[s]>>
                                     /\ next[s].resolution = "open"
             /\ current[s] \in Kinds =>
                  next[s] = IF Listed(kept, <<s, current[s]>>) # NoAlert
                            THEN Listed(kept, <<s, current[s]>>)
                            ELSE BuildAlert(s, current[s], services, "open")
  <2>1. CASE current[s] \notin Kinds
    BY <2>1 DEF NextOpen
  <2>2. CASE current[s] \in Kinds /\ Listed(kept, <<s, current[s]>>) # NoAlert
    <3>1. next[s] = kept[s]
      BY <2>2 DEF NextOpen
    <3>2. Listed(kept, <<s, current[s]>>) = kept[s] /\ kept[s].id = <<s, current[s]>>
      BY <2>2 DEF Listed
    <3> QED BY <2>2, <3>1, <3>2, <1>0 DEF Table, Proper
  <2>3. CASE current[s] \in Kinds /\ Listed(kept, <<s, current[s]>>) = NoAlert
    <3>1. next[s] = BuildAlert(s, current[s], services, "open")
      BY <2>3 DEF NextOpen
    <3> QED BY <2>3, <3>1, BuildAlertType DEF Resolutions
  <2> QED BY <2>1, <2>2, <2>3
<1>2. next \in Table
  BY <1>1 DEF NextOpen, Table
<1> HIDE DEF kept, current, next
<1>3. Proper(next)
  <2>1. ASSUME NEW s \in Services, next[s] # NoAlert
        PROVE  next[s].id[1] = s /\ next[s].resolution = "open"
    <3>1. next[s].id = <<s, current[s]>> /\ next[s].resolution = "open"
      BY <2>1, <1>1
    <3>2. <<s, current[s]>>[1] = s
      OBVIOUS
    <3> QED BY ONLY <3>1, <3>2
  <2> QED BY <2>1 DEF Proper
<1>4. ASSUME NEW id \in Ids
      PROVE  Listed(next, id) = IF current[id[1]] # id[2] THEN NoAlert
                                ELSE IF Listed(kept, id) # NoAlert THEN Listed(kept, id)
                                ELSE BuildAlert(id[1], id[2], services, "open")
  <2>1. id[1] \in Services /\ id[2] \in Kinds /\ id = <<id[1], id[2]>>
    BY DEF Ids
  <2>2. CASE current[id[1]] # id[2]
    <3>1. next[id[1]] # NoAlert => next[id[1]].id = <<id[1], current[id[1]]>>
      BY <1>1, <2>1
    <3>2. <<id[1], current[id[1]]>> # <<id[1], id[2]>>
      BY <2>2
    <3>3. next[id[1]] = NoAlert \/ next[id[1]].id # id
      BY <3>1, <3>2, <2>1
    <3> QED BY <2>2, <3>3 DEF Listed
  <2>3. CASE current[id[1]] = id[2]
    <3>1. next[id[1]] = IF Listed(kept, id) # NoAlert THEN Listed(kept, id)
                        ELSE BuildAlert(id[1], id[2], services, "open")
      BY <1>1, <2>1, <2>3
    <3>2. next[id[1]] # NoAlert /\ next[id[1]].id = id
      BY <3>1, <1>1, <2>1, <2>3, BuildAlertType DEF Resolutions
    <3> QED BY <2>3, <3>1, <3>2 DEF Listed
  <2> QED BY <2>2, <2>3
<1> QED BY <1>2, <1>3, <1>4 DEF kept, current, next

\* The edges of an evaluation say everything that changed in the list of open
\* alerts, except for what was dropped for a silence.
LEMMA EdgesTellAll ==
  ASSUME NEW table \in Table, Proper(table), NEW services \in Replies, NEW names,
         NEW id \in Ids
  PROVE  LET E == Edges(table, services, names)
             next == NextOpen(table, services, names)
         IN  /\ \A e \in E : e.id = id => Listed(next, id) = Tells(e)
             /\ (\A e \in E : e.id # id) =>
                  Listed(next, id) = Listed(Drop(table, names), id)
<1> DEFINE kept == Drop(table, names)
           current == ComputeOpen(services, names)
           next == NextOpen(table, services, names)
           E == Edges(table, services, names)
<1>1. ASSUME NEW e \in E, e.id = id PROVE Listed(next, id) = Tells(e)
  BY <1>1, EdgeShape, NextOpenShape DEF Tells
<1>2. ASSUME \A e \in E : e.id # id PROVE Listed(next, id) = Listed(kept, id)
  <2>0. id[1] \in Services /\ id[2] \in Kinds /\ id = <<id[1], id[2]>>
    BY DEF Ids
  <2>1. ~(Listed(kept, id) # NoAlert /\ current[id[1]] # id[2])
    <3> SUFFICES ASSUME Listed(kept, id) # NoAlert, current[id[1]] # id[2] PROVE FALSE
      OBVIOUS
    <3> DEFINE e == BuildAlert(id[1], id[2], services, "recovered")
    <3>1. e \in E
      BY DEF Edges, Recovers
    <3>2. e.id = id
      BY <2>0, BuildAlertType DEF Resolutions
    <3> QED BY <3>1, <3>2, <1>2
  <2>2. ~(Listed(kept, id) = NoAlert /\ current[id[1]] = id[2])
    <3> SUFFICES ASSUME Listed(kept, id) = NoAlert, current[id[1]] = id[2] PROVE FALSE
      OBVIOUS
    <3> DEFINE e == BuildAlert(id[1], id[2], services, "open")
    <3>1. e \in E
      BY DEF Edges, Opens
    <3>2. e.id = id
      BY <2>0, BuildAlertType DEF Resolutions
    <3> QED BY <3>1, <3>2, <1>2
  <2> QED BY <2>1, <2>2, NextOpenShape
<1> QED BY <1>1, <1>2

\* After an evaluation an alert is listed exactly for the conditions of the reply
\* it was given, silenced services left out, whatever was listed before.
LEMMA TableOfTheReply ==
  ASSUME NEW table \in Table, Proper(table), NEW services \in Replies, NEW names,
         NEW s \in Services, NEW k \in Kinds
  PROVE  Listed(NextOpen(table, services, names), <<s, k>>) # NoAlert
           <=> s \notin names /\ Condition(s, services[s]) = k
<1> DEFINE current == ComputeOpen(services, names)
<1>1. <<s, k>> \in Ids /\ <<s, k>>[1] = s /\ <<s, k>>[2] = k
  BY DEF Ids
<1>2. current[s] = k <=> s \notin names /\ Condition(s, services[s]) = k
  BY DEF ComputeOpen, Kinds
<1>3. BuildAlert(s, k, services, "open") # NoAlert
  BY BuildAlertType DEF Resolutions
<1> QED BY <1>1, <1>2, <1>3, NextOpenShape

\* A service's recover is placed before its open.
LEMMA RecoverRanksFirst ==
  ASSUME NEW s \in Services
  PROVE  Rank(s, "recovered") < Rank(s, "open")
<1>1. Cardinality(Services) \in Nat
  BY FleetAssumption, FS_CardinalityType
<1>2. Position[s] \in 1..Cardinality(Services)
  BY FleetAssumption
<1> QED BY <1>1, <1>2 DEF Rank

-----------------------------------------------------------------------------
IInv == TypeOK /\ Proper(open)

LEMMA EdgesType ==
  ASSUME NEW table \in Table, NEW services \in Replies, NEW names
  PROVE  Edges(table, services, names) \subseteq Alert
BY EdgeShape

LEMMA IInvStep == IInv /\ [Next]_vars => IInv'
<1> SUFFICES ASSUME IInv, [Next]_vars PROVE IInv'
  OBVIOUS
<1> USE DEF IInv, TypeOK, Table
<1>1. ASSUME NEW services \in Replies, Evaluate(services) PROVE IInv'
  BY <1>1, EdgesType, NextOpenShape DEF Evaluate
<1>2. ASSUME NEW s \in Services, NEW saved \in BOOLEAN, AddSilence(s, saved) PROVE IInv'
  BY <1>2 DEF AddSilence, Proper
<1>3. ASSUME NEW s \in Services, ClearSilence(s) PROVE IInv'
  BY <1>3 DEF ClearSilence, Proper
<1>4. CASE UNCHANGED vars
  BY <1>4 DEF vars, Proper
<1> QED BY <1>1, <1>2, <1>3, <1>4 DEF Next

LEMMA Invariance == Spec => []IInv
<1>1. Init => IInv
  BY DEF Init, IInv, TypeOK, Proper
<1> QED BY <1>1, IInvStep, PTL DEF Spec

\* Every variable keeps its type.
THEOREM TypeCorrect == Spec => []TypeOK
BY Invariance, PTL DEF IInv

\* Evaluating one reply twice: the second time every condition is listed already,
\* and nothing listed is over.
LEMMA RepeatStep ==
  ASSUME NEW table \in Table, Proper(table), NEW services \in Replies, NEW names
  PROVE  Edges(NextOpen(table, services, names), services, names) = {}
<1> DEFINE next == NextOpen(table, services, names)
<1>1. next \in Table /\ Proper(next)
  BY NextOpenShape
<1>2. \A id \in Ids : Listed(Drop(next, names), id) =
                        IF id[1] \in names THEN NoAlert ELSE Listed(next, id)
  BY <1>1, DropType
<1> SUFFICES ASSUME NEW e \in Edges(next, services, names) PROVE FALSE
  OBVIOUS
<1>3. e.id \in Ids /\ e.id[1] \in Services /\ e.id[2] \in Kinds
  BY <1>1, EdgeShape DEF Ids
<1>4. CASE /\ Listed(Drop(next, names), e.id) # NoAlert
           /\ ComputeOpen(services, names)[e.id[1]] # e.id[2]
  BY <1>2, <1>3, <1>4, NextOpenShape
<1>5. CASE /\ Listed(Drop(next, names), e.id) = NoAlert
           /\ ComputeOpen(services, names)[e.id[1]] = e.id[2]
  <2>1. e.id[1] \notin names
    BY <1>3, <1>5 DEF ComputeOpen, Kinds
  <2>2. Listed(next, e.id) # NoAlert
    BY <1>3, <1>5, NextOpenShape, BuildAlertType DEF Resolutions
  <2> QED BY <1>2, <1>3, <1>5, <2>1, <2>2
<1> QED BY <1>1, <1>4, <1>5, EdgeShape

\* Repeats stay quiet: whatever calls came before, a second evaluation of any
\* reply returns nothing.
THEOREM RepeatIsQuietHolds == Spec => []RepeatIsQuiet
<1>1. IInv => RepeatIsQuiet
  BY RepeatStep DEF IInv, TypeOK, Table, RepeatIsQuiet
<1> QED BY Invariance, <1>1, PTL

-----------------------------------------------------------------------------
ListedNow == [id \in Ids |-> Listed(open, id)]
MutedNow == {id \in Ids : id[1] \in silenced}

\* An evaluation is a call of AlertFeed.
LEMMA EvaluateRefines ==
  ASSUME IInv, NEW services \in Replies, Evaluate(services), NEW id \in Ids
  PROVE  Feed!Opened(id) \/ Feed!Recovered(id) \/ Feed!Quiet(id) \/ Feed!Dropped(id)
<1> DEFINE E == Edges(open, services, silenced)
<1>1. open \in Table /\ Proper(open)
  BY DEF IInv, TypeOK, Table
<1>2. edges' = E /\ open' = NextOpen(open, services, silenced) /\ silenced' = silenced
  BY DEF Evaluate
<1>3. Listed(Drop(open, silenced), id) =
        IF id[1] \in silenced THEN NoAlert ELSE Listed(open, id)
  BY <1>1, DropType
<1>4. id[1] \in Services /\ id[2] \in Kinds
  BY DEF Ids
<1>5. CASE \E e \in E : e.id = id
  <2>1. PICK e \in E : e.id = id
    BY <1>5
  <2>2. Listed(open', id) = Tells(e) /\ e \in Alert
    BY <1>1, <1>2, <2>1, EdgesTellAll, EdgeShape
  <2>3. CASE /\ e.resolution = "recovered"
             /\ Listed(Drop(open, silenced), id) # NoAlert
    <3>1. Listed(open, id) # NoAlert /\ Listed(open', id) = NoAlert
      BY <1>3, <2>2, <2>3 DEF Tells
    <3>2. Feed!Recovered(id)
      BY <1>2, <2>1, <2>3, <3>1 DEF Feed!Recovered
    <3> QED BY <3>2
  <2>4. CASE /\ e.resolution = "open"
             /\ Listed(Drop(open, silenced), id) = NoAlert
             /\ ComputeOpen(services, silenced)[id[1]] = id[2]
    <3>1. id[1] \notin silenced'
      BY <1>2, <1>4, <2>4 DEF ComputeOpen, Kinds
    <3>2. Listed(open, id) # e /\ Listed(open', id) = e
      BY <1>2, <1>3, <2>2, <2>4, <3>1, NoAlertAssumption DEF Tells
    <3>3. Feed!Opened(id)
      BY <1>2, <2>1, <2>4, <3>1, <3>2 DEF Feed!Opened
    <3> QED BY <3>3
  <2> QED BY <1>1, <2>1, <2>3, <2>4, EdgeShape
<1>6. CASE \A e \in E : e.id # id
  <2>1. Listed(open', id) = Listed(Drop(open, silenced), id)
    BY <1>1, <1>2, <1>6, EdgesTellAll
  <2>2. CASE id[1] \in silenced
    <3>1. Feed!Dropped(id)
      BY <1>2, <1>3, <1>6, <2>1, <2>2 DEF Feed!Dropped
    <3> QED BY <3>1
  <2>3. CASE id[1] \notin silenced
    <3>1. Feed!Quiet(id)
      BY <1>2, <1>3, <1>6, <2>1, <2>3 DEF Feed!Quiet
    <3> QED BY <3>1
  <2> QED BY <2>2, <2>3
<1> QED BY <1>5, <1>6

LEMMA StepRefines == IInv /\ IInv' /\ [Next]_vars => [Feed!Next]_(Feed!vars)
<1> SUFFICES ASSUME IInv, IInv', [Next]_vars PROVE [Feed!Next]_(Feed!vars)
  OBVIOUS
<1> DEFINE Told == \A id \in Ids : Feed!Opened(id) \/ Feed!Recovered(id)
                                     \/ Feed!Quiet(id) \/ Feed!Dropped(id)
<1>1. ASSUME Told, Feed!AtMostOnePerId(edges') PROVE Feed!Next
  <2>1. edges' \in SUBSET Alert
    BY DEF IInv, TypeOK
  <2>2. MutedNow' \in SUBSET Ids
    BY DEF MutedNow
  <2>3. \A id \in Ids : Listed(open, id)' \in Alert \cup {NoAlert}
    BY DEF IInv, TypeOK, Listed, Ids
  <2>4. ListedNow' \in [Ids -> Alert \cup {NoAlert}]
    BY <2>3 DEF ListedNow
  <2> QED BY <1>1, <2>1, <2>2, <2>4 DEF Feed!Next, MutedNow, ListedNow
<1>2. ASSUME NEW services \in Replies, Evaluate(services) PROVE Feed!Next
  <2>1. Told
    BY <1>2, EvaluateRefines
  <2>2. open \in Table
    BY DEF IInv, TypeOK, Table
  <2>3. Feed!AtMostOnePerId(edges')
    BY <1>2, <2>2, OneEdgePerId DEF Evaluate, Feed!AtMostOnePerId
  <2> QED BY <1>1, <2>1, <2>3
<1>3. ASSUME NEW s \in Services, NEW saved \in BOOLEAN, AddSilence(s, saved)
      PROVE  Feed!Next
  <2>1. ASSUME NEW id \in Ids PROVE Feed!Quiet(id) \/ Feed!Dropped(id)
    <3>0. id[1] \in Services
      BY DEF Ids
    <3>1. CASE id[1] = s /\ saved
      <4>1. Listed(open', id) = NoAlert /\ id[1] \in silenced' /\ edges' = {}
        BY <1>3, <3>0, <3>1 DEF AddSilence, Listed, IInv, TypeOK
      <4> QED BY <4>1 DEF Feed!Dropped
    <3>2. CASE id[1] # s \/ ~saved
      <4>1. Listed(open', id) = Listed(open, id) /\ edges' = {}
        BY <1>3, <3>0, <3>2 DEF AddSilence, Listed, IInv, TypeOK
      <4> QED BY <4>1 DEF Feed!Quiet
    <3> QED BY <3>1, <3>2
  <2>2. Feed!AtMostOnePerId(edges')
    BY <1>3 DEF AddSilence, Feed!AtMostOnePerId
  <2> QED BY <1>1, <2>1, <2>2
<1>4. ASSUME NEW s \in Services, ClearSilence(s) PROVE Feed!Next
  <2>1. \A id \in Ids : Feed!Quiet(id)
    BY <1>4 DEF ClearSilence, Feed!Quiet
  <2>2. Feed!AtMostOnePerId(edges')
    BY <1>4 DEF ClearSilence, Feed!AtMostOnePerId
  <2> QED BY <1>1, <2>1, <2>2
<1>5. CASE UNCHANGED vars
  BY <1>5 DEF vars, Feed!vars, Listed
<1> QED BY <1>2, <1>3, <1>4, <1>5 DEF Next

LEMMA InitRefines == Init => Feed!Init
<1> SUFFICES ASSUME Init PROVE Feed!Init
  OBVIOUS
<1>1. \A id \in Ids : Listed(open, id) = NoAlert
  BY DEF Init, Listed, Ids
<1> QED BY <1>1 DEF Init, Feed!Init

\* Whatever the registry answers and whatever is silenced, the list of open fleet
\* alerts changes only as its edges say, or by the drop of a silenced service.
THEOREM FeedRefinement == Spec => ImplementsFeed
BY Invariance, InitRefines, StepRefines, PTL DEF Spec, Feed!Spec, ImplementsFeed
=============================================================================
