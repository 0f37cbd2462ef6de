---------------------------- MODULE HostCheckProofs ----------------------------
(* host-check-service and its disk tracker, for any number of paths and any   *)
(* thresholds: the table follows the measurements, the promise of             *)
(* AlertForwarder is kept, and what the consumer is shown.                    *)
EXTENDS HostCheck, FiniteSetTheorems, TLAPS

Resolutions == {"open", "recovered"}
Readings == Percents \cup Errors

\* A table as the tracker keeps it: under an id an open alert of it.
Table == [Ids -> Alert \cup {NoAlert}]
Proper(table) ==
  \A d \in Ids : table[d] # NoAlert => /\ table[d].id = d
                                       /\ table[d].resolution = "open"
                                       /\ table[d].severity \in Severities

\* What an alert says is listed under its id from now on.
Tells(a) == IF a.resolution = "open" THEN a ELSE NoAlert

LEMMA PathCount == Cardinality(Paths) \in Nat
BY DiskAssumption, FS_CardinalityType

LEMMA JudgedType ==
  ASSUME NEW r \in Readings, NEW kind \in Kinds
  PROVE  /\ Judged(r, kind) \in Severities \cup {"none"}
         /\ kind = "unavailable" => (Judged(r, kind) # "none" <=> r \in Errors)
         /\ kind = "high" => (Judged(r, kind) # "none" <=> r \notin Errors /\ r >= Warning)
         /\ kind = "high" /\ Judged(r, kind) # "none" =>
              (Judged(r, kind) = "critical" <=> r >= Critical)
<1>1. r \notin Errors => r \in 0..100
  BY DiskAssumption DEF Readings
<1> QED BY <1>1, DiskAssumption DEF Judged, SeverityForUsage, Severities, Kinds

LEMMA RankType ==
  ASSUME NEW p \in Paths, NEW kind \in Kinds, NEW resolution \in Resolutions
  PROVE  Group(kind, resolution) * Cardinality(Paths) + Position[p]
           \in 1..(4 * Cardinality(Paths))
<1> DEFINE n == Cardinality(Paths)
           group == Group(kind, resolution)
<1>1. n \in Nat /\ Position[p] \in 1..n
  BY PathCount, DiskAssumption
<1>2. group = 0 \/ group = 1 \/ group = 2 \/ group = 3
  BY DEF Group
<1> HIDE DEF n, group
<1>3. /\ 0 * n + Position[p] \in 1..(4 * n) /\ 1 * n + Position[p] \in 1..(4 * n)
      /\ 2 * n + Position[p] \in 1..(4 * n) /\ 3 * n + Position[p] \in 1..(4 * n)
  BY <1>1
<1>4. group * n + Position[p] \in 1..(4 * n)
  BY <1>2, <1>3
<1> QED BY <1>4 DEF n, group

LEMMA BuildAlertType ==
  ASSUME NEW p \in Paths, NEW kind \in Kinds, NEW r \in Readings,
         NEW resolution \in Resolutions, resolution = "open" => Judged(r, kind) # "none"
  PROVE  LET a == BuildAlert(p, kind, r, resolution)
         IN  /\ a \in Alert /\ a # NoAlert
             /\ a.id = <<p, kind>> /\ a.resolution = resolution
             /\ resolution = "open" => a.severity = Judged(r, kind)
<1> DEFINE a == BuildAlert(p, kind, r, resolution)
<1>1. a.severity \in Severities \cup {"low"}
  BY JudgedType DEF BuildAlert
<1>2. a.detail \in (0..100) \cup Errors \cup {NoError}
  <2>1. UsedPercent(r) \in 0..100
    BY DiskAssumption DEF UsedPercent, Readings
  <2>2. kind = "unavailable" /\ resolution = "open" => r \in Errors
    BY JudgedType
  <2> QED BY <2>1, <2>2 DEF BuildAlert, Kinds
<1>3. a.rank \in 1..(4 * Cardinality(Paths))
  BY RankType DEF BuildAlert
<1>4. <<p, kind>> \in Ids
  BY DEF Ids
<1>5. a \in Alert
  BY <1>1, <1>2, <1>3, <1>4 DEF BuildAlert, Alert, Resolutions
<1> QED BY <1>5, NoAlertAssumption DEF BuildAlert

LEMMA IdShape ==
  ASSUME NEW d \in Ids
  PROVE  d[1] \in Paths /\ d[2] \in Kinds /\ d = <<d[1], d[2]>>
BY DEF Ids

\* What evaluate returns, seen from one id: a recovered edge exactly when the id
\* is listed and its condition is over, an open one when it is new or its
\* severity is another one.
LEMMA EdgeShape ==
  ASSUME NEW table \in Table, NEW m \in Mounts, NEW e \in Edges(table, m)
  PROVE  LET severity == Judged(m[e.id[1]], e.id[2])
         IN  /\ e \in Alert /\ e.id \in Ids /\ e # NoAlert
             /\ e = BuildAlert(e.id[1], e.id[2], m[e.id[1]], e.resolution)
             /\ \/ e.resolution = "recovered" /\ table[e.id] # NoAlert /\ severity = "none"
                \/ /\ e.resolution = "open" /\ severity # "none" /\ e.severity = severity
                   /\ table[e.id] = NoAlert \/ table[e.id].severity # severity
<1>1. CASE e \in Recovers(table, m)
  <2>1. PICK d \in Ids : /\ table[d] # NoAlert /\ Judged(m[d[1]], d[2]) = "none"
                         /\ e = BuildAlert(d[1], d[2], m[d[1]], "recovered")
    BY <1>1 DEF Recovers
  <2>2. m[d[1]] \in Readings
    BY IdShape DEF Mounts, Readings
  <2>3. e \in Alert /\ e # NoAlert /\ e.id = d /\ e.resolution = "recovered"
    BY <2>1, <2>2, IdShape, BuildAlertType DEF Resolutions
  <2> QED BY <2>1, <2>3
<1>2. CASE e \in Opens(table, m)
  <2>1. PICK d \in Opening(table, m) : e = BuildAlert(d[1], d[2], m[d[1]], "open")
    BY <1>2 DEF Opens
  <2>2. /\ d \in Ids /\ Judged(m[d[1]], d[2]) # "none"
        /\ table[d] = NoAlert \/ table[d].severity # Judged(m[d[1]], d[2])
    BY DEF Opening
  <2>3. m[d[1]] \in Readings
    BY <2>2, IdShape DEF Mounts, Readings
  <2>4. /\ e \in Alert /\ e # NoAlert /\ e.id = d /\ e.resolution = "open"
        /\ e.severity = Judged(m[d[1]], d[2])
    BY <2>1, <2>2, <2>3, IdShape, BuildAlertType DEF Resolutions
  <2> QED BY <2>1, <2>2, <2>4
<1> QED BY <1>1, <1>2 DEF Edges

LEMMA OneEdgePerId ==
  ASSUME NEW table \in Table, NEW m \in Mounts,
         NEW e \in Edges(table, m), NEW f \in Edges(table, m), e.id = f.id
  PROVE  e = f
BY EdgeShape

\* Every change of an id has its edge.
LEMMA EdgeThere ==
  ASSUME NEW table \in Table, NEW m \in Mounts, NEW d \in Ids
  PROVE  /\ d \in Opening(table, m) \/ (table[d] # NoAlert /\ Judged(m[d[1]], d[2]) = "none")
              => \E e \in Edges(table, m) : e.id = d
<1>0. m[d[1]] \in Readings
  BY IdShape DEF Mounts, Readings
<1>1. ASSUME d \in Opening(table, m) PROVE \E e \in Edges(table, m) : e.id = d
  <2> DEFINE e == BuildAlert(d[1], d[2], m[d[1]], "open")
  <2>1. e \in Edges(table, m)
    BY <1>1 DEF Edges, Opens
  <2>2. e.id = d
    BY <1>0, <1>1, IdShape, BuildAlertType DEF Resolutions, Opening
  <2> QED BY <2>1, <2>2
<1>2. ASSUME table[d] # NoAlert, Judged(m[d[1]], d[2]) = "none"
      PROVE  \E e \in Edges(table, m) : e.id = d
  <2> DEFINE e == BuildAlert(d[1], d[2], m[d[1]], "recovered")
  <2>1. e \in Edges(table, m)
    BY <1>2 DEF Edges, Recovers
  <2>2. e.id = d
    BY <1>0, IdShape, BuildAlertType DEF Resolutions
  <2> QED BY <2>1, <2>2
<1> QED BY <1>1, <1>2

\* The table after an evaluation: what the measurements say, whatever it was.
LEMMA NextOpenShape ==
  ASSUME NEW table \in Table, Proper(table), NEW m \in Mounts
  PROVE  LET next == NextOpen(table, m)
         IN  /\ next \in Table
             /\ Proper(next)
             /\ \A d \in Ids : LET severity == Judged(m[d[1]], d[2])
                               IN  /\ next[d] = NoAlert <=> severity = "none"
                                   /\ next[d] # NoAlert => next[d].severity = severity
<1> DEFINE next == NextOpen(table, m)
<1>1. ASSUME NEW d \in Ids
      PROVE  /\ next[d] \in Alert \cup {NoAlert}
             /\ next[d] = NoAlert <=> Judged(m[d[1]], d[2]) = "none"
             /\ next[d] # NoAlert => /\ next[d].id = d
                                     /\ next[d].resolution = "open"
                                     /\ next[d].severity = Judged(m[d[1]], d[2])
                                     /\ next[d].severity \in Severities
  <2>0. m[d[1]] \in Readings
    BY IdShape DEF Mounts, Readings
  <2>1. CASE Judged(m[d[1]], d[2]) = "none"
    BY <2>1 DEF NextOpen
  <2>2. CASE d \in Opening(table, m)
    <3>1. Judged(m[d[1]], d[2]) # "none"
      BY <2>2 DEF Opening
    <3>2. next[d] = BuildAlert(d[1], d[2], m[d[1]], "open")
      BY <2>2, <3>1 DEF NextOpen
    <3>3. Judged(m[d[1]], d[2]) \in Severities
      BY <2>0, <3>1, IdShape, JudgedType
    <3> QED BY <2>0, <3>1, <3>2, <3>3, IdShape, BuildAlertType DEF Resolutions
  <2>3. CASE Judged(m[d[1]], d[2]) # "none" /\ d \notin Opening(table, m)
    <3>1. next[d] = table[d]
      BY <2>3 DEF NextOpen
    <3>2. table[d] # NoAlert /\ table[d].severity = Judged(m[d[1]], d[2])
      BY <2>3 DEF Opening
    <3> QED BY <2>3, <3>1, <3>2 DEF Table, Proper
  <2> QED BY <2>1, <2>2, <2>3
<1>2. next \in Table
  BY <1>1 DEF NextOpen, Table
<1> HIDE DEF next
<1>3. Proper(next)
  BY <1>1 DEF Proper
<1> QED BY <1>1, <1>2, <1>3 DEF next

\* The edges of an evaluation say everything that changes in the list.
LEMMA EdgesTellAll ==
  ASSUME NEW table \in Table, Proper(table), NEW m \in Mounts, NEW d \in Ids
  PROVE  /\ \A e \in Edges(table, m) : e.id = d => NextOpen(table, m)[d] = Tells(e)
         /\ (\A e \in Edges(table, m) : e.id # d) => NextOpen(table, m)[d] = table[d]
<1>1. ASSUME NEW e \in Edges(table, m), e.id = d
      PROVE  NextOpen(table, m)[d] = Tells(e)
  <2>1. CASE e.resolution = "recovered"
    <3>1. Judged(m[d[1]], d[2]) = "none"
      BY <1>1, <2>1, EdgeShape
    <3> QED BY <2>1, <3>1 DEF NextOpen, Tells
  <2>2. CASE e.resolution = "open"
    <3>1. /\ Judged(m[d[1]], d[2]) # "none"
          /\ table[d] = NoAlert \/ table[d].severity # Judged(m[d[1]], d[2])
          /\ e = BuildAlert(d[1], d[2], m[d[1]], "open")
      BY <1>1, <2>2, EdgeShape
    <3>2. d \in Opening(table, m)
      BY <3>1 DEF Opening
    <3> QED BY <2>2, <3>1, <3>2 DEF NextOpen, Tells
  <2> QED BY <1>1, <2>1, <2>2, EdgeShape
<1>2. ASSUME \A e \in Edges(table, m) : e.id # d PROVE NextOpen(table, m)[d] = table[d]
  BY <1>2, EdgeThere DEF NextOpen
<1> QED BY <1>1, <1>2

\* The recovers of an evaluation, of either kind, precede its opens.
LEMMA RecoverRanksFirst ==
  ASSUME NEW table \in Table, NEW m \in Mounts,
         NEW e \in Edges(table, m), NEW f \in Edges(table, m),
         e.id[1] = f.id[1], e.resolution = "recovered", f.resolution = "open"
  PROVE  e.rank < f.rank
<1> DEFINE n == Cardinality(Paths)
           p == e.id[1]
<1>1. /\ e.rank = Group(e.id[2], "recovered") * n + Position[p]
      /\ f.rank = Group(f.id[2], "open") * n + Position[p]
      /\ p \in Paths /\ e.id[2] \in Kinds /\ f.id[2] \in Kinds
  BY EdgeShape, IdShape DEF BuildAlert
<1>2. n \in Nat /\ Position[p] \in 1..n
  BY <1>1, PathCount, DiskAssumption
<1>3. Group(e.id[2], "recovered") \in {0, 1} /\ Group(f.id[2], "open") \in {2, 3}
  BY <1>1 DEF Group, Kinds
<1> HIDE DEF n, p
<1>4. e.rank \in {0 * n + Position[p], 1 * n + Position[p]}
  BY <1>1, <1>3
<1>5. f.rank \in {2 * n + Position[p], 3 * n + Position[p]}
  BY <1>1, <1>3
<1> QED BY <1>2, <1>4, <1>5

-----------------------------------------------------------------------------
\* No path is full and unreadable at once.
Exclusive(table) ==
  \A c, d \in Ids : c[1] = d[1] /\ table[c] # NoAlert /\ table[d] # NoAlert => c = d

LEMMA NextOpenExclusive ==
  ASSUME NEW table \in Table, Proper(table), NEW m \in Mounts
  PROVE  Exclusive(NextOpen(table, m))
<1> SUFFICES ASSUME NEW c \in Ids, NEW d \in Ids, c[1] = d[1],
                    NextOpen(table, m)[c] # NoAlert, NextOpen(table, m)[d] # NoAlert
             PROVE  c = d
  BY DEF Exclusive
<1>1. Judged(m[c[1]], c[2]) # "none" /\ Judged(m[c[1]], d[2]) # "none"
  BY NextOpenShape
<1>2. m[c[1]] \in Readings
  BY IdShape DEF Mounts, Readings
<1>3. c[2] = d[2]
  BY <1>1, <1>2, IdShape, JudgedType DEF Kinds
<1> QED BY <1>3, IdShape

\* The recover of a path leaves the batch before its open.
Ranked ==
  \A a, b \in queue[Poll] :
    a.id[1] = b.id[1] /\ a.resolution = "recovered" /\ b.resolution = "open"
      => a.rank < b.rank

IInv == /\ up \in BOOLEAN
        /\ due \in BOOLEAN
        /\ mounts \in Mounts
        /\ open \in Table
        /\ Proper(open)
        /\ Exclusive(open)
        /\ queue \in [{Poll} -> SUBSET Alert]
        /\ Ranked
        /\ fresh \in SUBSET {Poll}
        /\ link \in BOOLEAN

LEMMA InitIInv == Init => IInv
BY DEF Init, IInv, Table, Proper, Exclusive, Ranked, Channel!Init

LEMMA EdgesType ==
  ASSUME NEW table \in Table, NEW m \in Mounts
  PROVE  Edges(table, m) \in SUBSET Alert
BY EdgeShape

\* A poll, whatever it measured.
LEMMA PollType ==
  ASSUME IInv, NEW m \in Mounts, PollDisks(m)
  PROVE  /\ open' = NextOpen(open, m)
         /\ Channel!Hand(Poll, Edges(open, m), {})
         /\ queue' \in [{Poll} -> SUBSET Alert]
         /\ queue'[Poll] = Edges(open, m)
         /\ fresh' \in SUBSET {Poll} /\ UNCHANGED <<standing, link>>
<1>1. open' = NextOpen(open, m) /\ Channel!Hand(Poll, Edges(open, m), {})
  BY DEF PollDisks
<1>2. Edges(open, m) \in SUBSET Alert
  BY EdgesType DEF IInv
<1> QED BY <1>1, <1>2 DEF Channel!Hand, IInv

LEMMA PublishType ==
  ASSUME IInv, Publish
  PROVE  /\ queue' \in [{Poll} -> SUBSET Alert]
         /\ queue'[Poll] \subseteq queue[Poll]
         /\ fresh' \in SUBSET {Poll} /\ link' = link
<1>1. PICK a \in queue[Poll] :
        Channel!Deliver(Poll, a) \/ Channel!Skip(Poll, a) \/
          \E reached \in BOOLEAN : Channel!Raise(Poll, a, reached)
  BY DEF Publish
<1>2. queue' = [queue EXCEPT ![Poll] = @ \ {a}] \/ queue' = [queue EXCEPT ![Poll] = {}]
  BY <1>1 DEF Channel!Deliver, Channel!Skip, Channel!Raise
<1>3. fresh' = fresh \ {Poll} /\ link' = link
  BY <1>1 DEF Channel!Deliver, Channel!Skip, Channel!Raise
<1> QED BY <1>2, <1>3 DEF IInv

LEMMA StateStep == IInv /\ [Next]_vars => IInv'
<1> SUFFICES ASSUME IInv, [Next]_vars PROVE IInv'
  OBVIOUS
<1>1. CASE Start \/ IntervalEnds \/ UNCHANGED vars
  BY <1>1 DEF Start, IntervalEnds, vars, channelVars, IInv, Ranked
<1>2. CASE Publish
  <2>1. UNCHANGED <<up, due, mounts, open>>
    BY <1>2 DEF Publish
  <2> QED BY <1>2, <2>1, PublishType DEF IInv, Ranked
<1>3. CASE Crash
  BY <1>3 DEF Crash, Channel!Down, IInv, Table, Proper, Exclusive, Ranked
<1>4. CASE LinkChange
  BY <1>4 DEF LinkChange, Channel!LinkChange, IInv, Ranked
<1>5. ASSUME NEW m \in Mounts, PollDisks(m) PROVE IInv'
  <2>1. open' \in Table /\ Proper(open') /\ Exclusive(open')
    BY <1>5, PollType, NextOpenShape, NextOpenExclusive DEF IInv
  <2>2. UNCHANGED up /\ due' = FALSE /\ mounts' = m
    BY <1>5 DEF PollDisks
  <2>3. Ranked'
    <3>1. queue'[Poll] = Edges(open, m) /\ open \in Table
      BY <1>5, PollType DEF IInv
    <3> QED BY <3>1, RecoverRanksFirst DEF Ranked
  <2> QED BY <1>5, <2>1, <2>2, <2>3, PollType DEF IInv
<1> QED BY <1>1, <1>2, <1>3, <1>4, <1>5 DEF Next

LEMMA Invariance == Spec => []IInv
BY InitIInv, StateStep, PTL DEF Spec

-----------------------------------------------------------------------------
Facts == INSTANCE AlertForwarderProofs WITH
           Publishers <- {Poll},
           listed <- open

LEMMA AlertsWellFormed == Facts!WellFormed
BY DEF Facts!WellFormed, Alert

\* A poll hands over a batch that says everything that changes.
LEMMA PollRefines ==
  ASSUME IInv, NEW m \in Mounts, PollDisks(m)
  PROVE  Forwarder!Next
<1> DEFINE E == Edges(open, m)
<1>1. /\ open' = NextOpen(open, m) /\ Channel!Hand(Poll, E, {}) /\ queue'[Poll] = E
      /\ open \in Table /\ Proper(open)
  BY PollType DEF IInv
<1>2. open' \in Table /\ E \in SUBSET Alert /\ \A a \in E : a.id \in Ids
  BY <1>1, NextOpenShape, EdgesType DEF Alert
<1>3. \A a, b \in E : a.id = b.id => a = b
  BY <1>1, OneEdgePerId
<1>4. \A a \in E : open'[a.id] = Forwarder!Channel!Effect(a)
  BY <1>1, <1>2, EdgesTellAll DEF Tells, Forwarder!Channel!Effect
<1>5. \A d \in Ids : (\A a \in E : a.id # d) => open'[d] = open[d]
  BY <1>1, EdgesTellAll
<1> HIDE DEF E
<1>6. Forwarder!ChangesOnly(Forwarder!Channel!IdsOf(E) \cup {})
  BY <1>2, <1>5 DEF Forwarder!ChangesOnly, Forwarder!Channel!IdsOf, Table
<1>7. Forwarder!Channel!Hand(Poll, E, {})
  BY <1>1 DEF Channel!Hand, Forwarder!Channel!Hand, Channel!Idle, Forwarder!Channel!Idle,
              Channel!Handed, Forwarder!Channel!Handed, Channel!IdsOf,
              Forwarder!Channel!IdsOf, Channel!Pending, Forwarder!Channel!Pending
<1>8. Forwarder!Judge(Poll, E, {})
  BY <1>3, <1>4, <1>6, <1>7 DEF Forwarder!Judge
<1> QED BY <1>1, <1>2, <1>8 DEF Forwarder!Next

LEMMA PublishRefines == Publish => Forwarder!Next
<1> SUFFICES ASSUME Publish PROVE Forwarder!Next
  OBVIOUS
<1>1. PICK a \in queue[Poll] :
        Channel!Deliver(Poll, a) \/ Channel!Skip(Poll, a) \/
          \E reached \in BOOLEAN : Channel!Raise(Poll, a, reached)
  BY DEF Publish
<1>2. UNCHANGED open
  BY DEF Publish
<1>3. \/ Forwarder!Channel!Deliver(Poll, a)
      \/ Forwarder!Channel!Skip(Poll, a)
      \/ \E reached \in BOOLEAN : Forwarder!Channel!Raise(Poll, a, reached)
  BY <1>1 DEF Channel!Deliver, Channel!Skip, Channel!Raise, Channel!IsNext, Channel!OtherTurn,
              Channel!Effect, Channel!Reached, Channel!Lost, Channel!IdsOf,
              Forwarder!Channel!Deliver, Forwarder!Channel!Skip, Forwarder!Channel!Raise,
              Forwarder!Channel!IsNext, Forwarder!Channel!OtherTurn,
              Forwarder!Channel!Effect, Forwarder!Channel!Reached,
              Forwarder!Channel!Lost, Forwarder!Channel!IdsOf
<1>4. Forwarder!Publish(Poll, a)
  BY <1>2, <1>3 DEF Forwarder!Publish
<1> QED BY <1>4 DEF Forwarder!Next

LEMMA StepRefines == IInv /\ [Next]_vars => [Forwarder!Next]_(Forwarder!vars)
<1> SUFFICES ASSUME IInv, [Next]_vars PROVE Forwarder!Next \/ UNCHANGED Forwarder!vars
  OBVIOUS
<1>1. CASE Start \/ IntervalEnds \/ UNCHANGED vars
  BY <1>1 DEF Start, IntervalEnds, vars, channelVars, Forwarder!vars, Forwarder!channelVars
<1>2. CASE Publish
  BY <1>2, PublishRefines
<1>3. CASE Crash
  <2>1. open' \in Table /\ Listed \in SUBSET Ids
        /\ \A d \in Ids \ Listed : open'[d] = open[d]
    BY <1>3 DEF Crash, Table, Listed
  <2>2. Forwarder!ChangesOnly(Listed)
    BY <2>1 DEF Forwarder!ChangesOnly, Table
  <2>3. Forwarder!Channel!Down(Listed)
    BY <1>3 DEF Crash, Channel!Down, Forwarder!Channel!Down, Channel!Lost,
                Forwarder!Channel!Lost, Channel!IdsOf, Forwarder!Channel!IdsOf,
                Channel!Pending, Forwarder!Channel!Pending
  <2> QED BY <2>1, <2>2, <2>3 DEF Forwarder!Next, Forwarder!Down
<1>4. CASE LinkChange
  <2>1. Forwarder!LinkChange
    BY <1>4 DEF LinkChange, Channel!LinkChange, Forwarder!LinkChange,
                Forwarder!Channel!LinkChange
  <2> QED BY <2>1 DEF Forwarder!Next
<1>5. ASSUME NEW m \in Mounts, PollDisks(m) PROVE Forwarder!Next
  BY <1>5, PollRefines
<1> QED BY <1>1, <1>2, <1>3, <1>4, <1>5 DEF Next

\* Disk tracker and poll task keep the promise of AlertForwarder, whatever fails.
THEOREM Refinement == Spec => ImplementsForwarder
<1>1. Init => Forwarder!Init
  BY DEF Init, Forwarder!Init, Channel!Init, Forwarder!Channel!Init
<1> QED BY <1>1, Invariance, StepRefines, PTL
        DEF Spec, ImplementsForwarder, Forwarder!Spec

\* The instance of the proofs speaks of the same specification.
LEMMA SameSpec == Forwarder!Spec => Facts!Spec
<1>1. Forwarder!Init => Facts!Init
  BY DEF Forwarder!Init, Facts!Init, Forwarder!Channel!Init, Facts!Channel!Init
<1>2. Forwarder!Next => Facts!Next
  BY DEF Forwarder!Next, Facts!Next, Forwarder!Judge, Facts!Judge, Forwarder!Publish,
         Facts!Publish, Forwarder!Drop, Facts!Drop, Forwarder!Down, Facts!Down,
         Forwarder!LinkChange, Facts!LinkChange, Forwarder!ChangesOnly, Facts!ChangesOnly,
         Forwarder!Channel!Hand, Facts!Channel!Hand, Forwarder!Channel!Deliver,
         Facts!Channel!Deliver, Forwarder!Channel!Skip, Facts!Channel!Skip,
         Forwarder!Channel!Raise, Facts!Channel!Raise, Forwarder!Channel!Forget,
         Facts!Channel!Forget, Forwarder!Channel!Down, Facts!Channel!Down,
         Forwarder!Channel!LinkChange, Facts!Channel!LinkChange,
         Forwarder!Channel!Handed, Facts!Channel!Handed, Forwarder!Channel!Idle,
         Facts!Channel!Idle, Forwarder!Channel!IdsOf, Facts!Channel!IdsOf,
         Forwarder!Channel!Pending, Facts!Channel!Pending, Forwarder!Channel!IsNext,
         Facts!Channel!IsNext, Forwarder!Channel!OtherTurn, Facts!Channel!OtherTurn,
         Forwarder!Channel!Effect, Facts!Channel!Effect, Forwarder!Channel!Lost,
         Facts!Channel!Lost, Forwarder!Channel!Reached, Facts!Channel!Reached
<1>3. UNCHANGED Forwarder!vars => UNCHANGED Facts!vars
  BY DEF Forwarder!vars, Facts!vars, Forwarder!channelVars, Facts!channelVars
<1> QED BY <1>1, <1>2, <1>3, PTL DEF Forwarder!Spec, Facts!Spec

LEMMA ForwarderFacts == Spec => []Facts!IInv
<1>1. Facts!WellFormed => (Facts!Spec => []Facts!IInv)
  BY Facts!Invariance
<1> QED BY <1>1, AlertsWellFormed, Refinement, SameSpec, PTL DEF ImplementsForwarder

\* Types, of the table and of everything on its way.
THEOREM TypeCorrect == Spec => []TypeOK
<1>1. IInv /\ Facts!IInv => TypeOK
  BY DEF IInv, Facts!IInv, Facts!TypeOK, TypeOK, Table, Proper, Channel!Trust,
         Facts!Channel!Trust
<1> QED BY <1>1, Invariance, ForwarderFacts, PTL

\* With nothing on its way the consumer holds what list_open_alerts shows of each
\* path, severity included, unless an alert of it was lost.
THEOREM AgreementHolds == Spec => []Forwarder!Agreement
<1>1. Facts!IInv => Forwarder!Agreement
  BY DEF Facts!IInv, Facts!Agreement, Forwarder!Agreement, Facts!Channel!Trusted,
         Forwarder!Channel!Trusted, Facts!Channel!Projected, Forwarder!Channel!Projected,
         Facts!Channel!Pending, Forwarder!Channel!Pending, Facts!Channel!Effect,
         Forwarder!Channel!Effect
<1> QED BY <1>1, ForwarderFacts, PTL

-----------------------------------------------------------------------------
\* Nothing has set consumer and table apart.
Undisturbed == link /\ \A d \in Ids : trust[d] = "agrees"

LEMMA UndisturbedStep ==
  ASSUME Failures = {}, IInv, trust \in [Ids -> Channel!Trust], Undisturbed, [Next]_vars
  PROVE  Undisturbed'
<1> USE DEF Undisturbed
<1>1. CASE UNCHANGED channelVars
  BY <1>1 DEF channelVars
<1>2. ASSUME NEW m \in Mounts, PollDisks(m) PROVE Undisturbed'
  <2>1. Channel!Hand(Poll, Edges(open, m), {}) /\ link' = link
    BY <1>2, PollType
  <2>2. Channel!Pending = {}
    BY <2>1 DEF Channel!Hand, Channel!Idle, Channel!Pending
  <2>3. \A d \in Ids : trust'[d] = Channel!Handed(d, Edges(open, m), {})
    BY <2>1 DEF Channel!Hand
  <2>4. \A d \in Ids : Channel!Handed(d, Edges(open, m), {}) = "agrees"
    BY <2>2 DEF Channel!Handed, Channel!IdsOf
  <2> QED BY <2>1, <2>3, <2>4
<1>3. CASE Publish
  <2>1. PICK a \in queue[Poll] : Channel!Deliver(Poll, a)
    BY <1>3 DEF Publish, Channel!Skip
  <2> QED BY <2>1 DEF Channel!Deliver, Channel!Reached
<1> QED BY <1>1, <1>2, <1>3 DEF Next, vars, Start, IntervalEnds, Crash, LinkChange

\* Only a lost alert sets consumer and table apart: where no link breaks, no
\* publish raises and the process lives, the consumer will hold of every path at
\* every moment what list_open_alerts shows, severity and kind included, whatever
\* sequence of readings the disks give.
THEOREM UndisturbedAgrees ==
  ASSUME Failures = {}
  PROVE  Spec => [](\A d \in Ids : Forwarder!Channel!Projected(d) = open[d])
<1>1. Init => Undisturbed
  BY DEF Init, Channel!Init, Undisturbed
<1>2. IInv /\ TypeOK /\ Undisturbed /\ [Next]_vars => Undisturbed'
  BY UndisturbedStep DEF TypeOK
<1>3. Undisturbed /\ Forwarder!Agreement
        => \A d \in Ids : Forwarder!Channel!Projected(d) = open[d]
  BY DEF Undisturbed, Forwarder!Agreement, Forwarder!Channel!Trusted
<1> QED BY <1>1, <1>2, <1>3, Invariance, TypeCorrect, AgreementHolds, PTL DEF Spec

-----------------------------------------------------------------------------
\* When an open alert arrives, nothing of the path's other condition stands: the
\* table has one condition per path, and the recover has left before.
LEMMA OpenArrivesAlone ==
  ASSUME IInv, Facts!IInv, NEW a \in queue[Poll], Channel!IsNext(Poll, a),
         a.resolution = "open", Channel!Trusted(a.id),
         NEW d \in Ids, d # a.id, d[1] = a.id[1], Channel!Trusted(d)
  PROVE  standing[d] = NoAlert
<1>1. a \in Alert /\ a.id \in Ids /\ a # NoAlert
  BY NoAlertAssumption DEF IInv, Alert
<1>2. /\ \A b \in queue[Poll] : b.id = d => Facts!Channel!Projected(d) = Tells(b)
      /\ (\A b \in queue[Poll] : b.id # d) => Facts!Channel!Projected(d) = standing[d]
      /\ Facts!Channel!Projected(a.id) = Tells(a)
  <2>1. \A b, c \in queue[Poll] : b.id = c.id => b = c
    BY DEF Facts!IInv, Facts!OnePerId
  <2>2. \A b : b \in Facts!Channel!Pending <=> b \in queue[Poll]
    BY DEF Facts!Channel!Pending
  <2> QED BY <2>1, <2>2, Facts!ProjectedShape DEF Facts!Channel!Effect, Tells
<1>3. Facts!Channel!Projected(a.id) = open[a.id] /\ Facts!Channel!Projected(d) = open[d]
  BY <1>1 DEF Facts!IInv, Facts!Agreement, Facts!Channel!Trusted, Channel!Trusted
<1>4. open[d] = NoAlert
  BY <1>1, <1>2, <1>3 DEF IInv, Exclusive, Tells
<1>5. ASSUME NEW b \in queue[Poll], b.id = d PROVE FALSE
  <2>1. b \in Alert /\ b # NoAlert
    BY NoAlertAssumption DEF IInv
  <2>2. b.resolution = "recovered"
    BY <1>2, <1>3, <1>4, <1>5, <2>1 DEF Tells, Alert
  <2>3. b.rank < a.rank
    BY <1>5, <2>2 DEF IInv, Ranked
  <2>4. a.rank <= b.rank
    BY DEF Channel!IsNext
  <2>5. a.rank \in Int /\ b.rank \in Int
    BY <1>1, <2>1, PathCount DEF Alert
  <2> QED BY <2>3, <2>4, <2>5
<1> QED BY <1>2, <1>3, <1>4, <1>5

\* No id comes to be shown that was not.
NothingShown ==
  \A d \in Ids : trust'[d] = "agrees" /\ standing'[d] # NoAlert
                   => trust[d] = "agrees" /\ standing[d] # NoAlert

LEMMA NothingShownKeeps ==
  ASSUME OneConditionShown, NothingShown
  PROVE  OneConditionShown'
<1>1. \A p \in Paths, k \in Kinds : <<p, k>> \in Ids
  BY DEF Ids
<1> QED BY <1>1 DEF NothingShown, OneConditionShown

LEMMA DeliverShows ==
  ASSUME IInv, Facts!IInv, OneConditionShown, NEW a \in queue[Poll],
         Channel!Deliver(Poll, a)
  PROVE  OneConditionShown'
<1>0. /\ trust \in [Ids -> Channel!Trust]
      /\ standing \in [Ids -> Alert \cup {NoAlert}]
  BY DEF Facts!IInv, Facts!TypeOK, Channel!Trust, Facts!Channel!Trust
<1>1. /\ a.id \in Ids /\ a.resolution \in {"open", "recovered"}
      /\ Channel!IsNext(Poll, a)
      /\ trust' = Channel!Reached(a.id)
      /\ standing' = [standing EXCEPT ![a.id] = Channel!Effect(a)]
  BY DEF Channel!Deliver, IInv, Alert
<1>2. \A d \in Ids : d # a.id => standing'[d] = standing[d] /\ trust'[d] = trust[d]
  BY <1>0, <1>1 DEF Channel!Reached
<1>3. trust'[a.id] = "agrees" => Channel!Trusted(a.id)
  BY <1>0, <1>1 DEF Channel!Reached, Channel!Trusted
<1>4. standing'[a.id] = Channel!Effect(a)
  BY <1>0, <1>1
<1> SUFFICES ASSUME NEW p \in Paths, \A k \in Kinds : trust'[<<p, k>>] = "agrees",
                    \A k \in Kinds : standing'[<<p, k>>] # NoAlert
             PROVE  FALSE
  BY DEF OneConditionShown
<1>5. /\ \A k \in Kinds : <<p, k>> \in Ids /\ <<p, k>>[1] = p
      /\ <<p, "high">> # <<p, "unavailable">>
      /\ "high" \in Kinds /\ "unavailable" \in Kinds
  BY DEF Ids, Kinds
<1>6. ASSUME NEW d \in Ids, d # a.id, d[1] = a.id[1], trust'[d] = "agrees",
             trust'[a.id] = "agrees", standing'[a.id] # NoAlert
      PROVE  standing'[d] = NoAlert
  <2>1. a.resolution = "open"
    BY <1>4, <1>6 DEF Channel!Effect
  <2>2. Channel!Trusted(d)
    BY <1>2, <1>6 DEF Channel!Trusted
  <2> QED BY <1>1, <1>2, <1>3, <1>6, <2>1, <2>2, OpenArrivesAlone
<1>7. CASE a.id = <<p, "high">>
  BY <1>5, <1>6, <1>7
<1>8. CASE a.id = <<p, "unavailable">>
  BY <1>5, <1>6, <1>8
<1>9. CASE a.id # <<p, "high">> /\ a.id # <<p, "unavailable">>
  <2>1. \A k \in Kinds : <<p, k>> # a.id
    BY <1>9 DEF Kinds
  <2> QED BY <1>2, <1>5, <2>1 DEF OneConditionShown
<1> QED BY <1>7, <1>8, <1>9

LEMMA OneConditionStep ==
  IInv /\ Facts!IInv /\ OneConditionShown /\ [Next]_vars => OneConditionShown'
<1> SUFFICES ASSUME IInv, Facts!IInv, OneConditionShown, [Next]_vars
             PROVE  OneConditionShown'
  OBVIOUS
<1>0. /\ trust \in [Ids -> Channel!Trust]
      /\ standing \in [Ids -> Alert \cup {NoAlert}]
  BY DEF Facts!IInv, Facts!TypeOK, Channel!Trust, Facts!Channel!Trust
<1>1. CASE NothingShown
  BY <1>1, NothingShownKeeps
<1>2. CASE UNCHANGED <<standing, trust>>
  BY <1>1, <1>2 DEF NothingShown
<1>3. ASSUME NEW ids, standing' = standing, trust' = Channel!Lost(ids) PROVE NothingShown
  BY <1>0, <1>3 DEF NothingShown, Channel!Lost
<1>4. ASSUME NEW m \in Mounts, PollDisks(m) PROVE NothingShown
  <2>1. /\ standing' = standing
        /\ \A d \in Ids : trust'[d] = Channel!Handed(d, Edges(open, m), {})
    BY <1>0, <1>4, PollType DEF Channel!Hand
  <2> QED BY <2>1 DEF NothingShown, Channel!Handed
<1>5. ASSUME NEW a \in queue[Poll], NEW reached \in BOOLEAN, Channel!Raise(Poll, a, reached)
      PROVE  NothingShown
  <2>1. /\ trust' = Channel!Lost(Channel!IdsOf(queue[Poll]))
        /\ \A d \in Ids : d # a.id => standing'[d] = standing[d]
    BY <1>0, <1>5 DEF Channel!Raise
  <2>2. a.id \in Channel!IdsOf(queue[Poll])
    BY DEF Channel!IdsOf
  <2> QED BY <1>0, <2>1, <2>2 DEF NothingShown, Channel!Lost
<1>6. ASSUME NEW a \in queue[Poll], Channel!Skip(Poll, a) PROVE NothingShown
  BY <1>3, <1>6 DEF Channel!Skip
<1>7. CASE Publish
  BY <1>1, <1>5, <1>6, <1>7, DeliverShows DEF Publish
<1>8. CASE Crash
  BY <1>1, <1>3, <1>8 DEF Crash, Channel!Down
<1> QED BY <1>1, <1>2, <1>4, <1>7, <1>8
        DEF Next, vars, channelVars, Start, IntervalEnds, LinkChange, Channel!LinkChange

\* The consumer never shows a path as full and as unreadable at once, at any point
\* of a batch, for any number of paths.
THEOREM OneConditionShownHolds == Spec => []OneConditionShown
<1>1. Init => OneConditionShown
  BY DEF Init, Channel!Init, OneConditionShown, Ids, Kinds
<1> QED BY <1>1, Invariance, ForwarderFacts, OneConditionStep, PTL DEF Spec

\* Every alert on its way has a type that the subscription catalog offers.
THEOREM EveryAlertIsOfferedHolds == Spec => []EveryAlertIsOffered
<1>1. \A kind \in Kinds : Offered(HostCriteria, {}, DiskType(kind), DiskAttributes(kind))
  BY DEF Kinds, Offered, HostCriteria, DiskType, DiskAttributes
<1>2. IInv => EveryAlertIsOffered
  <2> SUFFICES ASSUME IInv, NEW a \in Channel!Pending PROVE a.id[2] \in Kinds
    BY <1>1 DEF EveryAlertIsOffered
  <2>1. a \in Alert
    BY DEF Channel!Pending, IInv
  <2> QED BY <2>1, IdShape DEF Alert
<1> QED BY <1>2, Invariance, PTL

-----------------------------------------------------------------------------
\* Between the first poll of a life and the next due time a poll has filled the
\* table, and nothing else has touched it.
Matches ==
  up /\ ~due =>
    \A d \in Ids : LET severity == Judged(mounts[d[1]], d[2])
                   IN  /\ open[d] = NoAlert <=> severity = "none"
                       /\ open[d] # NoAlert => open[d].severity = severity

LEMMA MatchesStep == IInv /\ Matches /\ [Next]_vars => Matches'
<1> SUFFICES ASSUME IInv, Matches, [Next]_vars PROVE Matches'
  OBVIOUS
<1>1. CASE UNCHANGED <<up, due, mounts, open>>
  BY <1>1 DEF Matches
<1>2. CASE Start \/ IntervalEnds
  BY <1>2 DEF Start, IntervalEnds, Matches
<1>3. CASE Crash
  BY <1>3 DEF Crash, Matches
<1>4. ASSUME NEW m \in Mounts, PollDisks(m) PROVE Matches'
  <2>1. open' = NextOpen(open, m) /\ mounts' = m /\ open \in Table /\ Proper(open)
    BY <1>4 DEF PollDisks, IInv
  <2> QED BY <2>1, NextOpenShape DEF Matches
<1> QED BY <1>1, <1>2, <1>3, <1>4 DEF Next, Publish, LinkChange, vars

LEMMA MatchesJudgment == IInv /\ Matches => TableMatchesMounts
<1> SUFFICES ASSUME IInv, Matches, up, ~due, NEW p \in Paths
             PROVE  /\ open[<<p, "unavailable">>] # NoAlert <=> mounts[p] \in Errors
                    /\ open[<<p, "high">>] # NoAlert
                         <=> mounts[p] \notin Errors /\ mounts[p] >= Warning
                    /\ open[<<p, "high">>] # NoAlert =>
                         (open[<<p, "high">>].severity = "critical"
                            <=> mounts[p] >= Critical)
  BY DEF TableMatchesMounts
<1>1. mounts[p] \in Readings
  BY DEF IInv, Mounts, Readings
<1>2. \A k \in Kinds : /\ <<p, k>> \in Ids
                       /\ open[<<p, k>>] = NoAlert <=> Judged(mounts[p], k) = "none"
                       /\ open[<<p, k>>] # NoAlert =>
                            open[<<p, k>>].severity = Judged(mounts[p], k)
  BY DEF Matches, Ids
<1>3. "high" \in Kinds /\ "unavailable" \in Kinds
  BY DEF Kinds
<1> QED BY <1>1, <1>2, <1>3, JudgedType

\* Along any history of measurements, crashes and starts the table is what the
\* thresholds say of the last measurement: nothing depends on how it was reached.
THEOREM TableMatchesMountsHolds == Spec => []TableMatchesMounts
<1>1. Init => Matches
  BY DEF Init, Matches
<1> QED BY <1>1, MatchesStep, MatchesJudgment, Invariance, PTL DEF Spec

\* Of the alerts of one path on their way, the recover of the old condition is
\* always before the open of the new one, for any order and number of paths and
\* however much of the batch has been published.
THEOREM RecoverBeforeOpenHolds ==
  Spec => [](\A a, b \in queue[Poll] :
               a.id[1] = b.id[1] /\ a.resolution = "recovered" /\ b.resolution = "open"
                 => a.rank < b.rank)
<1>1. IInv => \A a, b \in queue[Poll] :
                a.id[1] = b.id[1] /\ a.resolution = "recovered" /\ b.resolution = "open"
                  => a.rank < b.rank
  BY DEF IInv, Ranked
<1> QED BY <1>1, Invariance, PTL

-----------------------------------------------------------------------------
\* What is open under an id, or what the consumer holds, is at this severity.
At(alert, severity) == IF severity = "none" THEN alert = NoAlert
                       ELSE alert # NoAlert /\ alert.severity = severity

\* One measurement is enough: the table it leaves is what the thresholds say of it,
\* and so will be what the consumer holds of every id that is not lost, and of every
\* id whose entry it changes, lost or not, whatever was measured or failed before.
\* It is what SeverityReachesConsumer needs besides fairness.
OneMeasurementTells ==
  [][\A measured \in Mounts : PollDisks(measured) =>
       \A d \in Ids :
         LET severity == Judged(measured[d[1]], d[2])
         IN  /\ At(open'[d], severity)
             /\ trust'[d] # "lost" \/ open'[d] # open[d]
                  => At(Forwarder!Channel!Projected(d)', severity)]_vars

\* One publisher races with nobody.
NotRaced == \A d \in Ids : trust[d] # "raced"

\* A poll never races, and it trusts what it tells.
LEMMA PollTrusts ==
  ASSUME IInv, TypeOK, NotRaced, NEW m \in Mounts, PollDisks(m), NEW d \in Ids
  PROVE  /\ trust'[d] # "raced"
         /\ (\E e \in Edges(open, m) : e.id = d) => trust'[d] \in {"agrees", "healing"}
<1>1. Channel!Hand(Poll, Edges(open, m), {})
  BY PollType
<1>2. Channel!Pending = {}
  BY <1>1 DEF Channel!Hand, Channel!Idle, Channel!Pending
<1>3. trust'[d] = Channel!Handed(d, Edges(open, m), {})
  BY <1>1 DEF Channel!Hand, TypeOK
<1> QED BY <1>2, <1>3 DEF Channel!Handed, Channel!IdsOf, NotRaced

LEMMA NotRacedStep == IInv /\ TypeOK /\ NotRaced /\ [Next]_vars => NotRaced'
<1> SUFFICES ASSUME IInv, TypeOK, NotRaced, [Next]_vars PROVE NotRaced'
  OBVIOUS
<1>1. CASE UNCHANGED channelVars
  BY <1>1 DEF NotRaced, channelVars
<1>2. ASSUME NEW ids, trust' = Channel!Lost(ids) PROVE NotRaced'
  BY <1>2 DEF NotRaced, TypeOK, Channel!Lost
<1>3. ASSUME NEW m \in Mounts, PollDisks(m) PROVE NotRaced'
  BY <1>3, PollTrusts DEF NotRaced
<1>4. CASE Publish
  <2>1. PICK a \in queue[Poll] :
          Channel!Deliver(Poll, a) \/ Channel!Skip(Poll, a) \/
            \E reached \in BOOLEAN : Channel!Raise(Poll, a, reached)
    BY <1>4 DEF Publish
  <2>2. CASE Channel!Deliver(Poll, a)
    BY <2>2 DEF Channel!Deliver, Channel!Reached, NotRaced, TypeOK
  <2> QED BY <1>2, <2>1, <2>2 DEF Channel!Skip, Channel!Raise
<1>5. CASE Crash
  BY <1>2, <1>5 DEF Crash, Channel!Down
<1>6. CASE LinkChange
  BY <1>6 DEF LinkChange, Channel!LinkChange, NotRaced
<1> QED BY <1>1, <1>3, <1>4, <1>5, <1>6 DEF Next, vars, Start, IntervalEnds

\* One measurement sets the table and the consumer right, for any paths and any
\* thresholds and after any history.
THEOREM OneMeasurementIsEnough == Spec => OneMeasurementTells
<1>1. Init => NotRaced
  BY DEF Init, Channel!Init, NotRaced
<1>2. IInv /\ TypeOK /\ TypeOK' /\ NotRaced /\ Forwarder!Agreement'
        => [\A measured \in Mounts : PollDisks(measured) =>
              \A d \in Ids :
                LET severity == Judged(measured[d[1]], d[2])
                IN  /\ At(open'[d], severity)
                    /\ trust'[d] # "lost" \/ open'[d] # open[d]
                         => At(Forwarder!Channel!Projected(d)', severity)]_vars
  <2> SUFFICES ASSUME IInv, TypeOK, TypeOK', NotRaced, Forwarder!Agreement',
                      NEW m \in Mounts, PollDisks(m), NEW d \in Ids
               PROVE  /\ At(open'[d], Judged(m[d[1]], d[2]))
                      /\ trust'[d] # "lost" \/ open'[d] # open[d]
                           => At(Forwarder!Channel!Projected(d)', Judged(m[d[1]], d[2]))
    OBVIOUS
  <2>1. open' = NextOpen(open, m) /\ open \in Table /\ Proper(open)
    BY PollType DEF IInv
  <2>2. At(open'[d], Judged(m[d[1]], d[2]))
    BY <2>1, NextOpenShape DEF At
  <2>3. open'[d] # open[d] => \E e \in Edges(open, m) : e.id = d
    BY <2>1, EdgesTellAll
  <2>4. trust'[d] # "lost" \/ open'[d] # open[d] => trust'[d] \in {"agrees", "healing"}
    BY <2>3, PollTrusts DEF TypeOK, Channel!Trust
  <2>5. trust'[d] \in {"agrees", "healing"} => Forwarder!Channel!Projected(d)' = open'[d]
    BY DEF Forwarder!Agreement, Forwarder!Channel!Trusted
  <2> QED BY <2>2, <2>4, <2>5
<1> QED BY <1>1, <1>2, NotRacedStep, Invariance, TypeCorrect, AgreementHolds, PTL
        DEF Spec, OneMeasurementTells
=============================================================================
