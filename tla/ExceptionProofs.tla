---------------------------- MODULE ExceptionProofs ----------------------------
(* The exception half of kontiki-monitor, for any number of handler runs,     *)
(* fingerprints and services, under every failure: types, and the promise of  *)
(* AlertForwarder, from which the agreement of consumer and list follows; and *)
(* its tracker alone: quiet window, silences, and the promise of AlertFeed.   *)
(* The two have no variable in common, except that the last part runs the     *)
(* service with the tracker's quiet, as history, beside it.                   *)
EXTENDS ExceptionMonitor, ExceptionFingerprintTracker, TLAPS

\* A table as the tracker keeps it: under a fingerprint an open alert of it.
Table == [Keys -> Entry \cup {NoAlert}]
Proper(table) ==
  \A k \in Keys : table[k] # NoAlert =>
                    table[k].alert.id = k /\ table[k].alert.resolution = "open"

\* What an alert says is listed under its id from now on.
Tells(a) == IF a.resolution = "open" THEN a ELSE NoAlert

LEMMA BuildAlertType ==
  ASSUME NEW k \in Keys, NEW i \in Instances, NEW r \in {"open", "recovered"}
  PROVE  /\ BuildAlert(k, i, r) \in Alert
         /\ BuildAlert(k, i, r).id = k
         /\ BuildAlert(k, i, r).resolution = r
         /\ BuildAlert(k, i, r) # NoAlert
<1>1. BuildAlert(k, i, r) \in Alert
  BY DEF BuildAlert, Alert
<1> QED BY <1>1, NoAlertAssumption DEF BuildAlert

LEMMA EntryFacts ==
  ASSUME NEW table \in Table, NEW k \in Keys, table[k] # NoAlert
  PROVE  /\ table[k] \in Entry
         /\ table[k].alert \in Alert /\ table[k].alert # NoAlert
         /\ table[k].instance \in Instances
BY NoAlertAssumption DEF Table, Entry

LEMMA ListedType ==
  ASSUME NEW table \in Table, NEW k \in Keys
  PROVE  /\ Listed(table, k) \in Alert \cup {NoAlert}
         /\ Listed(table, k) = NoAlert <=> table[k] = NoAlert
BY EntryFacts DEF Listed

LEMMA DropShape ==
  ASSUME NEW table \in Table, Proper(table), NEW services
  PROVE  /\ Drop(table, services) \in Table
         /\ Proper(Drop(table, services))
         /\ \A k \in Keys : Drop(table, services)[k] =
                              IF ServiceOf[k] \in services THEN NoAlert ELSE table[k]
BY DEF Drop, Table, Proper

\* The entry of a fingerprint after an event of it.
LEMMA SeenShape ==
  ASSUME NEW table \in Table, Proper(table), NEW k \in Keys, NEW i \in Instances
  PROVE  /\ Seen(table, k, i) \in Table
         /\ Proper(Seen(table, k, i))
         /\ \A j \in Keys \ {k} : Seen(table, k, i)[j] = table[j]
         /\ Seen(table, k, i)[k] # NoAlert
         /\ Seen(table, k, i)[k].alert =
              IF table[k] = NoAlert THEN BuildAlert(k, i, "open") ELSE table[k].alert
<1> DEFINE first == [alert |-> BuildAlert(k, i, "open"), instance |-> i, age |-> 0]
           repeat == [table[k] EXCEPT !.instance = i, !.age = 0]
           seen == Seen(table, k, i)
<1>0. 0 \in 0..Window
  BY FingerprintAssumption
<1>1. first \in Entry /\ first # NoAlert /\ first.alert = BuildAlert(k, i, "open")
  <2>1. first \in Entry
    BY <1>0, BuildAlertType DEF Entry
  <2> QED BY <2>1, NoAlertAssumption
<1>2. ASSUME table[k] # NoAlert
      PROVE  repeat \in Entry /\ repeat # NoAlert /\ repeat.alert = table[k].alert
  <2>1. repeat \in Entry /\ repeat.alert = table[k].alert
    BY <1>0, <1>2, EntryFacts DEF Entry
  <2> QED BY <2>1, NoAlertAssumption
<1>3. /\ \A j \in Keys \ {k} : seen[j] = table[j]
      /\ seen[k] = IF table[k] = NoAlert THEN first ELSE repeat
      /\ seen = [table EXCEPT ![k] = seen[k]]
  BY DEF Seen, Table
<1>4. seen[k] \in Entry /\ seen[k] # NoAlert
  BY <1>1, <1>2, <1>3
<1>5. seen \in Table
  BY <1>3, <1>4 DEF Table
<1>6. seen[k].alert = IF table[k] = NoAlert THEN BuildAlert(k, i, "open") ELSE table[k].alert
  BY <1>1, <1>2, <1>3
<1>7. seen[k].alert.id = k /\ seen[k].alert.resolution = "open"
  BY <1>6, BuildAlertType DEF Proper
<1>8. Proper(seen)
  <2> SUFFICES ASSUME NEW j \in Keys, seen[j] # NoAlert
               PROVE  seen[j].alert.id = j /\ seen[j].alert.resolution = "open"
    BY DEF Proper
  <2>1. CASE j = k
    BY <1>7, <2>1
  <2>2. CASE j # k
    <3>1. seen[j] = table[j]
      BY <1>3, <2>2
    <3> QED BY <3>1 DEF Proper
  <2> QED BY <2>1, <2>2
<1> QED BY <1>3, <1>4, <1>5, <1>6, <1>8

LEMMA SweptShape ==
  ASSUME NEW table \in Table, Proper(table), NEW skip
  PROVE  /\ Swept(table, skip) \in Table
         /\ Proper(Swept(table, skip))
         /\ \A k \in Keys : Swept(table, skip)[k] =
                              IF k \in Due(table, skip) THEN NoAlert ELSE table[k]
BY DEF Swept, Table, Proper

LEMMA DueShape ==
  ASSUME NEW table, NEW skip, NEW k \in Due(table, skip)
  PROVE  k \in Keys /\ k \notin skip /\ table[k] # NoAlert
BY DEF Due

\* What a sweep returns, seen from one fingerprint.
LEMMA SweepShape ==
  ASSUME NEW table \in Table, NEW skip
  PROVE  /\ SweepEdges(table, skip) \subseteq Alert
         /\ \A a \in SweepEdges(table, skip) :
              /\ a.id \in Due(table, skip)
              /\ a.resolution = "recovered"
              /\ a = BuildAlert(a.id, table[a.id].instance, "recovered")
         /\ \A k \in Due(table, skip) : \E a \in SweepEdges(table, skip) : a.id = k
<1>1. ASSUME NEW k \in Due(table, skip)
      PROVE  LET a == BuildAlert(k, table[k].instance, "recovered")
             IN  a \in Alert /\ a.id = k /\ a.resolution = "recovered"
  <2>1. k \in Keys /\ table[k] # NoAlert
    BY DueShape
  <2>2. table[k].instance \in Instances
    BY <2>1, EntryFacts
  <2> QED BY <2>1, <2>2, BuildAlertType
<1>2. \A k \in Due(table, skip) :
        BuildAlert(k, table[k].instance, "recovered") \in SweepEdges(table, skip)
  BY DEF SweepEdges
<1>3. \A a \in SweepEdges(table, skip) : \E k \in Due(table, skip) :
        a = BuildAlert(k, table[k].instance, "recovered")
  BY DEF SweepEdges
<1> QED BY <1>1, <1>2, <1>3

\* A sweep tells everything that changes in the list.
LEMMA SweepTellsAll ==
  ASSUME NEW table \in Table, Proper(table), NEW skip
  PROVE  /\ \A a, b \in SweepEdges(table, skip) : a.id = b.id => a = b
         /\ \A a \in SweepEdges(table, skip) :
              /\ Listed(table, a.id) # NoAlert
              /\ Listed(Swept(table, skip), a.id) = NoAlert
         /\ \A k \in Keys : (\A a \in SweepEdges(table, skip) : a.id # k) =>
              Listed(Swept(table, skip), k) = Listed(table, k)
<1>1. \A a, b \in SweepEdges(table, skip) : a.id = b.id => a = b
  BY SweepShape
<1>2. ASSUME NEW a \in SweepEdges(table, skip)
      PROVE  /\ Listed(table, a.id) # NoAlert
             /\ Listed(Swept(table, skip), a.id) = NoAlert
  <2>1. a.id \in Due(table, skip)
    BY SweepShape
  <2>2. a.id \in Keys /\ table[a.id] # NoAlert
    BY <2>1, DueShape
  <2>3. Swept(table, skip)[a.id] = NoAlert
    BY <2>1, <2>2, SweptShape
  <2> QED BY <2>2, <2>3, ListedType DEF Listed
<1>3. ASSUME NEW k \in Keys, \A a \in SweepEdges(table, skip) : a.id # k
      PROVE  Listed(Swept(table, skip), k) = Listed(table, k)
  <2>1. k \notin Due(table, skip)
    BY <1>3, SweepShape
  <2>2. Swept(table, skip)[k] = table[k]
    BY <2>1, SweptShape
  <2> QED BY <2>2 DEF Listed
<1> QED BY <1>1, <1>2, <1>3

\* What observe returns says everything that changes in the list, except for what
\* is dropped for a silence.
LEMMA ObserveTellsAll ==
  ASSUME NEW table \in Table, Proper(table), NEW k \in Keys, NEW i \in Instances,
         NEW names
  PROVE  LET E == ObserveEdges(table, k, i, names)
             next == ObserveOpen(table, k, i, names)
             kept == Drop(table, names)
         IN  /\ E \subseteq Alert
             /\ next \in Table /\ Proper(next)
             /\ \A a, b \in E : a.id = b.id => a = b
             /\ \A a \in E : /\ Listed(next, a.id) = Tells(a)
                             /\ \/ a.resolution = "open" /\ a.id = k
                                                          /\ Listed(kept, a.id) = NoAlert
                                \/ a.resolution = "recovered" /\ Listed(kept, a.id) # NoAlert
             /\ \A j \in Keys : (\A a \in E : a.id # j) => Listed(next, j) = Listed(kept, j)
<1> DEFINE E == ObserveEdges(table, k, i, names)
           next == ObserveOpen(table, k, i, names)
           kept == Drop(table, names)
           seen == Seen(kept, k, i)
           swept == SweepEdges(seen, {k})
<1>1. kept \in Table /\ Proper(kept)
  BY DropShape
<1>2. /\ seen \in Table /\ Proper(seen) /\ seen[k] # NoAlert
      /\ \A j \in Keys \ {k} : seen[j] = kept[j]
      /\ seen[k].alert = IF kept[k] = NoAlert THEN BuildAlert(k, i, "open") ELSE kept[k].alert
  BY <1>1, SeenShape
<1>3. /\ next = Swept(seen, {k})
      /\ E = swept \cup (IF kept[k] = NoAlert THEN {seen[k].alert} ELSE {})
  BY DEF ObserveOpen, ObserveEdges
<1>4. next \in Table /\ Proper(next)
  BY <1>2, <1>3, SweptShape
<1>5. ASSUME NEW a \in swept
      PROVE  /\ a \in Alert /\ a.id \in Keys /\ a.id # k /\ a.resolution = "recovered"
             /\ Listed(next, a.id) = NoAlert
             /\ Listed(kept, a.id) # NoAlert
  <2>1. a \in Alert /\ a.id \in Due(seen, {k}) /\ a.resolution = "recovered"
    BY <1>2, SweepShape
  <2>2. a.id \in Keys /\ a.id # k
    BY <2>1, DueShape
  <2>3. Listed(next, a.id) = NoAlert /\ Listed(seen, a.id) # NoAlert
    BY <1>2, <1>3, SweepTellsAll
  <2>4. Listed(seen, a.id) = Listed(kept, a.id)
    BY <1>2, <2>2 DEF Listed
  <2> QED BY <2>1, <2>2, <2>3, <2>4
<1>6. Listed(next, k) = seen[k].alert
  <2>1. k \notin Due(seen, {k})
    BY DueShape
  <2>2. Swept(seen, {k})[k] = seen[k]
    BY <1>2, <2>1, SweptShape
  <2>3. next[k] = seen[k]
    BY <1>3, <2>2
  <2> QED BY <1>2, <2>3 DEF Listed
<1>7. ASSUME NEW a \in E, a \notin swept
      PROVE  /\ kept[k] = NoAlert /\ a = seen[k].alert /\ a = BuildAlert(k, i, "open")
             /\ a \in Alert /\ a.id = k /\ a.resolution = "open"
  BY <1>2, <1>3, <1>7, BuildAlertType
<1>8. \A a, b \in E : a.id = b.id => a = b
  <2> SUFFICES ASSUME NEW a \in E, NEW b \in E, a.id = b.id PROVE a = b
    OBVIOUS
  <2>1. CASE a \in swept /\ b \in swept
    BY <1>2, <2>1, SweepTellsAll
  <2>2. CASE a \in swept /\ b \notin swept
    BY <1>5, <1>7, <2>2
  <2>3. CASE a \notin swept /\ b \in swept
    BY <1>5, <1>7, <2>3
  <2>4. CASE a \notin swept /\ b \notin swept
    BY <1>7, <2>4
  <2> QED BY <2>1, <2>2, <2>3, <2>4
<1>9. ASSUME NEW a \in E
      PROVE  /\ a \in Alert
             /\ Listed(next, a.id) = Tells(a)
             /\ \/ a.resolution = "open" /\ a.id = k /\ Listed(kept, a.id) = NoAlert
                \/ a.resolution = "recovered" /\ Listed(kept, a.id) # NoAlert
  <2>1. CASE a \in swept
    BY <1>5, <2>1 DEF Tells
  <2>2. CASE a \notin swept
    <3>1. /\ kept[k] = NoAlert /\ a = seen[k].alert /\ a \in Alert
          /\ a.id = k /\ a.resolution = "open"
      BY <1>7, <2>2
    <3>2. Tells(a) = a /\ Listed(next, a.id) = a
      BY <1>6, <3>1 DEF Tells
    <3>3. Listed(kept, a.id) = NoAlert
      BY <3>1 DEF Listed
    <3> QED BY <3>1, <3>2, <3>3
  <2> QED BY <2>1, <2>2
<1>10. ASSUME NEW j \in Keys, \A a \in E : a.id # j
       PROVE  Listed(next, j) = Listed(kept, j)
  <2>0. \A a \in swept : a.id # j
    BY <1>3, <1>10
  <2>1. Listed(Swept(seen, {k}), j) = Listed(seen, j) /\ Swept(seen, {k}) = next
    BY <1>2, <1>3, <2>0, SweepTellsAll
  <2>2. CASE j = k
    <3>1. kept[k] # NoAlert
      <4> SUFFICES ASSUME kept[k] = NoAlert PROVE FALSE
        OBVIOUS
      <4>1. seen[k].alert \in E /\ seen[k].alert.id = k
        BY <1>2, <1>3, BuildAlertType
      <4> QED BY <1>10, <2>2, <4>1
    <3> QED BY <1>2, <2>1, <2>2, <3>1 DEF Listed
  <2>3. CASE j # k
    BY <1>2, <2>1, <2>3 DEF Listed
  <2> QED BY <2>2, <2>3
<1> HIDE DEF E, next, kept
<1> QED BY <1>4, <1>8, <1>9, <1>10 DEF E, next, kept

-----------------------------------------------------------------------------
\* What the refinement needs of a state; the rest of TypeOK follows from it.
IInv == /\ up \in BOOLEAN
        /\ silenced \in SUBSET Services
        /\ file \in SUBSET Services
        /\ open \in Table
        /\ Proper(open)
        /\ queue \in [Publishers -> SUBSET Alert]
        /\ fresh \in SUBSET Publishers
        /\ link \in BOOLEAN

LEMMA InitIInv == Init => IInv
BY DEF Init, IInv, Table, Proper, Channel!Init

LEMMA OlderShape ==
  ASSUME NEW table \in Table, Proper(table)
  PROVE  /\ Older(table) \in Table
         /\ Proper(Older(table))
         /\ \A k \in Keys : Listed(Older(table), k) = Listed(table, k)
<1> DEFINE older(k) == [table[k] EXCEPT !.age = @ + 1]
<1>1. ASSUME NEW k \in Keys, table[k] # NoAlert, table[k].age < Window
      PROVE  older(k) \in Entry /\ older(k) # NoAlert /\ older(k).alert = table[k].alert
  <2>1. table[k] \in Entry /\ table[k].age + 1 \in 0..Window
    BY <1>1, EntryFacts, FingerprintAssumption DEF Entry
  <2>2. older(k) \in Entry /\ older(k).alert = table[k].alert
    BY <2>1 DEF Entry
  <2> QED BY <2>2, NoAlertAssumption
<1>2. \A k \in Keys :
        Older(table)[k] = IF table[k] # NoAlert /\ table[k].age < Window
                          THEN older(k) ELSE table[k]
  BY DEF Older
<1> HIDE DEF older
<1>3. Older(table) \in Table
  BY <1>1 DEF Older, Table, older
<1>4. Proper(Older(table))
  BY <1>1, <1>2 DEF Proper
<1>5. \A k \in Keys : Listed(Older(table), k) = Listed(table, k)
  BY <1>1, <1>2 DEF Listed
<1> QED BY <1>3, <1>4, <1>5

LEMMA HandType ==
  ASSUME IInv, NEW p \in Publishers, NEW E \in SUBSET Alert, NEW dropped,
         Channel!Hand(p, E, dropped)
  PROVE  /\ queue' \in [Publishers -> SUBSET Alert]
         /\ queue'[p] = E
         /\ fresh' \in SUBSET Publishers
         /\ link' \in BOOLEAN
BY DEF IInv, Channel!Hand

LEMMA PublishType ==
  ASSUME IInv, NEW p \in Publishers, Publish(p)
  PROVE  /\ queue' \in [Publishers -> SUBSET Alert]
         /\ fresh' \in SUBSET Publishers
         /\ link' \in BOOLEAN
<1>1. PICK a \in queue[p] :
        Channel!Deliver(p, a) \/ Channel!Skip(p, a) \/
          \E reached \in BOOLEAN : Channel!Raise(p, a, reached)
  BY DEF Publish
<1>2. queue' = [queue EXCEPT ![p] = @ \ {a}] \/ queue' = [queue EXCEPT ![p] = {}]
  BY <1>1 DEF Channel!Deliver, Channel!Skip, Channel!Raise
<1>3. fresh' = fresh \ {p} /\ link' = link
  BY <1>1 DEF Channel!Deliver, Channel!Skip, Channel!Raise
<1> QED BY <1>2, <1>3 DEF IInv

LEMMA StateStep == IInv /\ [Next]_vars => IInv'
<1> SUFFICES ASSUME IInv, [Next]_vars PROVE IInv'
  OBVIOUS
<1>1. CASE Start
  BY <1>1 DEF Start, channelVars, IInv
<1>2. CASE ObserveRefused
  <2>1. open' \in Table /\ Proper(open')
    BY <1>2, DropShape DEF ObserveRefused, IInv
  <2> QED BY <1>2, <2>1 DEF ObserveRefused, Channel!Forget, IInv
<1>3. CASE Sweep
  <2>1. open' \in Table /\ Proper(open') /\ SweepEdges(open, {}) \in SUBSET Alert
    BY <1>3, SweptShape, SweepShape DEF Sweep, IInv
  <2>2. SweepTask \in Publishers
    BY DEF Publishers
  <2>3. UNCHANGED <<up, silenced, file>> /\ Channel!Hand(SweepTask, SweepEdges(open, {}), {})
    BY <1>3 DEF Sweep
  <2>4. /\ queue' \in [Publishers -> SUBSET Alert] /\ fresh' \in SUBSET Publishers
        /\ link' \in BOOLEAN
    BY <2>1, <2>2, <2>3, HandType
  <2> QED BY <2>1, <2>3, <2>4 DEF IInv
<1>4. CASE Tick
  <2>1. open' \in Table /\ Proper(open')
    BY <1>4, OlderShape DEF Tick, IInv
  <2> QED BY <1>4, <2>1 DEF Tick, channelVars, IInv
<1>5. CASE Crash
  BY <1>5 DEF Crash, Channel!Down, IInv, Table, Proper
<1>6. CASE LinkChange
  BY <1>6 DEF LinkChange, Channel!LinkChange, IInv
<1>7. ASSUME NEW h \in Handlers, NEW k \in Keys, NEW instance \in Instances,
             Observe(h, k, instance)
      PROVE  IInv'
  <2>1. /\ open' \in Table /\ Proper(open')
        /\ ObserveEdges(open, k, instance, silenced) \in SUBSET Alert
    BY <1>7, ObserveTellsAll DEF Observe, IInv
  <2>2. h \in Publishers
    BY DEF Publishers
  <2>3. /\ UNCHANGED <<up, silenced, file>>
        /\ Channel!Hand(h, ObserveEdges(open, k, instance, silenced), Tracked(silenced))
    BY <1>7 DEF Observe
  <2>4. /\ queue' \in [Publishers -> SUBSET Alert] /\ fresh' \in SUBSET Publishers
        /\ link' \in BOOLEAN
    BY <2>1, <2>2, <2>3, HandType
  <2> QED BY <2>1, <2>3, <2>4 DEF IInv
<1>8. ASSUME NEW p \in Publishers, Publish(p) PROVE IInv'
  BY <1>8, PublishType DEF Publish, IInv
<1>9. ASSUME NEW s \in Services, NEW saved \in BOOLEAN, AddSilence(s, saved) PROVE IInv'
  <2>1. open' \in Table /\ Proper(open')
    BY <1>9, DropShape DEF AddSilence, IInv
  <2> QED BY <1>9, <2>1 DEF AddSilence, Channel!Forget, channelVars, IInv
<1>10. ASSUME NEW s \in Services, NEW saved \in BOOLEAN, ClearSilence(s, saved) PROVE IInv'
  BY <1>10 DEF ClearSilence, channelVars, IInv
<1>11. CASE UNCHANGED vars
  BY <1>11 DEF vars, channelVars, IInv
<1> QED BY <1>1, <1>2, <1>3, <1>4, <1>5, <1>6, <1>7, <1>8, <1>9, <1>10, <1>11 DEF Next

-----------------------------------------------------------------------------
Facts == INSTANCE AlertForwarderProofs WITH
           Ids <- Keys,
           listed <- [k \in Keys |-> Listed(open, k)]

LEMMA AlertsWellFormed == Facts!WellFormed
BY DEF Facts!WellFormed, Alert

LEMMA TellsIsEffect ==
  ASSUME NEW a
  PROVE  Forwarder!Channel!Effect(a) = Tells(a)
BY DEF Forwarder!Channel!Effect, Tells

LEMMA ChangesShape ==
  ASSUME open' \in Table, NEW ids,
         \A k \in Keys \ ids : Listed(open, k)' = Listed(open, k)
  PROVE  Forwarder!ChangesOnly(ids)
<1>1. \A k \in Keys : Listed(open, k)' \in Alert \cup {NoAlert}
  <2> SUFFICES ASSUME NEW k \in Keys PROVE Listed(open', k) \in Alert \cup {NoAlert}
    BY DEF Listed
  <2> QED BY ListedType
<1> QED BY <1>1 DEF Forwarder!ChangesOnly

\* A batch that says everything that changes is a Judge step.
LEMMA JudgeRefines ==
  ASSUME IInv, open' \in Table,
         NEW p \in Publishers, NEW E \in SUBSET Alert, NEW dropped \in SUBSET Keys,
         Channel!Hand(p, E, dropped),
         \A a, b \in E : a.id = b.id => a = b,
         \A a \in E : Listed(open, a.id)' = Tells(a),
         \A k \in Keys \ dropped : (\A a \in E : a.id # k) =>
           Listed(open, k)' = Listed(open, k)
  PROVE  Forwarder!Next
<1>1. queue'[p] = E
  BY HandType
<1>2. Forwarder!ChangesOnly(Forwarder!Channel!IdsOf(E) \cup dropped)
  BY ChangesShape DEF Forwarder!Channel!IdsOf
<1>3. Forwarder!Channel!Hand(p, E, dropped)
  BY DEF Channel!Hand, Forwarder!Channel!Hand, Channel!Idle, Forwarder!Channel!Idle,
         Channel!Handed, Forwarder!Channel!Handed, Channel!IdsOf,
         Forwarder!Channel!IdsOf, Channel!Pending, Forwarder!Channel!Pending
<1>4. \A a \in E : a.id \in Keys
  BY DEF Alert
<1>5. Forwarder!Judge(p, E, dropped)
  BY <1>2, <1>3, <1>4, TellsIsEffect DEF Forwarder!Judge
<1> QED BY <1>1, <1>5 DEF Forwarder!Next

LEMMA PublishRefines ==
  ASSUME NEW p \in Publishers, Publish(p)
  PROVE  Forwarder!Next
<1>1. PICK a \in queue[p] :
        Channel!Deliver(p, a) \/ Channel!Skip(p, a) \/
          \E reached \in BOOLEAN : Channel!Raise(p, a, reached)
  BY DEF Publish
<1>2. UNCHANGED [k \in Keys |-> Listed(open, k)]
  BY DEF Publish, Listed
<1>3. \/ Forwarder!Channel!Deliver(p, a)
      \/ Forwarder!Channel!Skip(p, a)
      \/ \E reached \in BOOLEAN : Forwarder!Channel!Raise(p, a, reached)
  BY <1>1 DEF Channel!Deliver, Channel!Skip, Channel!Raise, Channel!IsNext, Channel!OtherTurn,
              Channel!Effect, Channel!Reached, Channel!Lost, Channel!IdsOf,
              Forwarder!Channel!Deliver, Forwarder!Channel!Skip, Forwarder!Channel!Raise,
              Forwarder!Channel!IsNext, Forwarder!Channel!OtherTurn,
              Forwarder!Channel!Effect, Forwarder!Channel!Reached,
              Forwarder!Channel!Lost, Forwarder!Channel!IdsOf
<1>4. Forwarder!Publish(p, a)
  BY <1>2, <1>3 DEF Forwarder!Publish
<1> QED BY <1>4 DEF Forwarder!Next

\* Entries dropped for a silence are a Drop step.
LEMMA DropRefines ==
  ASSUME IInv, NEW services, open' = Drop(open, services), Channel!Forget(Tracked(services))
  PROVE  Forwarder!Next
<1>1. open' \in Table /\ Tracked(services) \in SUBSET Keys
  BY DropShape DEF IInv, Tracked
<1>2. \A k \in Keys \ Tracked(services) : Listed(open, k)' = Listed(open, k)
  BY DropShape DEF Tracked, Listed, IInv
<1>3. Forwarder!ChangesOnly(Tracked(services))
  BY <1>1, <1>2, ChangesShape
<1>4. Forwarder!Channel!Forget(Tracked(services))
  BY DEF Channel!Forget, Forwarder!Channel!Forget, Channel!Lost, Forwarder!Channel!Lost
<1> QED BY <1>1, <1>3, <1>4 DEF Forwarder!Next, Forwarder!Drop

LEMMA SameList ==
  ASSUME UNCHANGED channelVars, \A k \in Keys : Listed(open, k)' = Listed(open, k)
  PROVE  UNCHANGED Forwarder!vars
BY DEF Forwarder!vars, Forwarder!channelVars, channelVars

LEMMA StepRefines == IInv /\ [Next]_vars => [Forwarder!Next]_(Forwarder!vars)
<1> SUFFICES ASSUME IInv, [Next]_vars PROVE Forwarder!Next \/ UNCHANGED Forwarder!vars
  OBVIOUS
<1>1. CASE Start
  BY <1>1, SameList DEF Start, Listed
<1>2. CASE ObserveRefused
  BY <1>2, DropRefines DEF ObserveRefused
<1>3. CASE Sweep
  <2> DEFINE E == SweepEdges(open, {})
  <2>1. open' = Swept(open, {}) /\ Channel!Hand(SweepTask, E, {})
    BY <1>3 DEF Sweep
  <2>2. open' \in Table /\ E \in SUBSET Alert /\ SweepTask \in Publishers
    BY <2>1, SweptShape, SweepShape DEF IInv, Publishers
  <2>3. \A a, b \in E : a.id = b.id => a = b
    BY SweepTellsAll DEF IInv
  <2>4. \A a \in E : Listed(open, a.id)' = Tells(a)
    <3> SUFFICES ASSUME NEW a \in E PROVE Listed(open', a.id) = Tells(a)
      BY DEF Listed
    <3>1. Listed(open', a.id) = NoAlert
      BY <2>1, SweepTellsAll DEF IInv
    <3>2. a.resolution = "recovered"
      BY SweepShape DEF IInv
    <3> QED BY <3>1, <3>2 DEF Tells
  <2>5. ASSUME NEW k \in Keys, \A a \in E : a.id # k
        PROVE  Listed(open, k)' = Listed(open, k)
    <3>1. Listed(open', k) = Listed(open, k)
      BY <2>1, <2>5, SweepTellsAll DEF IInv
    <3> QED BY <3>1 DEF Listed
  <2> HIDE DEF E
  <2> QED BY <2>1, <2>2, <2>3, <2>4, <2>5, JudgeRefines
<1>4. CASE Tick
  <2>1. \A k \in Keys : Listed(open', k) = Listed(open, k)
    BY <1>4, OlderShape DEF Tick, IInv
  <2> QED BY <1>4, <2>1, SameList DEF Tick, Listed
<1>5. CASE Crash
  <2> DEFINE ids == Tracked(Services)
  <2>1. open' \in Table /\ ids \in SUBSET Keys
    BY <1>5 DEF Crash, Table, Tracked
  <2>2. \A k \in Keys \ ids : Listed(open, k)' = Listed(open, k)
    BY <1>5, FingerprintAssumption DEF Crash, Listed, Tracked
  <2>3. Forwarder!ChangesOnly(ids)
    BY <2>1, <2>2, ChangesShape
  <2>4. Forwarder!Channel!Down(ids)
    BY <1>5 DEF Crash, Channel!Down, Forwarder!Channel!Down, Channel!Lost,
                Forwarder!Channel!Lost, Channel!IdsOf, Forwarder!Channel!IdsOf,
                Channel!Pending, Forwarder!Channel!Pending
  <2> HIDE DEF ids
  <2> QED BY <2>1, <2>3, <2>4 DEF Forwarder!Next, Forwarder!Down
<1>6. CASE LinkChange
  <2>1. Forwarder!LinkChange
    BY <1>6 DEF LinkChange, Channel!LinkChange, Forwarder!LinkChange,
                Forwarder!Channel!LinkChange, Listed
  <2> QED BY <2>1 DEF Forwarder!Next
<1>7. ASSUME NEW h \in Handlers, NEW k \in Keys, NEW instance \in Instances,
             Observe(h, k, instance)
      PROVE  Forwarder!Next
  <2> DEFINE E == ObserveEdges(open, k, instance, silenced)
             dropped == Tracked(silenced)
             kept == Drop(open, silenced)
  <2>1. open' = ObserveOpen(open, k, instance, silenced) /\ Channel!Hand(h, E, dropped)
    BY <1>7 DEF Observe
  <2>2. /\ open' \in Table /\ E \in SUBSET Alert
        /\ \A a, b \in E : a.id = b.id => a = b
        /\ \A a \in E : Listed(open', a.id) = Tells(a)
        /\ \A j \in Keys : (\A a \in E : a.id # j) => Listed(open', j) = Listed(kept, j)
    BY <2>1, ObserveTellsAll DEF IInv
  <2>3. \A j \in Keys \ dropped : Listed(kept, j) = Listed(open, j)
    BY DropShape DEF IInv, Tracked, Listed
  <2>4. h \in Publishers /\ dropped \in SUBSET Keys
    BY DEF Publishers, Tracked
  <2>5. \A a \in E : Listed(open, a.id)' = Tells(a)
    BY <2>2 DEF Listed
  <2>6. \A j \in Keys \ dropped : (\A a \in E : a.id # j) =>
          Listed(open, j)' = Listed(open, j)
    BY <2>2, <2>3 DEF Listed
  <2> HIDE DEF E, dropped
  <2> QED BY <2>1, <2>2, <2>4, <2>5, <2>6, JudgeRefines
<1>8. ASSUME NEW p \in Publishers, Publish(p) PROVE Forwarder!Next
  BY <1>8, PublishRefines
<1>9. ASSUME NEW s \in Services, NEW saved \in BOOLEAN, AddSilence(s, saved)
      PROVE  Forwarder!Next \/ UNCHANGED Forwarder!vars
  <2>1. CASE saved
    <3>1. open' = Drop(open, {s}) /\ Channel!Forget(Tracked({s}))
      BY <1>9, <2>1 DEF AddSilence
    <3> QED BY <3>1, DropRefines
  <2>2. CASE ~saved
    BY <1>9, <2>2, SameList DEF AddSilence, Listed
  <2> QED BY <2>1, <2>2
<1>10. ASSUME NEW s \in Services, NEW saved \in BOOLEAN, ClearSilence(s, saved)
       PROVE  UNCHANGED Forwarder!vars
  BY <1>10, SameList DEF ClearSilence, Listed
<1>11. CASE UNCHANGED vars
  BY <1>11, SameList DEF vars, Listed
<1> QED BY <1>1, <1>2, <1>3, <1>4, <1>5, <1>6, <1>7, <1>8, <1>9, <1>10, <1>11 DEF Next

LEMMA InitRefines == Init => Forwarder!Init
BY DEF Init, Forwarder!Init, Channel!Init, Forwarder!Channel!Init, Listed

LEMMA Invariance == Spec => []IInv
BY InitIInv, StateStep, PTL DEF Spec

\* Tracker, handlers and sweep of the exception half keep the promise of
\* AlertForwarder, whatever fails: no change of list_open_alerts without a batch
\* that says so, except for silently dropped and lost ids.
THEOREM Refinement == Spec => ImplementsForwarder
<1>1. Spec => [][Forwarder!Next]_(Forwarder!vars)
  BY Invariance, StepRefines, PTL DEF Spec
<1>2. Spec => Forwarder!Init
  BY InitRefines DEF Spec
<1> QED BY <1>1, <1>2, PTL DEF ImplementsForwarder, Forwarder!Spec

\* The instance of the proofs speaks of the same specification.
LEMMA SameSpec == Forwarder!Spec => Facts!Spec
<1>1. Forwarder!Init => Facts!Init
  BY DEF Forwarder!Init, Facts!Init, Forwarder!Channel!Init, Facts!Channel!Init
<1>2. Forwarder!Next => Facts!Next
  BY DEF Forwarder!Next, Facts!Next, Forwarder!Judge, Facts!Judge, Forwarder!Publish,
         Facts!Publish, Forwarder!Drop, Facts!Drop, Forwarder!Down, Facts!Down,
         Forwarder!LinkChange, Facts!LinkChange, Forwarder!ChangesOnly, Facts!ChangesOnly,
         Forwarder!Channel!Hand, Facts!Channel!Hand, Forwarder!Channel!Deliver,
         Facts!Channel!Deliver, Forwarder!Channel!Skip, Facts!Channel!Skip,
         Forwarder!Channel!Raise, Facts!Channel!Raise, Forwarder!Channel!Forget,
         Facts!Channel!Forget, Forwarder!Channel!Down, Facts!Channel!Down,
         Forwarder!Channel!LinkChange, Facts!Channel!LinkChange,
         Forwarder!Channel!Handed, Facts!Channel!Handed, Forwarder!Channel!Idle,
         Facts!Channel!Idle, Forwarder!Channel!IdsOf, Facts!Channel!IdsOf,
         Forwarder!Channel!Pending, Facts!Channel!Pending, Forwarder!Channel!IsNext,
         Facts!Channel!IsNext, Forwarder!Channel!OtherTurn, Facts!Channel!OtherTurn,
         Forwarder!Channel!Effect, Facts!Channel!Effect, Forwarder!Channel!Lost,
         Facts!Channel!Lost, Forwarder!Channel!Reached, Facts!Channel!Reached
<1>3. UNCHANGED Forwarder!vars => UNCHANGED Facts!vars
  BY DEF Forwarder!vars, Facts!vars, Forwarder!channelVars, Facts!channelVars
<1> QED BY <1>1, <1>2, <1>3, PTL DEF Forwarder!Spec, Facts!Spec

LEMMA ForwarderFacts == Spec => [](Facts!TypeOK /\ Facts!Agreement)
<1>1. Facts!WellFormed => (Facts!Spec => []Facts!IInv)
  BY Facts!Invariance
<1>2. Facts!IInv => Facts!TypeOK /\ Facts!Agreement
  BY DEF Facts!IInv
<1> QED BY <1>1, <1>2, AlertsWellFormed, Refinement, SameSpec, PTL DEF ImplementsForwarder

\* Types, of the tables and of everything on its way.
THEOREM TypeCorrect == Spec => []TypeOK
<1>1. IInv /\ Facts!TypeOK => TypeOK
  BY DEF IInv, Facts!TypeOK, TypeOK, Table, Channel!Trust, Facts!Channel!Trust
<1> QED BY <1>1, Invariance, ForwarderFacts, PTL

\* With nothing on its way the consumer holds what list_open_alerts shows, under
\* every fingerprint that no lost, raced or silently dropped alert has set apart.
THEOREM AgreementHolds == Spec => []Forwarder!Agreement
<1>1. Facts!Agreement => Forwarder!Agreement
  BY DEF Facts!Agreement, Forwarder!Agreement, Facts!Channel!Trusted,
         Forwarder!Channel!Trusted, Facts!Channel!Projected, Forwarder!Channel!Projected,
         Facts!Channel!Pending, Forwarder!Channel!Pending, Facts!Channel!Effect,
         Forwarder!Channel!Effect
<1> QED BY <1>1, ForwarderFacts, PTL

-----------------------------------------------------------------------------
\* A batch is handed over only while nothing of its fingerprints is on its way.
Apart == \A p \in Publishers : \/ queue'[p] \subseteq queue[p]
                               \/ Channel!IdsOf(queue'[p]) \cap Channel!IdsOf(Channel!Pending) = {}
BatchesDoNotOverlap == [][Apart]_vars

LEMMA TrustTypes == TypeOK => trust \in [Keys -> Channel!Trust]
BY DEF TypeOK

\* How a step may change the trust of a fingerprint.
LEMMA HandedApart ==
  ASSUME TypeOK, Apart, NEW p \in Publishers, NEW E \in SUBSET Alert, NEW dropped,
         Channel!Hand(p, E, dropped)
  PROVE  \A k \in Keys : trust'[k] = CASE k \in dropped -> "lost"
                                       [] k \notin dropped /\ k \notin Channel!IdsOf(E) -> trust[k]
                                       [] OTHER -> IF trust[k] = "agrees" THEN "agrees"
                                                   ELSE "healing"
<1>1. queue[p] = {} /\ queue'[p] = E
  BY DEF Channel!Hand, Channel!Idle, TypeOK
<1>2. Channel!IdsOf(E) \cap Channel!IdsOf(Channel!Pending) = {}
  <2>1. CASE E = {}
    BY <2>1 DEF Channel!IdsOf
  <2>2. CASE E # {}
    BY <1>1, <2>2 DEF Apart
  <2> QED BY <2>1, <2>2
<1>3. \A k \in Keys : trust'[k] = Channel!Handed(k, E, dropped)
  BY TrustTypes DEF Channel!Hand
<1> QED BY <1>2, <1>3 DEF Channel!Handed

NothingRaced == \A k \in Keys : trust[k] # "raced"

LEMMA NothingRacedStep == IInv /\ TypeOK /\ NothingRaced /\ [Next]_vars /\ [Apart]_vars
                            => NothingRaced'
<1> SUFFICES ASSUME IInv, TypeOK, NothingRaced, [Next]_vars, [Apart]_vars
             PROVE  NothingRaced'
  OBVIOUS
<1> USE DEF NothingRaced
<1>1. CASE UNCHANGED trust
  BY <1>1
<1>2. ASSUME NEW ids, trust' = Channel!Lost(ids) PROVE NothingRaced'
  BY <1>2, TrustTypes DEF Channel!Lost
<1>3. ASSUME NEW p \in Publishers, NEW E \in SUBSET Alert, NEW dropped,
             Channel!Hand(p, E, dropped), Apart
      PROVE  NothingRaced'
  BY <1>3, HandedApart
<1>4. CASE UNCHANGED vars
  BY <1>1, <1>4 DEF vars, channelVars
<1>5. ASSUME NEW h \in Handlers, NEW k \in Keys, NEW instance \in Instances,
             Observe(h, k, instance), Apart
      PROVE  NothingRaced'
  <2>1. /\ ObserveEdges(open, k, instance, silenced) \in SUBSET Alert
        /\ h \in Publishers
    BY ObserveTellsAll DEF IInv, Publishers
  <2> QED BY <1>3, <1>5, <2>1 DEF Observe
<1>6. CASE Sweep /\ Apart
  <2>1. SweepEdges(open, {}) \in SUBSET Alert /\ SweepTask \in Publishers
    BY SweepShape DEF IInv, Publishers
  <2> QED BY <1>3, <1>6, <2>1 DEF Sweep
<1>7. ASSUME NEW p \in Publishers, Publish(p) PROVE NothingRaced'
  <2>1. PICK a \in queue[p] :
          Channel!Deliver(p, a) \/ Channel!Skip(p, a) \/
            \E reached \in BOOLEAN : Channel!Raise(p, a, reached)
    BY <1>7 DEF Publish
  <2>2. CASE Channel!Deliver(p, a)
    BY <2>2, TrustTypes DEF Channel!Deliver, Channel!Reached
  <2> QED BY <1>2, <2>1, <2>2 DEF Channel!Skip, Channel!Raise
<1> QED BY <1>1, <1>2, <1>4, <1>5, <1>6, <1>7
        DEF Next, Start, ObserveRefused, Tick, Crash, LinkChange, AddSilence, ClearSilence,
            Channel!Forget, Channel!Down, Channel!LinkChange, channelVars

\* list-open-alerts-monitor.feature's promise is broken by one thing only: a batch
\* handed over while another publisher still has an alert of the same fingerprint
\* on its way.  As long as that does not happen, consumer and list agree whenever
\* nothing is on its way, under every fingerprint not lost, whatever else fails.
THEOREM SettledUnlessRaced == Spec /\ BatchesDoNotOverlap => []SettledAgreement
<1>1. Init => NothingRaced
  BY DEF Init, Channel!Init, NothingRaced
<1>2. TypeOK /\ NothingRaced /\ Forwarder!Agreement => SettledAgreement
  <2> SUFFICES ASSUME TypeOK, NothingRaced, Forwarder!Agreement, Channel!Pending = {},
                      NEW k \in Keys, trust[k] # "lost"
               PROVE  standing[k] = Listed(open, k)
    BY DEF SettledAgreement
  <2>1. Forwarder!Channel!Trusted(k)
    BY TrustTypes DEF NothingRaced, Channel!Trust, Forwarder!Channel!Trusted
  <2>2. Forwarder!Channel!Projected(k) = standing[k]
    BY DEF Channel!Pending, Forwarder!Channel!Pending, Forwarder!Channel!Projected
  <2> QED BY <2>1, <2>2 DEF Forwarder!Agreement
<1> QED BY <1>1, <1>2, Invariance, TypeCorrect, AgreementHolds, NothingRacedStep, PTL
        DEF Spec, BatchesDoNotOverlap

-----------------------------------------------------------------------------
\* No silence is added for the service of the fingerprint k.
NotSilencing(k) == [][\A saved \in BOOLEAN : ~AddSilence(ServiceOf[k], saved)]_vars

\* What is then true of k throughout: a restart does not silence it either.
Undisturbed(k) == /\ ServiceOf[k] \notin silenced
                  /\ ServiceOf[k] \notin file
                  /\ link
                  /\ trust[k] = "agrees"

LEMMA UndisturbedStep ==
  ASSUME Failures \subseteq {"save"}, NEW k \in Keys,
         IInv, TypeOK, Undisturbed(k), [Next]_vars, [Apart]_vars,
         [\A saved \in BOOLEAN : ~AddSilence(ServiceOf[k], saved)]_vars
  PROVE  Undisturbed(k)'
<1> USE DEF Undisturbed
<1>1. CASE UNCHANGED <<silenced, file, channelVars>>
  BY <1>1 DEF channelVars
<1>2. CASE Start
  BY <1>2 DEF Start, channelVars
<1>3. ASSUME NEW services, ServiceOf[k] \notin services, Channel!Forget(Tracked(services))
      PROVE  link' /\ trust'[k] = "agrees"
  BY <1>3, TrustTypes DEF Channel!Forget, Channel!Lost, Tracked
<1>4. ASSUME NEW p \in Publishers, NEW E \in SUBSET Alert, NEW dropped, k \notin dropped,
             Channel!Hand(p, E, dropped), Apart
      PROVE  link' /\ trust'[k] = "agrees"
  <2>1. link' = link
    BY <1>4 DEF Channel!Hand
  <2>2. trust'[k] = "agrees"
    BY <1>4, HandedApart
  <2> QED BY <2>1, <2>2
<1>5. CASE ObserveRefused
  BY <1>3, <1>5 DEF ObserveRefused
<1>6. CASE Sweep /\ Apart
  <2>1. SweepEdges(open, {}) \in SUBSET Alert /\ SweepTask \in Publishers
    BY SweepShape DEF IInv, Publishers
  <2> QED BY <1>4, <1>6, <2>1 DEF Sweep
<1>7. ASSUME NEW h \in Handlers, NEW j \in Keys, NEW instance \in Instances,
             Observe(h, j, instance), Apart
      PROVE  Undisturbed(k)'
  <2>1. /\ ObserveEdges(open, j, instance, silenced) \in SUBSET Alert
        /\ h \in Publishers /\ k \notin Tracked(silenced)
    BY ObserveTellsAll DEF IInv, Publishers, Tracked
  <2> QED BY <1>4, <1>7, <2>1 DEF Observe
<1>8. ASSUME NEW p \in Publishers, Publish(p) PROVE Undisturbed(k)'
  <2>1. PICK a \in queue[p] : Channel!Deliver(p, a)
    BY <1>8 DEF Publish, Channel!Skip
  <2>2. trust'[k] = "agrees"
    BY <2>1, TrustTypes DEF Channel!Deliver, Channel!Reached
  <2> QED BY <1>8, <2>1, <2>2 DEF Publish, Channel!Deliver
<1>9. ASSUME NEW s \in Services, NEW saved \in BOOLEAN, AddSilence(s, saved), s # ServiceOf[k]
      PROVE  Undisturbed(k)'
  <2>1. ServiceOf[k] \notin silenced' /\ ServiceOf[k] \notin file'
    BY <1>9 DEF AddSilence
  <2>2. link' /\ trust'[k] = "agrees"
    BY <1>3, <1>9 DEF AddSilence, channelVars
  <2> QED BY <2>1, <2>2
<1>10. ASSUME NEW s \in Services, NEW saved \in BOOLEAN, ClearSilence(s, saved)
       PROVE  Undisturbed(k)'
  BY <1>10 DEF ClearSilence, channelVars
<1>11. CASE UNCHANGED vars
  BY <1>1, <1>11 DEF vars
<1> QED BY <1>1, <1>2, <1>5, <1>6, <1>7, <1>8, <1>9, <1>10, <1>11
        DEF Next, Tick, Crash, LinkChange

\* Only failures, silences and overlapping batches set consumer and list apart:
\* without them, what the consumer will hold under a fingerprint is at every
\* moment what list_open_alerts shows of it, failed saves and the silences of other
\* services included.
THEOREM UndisturbedAgrees ==
  ASSUME Failures \subseteq {"save"}, NEW k \in Keys
  PROVE  Spec /\ ServiceOf[k] \notin file /\ NotSilencing(k) /\ BatchesDoNotOverlap
           => [](Forwarder!Channel!Projected(k) = Listed(open, k))
<1>1. Init /\ ServiceOf[k] \notin file => Undisturbed(k)
  BY DEF Init, Channel!Init, Undisturbed
<1>2. IInv /\ TypeOK /\ Undisturbed(k) /\ [Next]_vars /\ [Apart]_vars
        /\ [\A saved \in BOOLEAN : ~AddSilence(ServiceOf[k], saved)]_vars => Undisturbed(k)'
  BY UndisturbedStep
<1>3. Undisturbed(k) /\ Forwarder!Agreement
        => Forwarder!Channel!Projected(k) = Listed(open, k)
  BY DEF Undisturbed, Forwarder!Agreement, Forwarder!Channel!Trusted
<1> QED BY <1>1, <1>2, <1>3, Invariance, TypeCorrect, AgreementHolds, PTL
        DEF Spec, NotSilencing, BatchesDoNotOverlap

-----------------------------------------------------------------------------
\* The tracker alone, as ExceptionFingerprintTracker drives it.

\* The ages of the table are the true quiet times, and silences that were saved
\* have left nothing behind.
Aged == \A k \in Keys : entries[k] # NoAlert => entries[k].age = quiet[k]
Spared == \A k \in Keys : ServiceOf[k] \in silences \ unsaved => entries[k] = NoAlert

TInv == /\ entries \in Table /\ Proper(entries)
        /\ edges \in SUBSET Alert
        /\ silences \in SUBSET Services
        /\ unsaved \in SUBSET silences
        /\ quiet \in [Keys -> 0..Window]
        /\ Aged /\ Spared
        /\ RecoverOnlyIfQuiet /\ SilencedAreSpared

LEMMA TrackerStep ==
  ASSUME [TrackerNext]_trackerVars
  PROVE  \/ UNCHANGED <<entries, edges, silences, unsaved, quiet>>
         \/ \E k \in Keys, i \in Instances :
              /\ ServiceOf[k] \notin silences
              /\ edges' = ObserveEdges(entries, k, i, silences)
              /\ entries' = ObserveOpen(entries, k, i, silences)
              /\ quiet' = [quiet EXCEPT ![k] = 0]
              /\ unsaved' = {} /\ silences' = silences
         \/ /\ entries' = Drop(entries, silences)
            /\ unsaved' = {} /\ edges' = {} /\ UNCHANGED <<silences, quiet>>
         \/ /\ edges' = SweepEdges(entries, {}) /\ entries' = Swept(entries, {})
            /\ UNCHANGED <<silences, unsaved, quiet>>
         \/ \E s \in Services :
              /\ silences' = silences \cup {s} /\ edges' = {} /\ quiet' = quiet
              /\ \/ entries' = Drop(entries, {s}) /\ unsaved' = unsaved \ {s}
                 \/ entries' = entries /\ unsaved' = unsaved \cup {s}
         \/ \E s \in Services :
              /\ silences' = silences \ {s} /\ unsaved' = unsaved \ {s}
              /\ edges' = {} /\ UNCHANGED <<entries, quiet>>
         \/ /\ entries' = Older(entries) /\ edges' = {} /\ UNCHANGED <<silences, unsaved>>
            /\ quiet' = [k \in Keys |-> IF quiet[k] < Window THEN quiet[k] + 1 ELSE Window]
BY DEF TrackerNext, trackerVars, ObserveCall, RefusedCall,
  SweepCall, AddSilenceCall, ClearSilenceCall, ClockTick

LEMMA SeenAge ==
  ASSUME NEW table \in Table, NEW k \in Keys, NEW i \in Instances
  PROVE  Seen(table, k, i)[k].age = 0
<1> DEFINE first == [alert |-> BuildAlert(k, i, "open"), instance |-> i, age |-> 0]
           repeat == [table[k] EXCEPT !.instance = i, !.age = 0]
<1>1. Seen(table, k, i)[k] = IF table[k] = NoAlert THEN first ELSE repeat
  BY DEF Seen, Table
<1>2. table[k] # NoAlert => repeat.age = 0
  BY EntryFacts DEF Entry
<1> QED BY <1>1, <1>2

LEMMA OlderAge ==
  ASSUME NEW table \in Table, NEW k \in Keys, Older(table)[k] # NoAlert
  PROVE  /\ table[k] # NoAlert
         /\ Older(table)[k].age = IF table[k].age < Window THEN table[k].age + 1 ELSE Window
<1>1. table[k] # NoAlert
  BY DEF Older
<1>2. table[k] \in Entry
  BY <1>1, EntryFacts
<1>3. CASE table[k].age < Window
  <2>1. Older(table)[k] = [table[k] EXCEPT !.age = @ + 1]
    BY <1>1, <1>3 DEF Older
  <2> QED BY <1>1, <1>2, <1>3, <2>1 DEF Entry
<1>4. CASE ~(table[k].age < Window)
  <2>1. Older(table)[k] = table[k]
    BY <1>4 DEF Older
  <2>2. table[k].age = Window
    BY <1>2, <1>4, FingerprintAssumption DEF Entry
  <2> QED BY <1>1, <1>4, <2>1, <2>2
<1> QED BY <1>3, <1>4

\* What is due has been quiet for the window.
LEMMA DueIsQuiet ==
  ASSUME NEW table \in Table, NEW skip, NEW k \in Due(table, skip)
  PROVE  table[k].age = Window
<1>1. table[k] \in Entry /\ table[k].age >= Window
  BY DueShape, EntryFacts DEF Due
<1> QED BY <1>1, FingerprintAssumption DEF Entry

\* An event of one fingerprint, and the sweep of the others that comes with it.
LEMMA ObserveKeeps ==
  ASSUME TInv, NEW k \in Keys, NEW i \in Instances, ServiceOf[k] \notin silences,
         edges' = ObserveEdges(entries, k, i, silences),
         entries' = ObserveOpen(entries, k, i, silences),
         quiet' = [quiet EXCEPT ![k] = 0], unsaved' = {}, silences' = silences
  PROVE  TInv'
<1> DEFINE kept == Drop(entries, silences)
           seen == Seen(kept, k, i)
<1>0. entries \in Table /\ Proper(entries)
  BY DEF TInv
<1>1. kept \in Table /\ Proper(kept)
      /\ \A j \in Keys : kept[j] = IF ServiceOf[j] \in silences THEN NoAlert ELSE entries[j]
  BY <1>0, DropShape
<1>2. /\ seen \in Table /\ Proper(seen) /\ seen[k].age = 0
      /\ \A j \in Keys \ {k} : seen[j] = kept[j]
  BY <1>1, SeenShape, SeenAge
<1>3. /\ entries' \in Table /\ Proper(entries') /\ edges' \in SUBSET Alert
      /\ entries' = Swept(seen, {k})
  BY <1>0, ObserveTellsAll DEF ObserveOpen
<1>4. quiet' \in [Keys -> 0..Window]
  BY FingerprintAssumption DEF TInv
<1>5. \A j \in Keys : entries'[j] # NoAlert => entries'[j] = seen[j]
  BY <1>2, <1>3, SweptShape
<1>6. \A j \in Keys : seen[j] # NoAlert => seen[j].age = quiet'[j]
  <2> SUFFICES ASSUME NEW j \in Keys, seen[j] # NoAlert PROVE seen[j].age = quiet'[j]
    OBVIOUS
  <2>1. CASE j = k
    BY <1>2, <2>1 DEF TInv
  <2>2. CASE j # k
    <3>1. seen[j] = entries[j] /\ quiet'[j] = quiet[j]
      BY <1>1, <1>2, <2>2 DEF TInv
    <3> QED BY <3>1 DEF TInv, Aged
  <2> QED BY <2>1, <2>2
<1>7. Aged'
  BY <1>5, <1>6 DEF Aged
<1>8. \A j \in Keys : ServiceOf[j] \in silences => seen[j] = NoAlert
  BY <1>1, <1>2
<1>9. Spared'
  BY <1>5, <1>8 DEF Spared
<1>10. ASSUME NEW a \in edges'
       PROVE  /\ ServiceOf[a.id] \notin silences
              /\ a.resolution = "recovered" => quiet'[a.id] = Window
  <2>1. edges' = SweepEdges(seen, {k}) \cup (IF kept[k] = NoAlert THEN {seen[k].alert} ELSE {})
    BY DEF ObserveEdges
  <2>2. CASE a \in SweepEdges(seen, {k})
    <3>1. a.id \in Due(seen, {k})
      BY <1>2, <2>2, SweepShape
    <3>2. a.id \in Keys /\ seen[a.id] # NoAlert /\ seen[a.id].age = Window
      BY <1>2, <3>1, DueShape, DueIsQuiet
    <3> QED BY <1>6, <1>8, <3>2
  <2>3. CASE a \notin SweepEdges(seen, {k})
    <3>1. kept[k] = NoAlert /\ a = seen[k].alert
      BY <1>10, <2>1, <2>3
    <3>2. a = BuildAlert(k, i, "open")
      BY <1>1, <3>1, SeenShape
    <3> QED BY <3>2, BuildAlertType
  <2> QED BY <2>2, <2>3
<1>11. RecoverOnlyIfQuiet' /\ SilencedAreSpared'
  BY <1>10 DEF RecoverOnlyIfQuiet, SilencedAreSpared
<1> QED BY <1>3, <1>4, <1>7, <1>9, <1>11 DEF TInv

LEMMA SweepKeeps ==
  ASSUME TInv, edges' = SweepEdges(entries, {}), entries' = Swept(entries, {}),
         UNCHANGED <<silences, unsaved, quiet>>
  PROVE  TInv'
<1>0. entries \in Table /\ Proper(entries)
  BY DEF TInv
<1>1. /\ entries' \in Table /\ Proper(entries') /\ edges' \in SUBSET Alert
      /\ \A k \in Keys : entries'[k] # NoAlert => entries'[k] = entries[k]
  BY <1>0, SweptShape, SweepShape
<1>2. Aged' /\ Spared'
  BY <1>1 DEF TInv, Aged, Spared
<1>3. ASSUME NEW a \in edges'
      PROVE  quiet[a.id] = Window /\ ServiceOf[a.id] \notin silences \ unsaved
  <2>1. a.id \in Due(entries, {})
    BY <1>0, SweepShape
  <2>2. a.id \in Keys /\ entries[a.id] # NoAlert /\ entries[a.id].age = Window
    BY <1>0, <2>1, DueShape, DueIsQuiet
  <2> QED BY <2>2 DEF TInv, Aged, Spared
<1>4. RecoverOnlyIfQuiet' /\ SilencedAreSpared'
  BY <1>3 DEF RecoverOnlyIfQuiet, SilencedAreSpared
<1> QED BY <1>1, <1>2, <1>4 DEF TInv

\* A call that returns nothing.
LEMMA NoEdges ==
  ASSUME edges' = {}
  PROVE  edges' \in SUBSET Alert /\ RecoverOnlyIfQuiet' /\ SilencedAreSpared'
BY DEF RecoverOnlyIfQuiet, SilencedAreSpared

LEMMA TInvStep == TInv /\ [TrackerNext]_trackerVars => TInv'
<1> SUFFICES ASSUME TInv, [TrackerNext]_trackerVars PROVE TInv'
  OBVIOUS
<1>0. entries \in Table /\ Proper(entries)
  BY DEF TInv
<1>1. CASE UNCHANGED <<entries, edges, silences, unsaved, quiet>>
  BY <1>1 DEF TInv, Aged, Spared, RecoverOnlyIfQuiet, SilencedAreSpared
<1>2. ASSUME NEW names, entries' = Drop(entries, names), quiet' = quiet, edges' = {},
             silences' \in SUBSET Services, unsaved' \in SUBSET silences',
             \A s \in silences' \ unsaved' : s \in names \/ s \in silences \ unsaved
      PROVE  TInv'
  <2>1. /\ entries' \in Table /\ Proper(entries')
        /\ \A k \in Keys : entries'[k] = IF ServiceOf[k] \in names THEN NoAlert ELSE entries[k]
    BY <1>0, <1>2, DropShape
  <2>2. Aged' /\ Spared'
    BY <1>2, <2>1 DEF TInv, Aged, Spared
  <2> QED BY <1>2, <2>1, <2>2, NoEdges DEF TInv
<1>3. ASSUME entries' = entries, quiet' = quiet, edges' = {}, silences' \in SUBSET Services,
             unsaved' \in SUBSET silences', silences' \ unsaved' \subseteq silences \ unsaved
      PROVE  TInv'
  <2>1. Aged' /\ Spared'
    BY <1>3 DEF TInv, Aged, Spared
  <2> QED BY <1>0, <1>3, <2>1, NoEdges DEF TInv
<1>4. ASSUME entries' = Older(entries), edges' = {}, UNCHANGED <<silences, unsaved>>,
             quiet' = [k \in Keys |-> IF quiet[k] < Window THEN quiet[k] + 1 ELSE Window]
      PROVE  TInv'
  <2>1. entries' \in Table /\ Proper(entries')
    BY <1>0, <1>4, OlderShape
  <2>2. quiet' \in [Keys -> 0..Window]
    BY <1>4, FingerprintAssumption DEF TInv
  <2>3. Aged'
    BY <1>0, <1>4, OlderAge DEF TInv, Aged
  <2>4. Spared'
    BY <1>4 DEF TInv, Spared, Older
  <2> QED BY <1>4, <2>1, <2>2, <2>3, <2>4, NoEdges DEF TInv
<1>5. ASSUME NEW s \in Services, silences' = silences \cup {s}, edges' = {}, quiet' = quiet,
             \/ entries' = Drop(entries, {s}) /\ unsaved' = unsaved \ {s}
             \/ entries' = entries /\ unsaved' = unsaved \cup {s}
      PROVE  TInv'
  BY <1>2, <1>3, <1>5 DEF TInv
<1>6. ASSUME NEW s \in Services, silences' = silences \ {s}, unsaved' = unsaved \ {s},
             edges' = {}, UNCHANGED <<entries, quiet>>
      PROVE  TInv'
  BY <1>3, <1>6 DEF TInv
<1>7. ASSUME entries' = Drop(entries, silences), unsaved' = {}, edges' = {},
             UNCHANGED <<silences, quiet>>
      PROVE  TInv'
  BY <1>2, <1>7 DEF TInv
<1> QED BY <1>1, <1>4, <1>5, <1>6, <1>7, ObserveKeeps, SweepKeeps, TrackerStep

LEMMA TrackerInvariance == TrackerSpec => []TInv
<1>1. TrackerInit => TInv
  BY FingerprintAssumption
     DEF TrackerInit, TInv, Table, Proper, Aged, Spared, RecoverOnlyIfQuiet,
         SilencedAreSpared
<1> QED BY <1>1, TInvStep, PTL DEF TrackerSpec

\* Types of the tracker alone; a silence that failed to save is one that is stored.
THEOREM TrackerTypesHold == TrackerSpec => []TrackerTypeOK
<1>1. TInv => TrackerTypeOK
  BY DEF TInv, TrackerTypeOK, Table
<1> QED BY <1>1, TrackerInvariance, PTL

\* No recover is returned for a fingerprint that had an event within the window,
\* for any window and any interleaving of events, sweeps and silences.
THEOREM RecoverOnlyIfQuietHolds == TrackerSpec => []RecoverOnlyIfQuiet
BY TrackerInvariance, PTL DEF TInv

\* No edge is returned for a silenced service whose silence was saved.
THEOREM SilencedAreSparedHolds == TrackerSpec => []SilencedAreSpared
BY TrackerInvariance, PTL DEF TInv

\* After the sweep task nothing that was quiet for the window is listed.
THEOREM SweepLeavesNoneOverdueHolds == TrackerSpec => SweepLeavesNoneOverdue
<1>1. TInv => [SweepCall => \A k \in Keys : quiet[k] = Window
                                  => entries'[k] = NoAlert]_trackerVars
  <2> SUFFICES ASSUME TInv, SweepCall, NEW k \in Keys, quiet[k] = Window
               PROVE  entries'[k] = NoAlert
    OBVIOUS
  <2>1. entries' = Swept(entries, {}) /\ entries \in Table /\ Proper(entries)
    BY DEF SweepCall, TInv
  <2>2. entries[k] # NoAlert => k \in Due(entries, {})
    BY FingerprintAssumption DEF TInv, Aged, Due
  <2> QED BY <2>1, <2>2, SweptShape
<1> QED BY <1>1, TrackerInvariance, PTL DEF SweepLeavesNoneOverdue

-----------------------------------------------------------------------------
MutedNow == {k \in Keys : ServiceOf[k] \in silences}

\* What one call does to one fingerprint.
Told(k) == Feed!Opened(k) \/ Feed!Recovered(k) \/ Feed!Quiet(k) \/ Feed!Dropped(k)

LEMMA CallOfFeed ==
  ASSUME TInv', \A k \in Keys : Told(k), \A a, b \in edges' : a.id = b.id => a = b
  PROVE  Feed!Next
<1>1. edges' \in SUBSET Alert /\ entries' \in Table
  BY DEF TInv
<1>2. \A k \in Keys : Listed(entries', k) \in Alert \cup {NoAlert}
  BY <1>1, ListedType
<1>3. [k \in Keys |-> Listed(entries, k)]' = [k \in Keys |-> Listed(entries', k)]
  BY DEF Listed
<1>4. [k \in Keys |-> Listed(entries, k)]' \in [Keys -> Alert \cup {NoAlert}]
  BY <1>2, <1>3
<1>5. Feed!AtMostOnePerId(edges')
  BY DEF Feed!AtMostOnePerId
<1>6. MutedNow' \in SUBSET Keys
  BY DEF MutedNow
<1> QED BY <1>1, <1>4, <1>5, <1>6 DEF Feed!Next, Told, MutedNow, Alert

\* Silenced fingerprints leave the table and nothing is returned.
LEMMA DropToldAll ==
  ASSUME TInv, NEW names, entries' = Drop(entries, names), edges' = {}, names \subseteq silences',
         NEW k \in Keys
  PROVE  Told(k)
<1>1. entries'[k] = IF ServiceOf[k] \in names THEN NoAlert ELSE entries[k]
  BY DropShape DEF TInv
<1>2. CASE ServiceOf[k] \in names
  <2>1. Listed(entries', k) = NoAlert
    BY <1>1, <1>2 DEF Listed
  <2> QED BY <1>2, <2>1 DEF Told, Feed!Dropped, Listed
<1>3. CASE ServiceOf[k] \notin names
  <2>1. entries'[k] = entries[k]
    BY <1>1, <1>3
  <2> QED BY <2>1 DEF Told, Feed!Quiet, Listed
<1> QED BY <1>2, <1>3

LEMMA ObserveToldAll ==
  ASSUME TInv, NEW k \in Keys, NEW i \in Instances, ServiceOf[k] \notin silences,
         edges' = ObserveEdges(entries, k, i, silences),
         entries' = ObserveOpen(entries, k, i, silences), silences' = silences,
         NEW j \in Keys
  PROVE  Told(j)
<1> DEFINE kept == Drop(entries, silences)
<1>0. entries \in Table /\ Proper(entries)
  BY DEF TInv
<1>1. kept[j] = IF ServiceOf[j] \in silences THEN NoAlert ELSE entries[j]
  BY <1>0, DropShape
<1>2. ASSUME NEW a \in edges', a.id = j
      PROVE  Feed!Opened(j) \/ Feed!Recovered(j)
  <2>1. /\ Listed(entries', j) = Tells(a) /\ a \in Alert
        /\ \/ a.resolution = "open" /\ j = k /\ Listed(kept, j) = NoAlert
           \/ a.resolution = "recovered" /\ Listed(kept, j) # NoAlert
    BY <1>0, <1>2, ObserveTellsAll
  <2>2. CASE a.resolution = "open"
    <3>1. j = k /\ Listed(kept, j) = NoAlert /\ Listed(entries', j) = a
      BY <2>1, <2>2 DEF Tells
    <3>2. Listed(entries, j) = NoAlert
      BY <1>1, <3>1 DEF Listed
    <3>3. Listed(entries, j) # a
      BY <2>1, <3>2, NoAlertAssumption
    <3>4. Listed(entries, j) # a /\ Listed(entries', j) = a
      BY <3>1, <3>3 DEF Listed
    <3>5. j \notin MutedNow'
      BY <3>1 DEF MutedNow
    <3> QED BY <1>2, <2>2, <3>4, <3>5 DEF Feed!Opened, MutedNow, Listed
  <2>3. CASE a.resolution = "recovered"
    <3>1. Listed(kept, j) # NoAlert /\ Listed(entries', j) = NoAlert
      BY <2>1, <2>3 DEF Tells
    <3>2. Listed(entries, j) # NoAlert
      BY <1>1, <3>1 DEF Listed
    <3> QED BY <1>2, <2>3, <3>1, <3>2
            DEF Feed!Recovered, Listed
  <2> QED BY <2>1, <2>2, <2>3
<1>3. CASE \A a \in edges' : a.id # j
  <2>1. Listed(entries', j) = Listed(kept, j)
    BY <1>0, <1>3, ObserveTellsAll
  <2>2. CASE ServiceOf[j] \in silences
    <3>1. Listed(entries', j) = NoAlert
      BY <1>1, <2>1, <2>2 DEF Listed
    <3> QED BY <1>3, <2>2, <3>1 DEF Told, Feed!Dropped, Listed
  <2>3. CASE ServiceOf[j] \notin silences
    <3>1. Listed(entries', j) = Listed(entries, j)
      BY <1>1, <2>1, <2>3 DEF Listed
    <3> QED BY <1>3, <3>1 DEF Told, Feed!Quiet, Listed
  <2> QED BY <2>2, <2>3
<1> QED BY <1>2, <1>3 DEF Told

LEMMA SweepToldAll ==
  ASSUME TInv, edges' = SweepEdges(entries, {}), entries' = Swept(entries, {}), NEW k \in Keys
  PROVE  Told(k)
<1>0. entries \in Table /\ Proper(entries)
  BY DEF TInv
<1>1. ASSUME NEW a \in edges', a.id = k PROVE Feed!Recovered(k)
  <2>1. /\ Listed(entries, k) # NoAlert /\ Listed(entries', k) = NoAlert
        /\ a.resolution = "recovered"
    BY <1>0, <1>1, SweepTellsAll, SweepShape
  <2> QED BY <1>1, <2>1 DEF Feed!Recovered, Listed
<1>2. CASE \A a \in edges' : a.id # k
  <2>1. Listed(entries', k) = Listed(entries, k)
    BY <1>0, <1>2, SweepTellsAll
  <2> QED BY <1>2, <2>1 DEF Told, Feed!Quiet, Listed
<1> QED BY <1>1, <1>2 DEF Told

\* A tick ages the entries, which list_open_alerts does not show.
LEMMA TickToldAll ==
  ASSUME TInv, entries' = Older(entries), edges' = {}, NEW k \in Keys
  PROVE  Told(k)
<1>0. entries \in Table /\ Proper(entries)
  BY DEF TInv
<1>1. Listed(entries', k) = Listed(entries, k)
  BY <1>0, OlderShape
<1> QED BY <1>1 DEF Told, Feed!Quiet, Listed

LEMMA FeedStep ==
  TInv /\ TInv' /\ [TrackerNext]_trackerVars
    => [Feed!Next]_(Feed!vars)
<1> SUFFICES ASSUME TInv, TInv', [TrackerNext]_trackerVars
             PROVE  Feed!Next \/ UNCHANGED Feed!vars
  OBVIOUS
<1>0. entries \in Table /\ Proper(entries)
  BY DEF TInv
<1>1. CASE UNCHANGED <<entries, edges, silences, unsaved, quiet>>
  BY <1>1 DEF Feed!vars, Listed
<1>2. ASSUME NEW names, entries' = Drop(entries, names), edges' = {}, names \subseteq silences'
      PROVE  Feed!Next
  BY <1>2, DropToldAll, CallOfFeed
<1>3. ASSUME entries' = entries, edges' = {} PROVE Feed!Next
  <2>1. \A k \in Keys : Told(k)
    BY <1>3 DEF Told, Feed!Quiet, Listed
  <2> QED BY <1>3, <2>1, CallOfFeed
<1>4. ASSUME NEW k \in Keys, NEW i \in Instances, ServiceOf[k] \notin silences,
             edges' = ObserveEdges(entries, k, i, silences),
             entries' = ObserveOpen(entries, k, i, silences), silences' = silences
      PROVE  Feed!Next
  <2>1. \A a, b \in edges' : a.id = b.id => a = b
    BY <1>0, <1>4, ObserveTellsAll
  <2> QED BY <1>4, <2>1, ObserveToldAll, CallOfFeed
<1>5. ASSUME edges' = SweepEdges(entries, {}), entries' = Swept(entries, {}) PROVE Feed!Next
  <2>1. \A a, b \in edges' : a.id = b.id => a = b
    BY <1>0, <1>5, SweepTellsAll
  <2> QED BY <1>5, <2>1, SweepToldAll, CallOfFeed
<1>6. ASSUME entries' = Older(entries), edges' = {} PROVE Feed!Next
  BY <1>6, TickToldAll, CallOfFeed
<1>7. ASSUME NEW s \in Services, silences' = silences \cup {s}, edges' = {},
             entries' = Drop(entries, {s}) \/ entries' = entries
      PROVE  Feed!Next
  BY <1>2, <1>3, <1>7
<1>8. ASSUME entries' = Drop(entries, silences), edges' = {}, silences' = silences
      PROVE  Feed!Next
  BY <1>2, <1>8
<1> QED BY <1>1, <1>3, <1>4, <1>5, <1>6, <1>7, <1>8, TrackerStep

LEMMA FeedInit == TrackerInit => Feed!Init
<1> SUFFICES ASSUME TrackerInit PROVE Feed!Init
  OBVIOUS
<1>1. \A k \in Keys : Listed(entries, k) = NoAlert
  BY DEF TrackerInit, Listed
<1> QED BY <1>1 DEF TrackerInit, Feed!Init

\* The exception tracker keeps the promise of AlertFeed: for any fingerprints,
\* window and silences the list changes only by what observe and sweep return,
\* or by the drop of a silenced service.
THEOREM FeedRefinement == TrackerSpec => ImplementsFeed
BY TrackerInvariance, FeedInit, FeedStep, PTL
   DEF TrackerSpec, Feed!Spec, ImplementsFeed

-----------------------------------------------------------------------------
\* The process again, with the quiet time of each fingerprint kept beside it.  An
\* event that is not refused ends it; restarts, silences and sweeps do not touch it.
Outlived == quiet' = [k \in Keys |-> IF quiet[k] < Window THEN quiet[k] + 1 ELSE Window]

QuietNext ==
  \/ \E h \in Handlers, k \in Keys, instance \in Instances :
       Observe(h, k, instance) /\ quiet' = [quiet EXCEPT ![k] = 0]
  \/ Tick /\ Outlived
  \/ /\ \/ Start \/ ObserveRefused \/ Sweep \/ Crash \/ LinkChange
        \/ \E p \in Publishers : Publish(p)
        \/ \E s \in Services, saved \in BOOLEAN : AddSilence(s, saved) \/ ClearSilence(s, saved)
     /\ UNCHANGED quiet

quietVars == <<vars, quiet>>

QuietSpec == Init /\ quiet = [k \in Keys |-> Window] /\ [][QuietNext]_quietVars

\* The ages of the table are the quiet times of its entries.
TrueAges(table, times) == \A k \in Keys : table[k] # NoAlert => table[k].age = times[k]

QInv == quiet \in [Keys -> 0..Window] /\ TrueAges(open, quiet)

\* Beside the quiet times runs the specification of the process.
LEMMA QuietIsHistory == QuietSpec => Spec
<1>1. [QuietNext]_quietVars => [Next]_vars
  BY DEF QuietNext, Next, quietVars
<1> QED BY <1>1, PTL DEF QuietSpec, Spec

\* After an event the ages are true again, before anything is swept.
LEMMA SeenAges ==
  ASSUME NEW table \in Table, Proper(table), NEW times \in [Keys -> 0..Window],
         TrueAges(table, times), NEW k \in Keys, NEW i \in Instances, NEW names
  PROVE  LET seen == Seen(Drop(table, names), k, i)
         IN  seen \in Table /\ Proper(seen) /\ TrueAges(seen, [times EXCEPT ![k] = 0])
<1> DEFINE kept == Drop(table, names)
           seen == Seen(kept, k, i)
           next == [times EXCEPT ![k] = 0]
<1>1. kept \in Table /\ Proper(kept)
      /\ \A j \in Keys : kept[j] = IF ServiceOf[j] \in names THEN NoAlert ELSE table[j]
  BY DropShape
<1>2. /\ seen \in Table /\ Proper(seen) /\ seen[k].age = 0
      /\ \A j \in Keys \ {k} : seen[j] = kept[j]
  BY <1>1, SeenShape, SeenAge
<1>3. next[k] = 0 /\ \A j \in Keys \ {k} : next[j] = times[j]
  OBVIOUS
<1> HIDE DEF next, seen, kept
<1>4. TrueAges(seen, next)
  BY <1>1, <1>2, <1>3 DEF TrueAges
<1> QED BY <1>2, <1>4 DEF next, seen, kept

\* What observe recovers was overdue.
LEMMA ObserveRecoversDue ==
  ASSUME NEW table \in Table, Proper(table), NEW k \in Keys, NEW i \in Instances, NEW names,
         NEW a \in ObserveEdges(table, k, i, names), a.resolution = "recovered"
  PROVE  a.id \in Due(Seen(Drop(table, names), k, i), {k})
<1> DEFINE kept == Drop(table, names)
           seen == Seen(kept, k, i)
<1>1. kept \in Table /\ Proper(kept)
  BY DropShape
<1>2. seen \in Table /\ (kept[k] = NoAlert => seen[k].alert = BuildAlert(k, i, "open"))
  BY <1>1, SeenShape
<1>3. a \in SweepEdges(seen, {k})
  <2>1. a \in SweepEdges(seen, {k}) \/ (kept[k] = NoAlert /\ a = seen[k].alert)
    BY DEF ObserveEdges
  <2> QED BY <1>2, <2>1, BuildAlertType
<1> QED BY <1>2, <1>3, SweepShape

LEMMA QInvStep == IInv /\ QInv /\ [QuietNext]_quietVars => QInv'
<1> SUFFICES ASSUME IInv, QInv, [QuietNext]_quietVars PROVE QInv'
  OBVIOUS
<1>0. /\ open \in Table /\ Proper(open)
      /\ quiet \in [Keys -> 0..Window] /\ TrueAges(open, quiet)
  BY DEF IInv, QInv
<1>1. ASSUME quiet' = quiet, \A k \in Keys : open'[k] # NoAlert => open'[k] = open[k]
      PROVE  QInv'
  BY <1>0, <1>1 DEF QInv, TrueAges
<1>2. ASSUME NEW h \in Handlers, NEW k \in Keys, NEW i \in Instances,
             Observe(h, k, i), quiet' = [quiet EXCEPT ![k] = 0]
      PROVE  QInv'
  <2> DEFINE seen == Seen(Drop(open, silenced), k, i)
  <2>1. seen \in Table /\ Proper(seen) /\ TrueAges(seen, quiet')
    BY <1>0, <1>2, SeenAges
  <2>2. open' = Swept(seen, {k})
    BY <1>2 DEF Observe, ObserveOpen
  <2> HIDE DEF seen
  <2>3. \A j \in Keys : open'[j] # NoAlert => open'[j] = seen[j]
    BY <2>1, <2>2, SweptShape
  <2>4. quiet' \in [Keys -> 0..Window]
    BY <1>0, <1>2, FingerprintAssumption
  <2> QED BY <2>1, <2>3, <2>4 DEF QInv, TrueAges
<1>3. CASE Tick /\ Outlived
  <2>1. quiet' \in [Keys -> 0..Window]
    BY <1>0, <1>3, FingerprintAssumption DEF Outlived
  <2>2. ASSUME NEW k \in Keys, open'[k] # NoAlert PROVE open'[k].age = quiet'[k]
    <3>1. /\ open[k] # NoAlert
          /\ open'[k].age = IF open[k].age < Window THEN open[k].age + 1 ELSE Window
      BY <1>0, <1>3, <2>2, OlderAge DEF Tick
    <3> QED BY <1>0, <1>3, <3>1 DEF Outlived, TrueAges
  <2> QED BY <2>1, <2>2 DEF QInv, TrueAges
<1>4. ASSUME NEW services, open' = Drop(open, services), quiet' = quiet PROVE QInv'
  BY <1>0, <1>1, <1>4, DropShape
<1>5. CASE Sweep /\ UNCHANGED quiet
  <2>1. open' = Swept(open, {})
    BY <1>5 DEF Sweep
  <2> QED BY <1>0, <1>1, <1>5, <2>1, SweptShape
<1>6. CASE Crash /\ UNCHANGED quiet
  BY <1>1, <1>6 DEF Crash
<1>7. CASE UNCHANGED <<open, quiet>>
  BY <1>1, <1>7
<1>8. CASE ObserveRefused /\ UNCHANGED quiet
  BY <1>4, <1>8 DEF ObserveRefused
<1>9. ASSUME NEW s \in Services, NEW saved \in BOOLEAN, AddSilence(s, saved), UNCHANGED quiet
      PROVE  QInv'
  BY <1>4, <1>7, <1>9 DEF AddSilence
<1> QED BY <1>2, <1>3, <1>5, <1>6, <1>7, <1>8, <1>9
        DEF QuietNext, quietVars, vars, Start, LinkChange, Publish, ClearSilence

LEMMA QuietInvariance == QuietSpec => [](IInv /\ QInv)
<1>1. Init /\ quiet = [k \in Keys |-> Window] => QInv
  BY FingerprintAssumption DEF Init, QInv, TrueAges
<1> QED BY <1>1, Invariance, QuietIsHistory, QInvStep, PTL DEF QuietSpec

\* An open alert is exactly as old as its fingerprint is quiet, for any window and
\* number of handlers and whatever restarts, silences and failures came between.
THEOREM AgesAreTrue == QuietSpec => [](\A k \in Keys : open[k] # NoAlert => open[k].age = quiet[k])
BY QuietInvariance, PTL DEF QInv, TrueAges

\* README: an open fingerprint recovers after exception_recover_after_seconds.  In
\* the running process no handler and no sweep hands over a recover of a fingerprint
\* that had an event within the window, whichever of the handlers saw that event.
THEOREM RecoversAreQuiet ==
  QuietSpec => [][\A p \in Publishers : \A a \in queue'[p] \ queue[p] :
                    a.resolution = "recovered" => quiet'[a.id] = Window]_quietVars
<1>1. IInv /\ QInv
        => [QuietNext => \A p \in Publishers : \A a \in queue'[p] \ queue[p] :
                           a.resolution = "recovered" => quiet'[a.id] = Window]_quietVars
  <2> SUFFICES ASSUME IInv, QInv, QuietNext, NEW p \in Publishers,
                      NEW a \in queue'[p] \ queue[p], a.resolution = "recovered"
               PROVE  quiet'[a.id] = Window
    OBVIOUS
  <2>0. /\ open \in Table /\ Proper(open)
        /\ quiet \in [Keys -> 0..Window] /\ TrueAges(open, quiet)
    BY DEF IInv, QInv
  <2>1. ASSUME NEW q \in Publishers, NEW E \in SUBSET Alert, NEW dropped,
               Channel!Hand(q, E, dropped)
        PROVE  a \in E
    BY <2>1 DEF Channel!Hand, IInv
  <2>2. ASSUME NEW h \in Handlers, NEW k \in Keys, NEW i \in Instances,
               Observe(h, k, i), quiet' = [quiet EXCEPT ![k] = 0]
        PROVE  quiet'[a.id] = Window
    <3> DEFINE seen == Seen(Drop(open, silenced), k, i)
    <3>1. a \in ObserveEdges(open, k, i, silenced)
      BY <2>0, <2>1, <2>2, ObserveTellsAll DEF Observe, Publishers
    <3>2. a.id \in Due(seen, {k})
      BY <2>0, <3>1, ObserveRecoversDue
    <3>3. seen \in Table /\ TrueAges(seen, quiet')
      BY <2>0, <2>2, SeenAges
    <3> HIDE DEF seen
    <3> QED BY <3>2, <3>3, DueShape, DueIsQuiet DEF TrueAges
  <2>3. CASE Sweep /\ UNCHANGED quiet
    <3>1. a \in SweepEdges(open, {})
      BY <2>0, <2>1, <2>3, SweepShape DEF Sweep, Publishers
    <3>2. a.id \in Due(open, {})
      BY <2>0, <3>1, SweepShape
    <3> QED BY <2>0, <2>3, <3>2, DueShape, DueIsQuiet DEF TrueAges
  <2>4. queue'[p] \subseteq queue[p] => FALSE
    OBVIOUS
  <2>5. ASSUME NEW q \in Publishers, Publish(q) PROVE FALSE
    BY <2>4, <2>5
       DEF Publish, Channel!Deliver, Channel!Skip, Channel!Raise, IInv
  <2> QED BY <2>2, <2>3, <2>4, <2>5
          DEF QuietNext, Start, ObserveRefused, Tick, Crash, LinkChange, AddSilence,
              ClearSilence, channelVars, Channel!Forget, Channel!Down, Channel!LinkChange
<1> QED BY <1>1, QuietInvariance, PTL DEF QuietSpec

\* An alert of the fingerprint is on its way.
OnItsWay(k) == \E a \in Channel!Pending : a.id = k

\* What the consumer will hold of a fingerprint whose alert is handed over alone.
LEMMA ToldAlone ==
  ASSUME IInv, TypeOK, Forwarder!Agreement',
         NEW p \in Publishers, NEW E \in SUBSET Alert, NEW dropped, Channel!Hand(p, E, dropped),
         NEW a \in E, a.id \notin dropped, ~OnItsWay(a.id)
  PROVE  Forwarder!Channel!Projected(a.id)' = Listed(open', a.id)
<1>1. a.id \in Keys
  BY DEF Alert
<1>2. a.id \in Channel!IdsOf(E) /\ a.id \notin Channel!IdsOf(Channel!Pending)
  BY DEF Channel!IdsOf, OnItsWay
<1>3. trust'[a.id] = Channel!Handed(a.id, E, dropped)
  BY <1>1, TrustTypes DEF Channel!Hand
<1>4. trust'[a.id] \in {"agrees", "healing"}
  BY <1>2, <1>3 DEF Channel!Handed
<1>5. Forwarder!Channel!Trusted(a.id)'
  BY <1>4 DEF Forwarder!Channel!Trusted
<1>6. [k \in Keys |-> Listed(open, k)]'[a.id] = Listed(open', a.id)
  BY <1>1 DEF Listed
<1> QED BY <1>1, <1>5, <1>6 DEF Forwarder!Agreement

\* One sweep is enough: afterwards no fingerprint is listed that was quiet for the
\* window, and of those that the sweep takes off the list the consumer will hold
\* nothing either, whatever was lost, raced or dropped before, unless an older alert
\* is still on its way.  It is what QuietReachesConsumer needs besides fairness.
OneSweepTells ==
  [][Sweep => \A k \in Keys : quiet[k] = Window =>
       /\ open'[k] = NoAlert
       /\ open[k] # NoAlert /\ ~OnItsWay(k)
            => Forwarder!Channel!Projected(k)' = NoAlert]_quietVars

\* One sweep settles everything that has been quiet for the window.
THEOREM OneSweepIsEnough == QuietSpec => OneSweepTells
<1>1. IInv /\ QInv /\ TypeOK /\ Forwarder!Agreement'
        => [Sweep => \A k \in Keys : quiet[k] = Window =>
              /\ open'[k] = NoAlert
              /\ open[k] # NoAlert /\ ~OnItsWay(k)
                   => Forwarder!Channel!Projected(k)' = NoAlert]_quietVars
  <2> SUFFICES ASSUME IInv, QInv, TypeOK, Forwarder!Agreement', Sweep,
                      NEW k \in Keys, quiet[k] = Window
               PROVE  /\ open'[k] = NoAlert
                      /\ open[k] # NoAlert /\ ~OnItsWay(k)
                           => Forwarder!Channel!Projected(k)' = NoAlert
    OBVIOUS
  <2>0. /\ open \in Table /\ Proper(open) /\ TrueAges(open, quiet)
        /\ open' = Swept(open, {}) /\ Channel!Hand(SweepTask, SweepEdges(open, {}), {})
    BY DEF IInv, QInv, Sweep
  <2>1. open[k] # NoAlert => k \in Due(open, {})
    BY <2>0, FingerprintAssumption DEF TrueAges, Due
  <2>2. open'[k] = NoAlert
    BY <2>0, <2>1, SweptShape
  <2>3. ASSUME open[k] # NoAlert, ~OnItsWay(k)
        PROVE  Forwarder!Channel!Projected(k)' = NoAlert
    <3>1. PICK a \in SweepEdges(open, {}) : a.id = k
      BY <2>0, <2>1, <2>3, SweepShape
    <3>2. SweepEdges(open, {}) \in SUBSET Alert /\ SweepTask \in Publishers
      BY <2>0, SweepShape DEF Publishers
    <3>3. Forwarder!Channel!Projected(a.id)' = Listed(open', a.id)
      BY <2>0, <2>3, <3>1, <3>2, ToldAlone
    <3> QED BY <2>2, <3>1, <3>3 DEF Listed
  <2> QED BY <2>2, <2>3
<1> QED BY <1>1, QuietInvariance, QuietIsHistory, TypeCorrect, AgreementHolds, PTL
        DEF OneSweepTells

\* One event is enough: it lists its fingerprint, and where the fingerprint was not
\* listed and nothing of it is on its way, the consumer will hold the alert of this
\* event, whatever was lost, raced or dropped before.
OneEventTells ==
  [][\A h \in Handlers, k \in Keys, instance \in Instances : Observe(h, k, instance) =>
       /\ open'[k] # NoAlert
       /\ open[k] = NoAlert /\ ~OnItsWay(k)
            => Forwarder!Channel!Projected(k)' = BuildAlert(k, instance, "open")]_vars

\* One event of a fingerprint that is not listed sets list and consumer right.
THEOREM OneEventIsEnough == Spec => OneEventTells
<1>1. IInv /\ TypeOK /\ Forwarder!Agreement'
        => [\A h \in Handlers, k \in Keys, instance \in Instances : Observe(h, k, instance) =>
              /\ open'[k] # NoAlert
              /\ open[k] = NoAlert /\ ~OnItsWay(k)
                   => Forwarder!Channel!Projected(k)' = BuildAlert(k, instance, "open")]_vars
  <2> SUFFICES ASSUME IInv, TypeOK, Forwarder!Agreement', NEW h \in Handlers, NEW k \in Keys,
                      NEW i \in Instances, Observe(h, k, i)
               PROVE  /\ open'[k] # NoAlert
                      /\ open[k] = NoAlert /\ ~OnItsWay(k)
                           => Forwarder!Channel!Projected(k)' = BuildAlert(k, i, "open")
    OBVIOUS
  <2> DEFINE kept == Drop(open, silenced)
             seen == Seen(kept, k, i)
             E == ObserveEdges(open, k, i, silenced)
  <2>0. /\ open \in Table /\ Proper(open) /\ ServiceOf[k] \notin silenced
        /\ open' = Swept(seen, {k}) /\ Channel!Hand(h, E, Tracked(silenced))
    BY DEF IInv, Observe, ObserveOpen
  <2>1. kept \in Table /\ Proper(kept) /\ kept[k] = open[k]
    BY <2>0, DropShape
  <2>2. /\ seen \in Table /\ Proper(seen) /\ seen[k] # NoAlert
        /\ kept[k] = NoAlert => seen[k].alert = BuildAlert(k, i, "open")
    BY <2>1, SeenShape
  <2>3. open'[k] = seen[k]
    <3>1. k \notin Due(seen, {k})
      BY DueShape
    <3> HIDE DEF seen
    <3> QED BY <2>0, <2>2, <3>1, SweptShape
  <2>4. ASSUME open[k] = NoAlert, ~OnItsWay(k)
        PROVE  Forwarder!Channel!Projected(k)' = BuildAlert(k, i, "open")
    <3> DEFINE a == BuildAlert(k, i, "open")
    <3>1. a = seen[k].alert /\ a \in E /\ a.id = k
      BY <2>1, <2>2, <2>4, BuildAlertType DEF ObserveEdges
    <3>2. E \in SUBSET Alert /\ h \in Publishers /\ k \notin Tracked(silenced)
      BY <2>0, ObserveTellsAll DEF Publishers, Tracked
    <3>3. Listed(open', k) = a
      BY <2>2, <2>3, <3>1 DEF Listed
    <3> HIDE DEF a, E
    <3>4. Forwarder!Channel!Projected(a.id)' = Listed(open', a.id)
      BY <2>0, <2>4, <3>1, <3>2, ToldAlone
    <3> QED BY <3>1, <3>3, <3>4 DEF a
  <2> QED BY <2>2, <2>3, <2>4
<1> QED BY <1>1, Invariance, TypeCorrect, AgreementHolds, PTL DEF OneEventTells

-----------------------------------------------------------------------------
\* A service that is silenced has nothing open, nor has one that is down.
NothingSilencedOpen == /\ ~up => \A k \in Keys : open[k] = NoAlert
                       /\ \A k \in Keys : ServiceOf[k] \in silenced => open[k] = NoAlert

LEMMA NothingSilencedOpenStep ==
  ASSUME "save" \notin Failures, IInv, NothingSilencedOpen, [Next]_vars
  PROVE  NothingSilencedOpen'
<1>0. open \in Table /\ Proper(open)
  BY DEF IInv
<1>1. ASSUME UNCHANGED up, silenced' \subseteq silenced,
             \A k \in Keys : open'[k] # NoAlert => open[k] # NoAlert
      PROVE  NothingSilencedOpen'
  BY <1>1 DEF NothingSilencedOpen
<1>2. CASE Start
  BY <1>2 DEF Start, NothingSilencedOpen
<1>3. CASE ObserveRefused
  <2>1. \A k \in Keys : open'[k] # NoAlert => open[k] # NoAlert
    BY <1>0, <1>3, DropShape DEF ObserveRefused
  <2> QED BY <1>1, <1>3, <2>1 DEF ObserveRefused
<1>4. CASE Sweep
  <2>1. \A k \in Keys : open'[k] # NoAlert => open[k] # NoAlert
    BY <1>0, <1>4, SweptShape DEF Sweep
  <2> QED BY <1>1, <1>4, <2>1 DEF Sweep
<1>5. CASE Tick
  <2>1. \A k \in Keys : open'[k] # NoAlert => open[k] # NoAlert
    BY <1>0, <1>5, OlderAge DEF Tick
  <2> QED BY <1>1, <1>5, <2>1 DEF Tick
<1>6. CASE Crash
  BY <1>6 DEF Crash, NothingSilencedOpen
<1>7. ASSUME NEW h \in Handlers, NEW k \in Keys, NEW i \in Instances, Observe(h, k, i)
      PROVE  NothingSilencedOpen'
  <2> DEFINE kept == Drop(open, silenced)
             seen == Seen(kept, k, i)
  <2>1. /\ up' /\ silenced' = silenced /\ ServiceOf[k] \notin silenced
        /\ open' = Swept(seen, {k})
    BY <1>7 DEF Observe, ObserveOpen
  <2>2. kept \in Table /\ Proper(kept)
        /\ \A j \in Keys : kept[j] = IF ServiceOf[j] \in silenced THEN NoAlert ELSE open[j]
    BY <1>0, DropShape
  <2>3. seen \in Table /\ Proper(seen) /\ \A j \in Keys \ {k} : seen[j] = kept[j]
    BY <2>2, SeenShape
  <2> HIDE DEF seen, kept
  <2>4. \A j \in Keys : open'[j] # NoAlert => seen[j] # NoAlert
    BY <2>1, <2>3, SweptShape
  <2> QED BY <2>1, <2>2, <2>3, <2>4 DEF NothingSilencedOpen
<1>8. ASSUME NEW s \in Services, NEW saved \in BOOLEAN, AddSilence(s, saved)
      PROVE  NothingSilencedOpen'
  <2>1. up /\ up' = up /\ silenced' = silenced \cup {s} /\ open' = Drop(open, {s})
    BY <1>8 DEF AddSilence
  <2>2. \A k \in Keys : open'[k] = IF ServiceOf[k] = s THEN NoAlert ELSE open[k]
    BY <1>0, <2>1, DropShape
  <2> QED BY <2>1, <2>2 DEF NothingSilencedOpen
<1>9. ASSUME NEW s \in Services, NEW saved \in BOOLEAN, ClearSilence(s, saved)
      PROVE  NothingSilencedOpen'
  BY <1>1, <1>9 DEF ClearSilence
<1>10. CASE UNCHANGED <<up, silenced, open>>
  BY <1>1, <1>10
<1> QED BY <1>2, <1>3, <1>4, <1>5, <1>6, <1>7, <1>8, <1>9, <1>10
        DEF Next, Publish, LinkChange, vars

\* list-open-alerts-monitor.feature: silences drop matching opens without a recover
\* publish.  Where the silences file can be written, list_open_alerts shows nothing
\* of a silenced service and no handler or sweep hands over an alert of one, neither
\* an open nor a recover, through any restarts, although the sweep is not told what
\* is silenced.
THEOREM SilencedHandNothing ==
  ASSUME "save" \notin Failures
  PROVE  Spec => /\ [](\A k \in Keys : ServiceOf[k] \in silenced => Listed(open, k) = NoAlert)
                 /\ [][\A p \in Publishers : \A a \in queue'[p] \ queue[p] :
                         ServiceOf[a.id] \notin silenced]_vars
<1>1. Init => NothingSilencedOpen
  BY DEF Init, NothingSilencedOpen
<1>2. IInv /\ NothingSilencedOpen /\ [Next]_vars => NothingSilencedOpen'
  BY NothingSilencedOpenStep
<1>3. NothingSilencedOpen
        => \A k \in Keys : ServiceOf[k] \in silenced => Listed(open, k) = NoAlert
  BY DEF NothingSilencedOpen, Listed
<1>4. IInv /\ NothingSilencedOpen
        => [Next => \A p \in Publishers : \A a \in queue'[p] \ queue[p] :
                      ServiceOf[a.id] \notin silenced]_vars
  <2> SUFFICES ASSUME IInv, NothingSilencedOpen, Next, NEW p \in Publishers,
                      NEW a \in queue'[p] \ queue[p]
               PROVE  ServiceOf[a.id] \notin silenced
    OBVIOUS
  <2>0. open \in Table /\ Proper(open)
    BY DEF IInv
  <2>1. ASSUME NEW q \in Publishers, NEW E \in SUBSET Alert, NEW dropped,
               Channel!Hand(q, E, dropped)
        PROVE  a \in E
    BY <2>1 DEF Channel!Hand, IInv
  <2>2. ASSUME NEW h \in Handlers, NEW k \in Keys, NEW i \in Instances, Observe(h, k, i)
        PROVE  ServiceOf[a.id] \notin silenced
    <3> DEFINE kept == Drop(open, silenced)
    <3>1. a \in ObserveEdges(open, k, i, silenced) /\ ServiceOf[k] \notin silenced
      BY <2>0, <2>1, <2>2, ObserveTellsAll DEF Observe, Publishers
    <3>2. a.id = k \/ (a.id \in Keys /\ Listed(kept, a.id) # NoAlert)
      BY <2>0, <3>1, ObserveTellsAll DEF Alert
    <3>3. \A j \in Keys : ServiceOf[j] \in silenced => Listed(kept, j) = NoAlert
      BY <2>0, DropShape DEF Listed
    <3> HIDE DEF kept
    <3> QED BY <3>1, <3>2, <3>3
  <2>3. CASE Sweep
    <3>1. a \in SweepEdges(open, {})
      BY <2>0, <2>1, <2>3, SweepShape DEF Sweep, Publishers
    <3>2. a.id \in Keys /\ open[a.id] # NoAlert
      BY <2>0, <3>1, SweepShape, DueShape
    <3> QED BY <3>2 DEF NothingSilencedOpen
  <2>4. ASSUME NEW q \in Publishers, Publish(q) PROVE FALSE
    BY <2>4 DEF Publish, Channel!Deliver, Channel!Skip, Channel!Raise, IInv
  <2> QED BY <2>2, <2>3, <2>4
          DEF Next, Start, ObserveRefused, Tick, Crash, LinkChange, AddSilence,
              ClearSilence, channelVars, Channel!Forget, Channel!Down, Channel!LinkChange
<1> QED BY <1>1, <1>2, <1>3, <1>4, Invariance, PTL DEF Spec
=============================================================================
