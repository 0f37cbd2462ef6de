------------------------------ MODULE FleetState ------------------------------
(* The judgment of fleet_state.py as operators: a reply of the registry's    *)
(* get_services, the expected services of the configuration and the table    *)
(* of open conditions give the alerts to emit and the next table.            *)
EXTENDS Integers, FiniteSets

CONSTANTS Services,    \* names under kontiki-monitor.expected_services
          Instances,   \* instance ids that may register under a service
          MinActive,   \* service -> min_active, at least 1 once parsed
          Position,    \* service -> its place in the expected_services mapping
          NoAlert      \* "no open condition"

ASSUME FleetAssumption ==
  /\ IsFiniteSet(Services)
  /\ IsFiniteSet(Instances)
  /\ MinActive \in [Services -> Nat \ {0}]
  /\ Position \in [Services -> 1..Cardinality(Services)]
  /\ \A s, t \in Services : Position[s] = Position[t] => s = t

Kinds == {"missing", "insufficient"}
Ids == Services \X Kinds                            \* fleet:<service>:<kind>
Resolutions == {"open", "recovered"}

\* rank is the place of the alert in the list that evaluate returns.
Alert == [id : Ids, resolution : Resolutions,
          active : 0..Cardinality(Instances), rank : 1..(2 * Cardinality(Services))]

ASSUME NoAlertAssumption == NoAlert \notin Alert

\* What get_services says of one service: "other" is any status but active, or
\* instance data that is not a dict.  A service missing from the reply, one
\* whose value is not a dict, and a reply that is no dict are all "absent".
Statuses == {"absent", "active", "other"}
Snapshot == [Instances -> Statuses]
Replies == [Services -> Snapshot]

Registered(snapshot) == {i \in Instances : snapshot[i] # "absent"}
ActiveCount(snapshot) == Cardinality({i \in Instances : snapshot[i] = "active"})

Condition(s, snapshot) ==
  IF Registered(snapshot) = {} THEN "missing"
  ELSE IF ActiveCount(snapshot) < MinActive[s] THEN "insufficient" ELSE "healthy"

\* The condition of every service, silenced ones being left out ("skipped").
ComputeOpen(services, silenced) ==
  [s \in Services |-> IF s \in silenced THEN "skipped" ELSE Condition(s, services[s])]

\* Slip: the opens of an evaluation are listed before its recovers.
Rank_OpensFirst(s, resolution) ==
  IF resolution = "open" THEN Position[s] ELSE Cardinality(Services) + Position[s]

\* Recovers come first, both groups in the order of expected_services: the
\* table is rebuilt in that order by every evaluation and deletions keep it.
Rank(s, resolution) ==
  IF resolution = "recovered" THEN Position[s] ELSE Cardinality(Services) + Position[s]

BuildAlert(s, kind, services, resolution) ==
  [id |-> <<s, kind>>, resolution |-> resolution,
   active |-> ActiveCount(services[s]), rank |-> Rank(s, resolution)]

\* The alert list_open_alerts shows under the id <<s, kind>>, if any.
Listed(open, id) ==
  IF open[id[1]] # NoAlert /\ open[id[1]].id = id THEN open[id[1]] ELSE NoAlert

\* The table without the services that are silenced.
Drop(open, silenced) ==
  [s \in Services |-> IF s \in silenced THEN NoAlert ELSE open[s]]

\* Slip: a condition that gives way to the other one is not recovered.
Recovers_OnlyHealthy(open, services, current) ==
  {BuildAlert(id[1], id[2], services, "recovered") :
     id \in {d \in Ids : Listed(open, d) # NoAlert /\ current[d[1]] \notin Kinds}}

\* Slip: an open alert is returned again by every evaluation.
Opens_EveryPoll(open, services, current) ==
  {BuildAlert(id[1], id[2], services, "open") : id \in {d \in Ids : current[d[1]] = d[2]}}

\* Slip: a service that has an open condition does not open the other one.
Opens_OnlyFirst(open, services, current) ==
  {BuildAlert(id[1], id[2], services, "open") :
     id \in {d \in Ids : open[d[1]] = NoAlert /\ current[d[1]] = d[2]}}

\* The alerts that evaluate returns for the table `open` (after Drop).
Recovers(open, services, current) ==
  {BuildAlert(id[1], id[2], services, "recovered") :
     id \in {d \in Ids : Listed(open, d) # NoAlert /\ current[d[1]] # d[2]}}

Opens(open, services, current) ==
  {BuildAlert(id[1], id[2], services, "open") :
     id \in {d \in Ids : Listed(open, d) = NoAlert /\ current[d[1]] = d[2]}}

Edges(open, services, silenced) ==
  LET kept == Drop(open, silenced)
      current == ComputeOpen(services, silenced)
  IN  Recovers(kept, services, current) \cup Opens(kept, services, current)

\* Slip: the table records a healthy service too.
NextOpen_Healthy(open, services, silenced) ==
  LET current == ComputeOpen(services, silenced)
  IN  [s \in Services |-> IF current[s] = "skipped" THEN NoAlert
                          ELSE BuildAlert(s, current[s], services, "open")]

\* Slip: the alert of a persisting condition is rebuilt from the latest reply.
NextOpen_Rebuilt(open, services, silenced) ==
  LET current == ComputeOpen(services, silenced)
  IN  [s \in Services |-> IF current[s] \notin Kinds THEN NoAlert
                          ELSE BuildAlert(s, current[s], services, "open")]

\* The table after evaluate: a condition that persists keeps its first alert.
NextOpen(open, services, silenced) ==
  LET kept == Drop(open, silenced)
      current == ComputeOpen(services, silenced)
  IN  [s \in Services |->
         IF current[s] \notin Kinds THEN NoAlert
         ELSE IF Listed(kept, <<s, current[s]>>) # NoAlert THEN kept[s]
         ELSE BuildAlert(s, current[s], services, "open")]
=============================================================================
