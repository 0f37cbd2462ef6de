------------------------------ MODULE AlertFeed ------------------------------
(* What one call of a tracker of this repository promises to the code that *)
(* forwards its alerts: FleetStateTracker and ExceptionFingerprintTracker, *)
(* which may be silenced, keep a table of open alerts and return "edges",  *)
(* alerts with resolution "open" or "recovered".  The promise relates the  *)
(* table that list_open_alerts shows to the edges: the table never changes *)
(* behind the back of a consumer of the edges, except for ids that were    *)
(* muted (silenced), which may leave it quietly.                           *)
CONSTANTS Ids,       \* alert ids
          Edge,      \* alerts: records with at least id and resolution
          NoAlert    \* stands for "nothing open under this id"

VARIABLES listed,    \* Id -> the alert list_open_alerts shows, or NoAlert
          edges,     \* the set of alerts the last call returned
          muted      \* ids whose opens are suppressed

vars == <<listed, edges, muted>>

Init == /\ listed = [i \in Ids |-> NoAlert]
        /\ edges = {}
        /\ muted \in SUBSET Ids

\* The table entry of i becomes the open alert that the call returned.
Opened(i) ==
  \E e \in edges' : /\ e.id = i
                    /\ e.resolution = "open"
                    /\ i \notin muted'
                    /\ listed[i] # e
                    /\ listed'[i] = e

\* A listed alert is closed by the recovered edge that the call returned.
Recovered(i) ==
  \E e \in edges' : /\ e.id = i
                    /\ e.resolution = "recovered"
                    /\ listed[i] # NoAlert
                    /\ listed'[i] = NoAlert

\* No edge for i and no change of its entry.
Quiet(i) == /\ \A e \in edges' : e.id # i
            /\ listed'[i] = listed[i]

\* A muted alert leaves the table and nobody is told.
Dropped(i) == /\ \A e \in edges' : e.id # i
              /\ i \in muted'
              /\ listed'[i] = NoAlert

AtMostOnePerId(E) == \A e, f \in E : e.id = f.id => e = f

\* One call of the tracker.
Next == /\ edges' \in SUBSET Edge
        /\ muted' \in SUBSET Ids
        /\ listed' \in [Ids -> Edge \cup {NoAlert}]
        /\ AtMostOnePerId(edges')
        /\ \A i \in Ids : Opened(i) \/ Recovered(i) \/ Quiet(i) \/ Dropped(i)

Spec == Init /\ [][Next]_vars
=============================================================================
