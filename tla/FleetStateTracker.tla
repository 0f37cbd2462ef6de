-------------------------- MODULE FleetStateTracker --------------------------
(* FleetStateTracker as its delegate drives it: evaluate on each reply of    *)
(* the registry with the silenced names of that moment, and a drop when a    *)
(* silence is added.  One atomic call per action: nothing here awaits.       *)
EXTENDS FleetState

VARIABLES open,       \* _open: service -> its open alert, or NoAlert
          edges,      \* the alerts the last call returned
          silenced    \* SilenceStore._silenced

vars == <<open, edges, silenced>>

TypeOK == /\ open \in [Services -> Alert \cup {NoAlert}]
          /\ edges \in SUBSET Alert
          /\ silenced \in SUBSET Services

Init == /\ open = [s \in Services |-> NoAlert]
        /\ edges = {}
        /\ silenced \in SUBSET Services              \* what the file held

\* build_fleet_alerts after get_services has answered.
Evaluate(services) ==
  /\ edges' = Edges(open, services, silenced)
  /\ open' = NextOpen(open, services, silenced)
  /\ UNCHANGED silenced

\* delegate.add_silence: the name enters the set in memory first; when writing
\* the file raises, the tracker is not told.
AddSilence(s, saved) ==
  /\ silenced' = silenced \cup {s}
  /\ open' = IF saved THEN [open EXCEPT ![s] = NoAlert] ELSE open
  /\ edges' = {}

\* delegate.clear_silence: the tracker is left alone.
ClearSilence(s) ==
  /\ silenced' = silenced \ {s}
  /\ edges' = {}
  /\ UNCHANGED open

Next == \/ \E services \in Replies : Evaluate(services)
        \/ \E s \in Services, saved \in BOOLEAN : AddSilence(s, saved)
        \/ \E s \in Services : ClearSilence(s)

Spec == Init /\ [][Next]_vars

-----------------------------------------------------------------------------
Feed == INSTANCE AlertFeed WITH
          Edge <- Alert,
          listed <- [id \in Ids |-> Listed(open, id)],
          muted <- {id \in Ids : id[1] \in silenced}

\* The tracker keeps the promise of AlertFeed: what list_open_alerts shows
\* changes only by an edge that evaluate returned, one per id at most, or by a
\* drop of a silenced service; no open is returned for a silenced service.
ImplementsFeed == Feed!Spec

\* What the fleet tracker adds to AlertFeed: whatever the reply, evaluating it
\* a second time returns nothing (README: an open alert stays quiet while it
\* repeats), for every table that calls can lead to.
RepeatIsQuiet ==
  \A services \in Replies :
    Edges(NextOpen(open, services, silenced), services, silenced) = {}
=============================================================================
