---------------------------- MODULE AlertForwarder ----------------------------
(* A tracker and the way of its alerts to a consumer, whatever it tracks:     *)
(* what the poll tasks and event handlers of both services have in common.    *)
(* listed is the table that list_open_alerts shows.  It changes when a call   *)
(* returns a batch that says so, when entries are dropped without an alert,   *)
(* and when the process dies; publishing a batch leaves it alone.  What a     *)
(* call returns is left open: that is AlertFeed's part of the promise.        *)
CONSTANTS Ids,         \* alert ids
          Alert,       \* alerts, with id, resolution and rank
          Publishers, NoAlert, Suspends        \* see AlertChannel

\* What a user of this module makes sure of.
WellFormed == \A a \in Alert : a.id \in Ids

VARIABLES listed, queue, standing, trust, fresh, link

Channel == INSTANCE AlertChannel

channelVars == <<queue, standing, trust, fresh, link>>
vars == <<listed, channelVars>>

TypeOK == /\ listed \in [Ids -> Alert \cup {NoAlert}]
          /\ queue \in [Publishers -> SUBSET Alert]
          /\ standing \in [Ids -> Alert \cup {NoAlert}]
          /\ trust \in [Ids -> Channel!Trust]

Init == /\ listed = [id \in Ids |-> NoAlert]
        /\ Channel!Init(Ids)

\* The list changes under these ids only, and stays one of alerts.
ChangesOnly(ids) == /\ listed' \in [Ids -> Alert \cup {NoAlert}]
                    /\ \A id \in Ids \ ids : listed'[id] = listed[id]

\* A call returned a batch with at most one alert per id: each says what is
\* listed under its id from now on.  The dropped ids left the table silently.
Judge(p, batch, dropped) ==
  /\ Channel!Hand(p, batch, dropped)
  /\ \A a, b \in batch : a.id = b.id => a = b
  /\ \A a \in batch : a.id \notin dropped => listed'[a.id] = Channel!Effect(a)
  /\ ChangesOnly(Channel!IdsOf(batch) \cup dropped)

Publish(p, a) == /\ \/ Channel!Deliver(p, a)
                    \/ Channel!Skip(p, a)
                    \/ \E reached \in BOOLEAN : Channel!Raise(p, a, reached)
                 /\ UNCHANGED listed

Drop(ids) == Channel!Forget(ids) /\ ChangesOnly(ids)

\* The ids that the dying process had open or on their way are lost.
Down(ids) == Channel!Down(ids) /\ ChangesOnly(ids)

LinkChange == Channel!LinkChange /\ UNCHANGED listed

Next == \/ \E p \in Publishers, dropped \in SUBSET Ids :
             Judge(p, queue'[p], dropped) /\ queue'[p] \in SUBSET Alert
        \/ \E p \in Publishers : \E a \in queue[p] : Publish(p, a)
        \/ \E ids \in SUBSET Ids : Drop(ids) \/ Down(ids)
        \/ LinkChange

Spec == Init /\ [][Next]_vars

-----------------------------------------------------------------------------
\* Once everything handed over has arrived, the consumer holds under every
\* trusted id what is listed.
Agreement ==
  \A id \in Ids : Channel!Trusted(id) => Channel!Projected(id) = listed[id]
=============================================================================
