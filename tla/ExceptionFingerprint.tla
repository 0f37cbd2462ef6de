------------------------- MODULE ExceptionFingerprint -------------------------
(* exception_fingerprint.py as operators over its table: a fingerprint (key)  *)
(* is a triple of service, exception type and message, seen again and again,  *)
(* and recovered once it has been quiet for the window.                       *)
EXTENDS Integers

CONSTANTS Keys,        \* fingerprints; the alert id is a hash of the key
          Services,
          ServiceOf,   \* fingerprint -> its service_name
          Instances,   \* instance_id values of events
          Window,      \* exception_recover_after_seconds, in ticks of the clock
          NoAlert      \* "not open"

ASSUME FingerprintAssumption ==
  /\ ServiceOf \in [Keys -> Services]
  /\ Window \in Nat

\* An open alert precedes the recovers of the same call.  The recovers of one
\* call come in the order of the dict, which nothing tells apart: one rank.
Alert == [id : Keys, resolution : {"open", "recovered"},
          instance : Instances, rank : {1, 2}]

\* A table entry: the alert of the opening, the latest instance_id, and how long
\* ago last_seen is; the age stops at Window, where it no longer matters.
Entry == [alert : Alert, instance : Instances, age : 0..Window]

ASSUME NoAlertAssumption == NoAlert \notin Alert /\ NoAlert \notin Entry

BuildAlert(k, instance, resolution) ==
  [id |-> k, resolution |-> resolution, instance |-> instance,
   rank |-> IF resolution = "open" THEN 1 ELSE 2]

\* What list_open_alerts shows under k: the alert as it was opened.
Listed(open, k) == IF open[k] = NoAlert THEN NoAlert ELSE open[k].alert

\* Slip: a drop clears the alert of an entry and leaves the entry.
Drop_Hollow(open, services) ==
  [k \in Keys |-> IF ServiceOf[k] \in services /\ open[k] # NoAlert
                  THEN [open[k] EXCEPT !.alert = NoAlert] ELSE open[k]]

\* _drop_silenced, and drop_service_without_recover for a set of services.
Drop(open, services) ==
  [k \in Keys |-> IF ServiceOf[k] \in services THEN NoAlert ELSE open[k]]

\* Slip: a repeat does not refresh last_seen.
Seen_NoRefresh(open, k, instance) ==
  [open EXCEPT ![k] =
     IF @ = NoAlert
     THEN [alert |-> BuildAlert(k, instance, "open"), instance |-> instance, age |-> 0]
     ELSE [@ EXCEPT !.instance = instance]]

\* Slip: a repeat replaces the alert that list_open_alerts shows.
Seen_Replaced(open, k, instance) ==
  [open EXCEPT ![k] =
     [alert |-> BuildAlert(k, instance, "open"), instance |-> instance, age |-> 0]]

\* First sight opens, a repeat refreshes instance_id and last_seen.
Seen(open, k, instance) ==
  [open EXCEPT ![k] =
     IF @ = NoAlert
     THEN [alert |-> BuildAlert(k, instance, "open"), instance |-> instance, age |-> 0]
     ELSE [@ EXCEPT !.instance = instance, !.age = 0]]

\* Slip: the window is compared with <= instead of <.
Due_Later(open, skip) == {k \in Keys \ skip : open[k] # NoAlert /\ open[k].age > Window}

\* The keys a sweep recovers, those in skip being passed over.
Due(open, skip) == {k \in Keys \ skip : open[k] # NoAlert /\ open[k].age >= Window}

Swept(open, skip) == [k \in Keys |-> IF k \in Due(open, skip) THEN NoAlert ELSE open[k]]

SweepEdges(open, skip) ==
  {BuildAlert(k, open[k].instance, "recovered") : k \in Due(open, skip)}

\* Slip: observe sweeps and forgets the alerts of the sweep.
ObserveEdges_SweepUnheard(open, k, instance, silenced) ==
  LET seen == Seen(Drop(open, silenced), k, instance)
  IN  IF Drop(open, silenced)[k] = NoAlert THEN {seen[k].alert} ELSE {}

\* The result of observe for an event of k: the alerts, and the next table.
ObserveEdges(open, k, instance, silenced) ==
  LET seen == Seen(Drop(open, silenced), k, instance)
  IN  SweepEdges(seen, {k}) \cup
        (IF Drop(open, silenced)[k] = NoAlert THEN {seen[k].alert} ELSE {})

ObserveOpen(open, k, instance, silenced) ==
  Swept(Seen(Drop(open, silenced), k, instance), {k})

\* A tick of the clock.
Older(open) ==
  [k \in Keys |-> IF open[k] # NoAlert /\ open[k].age < Window
                  THEN [open[k] EXCEPT !.age = @ + 1] ELSE open[k]]
=============================================================================
