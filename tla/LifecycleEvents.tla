---------------------------- MODULE LifecycleEvents ----------------------------
(* The lifecycle events of the registry: an instance registered, left, or     *)
(* changed its state.  A handler run checks the silences, maps the event to   *)
(* one alert and publishes it; nothing is kept.  The broker may deliver an    *)
(* event again, at any time and to several runs at once.                      *)
CONSTANTS Raw,         \* service_name values of payloads
          Names,       \* those that are nonempty and carry no outer blanks
          Blank,       \* the empty text
          Normalize,   \* strip
          Instances,   \* nonempty instance_id values
          Times,       \* points in time
          NoTime,      \* the payload has no timestamp
          BadTime,     \* a timestamp that datetime.fromisoformat rejects
          NotADict,    \* a payload that is no mapping
          Events,      \* the events the registry emits in an instance of the model
          Runs,        \* handler runs that may be under way at once
          NoAlert,     \* a run that publishes nothing
          Failures     \* which failures may happen, of "link", "raise", "crash"

Types == {"registered", "deregistered", "status_changed"}
States == {"active", "degraded", "down", "starting"}

Event == [type : Types, service : Raw, instance : Instances \cup {Blank},
          time : Times \cup {NoTime, BadTime},
          before : States \cup {Blank}, after : States \cup {Blank},
          extras : SUBSET {"host", "version", "reason"}]

\* What Monitor assumes of these constants.
WellFormed ==
  /\ Normalize \in [Raw -> Names \cup {Blank}]
  /\ Events \subseteq Event \cup {NotADict}
  /\ NotADict \notin Event
  /\ {NoTime, BadTime} \cap Times = {}
  /\ Blank \notin Names \cup Instances \cup States
  /\ Failures \subseteq {"link", "raise", "crash"}

\* Events that tell when they happened.
Stamped == {e \in Events \ {NotADict} : e.time \in Times}

VARIABLES
  up,        \* the service runs
  silenced,  \* SilenceStore._silenced
  link,      \* the Messenger is connected
  handling,  \* run -> the event it handles and the alert it is publishing, or NoAlert
  told       \* stamped event -> the alerts about it that the consumer received

vars == <<up, silenced, link, handling, told>>

-----------------------------------------------------------------------------
SeverityForStateChange(before, after) ==
  CASE after = "down" -> "critical"
    [] after = "degraded" -> "severe"
    [] after = "active" /\ before \in {"degraded", "down"} -> "low"
    [] OTHER -> "moderate"

Severity(e) == IF e.type = "status_changed"
               THEN SeverityForStateChange(e.before, e.after) ELSE "low"

EventType(e) == CASE e.type = "registered" -> "instance_registered"
                  [] e.type = "deregistered" -> "instance_unregistered"
                  [] e.type = "status_changed" -> "instance_state_changed"

\* The keys of the attributes: optional ones are there when the payload has them.
Attributes(e) ==
  {"service_name", "instance_id"} \cup
    CASE e.type = "registered" -> e.extras \cap {"host", "version"}
      [] e.type = "deregistered" -> {}
      [] e.type = "status_changed" ->
           {"previous_state", "new_state"} \cup (e.extras \cap {"reason"})

\* Slip: an alert happens when it is built.
OccurredAt_Built(e, now) == now

\* An event without a timestamp happens when it arrives.
OccurredAt(e, now) == IF e.time = NoTime THEN now ELSE e.time

AlertId(e, now) ==
  [type |-> e.type, service |-> Normalize[e.service], instance |-> e.instance,
   states |-> IF e.type = "status_changed" THEN <<e.before, e.after>> ELSE <<>>,
   time |-> OccurredAt(e, now)]

BuildAlert(e, now) ==
  [id |-> AlertId(e, now), event_type |-> EventType(e), severity |-> Severity(e),
   attributes |-> Attributes(e)]

Alert == {BuildAlert(e, now) : e \in Events \ {NotADict}, now \in Times}

\* Events the mapping makes an alert of; it returns None on the others, or raises.
Mapped(e) == /\ e # NotADict
             /\ Normalize[e.service] # Blank
             /\ e.instance # Blank
             /\ e.time # BadTime
             /\ e.type = "status_changed" => e.before # Blank /\ e.after # Blank

-----------------------------------------------------------------------------
TypeOK == /\ up \in BOOLEAN
          /\ silenced \in SUBSET Names
          /\ link \in BOOLEAN
          /\ handling \in [Runs -> [event : Events, alert : Alert] \cup {NoAlert}]
          /\ told \in [Stamped -> SUBSET Alert]

Init == /\ up = FALSE
        /\ silenced = {}
        /\ link = TRUE
        /\ handling = [r \in Runs |-> NoAlert]
        /\ told = [e \in Stamped |-> {}]

\* Slip: the name of the payload is looked up as it is.
Receive_RawName(r, e, now) ==
  /\ up
  /\ handling[r] = NoAlert
  /\ Mapped(e)
  /\ e.service \notin silenced
  /\ handling' = [handling EXCEPT ![r] = [event |-> e, alert |-> BuildAlert(e, now)]]
  /\ UNCHANGED <<up, silenced, link, told>>

\* on_instance_registered, _deregistered, _status_changed up to the publish.  An
\* event of a silenced service, or one that is not mapped, changes nothing.
Receive(r, e, now) ==
  /\ up
  /\ handling[r] = NoAlert
  /\ Mapped(e)
  /\ Normalize[e.service] \notin silenced
  /\ handling' = [handling EXCEPT ![r] = [event |-> e, alert |-> BuildAlert(e, now)]]
  /\ UNCHANGED <<up, silenced, link, told>>

Ends(r) == /\ handling[r] # NoAlert
           /\ handling' = [handling EXCEPT ![r] = NoAlert]
           /\ UNCHANGED <<up, silenced, link>>

Reaches(r) ==
  told' = [e \in Stamped |-> IF e = handling[r].event
                             THEN told[e] \cup {handling[r].alert} ELSE told[e]]

\* publish hands the alert over, skips it while disconnected, or raises, with the
\* alert at the broker or not.  The run ends, and nothing sends the alert again.
Publish(r) ==
  /\ Ends(r)
  /\ \/ link /\ Reaches(r)
     \/ ~link /\ UNCHANGED told
     \/ link /\ "raise" \in Failures /\ UNCHANGED told

Silence(names) == /\ up
                  /\ silenced' = names
                  /\ UNCHANGED <<up, link, handling, told>>

Start(names) == /\ ~up
                /\ up' = TRUE
                /\ silenced' = names
                /\ UNCHANGED <<link, handling, told>>

Crash == /\ "crash" \in Failures
         /\ up
         /\ up' = FALSE
         /\ silenced' = {}
         /\ handling' = [r \in Runs |-> NoAlert]
         /\ UNCHANGED <<link, told>>

LinkChange == /\ "link" \in Failures
              /\ link' = ~link
              /\ UNCHANGED <<up, silenced, handling, told>>

Next == \/ Crash \/ LinkChange
        \/ \E r \in Runs, e \in Events, now \in Times : Receive(r, e, now)
        \/ \E r \in Runs : Publish(r)
        \/ \E names \in SUBSET Names : Silence(names) \/ Start(names)

Spec == Init /\ [][Next]_vars

-----------------------------------------------------------------------------
\* README: "Lifecycle events map one-to-one onto alert.normalized."  However often
\* an event is delivered, and whatever runs at the same time, the consumer gets
\* one and the same alert about it; an event without a timestamp has no such
\* identity, each of its deliveries may bring another alert_id.
OneAlertPerEvent ==
  \A e \in Stamped : \A a, b \in told[e] : a = b
=============================================================================
