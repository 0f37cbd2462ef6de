----------------------------- MODULE FleetMonitor -----------------------------
(* The fleet half of kontiki-monitor as it runs: the poll task that asks the  *)
(* registry and evaluates the answer, the silence RPCs and routes between its *)
(* awaits, the publishing of its edges, the consumer at the other end, the    *)
(* silences file, and restarts.                                               *)
EXTENDS FleetState

CONSTANTS Names,       \* service names, those of silences among them
          Suspends,    \* see AlertChannel
          Failures     \* which failures may happen, of "link", "raise", "save", "crash"

ASSUME MonitorAssumption ==
  /\ Services \subseteq Names
  /\ Suspends \in BOOLEAN
  /\ Failures \subseteq {"link", "raise", "save", "crash"}

VARIABLES
  up,        \* the service runs
  silenced,  \* SilenceStore._silenced
  file,      \* the names a restart reads from the silences file
  open,      \* FleetStateTracker._open
  phase,     \* "calling" while poll_fleet_state awaits get_services
  unsaved,   \* services whose add_silence raised, the tracker not being told
  queue, standing, trust, fresh, link       \* see AlertChannel

Poll == "poll_fleet_state"
Channel == INSTANCE AlertChannel WITH Publishers <- {Poll}

channelVars == <<queue, standing, trust, fresh, link>>
vars == <<up, silenced, file, open, phase, unsaved, channelVars>>

TypeOK == /\ up \in BOOLEAN
          /\ silenced \in SUBSET Names
          /\ file \in SUBSET Names
          /\ open \in [Services -> Alert \cup {NoAlert}]
          /\ phase \in {"idle", "calling"}
          /\ unsaved \in SUBSET Names
          /\ queue \in [{Poll} -> SUBSET Alert]
          /\ standing \in [Ids -> Alert \cup {NoAlert}]
          /\ trust \in [Ids -> Channel!Trust]
          /\ fresh \in SUBSET {Poll}
          /\ link \in BOOLEAN

Tracked(services) == {id \in Ids : id[1] \in services /\ Listed(open, id) # NoAlert}

Init == /\ up = FALSE
        /\ silenced = {}
        /\ file \in SUBSET Names
        /\ open = [s \in Services |-> NoAlert]
        /\ phase = "idle"
        /\ unsaved = {}
        /\ Channel!Init(Ids)

\* setup: the silences come from the file, the tracker starts empty.
Start == /\ ~up
         /\ up' = TRUE
         /\ silenced' = file
         /\ UNCHANGED <<file, open, phase, unsaved, channelVars>>

\* The scheduler runs poll_fleet_state, one run at a time, and the run awaits
\* the answer of the registry.
PollStart == /\ up
             /\ phase = "idle"
             /\ Channel!Idle(Poll)
             /\ Channel!Turn
             /\ phase' = "calling"
             /\ UNCHANGED <<up, silenced, file, open, unsaved, channelVars>>

\* get_services raises: the cycle is skipped.
PollFails == /\ phase = "calling"
             /\ phase' = "idle"
             /\ UNCHANGED <<up, silenced, file, open, unsaved, channelVars>>

\* Slip: the silenced names are not passed to evaluate.
PollReturns_Unsilenced(services) ==
  /\ phase = "calling"
  /\ phase' = "idle"
  /\ open' = NextOpen(open, services, {})
  /\ unsaved' = {}
  /\ Channel!Hand(Poll, Edges(open, services, {}), {})
  /\ UNCHANGED <<up, silenced, file>>

\* The answer is judged with the silences of now, not of when it was asked for.
PollReturns(services) ==
  /\ phase = "calling"
  /\ phase' = "idle"
  /\ open' = NextOpen(open, services, silenced)
  /\ unsaved' = {}
  /\ Channel!Hand(Poll, Edges(open, services, silenced), Tracked(silenced))
  /\ UNCHANGED <<up, silenced, file>>

Publish == /\ \E a \in queue[Poll] :
                \/ Channel!Deliver(Poll, a)
                \/ Channel!Skip(Poll, a)
                \/ /\ "raise" \in Failures
                   /\ \E reached \in BOOLEAN : Channel!Raise(Poll, a, reached)
           /\ UNCHANGED <<up, silenced, file, open, phase, unsaved>>

\* add_silence: store first, then drop; an exception of the store skips the drop.
AddSilence(n, saved) ==
  /\ up
  /\ Channel!Turn
  /\ silenced' = silenced \cup {n}
  /\ \/ /\ saved
        /\ file' = silenced'
        /\ open' = Drop(open, {n})
        /\ unsaved' = unsaved \ {n}
        /\ Channel!Forget(Tracked({n}))
     \/ /\ ~saved
        /\ "save" \in Failures
        /\ unsaved' = unsaved \cup {n}
        /\ UNCHANGED <<file, open, channelVars>>
  /\ UNCHANGED <<up, phase>>

ClearSilence(n, saved) ==
  /\ up
  /\ Channel!Turn
  /\ ~saved => "save" \in Failures
  /\ silenced' = silenced \ {n}
  /\ unsaved' = unsaved \ {n}
  /\ file' = IF saved THEN silenced' ELSE file
  /\ UNCHANGED <<up, open, phase, channelVars>>

Crash == /\ "crash" \in Failures
         /\ up
         /\ up' = FALSE
         /\ silenced' = {}
         /\ open' = [s \in Services |-> NoAlert]
         /\ phase' = "idle"
         /\ unsaved' = {}
         /\ Channel!Down(Tracked(Services))
         /\ UNCHANGED file

LinkChange == /\ "link" \in Failures
              /\ Channel!LinkChange
              /\ UNCHANGED <<up, silenced, file, open, phase, unsaved>>

Next == \/ Start \/ PollStart \/ PollFails \/ Publish \/ Crash \/ LinkChange
        \/ \E services \in Replies : PollReturns(services)
        \/ \E n \in Names, saved \in BOOLEAN : AddSilence(n, saved) \/ ClearSilence(n, saved)

Spec == Init /\ [][Next]_vars

\* The event loop resumes what is ready: a due task starts, an RPC ends with an
\* answer or an error (a timeout at the latest), an awaited publish ends.
Answered == PollFails \/ \E services \in Replies : PollReturns(services)
Fairness == WF_vars(PollStart) /\ WF_vars(Answered) /\ WF_vars(Publish)
FairSpec == Spec /\ Fairness

-----------------------------------------------------------------------------
\* Once everything handed over is delivered, the consumer holds under every id
\* the very alert that list_open_alerts shows, or nothing when it shows nothing.
\* Exempt are the ids set apart since their last edge was computed by what the
\* code does not repair: an alert skipped while disconnected, the rest of a
\* batch after a raise, the silent drop of a silenced service, a restart.
Agreement ==
  \A id \in Ids : Channel!Trusted(id) => Channel!Projected(id) = Listed(open, id)

\* The consumer never shows a service as missing and as short of instances at
\* the same time, at any point of a batch, save where an alert was lost.
OneConditionShown ==
  \A s \in Services : \A k, l \in Kinds :
    /\ trust[<<s, k>>] = "agrees" /\ trust[<<s, l>>] = "agrees"
    /\ standing[<<s, k>>] # NoAlert /\ standing[<<s, l>>] # NoAlert
    => k = l

\* A silenced service has no open alert, whichever await the silence came in,
\* unless add_silence failed and no poll was evaluated since.
SilencedNotTracked ==
  \A s \in Services : s \in silenced \ unsaved => open[s] = NoAlert

\* kontiki_monitor/README.md: "Each edge is published once."  An alert leaves its
\* batch only in the step that passes it to messenger.publish.
EachEdgeIsAttempted ==
  [][\A a, b \in queue[Poll] : {a, b} \cap queue'[Poll] = {} => a = b]_vars

\* Polls keep getting answers, and from some point on every answer that is
\* evaluated puts s in the condition c.
Polled == []<><<\E services \in Replies : PollReturns(services)>>_vars
Stays(s, c) ==
  <>[][\A services \in Replies :
         PollReturns(services) => Condition(s, services[s]) = c]_vars
Watched(s) == <>[](up /\ s \notin silenced)

\* A condition that persists for a service that is watched ends up standing at
\* the consumer, whatever crashes, failed saves, silences and failed polls came
\* before, unless the alert was lost on the way: nothing sends it again.
ConditionReachesConsumer ==
  \A s \in Services, k \in Kinds :
    Polled /\ Watched(s) /\ Stays(s, k)
      => <>[](standing[<<s, k>>] # NoAlert \/ trust[<<s, k>>] = "lost")

\* A service that stays healthy ends up with nothing standing, with the same
\* exception: a recover lost to a disconnect, a raise or a restart is not resent.
RecoveryReachesConsumer ==
  \A s \in Services, k \in Kinds :
    Polled /\ Watched(s) /\ Stays(s, "healthy")
      => <>[](standing[<<s, k>>] = NoAlert \/ trust[<<s, k>>] = "lost")

Forwarder == INSTANCE AlertForwarder WITH
               Publishers <- {Poll},
               listed <- [id \in Ids |-> Listed(open, id)]

\* Tracker and poll task together keep the promise of AlertForwarder: the list
\* changes with a batch that is handed over whole and says so, or loses ids.
ImplementsForwarder == Forwarder!Spec
=============================================================================
