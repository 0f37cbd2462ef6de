--------------------------- MODULE ExceptionMonitor ---------------------------
(* The exception half of kontiki-monitor as it runs: handler runs of the      *)
(* registry.exception.recorded event and the sweep task, each publishing its  *)
(* own batch between awaits, the silence RPCs and routes, the consumer, the   *)
(* silences file, and restarts.                                               *)
EXTENDS ExceptionFingerprint

CONSTANTS Handlers,    \* handler runs that may be under way at once
          Suspends,    \* see AlertChannel
          Failures     \* which failures may happen, of "link", "raise", "save", "crash"

SweepTask == "poll_exception_fingerprints"

ASSUME MonitorAssumption ==
  /\ SweepTask \notin Handlers
  /\ Suspends \in BOOLEAN
  /\ Failures \subseteq {"link", "raise", "save", "crash"}

VARIABLES
  up,        \* the service runs
  silenced,  \* SilenceStore._silenced
  file,      \* the names a restart reads from the silences file
  open,      \* ExceptionFingerprintTracker._open
  queue, standing, trust, fresh, link          \* see AlertChannel

Publishers == Handlers \cup {SweepTask}
Channel == INSTANCE AlertChannel

channelVars == <<queue, standing, trust, fresh, link>>
vars == <<up, silenced, file, open, channelVars>>

TypeOK == /\ up \in BOOLEAN
          /\ silenced \in SUBSET Services
          /\ file \in SUBSET Services
          /\ open \in [Keys -> Entry \cup {NoAlert}]
          /\ queue \in [Publishers -> SUBSET Alert]
          /\ standing \in [Keys -> Alert \cup {NoAlert}]
          /\ trust \in [Keys -> Channel!Trust]
          /\ fresh \in SUBSET Publishers
          /\ link \in BOOLEAN

Tracked(services) == {k \in Keys : ServiceOf[k] \in services /\ open[k] # NoAlert}

Init == /\ up = FALSE
        /\ silenced = {}
        /\ file \in SUBSET Services
        /\ open = [k \in Keys |-> NoAlert]
        /\ Channel!Init(Keys)

Start == /\ ~up
         /\ up' = TRUE
         /\ silenced' = file
         /\ UNCHANGED <<file, open, channelVars>>

\* on_exception_recorded up to its first publish: observe does not await.
Observe(h, k, instance) ==
  /\ up
  /\ Channel!Turn
  /\ ServiceOf[k] \notin silenced
  /\ open' = ObserveOpen(open, k, instance, silenced)
  /\ Channel!Hand(h, ObserveEdges(open, k, instance, silenced), Tracked(silenced))
  /\ UNCHANGED <<up, silenced, file>>

\* An event that observe refuses has the silenced entries dropped all the same.
ObserveRefused ==
  /\ up
  /\ Channel!Turn
  /\ open' = Drop(open, silenced)
  /\ Channel!Forget(Tracked(silenced))
  /\ UNCHANGED <<up, silenced, file>>

\* poll_exception_fingerprints up to its first publish; one run at a time.
Sweep == /\ up
         /\ Channel!Turn
         /\ open' = Swept(open, {})
         /\ Channel!Hand(SweepTask, SweepEdges(open, {}), {})
         /\ UNCHANGED <<up, silenced, file>>

Publish(p) ==
  /\ \E a \in queue[p] :
       \/ Channel!Deliver(p, a)
       \/ Channel!Skip(p, a)
       \/ /\ "raise" \in Failures
          /\ \E reached \in BOOLEAN : Channel!Raise(p, a, reached)
  /\ UNCHANGED <<up, silenced, file, open>>

\* add_silence: store first, then drop; an exception of the store skips the drop.
AddSilence(s, saved) ==
  /\ up
  /\ Channel!Turn
  /\ silenced' = silenced \cup {s}
  /\ \/ /\ saved
        /\ file' = silenced'
        /\ open' = Drop(open, {s})
        /\ Channel!Forget(Tracked({s}))
     \/ /\ ~saved
        /\ "save" \in Failures
        /\ UNCHANGED <<file, open, channelVars>>
  /\ UNCHANGED up

ClearSilence(s, saved) ==
  /\ up
  /\ Channel!Turn
  /\ ~saved => "save" \in Failures
  /\ silenced' = silenced \ {s}
  /\ file' = IF saved THEN silenced' ELSE file
  /\ UNCHANGED <<up, open, channelVars>>

Tick == /\ open' = Older(open)
        /\ UNCHANGED <<up, silenced, file, channelVars>>

Crash == /\ "crash" \in Failures
         /\ up
         /\ up' = FALSE
         /\ silenced' = {}
         /\ open' = [k \in Keys |-> NoAlert]
         /\ Channel!Down(Tracked(Services))
         /\ UNCHANGED file

LinkChange == /\ "link" \in Failures
              /\ Channel!LinkChange
              /\ UNCHANGED <<up, silenced, file, open>>

Next == \/ Start \/ ObserveRefused \/ Sweep \/ Tick \/ Crash \/ LinkChange
        \/ \E h \in Handlers, k \in Keys, instance \in Instances : Observe(h, k, instance)
        \/ \E p \in Publishers : Publish(p)
        \/ \E s \in Services, saved \in BOOLEAN : AddSilence(s, saved) \/ ClearSilence(s, saved)

Spec == Init /\ [][Next]_vars

\* The event loop resumes every awaited publish and starts the sweep task when it
\* is due; the clock goes on.
Fairness == /\ WF_vars(Sweep)
            /\ WF_vars(Tick)
            /\ \A p \in Publishers : WF_vars(Publish(p))
FairSpec == Spec /\ Fairness

-----------------------------------------------------------------------------
\* list-open-alerts-monitor.feature: a listed alert is the object of the open
\* edge.  With nothing on its way and no alert lost, list_open_alerts and the
\* consumer of the edges agree.
SettledAgreement ==
  Channel!Pending = {} =>
    \A k \in Keys : trust[k] # "lost" => standing[k] = Listed(open, k)

\* A fingerprint of which no more events come is recovered at the consumer, from
\* any mixture of opens, repeats and sweeps before, unless it was lost or raced.
QuietReachesConsumer ==
  \A k \in Keys :
    /\ <>[]up
    /\ <>[][\A h \in Handlers, instance \in Instances : ~Observe(h, k, instance)]_vars
    => <>[](standing[k] = NoAlert \/ ~Channel!Trusted(k))

Forwarder == INSTANCE AlertForwarder WITH
               Ids <- Keys,
               listed <- [k \in Keys |-> Listed(open, k)]

\* Tracker, handlers and sweep together keep the promise of AlertForwarder: the
\* list changes with a batch that is handed over whole and says so, or loses ids.
\* Once everything handed over is delivered, the consumer then holds what
\* list_open_alerts shows (Forwarder!Agreement), save under the ids marked lost and
\* those that two publishers had an alert of on their way at the same time.
ImplementsForwarder == Forwarder!Spec
=============================================================================
