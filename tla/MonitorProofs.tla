----------------------------- MODULE MonitorProofs -----------------------------
(* kontiki-monitor as one process, for any names, fingerprints, events and    *)
(* deployments: it is each of its parts; what a confirmed silence promises;   *)
(* one alert per lifecycle event; and the joint list of the three trackers is *)
(* what the consumer of the one event stream holds.                           *)
EXTENDS Monitor, TLAPS

shared == <<up, silenced, file, link>>

\* What the steps of one part leave alone of the variables that all parts share.
LEMMA FleetLeaves == FleetStep => UNCHANGED shared
BY DEF FleetStep, shared, Fleet!PollStart, Fleet!PollFails, Fleet!Publish, Fleet!PollReturns,
       Fleet!Channel!Hand, Fleet!Channel!Deliver, Fleet!Channel!Skip, Fleet!Channel!Raise,
       Fleet!channelVars

LEMMA ExceptionLeaves == ExceptionStep => UNCHANGED shared
BY DEF ExceptionStep, shared, Exceptions!ObserveRefused, Exceptions!Sweep,
       Exceptions!Observe, Exceptions!Publish, Exceptions!Channel!Hand,
       Exceptions!Channel!Forget, Exceptions!Channel!Deliver, Exceptions!Channel!Skip,
       Exceptions!Channel!Raise

LEMMA SentinelLeaves == SentinelStep => UNCHANGED shared
BY DEF SentinelStep, shared, Heartbeat!PollStart, Heartbeat!CallFails,
       Heartbeat!CallReturns, Heartbeat!PostSucceeds, Heartbeat!PostFails,
       Heartbeat!PostRaises, Heartbeat!Publish, Heartbeat!channelVars,
       Heartbeat!Channel!Hand, Heartbeat!Channel!Deliver, Heartbeat!Channel!Skip,
       Heartbeat!Channel!Raise

LEMMA LifecycleLeaves == LifecycleStep => UNCHANGED shared
BY DEF LifecycleStep, shared, Lifecycle!Receive, Lifecycle!Publish, Lifecycle!Ends

LEMMA TickLeaves == Tick => UNCHANGED shared
BY DEF Tick, shared, Exceptions!Tick, Exceptions!channelVars

LEMMA FleetStepRefines == [Next]_vars => [Fleet!Next]_(Fleet!vars)
<1> SUFFICES ASSUME [Next]_vars PROVE Fleet!Next \/ UNCHANGED Fleet!vars
  OBVIOUS
<1>0. UNCHANGED shared /\ UNCHANGED fleetVars => UNCHANGED Fleet!vars
  BY DEF shared, fleetVars, Fleet!vars, Fleet!channelVars
<1>1. CASE FleetStep
  BY <1>1 DEF FleetStep, Fleet!Next
<1>2. CASE ExceptionStep
  BY <1>0, <1>2, ExceptionLeaves DEF ExceptionStep
<1>3. CASE SentinelStep
  BY <1>0, <1>3, SentinelLeaves DEF SentinelStep
<1>4. CASE LifecycleStep
  BY <1>0, <1>4, LifecycleLeaves DEF LifecycleStep
<1>5. CASE Start
  BY <1>5 DEF Start, Fleet!Next
<1>6. CASE Crash
  BY <1>6 DEF Crash, Fleet!Next
<1>7. CASE LinkChange
  BY <1>7 DEF LinkChange, Fleet!Next
<1>8. CASE Tick
  BY <1>0, <1>8, TickLeaves DEF Tick
<1>9. ASSUME NEW n \in Names, NEW saved \in BOOLEAN,
             AddSilence(n, saved) \/ ClearSilence(n, saved)
      PROVE  Fleet!Next
  BY <1>9 DEF AddSilence, ClearSilence, Fleet!Next
<1>10. CASE UNCHANGED vars
  BY <1>0, <1>10 DEF vars, shared
<1> QED BY <1>1, <1>2, <1>3, <1>4, <1>5, <1>6, <1>7, <1>8, <1>9, <1>10 DEF Next

LEMMA ExceptionStepRefines == [Next]_vars => [Exceptions!Next]_(Exceptions!vars)
<1> SUFFICES ASSUME [Next]_vars PROVE Exceptions!Next \/ UNCHANGED Exceptions!vars
  OBVIOUS
<1>0. UNCHANGED shared /\ UNCHANGED exceptionVars => UNCHANGED Exceptions!vars
  BY DEF shared, exceptionVars, Exceptions!vars, Exceptions!channelVars
<1>1. CASE FleetStep
  BY <1>0, <1>1, FleetLeaves DEF FleetStep
<1>2. CASE ExceptionStep
  BY <1>2 DEF ExceptionStep, Exceptions!Next
<1>3. CASE SentinelStep
  BY <1>0, <1>3, SentinelLeaves DEF SentinelStep
<1>4. CASE LifecycleStep
  BY <1>0, <1>4, LifecycleLeaves DEF LifecycleStep
<1>5. CASE Start
  BY <1>5 DEF Start, Exceptions!Next
<1>6. CASE Crash
  BY <1>6 DEF Crash, Exceptions!Next
<1>7. CASE LinkChange
  BY <1>7 DEF LinkChange, Exceptions!Next
<1>8. CASE Tick
  BY <1>8 DEF Tick, Exceptions!Next
<1>9. ASSUME NEW n \in Names, NEW saved \in BOOLEAN,
             AddSilence(n, saved) \/ ClearSilence(n, saved)
      PROVE  Exceptions!Next
  BY <1>9 DEF AddSilence, ClearSilence, Exceptions!Next
<1>10. CASE UNCHANGED vars
  BY <1>0, <1>10 DEF vars, shared
<1> QED BY <1>1, <1>2, <1>3, <1>4, <1>5, <1>6, <1>7, <1>8, <1>9, <1>10 DEF Next

LEMMA SentinelStepRefines == [Next]_vars => [Heartbeat!Next]_(Heartbeat!vars)
<1> SUFFICES ASSUME [Next]_vars PROVE Heartbeat!Next \/ UNCHANGED Heartbeat!vars
  OBVIOUS
<1>0. UNCHANGED <<up, link>> /\ UNCHANGED sentinelVars => UNCHANGED Heartbeat!vars
  BY DEF sentinelVars, Heartbeat!vars, Heartbeat!channelVars
<1>1. CASE FleetStep
  BY <1>0, <1>1, FleetLeaves DEF FleetStep, shared
<1>2. CASE ExceptionStep
  BY <1>0, <1>2, ExceptionLeaves DEF ExceptionStep, shared
<1>3. CASE SentinelStep
  BY <1>3 DEF SentinelStep, Heartbeat!Next
<1>4. CASE LifecycleStep
  BY <1>0, <1>4, LifecycleLeaves DEF LifecycleStep, shared
<1>5. CASE Start
  BY <1>5 DEF Start, Heartbeat!Next
<1>6. CASE Crash
  BY <1>6 DEF Crash, Heartbeat!Next
<1>7. CASE LinkChange
  BY <1>7 DEF LinkChange, Heartbeat!Next
<1>8. CASE Tick
  BY <1>8 DEF Tick, Heartbeat!Next
<1>9. ASSUME NEW n \in Names, NEW saved \in BOOLEAN,
             AddSilence(n, saved) \/ ClearSilence(n, saved)
      PROVE  UNCHANGED Heartbeat!vars
  <2>1. UNCHANGED <<up, link>>
    BY <1>9 DEF AddSilence, ClearSilence, Fleet!AddSilence, Fleet!ClearSilence,
                Fleet!channelVars, Fleet!Channel!Forget
  <2> QED BY <1>0, <1>9, <2>1 DEF AddSilence, ClearSilence
<1>10. CASE UNCHANGED vars
  BY <1>0, <1>10 DEF vars
<1> QED BY <1>1, <1>2, <1>3, <1>4, <1>5, <1>6, <1>7, <1>8, <1>9, <1>10 DEF Next

-----------------------------------------------------------------------------
\* What the steps that change the store do to it.
StoreStarts == ~up /\ up' = TRUE /\ silenced' = file /\ file' = file
StoreDies == up /\ up' = FALSE /\ silenced' = {} /\ file' = file
StoreAdds(n, saved) ==
  /\ up /\ up' = up /\ silenced' = silenced \cup {n}
  /\ file' = IF saved THEN silenced' ELSE file
StoreClears(n, saved) ==
  /\ up /\ up' = up /\ silenced' = silenced \ {n}
  /\ file' = IF saved THEN silenced' ELSE file

LEMMA StoreSteps ==
  /\ Start => StoreStarts
  /\ Crash => StoreDies
  /\ LinkChange => UNCHANGED <<up, silenced, file>>
  /\ \A n \in Names, saved \in BOOLEAN :
       /\ AddSilence(n, saved) => StoreAdds(n, saved)
       /\ ClearSilence(n, saved) => StoreClears(n, saved)
<1>1. Start => StoreStarts
  BY DEF Start, Fleet!Start, StoreStarts
<1>2. Crash => StoreDies
  BY DEF Crash, Fleet!Crash, StoreDies
<1>3. LinkChange => UNCHANGED <<up, silenced, file>>
  BY DEF LinkChange, Fleet!LinkChange
<1>4. ASSUME NEW n \in Names, NEW saved \in BOOLEAN
      PROVE  /\ AddSilence(n, saved) => StoreAdds(n, saved)
             /\ ClearSilence(n, saved) => StoreClears(n, saved)
  BY DEF AddSilence, ClearSilence, Fleet!AddSilence, Fleet!ClearSilence, StoreAdds, StoreClears
<1> QED BY <1>1, <1>2, <1>3, <1>4

Known == /\ silenced \in SUBSET Names
         /\ file \in SUBSET Names
         /\ deployed \in Deployments

LEMMA KnownStep == Known /\ [Next]_vars => Known'
<1> SUFFICES ASSUME Known, [Next]_vars PROVE Known'
  OBVIOUS
<1>1. deployed' = deployed
  BY DEF Next, FleetStep, ExceptionStep, SentinelStep, LifecycleStep, Start, Crash,
         LinkChange, Tick, AddSilence, ClearSilence, vars
<1>2. silenced' \in SUBSET Names /\ file' \in SUBSET Names
  <2>1. CASE UNCHANGED <<silenced, file>>
    BY <2>1 DEF Known
  <2>2. ASSUME NEW n \in Names, NEW saved \in BOOLEAN,
               StoreAdds(n, saved) \/ StoreClears(n, saved)
        PROVE  silenced' \in SUBSET Names /\ file' \in SUBSET Names
    BY <2>2 DEF Known, StoreAdds, StoreClears
  <2>3. CASE StoreStarts \/ StoreDies
    BY <2>3 DEF Known, StoreStarts, StoreDies
  <2> QED BY <2>1, <2>2, <2>3, StoreSteps, FleetLeaves, ExceptionLeaves, SentinelLeaves,
             LifecycleLeaves, TickLeaves DEF Next, shared, vars
<1> QED BY <1>1, <1>2 DEF Known

LEMMA KnownAlways == Spec => []Known
<1>1. Init => Known
  BY DEF Init, Fleet!Init, Known
<1> QED BY <1>1, KnownStep, PTL DEF Spec

LEMMA LifecycleStepRefines == Known /\ [Next]_vars => [Lifecycle!Next]_(Lifecycle!vars)
<1> SUFFICES ASSUME Known, [Next]_vars PROVE Lifecycle!Next \/ UNCHANGED Lifecycle!vars
  OBVIOUS
<1>0. UNCHANGED shared /\ UNCHANGED lifecycleVars => UNCHANGED Lifecycle!vars
  BY DEF shared, lifecycleVars, Lifecycle!vars
<1>1. CASE FleetStep
  BY <1>0, <1>1, FleetLeaves DEF FleetStep
<1>2. CASE ExceptionStep
  BY <1>0, <1>2, ExceptionLeaves DEF ExceptionStep
<1>3. CASE SentinelStep
  BY <1>0, <1>3, SentinelLeaves DEF SentinelStep
<1>4. CASE LifecycleStep
  <2>1. deployed.events \subseteq Events
    BY DeploymentAssumption DEF Known
  <2> QED BY <1>4, <2>1 DEF LifecycleStep, Lifecycle!Next
<1>5. CASE Start
  BY <1>5 DEF Start, Lifecycle!Next, Known
<1>6. CASE Crash
  BY <1>6 DEF Crash, Lifecycle!Next
<1>7. CASE LinkChange
  BY <1>7 DEF LinkChange, Lifecycle!Next
<1>8. CASE Tick
  BY <1>0, <1>8, TickLeaves DEF Tick
<1>9. ASSUME NEW n \in Names, NEW saved \in BOOLEAN,
             AddSilence(n, saved) \/ ClearSilence(n, saved)
      PROVE  Lifecycle!Next
  <2>1. up /\ UNCHANGED <<up, link, handling, told>>
    BY <1>9 DEF AddSilence, ClearSilence, lifecycleVars, Fleet!AddSilence,
                Fleet!ClearSilence, Fleet!channelVars, Fleet!Channel!Forget
  <2>2. Lifecycle!Silence(silenced')
    BY <2>1 DEF Lifecycle!Silence
  <2>3. silenced' \in SUBSET Names
    BY KnownStep DEF Known
  <2> QED BY <2>2, <2>3 DEF Lifecycle!Next
<1>10. CASE UNCHANGED vars
  BY <1>0, <1>10 DEF vars, shared
<1> QED BY <1>1, <1>2, <1>3, <1>4, <1>5, <1>6, <1>7, <1>8, <1>9, <1>10 DEF Next

LEMMA StoreStepRefines == Known /\ [Next]_vars => [Store!Next]_(Store!vars)
<1> SUFFICES ASSUME Known, [Next]_vars PROVE Store!Next \/ UNCHANGED Store!vars
  OBVIOUS
<1>1. CASE UNCHANGED <<up, silenced, file>>
  BY <1>1 DEF Store!vars
<1>2. ASSUME NEW n \in Names, NEW saved \in BOOLEAN,
             StoreAdds(n, saved) \/ StoreClears(n, saved)
      PROVE  Store!Next
  BY <1>2 DEF StoreAdds, StoreClears, Store!Next, Store!Add, Store!Clear
<1>3. CASE StoreStarts
  <2>1. file # Corrupt
    BY PartsAssumption DEF Known
  <2> QED BY <1>3, <2>1 DEF StoreStarts, Store!Next, Store!Start
<1>4. CASE StoreDies
  BY <1>4 DEF StoreDies, Store!Next, Store!Crash
<1> QED BY <1>1, <1>2, <1>3, <1>4, StoreSteps, FleetLeaves, ExceptionLeaves,
           SentinelLeaves, LifecycleLeaves, TickLeaves DEF Next, shared, vars

\* The process is each of its parts, and its store the atomic one.
THEOREM PartsHold == Spec => ImplementsParts
<1>1. Init => /\ Fleet!Init /\ Exceptions!Init /\ Heartbeat!Init /\ Lifecycle!Init
              /\ Store!Init
  BY DEF Init, Fleet!Init, Store!Init
<1> QED BY <1>1, KnownAlways, FleetStepRefines, ExceptionStepRefines, SentinelStepRefines,
           LifecycleStepRefines, StoreStepRefines, PTL
        DEF Spec, ImplementsParts, Fleet!Spec, Exceptions!Spec, Heartbeat!Spec,
            Lifecycle!Spec, Store!Spec

-----------------------------------------------------------------------------
\* The one alert of an event that tells when it happened.
Only(e) == Lifecycle!BuildAlert(e, e.time)

Told == /\ DOMAIN handling = Runs
        /\ \A r \in Runs :
             handling[r] # NoAlert /\ handling[r].event \in Lifecycle!Stamped
             => handling[r].alert = Only(handling[r].event)
        /\ \A e \in Lifecycle!Stamped : \A a \in told[e] : a = Only(e)

LEMMA SameAlert ==
  ASSUME NEW e \in Lifecycle!Stamped, NEW now
  PROVE  Lifecycle!BuildAlert(e, now) = Only(e)
<1>1. e.time # NoTime
  BY PartsAssumption DEF Lifecycle!WellFormed, Lifecycle!Stamped
<1> QED BY <1>1 DEF Only, Lifecycle!BuildAlert, Lifecycle!AlertId, Lifecycle!OccurredAt

LEMMA ToldStep == Told /\ [Lifecycle!Next]_(Lifecycle!vars) => Told'
<1> SUFFICES ASSUME Told, [Lifecycle!Next]_(Lifecycle!vars) PROVE Told'
  OBVIOUS
<1>1. CASE UNCHANGED <<handling, told>>
  BY <1>1 DEF Told
<1>2. ASSUME NEW r \in Runs, NEW e \in Events, NEW now \in Times, Lifecycle!Receive(r, e, now)
      PROVE  Told'
  <2>1. /\ handling' = [handling EXCEPT ![r] =
                          [event |-> e, alert |-> Lifecycle!BuildAlert(e, now)]]
        /\ told' = told
    BY <1>2 DEF Lifecycle!Receive
  <2>2. handling'[r].event = e /\ handling'[r].alert = Lifecycle!BuildAlert(e, now)
    BY <2>1 DEF Told
  <2>3. \A q \in Runs \ {r} : handling'[q] = handling[q]
    BY <2>1 DEF Told
  <2> QED BY <2>1, <2>2, <2>3, SameAlert DEF Told
<1>3. ASSUME NEW r \in Runs, Lifecycle!Publish(r) PROVE Told'
  <2>1. /\ handling[r] # NoAlert
        /\ handling' = [handling EXCEPT ![r] = NoAlert]
        /\ Lifecycle!Reaches(r) \/ told' = told
    BY <1>3 DEF Lifecycle!Publish, Lifecycle!Ends
  <2>2. ASSUME NEW e \in Lifecycle!Stamped, NEW a \in told'[e] PROVE a = Only(e)
    <3>1. CASE told' = told
      BY <3>1, <2>2 DEF Told
    <3>2. CASE Lifecycle!Reaches(r) /\ e # handling[r].event
      BY <3>2, <2>2 DEF Told, Lifecycle!Reaches
    <3>3. CASE Lifecycle!Reaches(r) /\ e = handling[r].event
      <4>1. a \in told[e] \/ a = handling[r].alert
        BY <3>3, <2>2 DEF Lifecycle!Reaches
      <4> QED BY <4>1, <3>3, <2>1 DEF Told
    <3> QED BY <3>1, <3>2, <3>3, <2>1
  <2>3. handling'[r] = NoAlert /\ \A q \in Runs \ {r} : handling'[q] = handling[q]
    BY <2>1 DEF Told
  <2> QED BY <2>1, <2>2, <2>3 DEF Told
<1>4. CASE Lifecycle!Crash
  BY <1>4 DEF Lifecycle!Crash, Told
<1> QED BY <1>1, <1>2, <1>3, <1>4
        DEF Lifecycle!Next, Lifecycle!vars, Lifecycle!LinkChange, Lifecycle!Silence,
            Lifecycle!Start

LEMMA ToldAlways == Spec => []Told
<1>1. Lifecycle!Init => Told
  BY DEF Lifecycle!Init, Told
<1> QED BY <1>1, ToldStep, PartsHold, PTL DEF ImplementsParts, Lifecycle!Spec

\* However often the broker delivers an event that tells when it happened, and
\* however many runs handle it at once, across failed publishes, crashes and
\* restarts, the consumer gets one and the same alert about it.
THEOREM OneAlertPerEventHolds == Spec => []OneAlertPerEvent
<1>1. Told => OneAlertPerEvent
  BY DEF Told, OneAlertPerEvent, Lifecycle!OneAlertPerEvent
<1> QED BY <1>1, ToldAlways, PTL

-----------------------------------------------------------------------------
\* A poll is under way in a running service only, and every queue has its place.
Kept == /\ PromisedHolds
        /\ phase = "calling" => up
        /\ DOMAIN fleetQueue = {Fleet!Poll}
        /\ DOMAIN exceptionQueue = Exceptions!Publishers

\* The tables of a service that is silenced stay empty.
LEMMA FleetTableStays ==
  ASSUME Kept, FleetStep, NEW n \in promised, n \in Services
  PROVE  fleetOpen'[n] = NoAlert
<1>1. fleetOpen[n] = NoAlert
  BY DEF Kept, PromisedHolds
<1>2. ASSUME NEW services, Fleet!PollReturns(services) PROVE fleetOpen'[n] = NoAlert
  <2>1. up /\ n \in silenced
    BY <1>2 DEF Kept, PromisedHolds, Fleet!PollReturns
  <2>2. fleetOpen' = Fleet!NextOpen(fleetOpen, services, silenced)
    BY <1>2 DEF Fleet!PollReturns
  <2> QED BY <2>1, <2>2 DEF Fleet!NextOpen, Fleet!ComputeOpen, Fleet!Kinds
<1>3. CASE Fleet!PollStart \/ Fleet!PollFails \/ Fleet!Publish
  BY <1>1, <1>3 DEF Fleet!PollStart, Fleet!PollFails, Fleet!Publish
<1> QED BY <1>2, <1>3 DEF FleetStep

LEMMA ObserveSpares ==
  ASSUME NEW k \in Keys, NEW i, NEW j \in Keys, ServiceOf[j] \in silenced,
         ServiceOf[k] \notin silenced
  PROVE  /\ Exceptions!Seen(Exceptions!Drop(exceptionOpen, silenced), k, i)[j] = NoAlert
         /\ Exceptions!ObserveOpen(exceptionOpen, k, i, silenced)[j] = NoAlert
<1>1. Exceptions!Drop(exceptionOpen, silenced)[j] = NoAlert
  BY DEF Exceptions!Drop
<1>2. Exceptions!Seen(Exceptions!Drop(exceptionOpen, silenced), k, i)[j] = NoAlert
  BY <1>1 DEF Exceptions!Seen, Exceptions!Drop
<1> QED BY <1>2 DEF Exceptions!ObserveOpen, Exceptions!Swept

LEMMA ExceptionTableStays ==
  ASSUME Kept, ExceptionStep \/ Tick, NEW k \in Keys, ServiceOf[k] \in promised
  PROVE  exceptionOpen'[k] = NoAlert
<1>1. exceptionOpen[k] = NoAlert /\ (up => ServiceOf[k] \in silenced)
  BY DEF Kept, PromisedHolds
<1>2. ASSUME NEW h, NEW j \in Keys, NEW i, Exceptions!Observe(h, j, i)
      PROVE  exceptionOpen'[k] = NoAlert
  BY <1>1, <1>2, ObserveSpares DEF Exceptions!Observe
<1>3. CASE Exceptions!ObserveRefused
  BY <1>1, <1>3 DEF Exceptions!ObserveRefused, Exceptions!Drop
<1>4. CASE Exceptions!Sweep
  BY <1>1, <1>4 DEF Exceptions!Sweep, Exceptions!Swept
<1>5. CASE Tick
  BY <1>1, <1>5 DEF Tick, Exceptions!Tick, Exceptions!Older
<1>6. ASSUME NEW p, Exceptions!Publish(p) PROVE exceptionOpen'[k] = NoAlert
  BY <1>1, <1>6 DEF Exceptions!Publish
<1> QED BY <1>2, <1>3, <1>4, <1>5, <1>6 DEF ExceptionStep

LEMMA QueuesStay == Kept /\ [Next]_vars => /\ DOMAIN fleetQueue' = {Fleet!Poll}
                                           /\ DOMAIN exceptionQueue' = Exceptions!Publishers
<1> SUFFICES ASSUME Kept, [Next]_vars
             PROVE  /\ DOMAIN fleetQueue' = {Fleet!Poll}
                    /\ DOMAIN exceptionQueue' = Exceptions!Publishers
  OBVIOUS
<1>1. DOMAIN fleetQueue' = {Fleet!Poll}
  <2>1. ASSUME NEW batch, NEW p, fleetQueue' = [fleetQueue EXCEPT ![p] = batch]
        PROVE  DOMAIN fleetQueue' = {Fleet!Poll}
    BY <2>1 DEF Kept
  <2>2. CASE UNCHANGED fleetQueue
    BY <2>2 DEF Kept
  <2>3. CASE fleetQueue' = [p \in {Fleet!Poll} |-> {}]
    BY <2>3
  <2>4. CASE Fleet!Publish
    BY <2>1, <2>4 DEF Fleet!Publish, Fleet!Channel!Deliver, Fleet!Channel!Skip,
                      Fleet!Channel!Raise
  <2>5. ASSUME NEW services, Fleet!PollReturns(services) PROVE DOMAIN fleetQueue' = {Fleet!Poll}
    BY <2>1, <2>5 DEF Fleet!PollReturns, Fleet!Channel!Hand
  <2>6. CASE Fleet!Next
    BY <2>2, <2>3, <2>4, <2>5, <2>6
       DEF Fleet!Next, Fleet!Start, Fleet!PollStart, Fleet!PollFails, Fleet!Crash,
           Fleet!LinkChange, Fleet!AddSilence, Fleet!ClearSilence, Fleet!channelVars,
           Fleet!Channel!Forget, Fleet!Channel!Down, Fleet!Channel!LinkChange
  <2> QED BY <2>2, <2>6, FleetStepRefines DEF Fleet!vars, Fleet!channelVars
<1>2. DOMAIN exceptionQueue' = Exceptions!Publishers
  <2>1. ASSUME NEW batch, NEW p, exceptionQueue' = [exceptionQueue EXCEPT ![p] = batch]
        PROVE  DOMAIN exceptionQueue' = Exceptions!Publishers
    BY <2>1 DEF Kept
  <2>2. CASE UNCHANGED exceptionQueue
    BY <2>2 DEF Kept
  <2>3. CASE exceptionQueue' = [p \in Exceptions!Publishers |-> {}]
    BY <2>3
  <2>4. ASSUME NEW p, Exceptions!Publish(p) PROVE DOMAIN exceptionQueue' = Exceptions!Publishers
    BY <2>1, <2>4 DEF Exceptions!Publish, Exceptions!Channel!Deliver,
                      Exceptions!Channel!Skip, Exceptions!Channel!Raise
  <2>5. ASSUME NEW h, NEW k, NEW i, Exceptions!Observe(h, k, i)
        PROVE  DOMAIN exceptionQueue' = Exceptions!Publishers
    BY <2>1, <2>5 DEF Exceptions!Observe, Exceptions!Channel!Hand
  <2>6. CASE Exceptions!Next
    BY <2>1, <2>2, <2>3, <2>4, <2>5, <2>6
       DEF Exceptions!Next, Exceptions!Start, Exceptions!ObserveRefused, Exceptions!Sweep,
           Exceptions!Tick, Exceptions!Crash, Exceptions!LinkChange, Exceptions!AddSilence,
           Exceptions!ClearSilence, Exceptions!channelVars, Exceptions!Channel!Hand,
           Exceptions!Channel!Forget, Exceptions!Channel!Down, Exceptions!Channel!LinkChange
  <2> QED BY <2>2, <2>6, ExceptionStepRefines DEF Exceptions!vars, Exceptions!channelVars
<1> QED BY <1>1, <1>2

\* What a step of the store leaves of the silences that were promised.
InForce == promised \subseteq file /\ (up => promised \subseteq silenced)

LEMMA InForceStep == InForce /\ [Next]_vars => InForce'
<1> SUFFICES ASSUME InForce, [Next]_vars PROVE InForce'
  OBVIOUS
<1>1. CASE UNCHANGED <<up, silenced, file, promised>>
  BY <1>1 DEF InForce
<1>2. ASSUME NEW n \in Names, NEW saved \in BOOLEAN, AddSilence(n, saved) PROVE InForce'
  <2>1. /\ StoreAdds(n, saved)
        /\ promised' = IF saved THEN promised \cup {n} ELSE promised
    BY <1>2, StoreSteps DEF AddSilence
  <2> QED BY <2>1 DEF StoreAdds, InForce
<1>3. ASSUME NEW n \in Names, NEW saved \in BOOLEAN, ClearSilence(n, saved) PROVE InForce'
  <2>1. StoreClears(n, saved) /\ promised' = promised \ {n}
    BY <1>3, StoreSteps DEF ClearSilence
  <2> QED BY <2>1 DEF StoreClears, InForce
<1>4. CASE Start
  BY <1>4, StoreSteps DEF StoreStarts, InForce, Start
<1>5. CASE Crash
  BY <1>5, StoreSteps DEF StoreDies, InForce, Crash
<1>6. CASE LinkChange
  BY <1>1, <1>6, StoreSteps DEF LinkChange
<1>7. CASE FleetStep \/ ExceptionStep \/ SentinelStep \/ LifecycleStep \/ Tick
  BY <1>1, <1>7, FleetLeaves, ExceptionLeaves, SentinelLeaves, LifecycleLeaves, TickLeaves
     DEF shared, FleetStep, ExceptionStep, SentinelStep, LifecycleStep, Tick
<1> QED BY <1>1, <1>2, <1>3, <1>4, <1>5, <1>6, <1>7 DEF Next, vars

TablesSpare == /\ \A n \in promised : n \in Services => fleetOpen[n] = NoAlert
               /\ \A k \in Keys : ServiceOf[k] \in promised => exceptionOpen[k] = NoAlert

LEMMA PromisedIs == PromisedHolds <=> InForce /\ TablesSpare
BY DEF PromisedHolds, InForce, TablesSpare

LEMMA TablesSpareStep == Kept /\ [Next]_vars => TablesSpare'
<1> SUFFICES ASSUME Kept, [Next]_vars PROVE TablesSpare'
  OBVIOUS
<1>0. TablesSpare
  BY PromisedIs DEF Kept
<1>1. CASE UNCHANGED <<promised, fleetOpen, exceptionOpen>>
  BY <1>0, <1>1 DEF TablesSpare
<1>2. CASE FleetStep
  <2>1. UNCHANGED <<promised, exceptionOpen>>
    BY <1>2 DEF FleetStep, exceptionVars
  <2> QED BY <1>0, <1>2, <2>1, FleetTableStays DEF TablesSpare
<1>3. CASE ExceptionStep \/ Tick
  <2>1. UNCHANGED <<promised, fleetOpen>>
    BY <1>3 DEF ExceptionStep, Tick, fleetVars
  <2> QED BY <1>0, <1>3, <2>1, ExceptionTableStays DEF TablesSpare
<1>4. ASSUME NEW n \in Names, NEW saved \in BOOLEAN, AddSilence(n, saved) PROVE TablesSpare'
  <2>1. CASE saved
    <3>1. /\ fleetOpen' = Fleet!Drop(fleetOpen, {n})
          /\ exceptionOpen' = Exceptions!Drop(exceptionOpen, {n})
          /\ promised' = promised \cup {n}
      BY <1>4, <2>1 DEF AddSilence, Fleet!AddSilence, Exceptions!AddSilence
    <3> QED BY <1>0, <3>1 DEF TablesSpare, Fleet!Drop, Exceptions!Drop
  <2>2. CASE ~saved
    <3>1. UNCHANGED <<fleetOpen, exceptionOpen, promised>>
      BY <1>4, <2>2 DEF AddSilence, Fleet!AddSilence, Exceptions!AddSilence
    <3> QED BY <1>1, <3>1
  <2> QED BY <2>1, <2>2
<1>5. ASSUME NEW n \in Names, NEW saved \in BOOLEAN, ClearSilence(n, saved)
      PROVE  TablesSpare'
  BY <1>0, <1>5 DEF ClearSilence, Fleet!ClearSilence, Exceptions!ClearSilence, TablesSpare
<1>6. CASE Crash
  BY <1>6 DEF Crash, Fleet!Crash, Exceptions!Crash, TablesSpare
<1>7. CASE Start \/ LinkChange
  BY <1>1, <1>7 DEF Start, Fleet!Start, Exceptions!Start, LinkChange, Fleet!LinkChange,
                    Exceptions!LinkChange
<1>8. CASE SentinelStep \/ LifecycleStep
  BY <1>1, <1>8 DEF SentinelStep, LifecycleStep, fleetVars, exceptionVars
<1>9. CASE UNCHANGED vars
  BY <1>1, <1>9 DEF vars, fleetVars, exceptionVars
<1> QED BY <1>2, <1>3, <1>4, <1>5, <1>6, <1>7, <1>8, <1>9 DEF Next

LEMMA PollInRunning == (phase = "calling" => up) /\ [Next]_vars => (phase = "calling" => up)'
<1> SUFFICES ASSUME phase = "calling" => up, [Fleet!Next]_(Fleet!vars), phase' = "calling"
             PROVE  up'
  BY FleetStepRefines
<1> QED BY DEF Fleet!Next, Fleet!vars, Fleet!Start, Fleet!PollStart, Fleet!PollFails,
               Fleet!Publish, Fleet!Crash, Fleet!LinkChange, Fleet!PollReturns,
               Fleet!AddSilence, Fleet!ClearSilence

LEMMA KeptAlways == Spec => []Kept
<1>1. Init => Kept
  BY DEF Init, Fleet!Init, Exceptions!Init, Fleet!Channel!Init, Exceptions!Channel!Init,
         Kept, PromisedHolds
<1>2. Kept /\ [Next]_vars => Kept'
  <2> SUFFICES ASSUME Kept, [Next]_vars PROVE Kept'
    OBVIOUS
  <2>1. InForce'
    BY PromisedIs, InForceStep DEF Kept
  <2>2. TablesSpare'
    BY TablesSpareStep
  <2>3. (PromisedHolds <=> InForce /\ TablesSpare)'
    BY DEF PromisedHolds, InForce, TablesSpare
  <2>4. (phase = "calling" => up)'
    BY PollInRunning DEF Kept
  <2> QED BY <2>1, <2>2, <2>3, <2>4, QueuesStay DEF Kept
<1> QED BY <1>1, <1>2, PTL DEF Spec

\* A silence that add_silence has confirmed is in force until somebody clears it:
\* in the file, in the running service, and in the tables of both trackers.
THEOREM PromisedHoldsAlways == Spec => []PromisedHolds
<1>1. Kept => PromisedHolds
  BY DEF Kept
<1> QED BY <1>1, KeptAlways, PTL

-----------------------------------------------------------------------------
\* No edge of a silenced service comes out of an evaluation, an event or a sweep.
LEMMA FleetEdgesSpare ==
  ASSUME NEW services, NEW a \in Fleet!Edges(fleetOpen, services, silenced)
  PROVE  a.id[1] \notin silenced
<1> DEFINE kept == Fleet!Drop(fleetOpen, silenced)
           current == Fleet!ComputeOpen(services, silenced)
<1>1. ASSUME NEW d \in Fleet!Ids, Fleet!Listed(kept, d) # NoAlert PROVE d[1] \notin silenced
  BY <1>1 DEF Fleet!Listed, Fleet!Drop, Fleet!Ids
<1>2. ASSUME NEW d \in Fleet!Ids, current[d[1]] = d[2] PROVE d[1] \notin silenced
  BY <1>2 DEF Fleet!ComputeOpen, Fleet!Ids, Fleet!Kinds
<1>3. PICK d \in Fleet!Ids, r \in {"open", "recovered"} :
        /\ a = Fleet!BuildAlert(d[1], d[2], services, r)
        /\ Fleet!Listed(kept, d) # NoAlert \/ current[d[1]] = d[2]
  BY DEF Fleet!Edges, Fleet!Recovers, Fleet!Opens
<1>4. a.id[1] = d[1]
  BY <1>3 DEF Fleet!BuildAlert
<1> QED BY <1>1, <1>2, <1>3, <1>4

LEMMA ObserveEdgesSpare ==
  ASSUME NEW k \in Keys, NEW i, ServiceOf[k] \notin silenced,
         NEW a \in Exceptions!ObserveEdges(exceptionOpen, k, i, silenced)
  PROVE  ServiceOf[a.id] \notin silenced
<1> DEFINE kept == Exceptions!Drop(exceptionOpen, silenced)
           seen == Exceptions!Seen(kept, k, i)
<1>1. ASSUME NEW j \in Exceptions!Due(seen, {k}) PROVE ServiceOf[j] \notin silenced
  BY <1>1, ObserveSpares DEF Exceptions!Due
<1>2. ASSUME a \in Exceptions!SweepEdges(seen, {k}) PROVE ServiceOf[a.id] \notin silenced
  BY <1>1, <1>2 DEF Exceptions!SweepEdges, Exceptions!BuildAlert
<1>3. ASSUME kept[k] = NoAlert PROVE seen[k].alert = Exceptions!BuildAlert(k, i, "open")
  BY <1>3 DEF Exceptions!Seen, Exceptions!Drop
<1>4. a \in Exceptions!SweepEdges(seen, {k}) \/ (kept[k] = NoAlert /\ a = seen[k].alert)
  BY DEF Exceptions!ObserveEdges
<1> QED BY <1>2, <1>3, <1>4 DEF Exceptions!BuildAlert

LEMMA SweepEdgesSpare ==
  ASSUME Kept, NEW a \in Exceptions!SweepEdges(exceptionOpen, {})
  PROVE  ServiceOf[a.id] \notin promised
BY DEF Exceptions!SweepEdges, Exceptions!Due, Exceptions!BuildAlert, Kept, PromisedHolds

LEMMA FleetHandsNone ==
  ASSUME Kept, [Next]_vars, NEW n \in promised,
         NEW a \in Fleet!Channel!Pending' \ Fleet!Channel!Pending
  PROVE  a.id[1] # n
<1>0. Fleet!Channel!Pending = fleetQueue[Fleet!Poll]
  BY DEF Fleet!Channel!Pending
<1>1. Fleet!Channel!Pending' = fleetQueue'[Fleet!Poll]
  BY DEF Fleet!Channel!Pending
<1>2. a \in fleetQueue'[Fleet!Poll] /\ a \notin fleetQueue[Fleet!Poll]
  BY <1>0, <1>1
<1>3. ASSUME NEW services, Fleet!PollReturns(services) PROVE a.id[1] # n
  <2>1. fleetQueue' = [fleetQueue EXCEPT ![Fleet!Poll] =
                                           Fleet!Edges(fleetOpen, services, silenced)]
    BY <1>3 DEF Fleet!PollReturns, Fleet!Channel!Hand
  <2>2. a \in Fleet!Edges(fleetOpen, services, silenced)
    BY <1>2, <2>1 DEF Kept
  <2>3. n \in silenced
    BY <1>3 DEF Kept, PromisedHolds, Fleet!PollReturns
  <2> QED BY <2>2, <2>3, FleetEdgesSpare
<1>4. ~Fleet!Publish
  <2> SUFFICES ASSUME Fleet!Publish PROVE FALSE
    OBVIOUS
  <2>1. PICK b \in fleetQueue[Fleet!Poll] :
          \/ fleetQueue' = [fleetQueue EXCEPT ![Fleet!Poll] = @ \ {b}]
          \/ fleetQueue' = [fleetQueue EXCEPT ![Fleet!Poll] = {}]
    BY DEF Fleet!Publish, Fleet!Channel!Deliver, Fleet!Channel!Skip, Fleet!Channel!Raise
  <2> QED BY <1>2, <2>1 DEF Kept
<1>5. fleetQueue' # [p \in {Fleet!Poll} |-> {}] /\ fleetQueue' # fleetQueue
  BY <1>2
<1> QED BY <1>3, <1>4, <1>5, FleetStepRefines
        DEF Fleet!Next, Fleet!vars, Fleet!Start, Fleet!PollStart, Fleet!PollFails,
            Fleet!Crash, Fleet!LinkChange, Fleet!AddSilence, Fleet!ClearSilence,
            Fleet!channelVars, Fleet!Channel!Forget, Fleet!Channel!Down,
            Fleet!Channel!LinkChange

LEMMA ExceptionHandsNone ==
  ASSUME Kept, [Next]_vars, NEW n \in promised,
         NEW a \in Exceptions!Channel!Pending' \ Exceptions!Channel!Pending
  PROVE  ServiceOf[a.id] # n
<1>1. PICK q \in Exceptions!Publishers : a \in exceptionQueue'[q]
  BY DEF Exceptions!Channel!Pending
<1>2. a \notin exceptionQueue[q]
  BY DEF Exceptions!Channel!Pending
<1>3. ASSUME NEW p, NEW batch, exceptionQueue' = [exceptionQueue EXCEPT ![p] = batch]
      PROVE  a \in batch
  BY <1>1, <1>2, <1>3 DEF Kept
<1>4. ASSUME NEW h, NEW k \in Keys, NEW i, Exceptions!Observe(h, k, i)
      PROVE  ServiceOf[a.id] # n
  <2>1. a \in Exceptions!ObserveEdges(exceptionOpen, k, i, silenced)
    BY <1>3, <1>4 DEF Exceptions!Observe, Exceptions!Channel!Hand
  <2>2. n \in silenced /\ ServiceOf[k] \notin silenced
    BY <1>4 DEF Exceptions!Observe, Kept, PromisedHolds
  <2> QED BY <2>1, <2>2, ObserveEdgesSpare
<1>5. CASE Exceptions!Sweep
  <2>1. a \in Exceptions!SweepEdges(exceptionOpen, {})
    BY <1>3, <1>5 DEF Exceptions!Sweep, Exceptions!Channel!Hand
  <2> QED BY <2>1, SweepEdgesSpare
<1>6. ASSUME NEW p, Exceptions!Publish(p) PROVE FALSE
  <2>1. PICK b \in exceptionQueue[p] :
          \/ exceptionQueue' = [exceptionQueue EXCEPT ![p] = exceptionQueue[p] \ {b}]
          \/ exceptionQueue' = [exceptionQueue EXCEPT ![p] = {}]
    BY <1>6 DEF Exceptions!Publish, Exceptions!Channel!Deliver, Exceptions!Channel!Skip,
                Exceptions!Channel!Raise
  <2>2. a \in exceptionQueue[p] /\ exceptionQueue' # [exceptionQueue EXCEPT ![p] = {}]
    BY <1>3, <2>1
  <2>3. exceptionQueue' = [exceptionQueue EXCEPT ![p] = exceptionQueue[p] \ {b}]
    BY <2>1, <2>2
  <2>4. q # p
    BY <1>2, <2>2
  <2> QED BY <1>1, <1>2, <2>3, <2>4 DEF Kept
<1>7. /\ exceptionQueue' # [p \in Exceptions!Publishers |-> {}]
      /\ exceptionQueue' # exceptionQueue
  BY <1>1, <1>2
<1> QED BY <1>4, <1>5, <1>6, <1>7, ExceptionStepRefines
        DEF Exceptions!Next, Exceptions!vars, Exceptions!Start, Exceptions!ObserveRefused,
            Exceptions!Tick, Exceptions!Crash, Exceptions!LinkChange,
            Exceptions!AddSilence, Exceptions!ClearSilence, Exceptions!channelVars,
            Exceptions!Channel!Forget, Exceptions!Channel!Down,
            Exceptions!Channel!LinkChange

LEMMA LifecycleHandsNone ==
  ASSUME Kept, DOMAIN handling = Runs, Known, [Next]_vars, NEW n \in promised, NEW r \in Runs
  PROVE  handling'[r] \in {handling[r], NoAlert} \/ handling'[r].alert.id.service # n
<1>1. ASSUME NEW q \in Runs, NEW e, NEW now, Lifecycle!Receive(q, e, now)
      PROVE  handling'[r] = handling[r] \/ handling'[r].alert.id.service # n
  <2>1. n \in silenced /\ Normalize[e.service] \notin silenced
    BY <1>1 DEF Kept, PromisedHolds, Lifecycle!Receive
  <2>2. handling' = [handling EXCEPT ![q] =
                       [event |-> e, alert |-> Lifecycle!BuildAlert(e, now)]]
    BY <1>1 DEF Lifecycle!Receive
  <2>3. Lifecycle!BuildAlert(e, now).id.service = Normalize[e.service]
    BY DEF Lifecycle!BuildAlert, Lifecycle!AlertId
  <2>4. handling'[q].alert = Lifecycle!BuildAlert(e, now)
    BY <2>2
  <2> QED BY <2>1, <2>2, <2>3, <2>4
<1>2. ASSUME NEW q \in Runs, Lifecycle!Publish(q)
      PROVE  handling'[r] \in {handling[r], NoAlert}
  BY <1>2 DEF Lifecycle!Publish, Lifecycle!Ends
<1>3. CASE Lifecycle!Crash
  BY <1>3 DEF Lifecycle!Crash
<1> QED BY <1>1, <1>2, <1>3, LifecycleStepRefines
        DEF Lifecycle!Next, Lifecycle!vars, Lifecycle!LinkChange, Lifecycle!Silence,
            Lifecycle!Start

\* No task and no handler run sets out to publish an alert about a service whose
\* silence was confirmed and not cleared since, whatever failed or crashed since.
THEOREM PromisedSilenceHolds == Spec => PromisedSilence
<1> DEFINE Spared(n) ==
      /\ \A a \in Fleet!Channel!Pending' \ Fleet!Channel!Pending : a.id[1] # n
      /\ \A a \in Exceptions!Channel!Pending' \ Exceptions!Channel!Pending :
           ServiceOf[a.id] # n
      /\ \A r \in Runs : handling'[r] \in {handling[r], NoAlert}
                         \/ handling'[r].alert.id.service # n
<1>1. Kept /\ Told /\ Known /\ [Next]_vars => [\A n \in promised : Spared(n)]_vars
  BY FleetHandsNone, ExceptionHandsNone, LifecycleHandsNone DEF Told
<1> QED BY <1>1, KeptAlways, ToldAlways, KnownAlways, PTL DEF Spec, PromisedSilence

-----------------------------------------------------------------------------
\* The theorems of the parts, for the parts of this process.  The variables of the
\* exception tracker alone play no role in the theorems used here.
FleetFacts == INSTANCE FleetMonitorProofs WITH
  Suspends <- TRUE, Failures <- Failures \ {"post"}, fresh <- {},
  open <- fleetOpen, queue <- fleetQueue, standing <- fleetStanding, trust <- fleetTrust

ExceptionFacts == INSTANCE ExceptionProofs WITH
  entries <- <<>>, edges <- {}, silences <- {}, unsaved <- {}, quiet <- <<>>,
  Services <- Names, Suspends <- TRUE, Failures <- Failures \ {"post"}, fresh <- {},
  open <- exceptionOpen, queue <- exceptionQueue, standing <- exceptionStanding,
  trust <- exceptionTrust

SentinelFacts == INSTANCE SentinelProofs WITH
  Suspends <- TRUE, Failures <- Failures \ {"save"}, fresh <- {}, phase <- posting,
  open <- sentinelOpen, queue <- sentinelQueue, standing <- sentinelStanding,
  trust <- sentinelTrust

LEMMA FleetAgrees == FleetFacts!Spec => []FleetFacts!Agreement
BY PartsAssumption, FleetFacts!AgreementHolds
   DEF Fleet!Alert, FleetFacts!Alert, Fleet!IsFiniteSet, FleetFacts!IsFiniteSet,
       Fleet!Cardinality, FleetFacts!Cardinality, Fleet!Ids, FleetFacts!Ids, Fleet!Kinds,
       FleetFacts!Kinds, Fleet!Resolutions, FleetFacts!Resolutions

LEMMA ExceptionAgrees == ExceptionFacts!Spec => []ExceptionFacts!Forwarder!Agreement
BY PartsAssumption, ExceptionFacts!AgreementHolds
   DEF Exceptions!Alert, ExceptionFacts!Alert, Exceptions!Entry, ExceptionFacts!Entry,
       Exceptions!SweepTask, ExceptionFacts!SweepTask

LEMMA SentinelAgrees == SentinelFacts!Spec => []SentinelFacts!Forwarder!Agreement
BY PartsAssumption, SentinelFacts!AgreementHolds
   DEF Heartbeat!Alert, SentinelFacts!Alert, Heartbeat!Id, SentinelFacts!Id

\* The instances of the proofs speak of the same specifications.
LEMMA FleetNextSame == Fleet!Next => FleetFacts!Next
BY DEF Fleet!Next, FleetFacts!Next, Fleet!Start, FleetFacts!Start, Fleet!PollStart,
       FleetFacts!PollStart, Fleet!PollFails, FleetFacts!PollFails, Fleet!Publish,
       FleetFacts!Publish, Fleet!PollReturns, FleetFacts!PollReturns,
       Fleet!AddSilence, FleetFacts!AddSilence, Fleet!ClearSilence,
       FleetFacts!ClearSilence, Fleet!Crash, FleetFacts!Crash, Fleet!LinkChange,
       FleetFacts!LinkChange, Fleet!Poll, FleetFacts!Poll, Fleet!channelVars,
       FleetFacts!channelVars, Fleet!Replies, FleetFacts!Replies, Fleet!Snapshot,
       FleetFacts!Snapshot, Fleet!Statuses, FleetFacts!Statuses, Fleet!Tracked,
       FleetFacts!Tracked, Fleet!NextOpen, FleetFacts!NextOpen, Fleet!Edges,
       FleetFacts!Edges, Fleet!Recovers, FleetFacts!Recovers, Fleet!Opens,
       FleetFacts!Opens, Fleet!Drop, FleetFacts!Drop, Fleet!ComputeOpen,
       FleetFacts!ComputeOpen, Fleet!Condition, FleetFacts!Condition,
       Fleet!Registered, FleetFacts!Registered, Fleet!ActiveCount,
       FleetFacts!ActiveCount, Fleet!Kinds, FleetFacts!Kinds, Fleet!Ids,
       FleetFacts!Ids, Fleet!Listed, FleetFacts!Listed, Fleet!BuildAlert,
       FleetFacts!BuildAlert, Fleet!Rank, FleetFacts!Rank, Fleet!Channel!Hand,
       FleetFacts!Channel!Hand, Fleet!Channel!Deliver, FleetFacts!Channel!Deliver,
       Fleet!Channel!Skip, FleetFacts!Channel!Skip, Fleet!Channel!Raise,
       FleetFacts!Channel!Raise, Fleet!Channel!Forget, FleetFacts!Channel!Forget,
       Fleet!Channel!Down, FleetFacts!Channel!Down, Fleet!Channel!LinkChange,
       FleetFacts!Channel!LinkChange, Fleet!Channel!Handed, FleetFacts!Channel!Handed,
       Fleet!Channel!Idle, FleetFacts!Channel!Idle, Fleet!Channel!IdsOf,
       FleetFacts!Channel!IdsOf, Fleet!Channel!Pending, FleetFacts!Channel!Pending,
       Fleet!Channel!IsNext, FleetFacts!Channel!IsNext, Fleet!Channel!OtherTurn,
       FleetFacts!Channel!OtherTurn, Fleet!Channel!Turn, FleetFacts!Channel!Turn,
       Fleet!Channel!Effect, FleetFacts!Channel!Effect, Fleet!Channel!Lost,
       FleetFacts!Channel!Lost, Fleet!Channel!Reached, FleetFacts!Channel!Reached,
       Fleet!Cardinality, FleetFacts!Cardinality

LEMMA FleetSame == Fleet!Spec => FleetFacts!Spec
<1>1. Fleet!Init => FleetFacts!Init
  BY DEF Fleet!Init, FleetFacts!Init, Fleet!Ids, FleetFacts!Ids, Fleet!Kinds,
         FleetFacts!Kinds, Fleet!Poll, FleetFacts!Poll, Fleet!Channel!Init,
         FleetFacts!Channel!Init
<1>2. UNCHANGED Fleet!vars => UNCHANGED FleetFacts!vars
  BY DEF Fleet!vars, FleetFacts!vars, Fleet!channelVars, FleetFacts!channelVars
<1> QED BY <1>1, <1>2, FleetNextSame, PTL DEF Fleet!Spec, FleetFacts!Spec

LEMMA ExceptionNextSame == Exceptions!Next => ExceptionFacts!Next
BY DEF Exceptions!Next, ExceptionFacts!Next, Exceptions!Start, ExceptionFacts!Start,
       Exceptions!ObserveRefused, ExceptionFacts!ObserveRefused, Exceptions!Sweep,
       ExceptionFacts!Sweep, Exceptions!Tick, ExceptionFacts!Tick, Exceptions!Crash,
       ExceptionFacts!Crash, Exceptions!LinkChange, ExceptionFacts!LinkChange,
       Exceptions!Observe, ExceptionFacts!Observe, Exceptions!Publish,
       ExceptionFacts!Publish, Exceptions!AddSilence, ExceptionFacts!AddSilence,
       Exceptions!ClearSilence, ExceptionFacts!ClearSilence, Exceptions!Publishers,
       ExceptionFacts!Publishers, Exceptions!SweepTask, ExceptionFacts!SweepTask,
       Exceptions!channelVars, ExceptionFacts!channelVars, Exceptions!Tracked,
       ExceptionFacts!Tracked, Exceptions!Drop, ExceptionFacts!Drop, Exceptions!Older,
       ExceptionFacts!Older, Exceptions!Swept, ExceptionFacts!Swept, Exceptions!Due,
       ExceptionFacts!Due, Exceptions!SweepEdges, ExceptionFacts!SweepEdges,
       Exceptions!ObserveEdges, ExceptionFacts!ObserveEdges, Exceptions!ObserveOpen,
       ExceptionFacts!ObserveOpen, Exceptions!Seen, ExceptionFacts!Seen,
       Exceptions!BuildAlert, ExceptionFacts!BuildAlert, Exceptions!Channel!Hand,
       ExceptionFacts!Channel!Hand, Exceptions!Channel!Deliver,
       ExceptionFacts!Channel!Deliver, Exceptions!Channel!Skip,
       ExceptionFacts!Channel!Skip, Exceptions!Channel!Raise,
       ExceptionFacts!Channel!Raise, Exceptions!Channel!Forget,
       ExceptionFacts!Channel!Forget, Exceptions!Channel!Down,
       ExceptionFacts!Channel!Down, Exceptions!Channel!LinkChange,
       ExceptionFacts!Channel!LinkChange, Exceptions!Channel!Handed,
       ExceptionFacts!Channel!Handed, Exceptions!Channel!Idle,
       ExceptionFacts!Channel!Idle, Exceptions!Channel!IdsOf,
       ExceptionFacts!Channel!IdsOf, Exceptions!Channel!Pending,
       ExceptionFacts!Channel!Pending, Exceptions!Channel!IsNext,
       ExceptionFacts!Channel!IsNext, Exceptions!Channel!OtherTurn,
       ExceptionFacts!Channel!OtherTurn, Exceptions!Channel!Turn,
       ExceptionFacts!Channel!Turn, Exceptions!Channel!Effect,
       ExceptionFacts!Channel!Effect, Exceptions!Channel!Lost,
       ExceptionFacts!Channel!Lost, Exceptions!Channel!Reached,
       ExceptionFacts!Channel!Reached

LEMMA ExceptionSame == Exceptions!Spec => ExceptionFacts!Spec
<1>1. Exceptions!Init => ExceptionFacts!Init
  BY DEF Exceptions!Init, ExceptionFacts!Init, Exceptions!Publishers,
         ExceptionFacts!Publishers, Exceptions!SweepTask, ExceptionFacts!SweepTask,
         Exceptions!Channel!Init, ExceptionFacts!Channel!Init
<1>2. UNCHANGED Exceptions!vars => UNCHANGED ExceptionFacts!vars
  BY DEF Exceptions!vars, ExceptionFacts!vars, Exceptions!channelVars,
         ExceptionFacts!channelVars
<1> QED BY <1>1, <1>2, ExceptionNextSame, PTL DEF Exceptions!Spec, ExceptionFacts!Spec

LEMMA SentinelNextSame == Heartbeat!Next => SentinelFacts!Next
BY DEF Heartbeat!Next, SentinelFacts!Next, Heartbeat!Start, SentinelFacts!Start,
       Heartbeat!PollStart, SentinelFacts!PollStart, Heartbeat!CallFails,
       SentinelFacts!CallFails, Heartbeat!CallReturns, SentinelFacts!CallReturns,
       Heartbeat!PostSucceeds, SentinelFacts!PostSucceeds, Heartbeat!PostFails,
       SentinelFacts!PostFails, Heartbeat!PostRaises, SentinelFacts!PostRaises,
       Heartbeat!Publish, SentinelFacts!Publish, Heartbeat!Tick, SentinelFacts!Tick,
       Heartbeat!Crash, SentinelFacts!Crash, Heartbeat!LinkChange,
       SentinelFacts!LinkChange, Heartbeat!Poll, SentinelFacts!Poll, Heartbeat!Id,
       SentinelFacts!Id, Heartbeat!channelVars, SentinelFacts!channelVars,
       Heartbeat!Extended, SentinelFacts!Extended, Heartbeat!Opens,
       SentinelFacts!Opens, Heartbeat!Later, SentinelFacts!Later,
       Heartbeat!BuildAlert, SentinelFacts!BuildAlert, Heartbeat!Channel!Hand,
       SentinelFacts!Channel!Hand, Heartbeat!Channel!Deliver,
       SentinelFacts!Channel!Deliver, Heartbeat!Channel!Skip,
       SentinelFacts!Channel!Skip, Heartbeat!Channel!Raise,
       SentinelFacts!Channel!Raise, Heartbeat!Channel!Forget,
       SentinelFacts!Channel!Forget, Heartbeat!Channel!Down,
       SentinelFacts!Channel!Down, Heartbeat!Channel!LinkChange,
       SentinelFacts!Channel!LinkChange, Heartbeat!Channel!Handed,
       SentinelFacts!Channel!Handed, Heartbeat!Channel!Idle,
       SentinelFacts!Channel!Idle, Heartbeat!Channel!IdsOf,
       SentinelFacts!Channel!IdsOf, Heartbeat!Channel!Pending,
       SentinelFacts!Channel!Pending, Heartbeat!Channel!IsNext,
       SentinelFacts!Channel!IsNext, Heartbeat!Channel!OtherTurn,
       SentinelFacts!Channel!OtherTurn, Heartbeat!Channel!Turn,
       SentinelFacts!Channel!Turn, Heartbeat!Channel!Effect,
       SentinelFacts!Channel!Effect, Heartbeat!Channel!Lost,
       SentinelFacts!Channel!Lost, Heartbeat!Channel!Reached,
       SentinelFacts!Channel!Reached

LEMMA SentinelSame == Heartbeat!Spec => SentinelFacts!Spec
<1>1. Heartbeat!Init => SentinelFacts!Init
  BY DEF Heartbeat!Init, SentinelFacts!Init, Heartbeat!Id, SentinelFacts!Id,
         Heartbeat!Poll, SentinelFacts!Poll, Heartbeat!Channel!Init,
         SentinelFacts!Channel!Init
<1>2. UNCHANGED Heartbeat!vars => UNCHANGED SentinelFacts!vars
  BY DEF Heartbeat!vars, SentinelFacts!vars, Heartbeat!channelVars,
         SentinelFacts!channelVars
<1> QED BY <1>1, <1>2, SentinelNextSame, PTL DEF Heartbeat!Spec, SentinelFacts!Spec

\* With nothing on its way each consumer's view is the tracker's list, id by id.
LEMMA FleetView ==
  ASSUME FleetFacts!Agreement, Fleet!Channel!Pending = {}, NEW id \in Fleet!Ids,
         fleetTrust[id] = "agrees"
  PROVE  fleetStanding[id] = Fleet!Listed(fleetOpen, id)
<1>1. id \in FleetFacts!Ids /\ FleetFacts!Channel!Trusted(id)
  BY DEF Fleet!Ids, FleetFacts!Ids, Fleet!Kinds, FleetFacts!Kinds, FleetFacts!Channel!Trusted
<1>2. FleetFacts!Channel!Pending = {}
  BY DEF Fleet!Channel!Pending, FleetFacts!Channel!Pending, Fleet!Poll, FleetFacts!Poll
<1>3. FleetFacts!Channel!Projected(id) = fleetStanding[id]
  BY <1>2 DEF FleetFacts!Channel!Projected
<1> QED BY <1>1, <1>3 DEF FleetFacts!Agreement, FleetFacts!Listed, Fleet!Listed

LEMMA ExceptionView ==
  ASSUME ExceptionFacts!Forwarder!Agreement, Exceptions!Channel!Pending = {},
         NEW k \in Keys, exceptionTrust[k] = "agrees"
  PROVE  exceptionStanding[k] = Exceptions!Listed(exceptionOpen, k)
<1>1. ExceptionFacts!Forwarder!Channel!Trusted(k)
  BY DEF ExceptionFacts!Forwarder!Channel!Trusted
<1>2. ExceptionFacts!Forwarder!Channel!Pending = {}
  BY DEF Exceptions!Channel!Pending, ExceptionFacts!Forwarder!Channel!Pending,
         Exceptions!Publishers, ExceptionFacts!Publishers, Exceptions!SweepTask,
         ExceptionFacts!SweepTask
<1>3. ExceptionFacts!Forwarder!Channel!Projected(k) = exceptionStanding[k]
  BY <1>2 DEF ExceptionFacts!Forwarder!Channel!Projected
<1> QED BY <1>1, <1>3
        DEF ExceptionFacts!Forwarder!Agreement, ExceptionFacts!Listed, Exceptions!Listed

LEMMA SentinelView ==
  ASSUME SentinelFacts!Forwarder!Agreement, Heartbeat!Channel!Pending = {},
         sentinelTrust[Heartbeat!Id] = "agrees"
  PROVE  sentinelStanding[Heartbeat!Id] = sentinelOpen
<1>1. SentinelFacts!Forwarder!Channel!Trusted(SentinelFacts!Id)
  BY DEF SentinelFacts!Forwarder!Channel!Trusted, SentinelFacts!Id, Heartbeat!Id
<1>2. SentinelFacts!Forwarder!Channel!Pending = {}
  BY DEF Heartbeat!Channel!Pending, SentinelFacts!Forwarder!Channel!Pending,
         Heartbeat!Poll, SentinelFacts!Poll
<1>3. SentinelFacts!Forwarder!Channel!Projected(SentinelFacts!Id)
        = sentinelStanding[SentinelFacts!Id]
  BY <1>2 DEF SentinelFacts!Forwarder!Channel!Projected
<1> QED BY <1>1, <1>3 DEF SentinelFacts!Forwarder!Agreement, SentinelFacts!Id, Heartbeat!Id

\* list-open-alerts-monitor.feature: the joint list of the three trackers is what
\* the consumer of the one event stream holds, once nothing is on its way and
\* where no alert was lost, raced or dropped without a repair since.
THEOREM ListIsConsumersViewHolds == Spec => []ListIsConsumersView
<1>1. /\ FleetFacts!Agreement
      /\ ExceptionFacts!Forwarder!Agreement
      /\ SentinelFacts!Forwarder!Agreement
      => ListIsConsumersView
  <2> SUFFICES ASSUME FleetFacts!Agreement, ExceptionFacts!Forwarder!Agreement,
                      SentinelFacts!Forwarder!Agreement, Settled, AllAgree
               PROVE  Standing = ListOpenAlerts
    BY DEF ListIsConsumersView
  <2>1. /\ Fleet!Channel!Pending = {}
        /\ Exceptions!Channel!Pending = {}
        /\ Heartbeat!Channel!Pending = {}
    BY DEF Settled
  <2>2. \A id \in Fleet!Ids : fleetStanding[id] = Fleet!Listed(fleetOpen, id)
    BY <2>1, FleetView DEF AllAgree
  <2>3. \A k \in Keys : exceptionStanding[k] = Exceptions!Listed(exceptionOpen, k)
    BY <2>1, ExceptionView DEF AllAgree
  <2>4. sentinelStanding[Heartbeat!Id] = sentinelOpen
    BY <2>1, SentinelView DEF AllAgree
  <2>5. {fleetStanding[id] : id \in Fleet!Ids}
          = {Fleet!Listed(fleetOpen, id) : id \in Fleet!Ids}
    BY <2>2
  <2>6. {exceptionStanding[k] : k \in Keys}
          = {Exceptions!Listed(exceptionOpen, k) : k \in Keys}
    BY <2>3
  <2> QED BY <2>4, <2>5, <2>6 DEF Standing, ListOpenAlerts
<1> QED BY <1>1, PartsHold, FleetSame, ExceptionSame, SentinelSame, FleetAgrees,
           ExceptionAgrees, SentinelAgrees, PTL DEF ImplementsParts

-----------------------------------------------------------------------------
\* Nothing is silenced, nothing has set consumer and tables apart.
Undisturbed == /\ silenced = {} /\ file = {}
               /\ \A s \in Services : FleetFacts!Undisturbed(s)
               /\ \A k \in Keys : ExceptionFacts!Undisturbed(k)
               /\ SentinelFacts!Undisturbed

PartsInv == /\ FleetFacts!IInv
            /\ ExceptionFacts!IInv /\ ExceptionFacts!TypeOK
            /\ SentinelFacts!IInv /\ SentinelFacts!TypeOK

LEMMA FleetInv == FleetFacts!Spec => []FleetFacts!IInv
BY PartsAssumption, FleetFacts!Invariance
   DEF Fleet!Alert, FleetFacts!Alert, Fleet!IsFiniteSet, FleetFacts!IsFiniteSet,
       Fleet!Cardinality, FleetFacts!Cardinality, Fleet!Ids, FleetFacts!Ids, Fleet!Kinds,
       FleetFacts!Kinds, Fleet!Resolutions, FleetFacts!Resolutions

LEMMA ExceptionInv == ExceptionFacts!Spec => [](ExceptionFacts!IInv /\ ExceptionFacts!TypeOK)
<1>1. ExceptionFacts!Spec => []ExceptionFacts!IInv
  BY PartsAssumption, ExceptionFacts!Invariance
     DEF Exceptions!Alert, ExceptionFacts!Alert, Exceptions!Entry, ExceptionFacts!Entry,
         Exceptions!SweepTask, ExceptionFacts!SweepTask
<1>2. ExceptionFacts!Spec => []ExceptionFacts!TypeOK
  BY PartsAssumption, ExceptionFacts!TypeCorrect
     DEF Exceptions!Alert, ExceptionFacts!Alert, Exceptions!Entry, ExceptionFacts!Entry,
         Exceptions!SweepTask, ExceptionFacts!SweepTask
<1> QED BY <1>1, <1>2, PTL

LEMMA SentinelInv == SentinelFacts!Spec => [](SentinelFacts!IInv /\ SentinelFacts!TypeOK)
<1>1. SentinelFacts!Spec => []SentinelFacts!IInv
  BY PartsAssumption, SentinelFacts!Invariance
     DEF Heartbeat!Alert, SentinelFacts!Alert, Heartbeat!Id, SentinelFacts!Id
<1>2. SentinelFacts!Spec => []SentinelFacts!TypeOK
  BY PartsAssumption, SentinelFacts!TypeCorrect
     DEF Heartbeat!Alert, SentinelFacts!Alert, Heartbeat!Id, SentinelFacts!Id
<1> QED BY <1>1, <1>2, PTL

LEMMA PartsInvariance == Spec => []PartsInv
BY PartsHold, FleetSame, ExceptionSame, SentinelSame, FleetInv, ExceptionInv, SentinelInv, PTL
   DEF ImplementsParts, PartsInv

LEMMA FleetTells == FleetFacts!Spec => FleetFacts!OneAnswerTells
BY PartsAssumption, FleetFacts!OneAnswerIsEnough
   DEF Fleet!Alert, FleetFacts!Alert, Fleet!IsFiniteSet, FleetFacts!IsFiniteSet,
       Fleet!Cardinality, FleetFacts!Cardinality, Fleet!Ids, FleetFacts!Ids, Fleet!Kinds,
       FleetFacts!Kinds, Fleet!Resolutions, FleetFacts!Resolutions

LEMMA ExceptionTells == ExceptionFacts!Spec => ExceptionFacts!OneEventTells
BY PartsAssumption, ExceptionFacts!OneEventIsEnough
   DEF Exceptions!Alert, ExceptionFacts!Alert, Exceptions!Entry, ExceptionFacts!Entry,
       Exceptions!SweepTask, ExceptionFacts!SweepTask

LEMMA SentinelTells == SentinelFacts!Spec => SentinelFacts!OnePostTells
BY PartsAssumption, SentinelFacts!OnePostIsEnough
   DEF Heartbeat!Alert, SentinelFacts!Alert, Heartbeat!Id, SentinelFacts!Id

\* In the process too one step of a part is enough, in the midst of the other parts
\* and whatever happened before: one answer of the registry, one event that reports
\* an exception, one judged post.  Where a lost alert stays out of its reach, each
\* part's property says so.
THEOREM OneStepIsEnough ==
  Spec => /\ FleetFacts!OneAnswerTells
          /\ ExceptionFacts!OneEventTells
          /\ SentinelFacts!OnePostTells
BY PartsHold, FleetSame, ExceptionSame, SentinelSame, FleetTells, ExceptionTells,
   SentinelTells, PTL DEF ImplementsParts

\* No step adds a silence.
Unsilencing == \A n \in Names, saved \in BOOLEAN : ~AddSilence(n, saved)

LEMMA NothingSilenced ==
  ASSUME silenced = {}, file = {}, [Next]_vars, [Unsilencing]_vars
  PROVE  silenced' = {} /\ file' = {}
<1>1. CASE UNCHANGED <<silenced, file>>
  BY <1>1
<1>2. ASSUME NEW n \in Names, NEW saved \in BOOLEAN, StoreClears(n, saved)
      PROVE  silenced' = {} /\ file' = {}
  BY <1>2 DEF StoreClears
<1>3. CASE StoreStarts \/ StoreDies
  BY <1>3 DEF StoreStarts, StoreDies
<1> QED BY <1>1, <1>2, <1>3, StoreSteps, FleetLeaves, ExceptionLeaves, SentinelLeaves,
           LifecycleLeaves, TickLeaves DEF Next, shared, vars, Unsilencing

LEMMA UndisturbedStep ==
  ASSUME Failures \subseteq {"save", "post"}, PartsInv, Undisturbed,
         [Next]_vars, [Unsilencing]_vars, [ExceptionFacts!Apart]_(ExceptionFacts!vars)
  PROVE  Undisturbed'
<1>0. /\ Failures \ {"post"} \subseteq {"save"} /\ Failures \ {"save"} \subseteq {"post"}
      /\ silenced' = {} /\ file' = {}
  BY NothingSilenced DEF Undisturbed
<1>1. ASSUME NEW s \in Services PROVE FleetFacts!Undisturbed(s)'
  <2>1. [FleetFacts!Next]_(FleetFacts!vars)
    BY FleetStepRefines, FleetNextSame
       DEF Fleet!vars, FleetFacts!vars, Fleet!channelVars, FleetFacts!channelVars
  <2>2. \A saved \in BOOLEAN : ~FleetFacts!AddSilence(s, saved)
    BY <1>0 DEF FleetFacts!AddSilence
  <2>3. FleetFacts!IInv /\ FleetFacts!Undisturbed(s)
    BY DEF PartsInv, Undisturbed
  <2> QED BY <1>0, <2>1, <2>2, <2>3, PartsAssumption, FleetFacts!UndisturbedStep
          DEF Fleet!Alert, FleetFacts!Alert, Fleet!IsFiniteSet, FleetFacts!IsFiniteSet,
              Fleet!Cardinality, FleetFacts!Cardinality, Fleet!Ids, FleetFacts!Ids,
              Fleet!Kinds, FleetFacts!Kinds, Fleet!Resolutions, FleetFacts!Resolutions
<1>2. ASSUME NEW k \in Keys PROVE ExceptionFacts!Undisturbed(k)'
  <2>1. [ExceptionFacts!Next]_(ExceptionFacts!vars)
    BY ExceptionStepRefines, ExceptionNextSame
       DEF Exceptions!vars, ExceptionFacts!vars, Exceptions!channelVars,
           ExceptionFacts!channelVars
  <2>2. \A saved \in BOOLEAN : ~ExceptionFacts!AddSilence(ServiceOf[k], saved)
    BY <1>0 DEF ExceptionFacts!AddSilence
  <2>3. ExceptionFacts!IInv /\ ExceptionFacts!TypeOK /\ ExceptionFacts!Undisturbed(k)
    BY DEF PartsInv, Undisturbed
  <2> QED BY <1>0, <2>1, <2>2, <2>3, PartsAssumption, ExceptionFacts!UndisturbedStep
          DEF Exceptions!Alert, ExceptionFacts!Alert, Exceptions!Entry,
              ExceptionFacts!Entry, Exceptions!SweepTask, ExceptionFacts!SweepTask
<1>3. SentinelFacts!Undisturbed'
  <2>1. [SentinelFacts!Next]_(SentinelFacts!vars)
    BY SentinelStepRefines, SentinelNextSame
       DEF Heartbeat!vars, SentinelFacts!vars, Heartbeat!channelVars,
           SentinelFacts!channelVars
  <2>2. /\ SentinelFacts!IInv /\ SentinelFacts!Undisturbed
        /\ sentinelTrust \in [{SentinelFacts!Id} -> SentinelFacts!Channel!Trust]
    BY DEF PartsInv, Undisturbed, SentinelFacts!TypeOK
  <2> QED BY <1>0, <2>1, <2>2, PartsAssumption, SentinelFacts!UndisturbedStep
          DEF Heartbeat!Alert, SentinelFacts!Alert, Heartbeat!Id, SentinelFacts!Id
<1> QED BY <1>0, <1>1, <1>2, <1>3 DEF Undisturbed

\* The feature's promise without an exemption.  Where no link breaks, no publish
\* raises, the process lives, nobody silences and no two runs have an alert of one
\* fingerprint on their way at once, the consumer of the one event stream holds what
\* list_open_alerts returns whenever nothing is on its way: the three trackers,
\* their tasks and handlers, in whatever interleaving, add no divergence of their own.
THEOREM ListIsTheStream ==
  ASSUME Failures \subseteq {"save", "post"}
  PROVE  Spec /\ file = {} /\ [][Unsilencing]_vars /\ ExceptionFacts!BatchesDoNotOverlap
           => [](Settled => Standing = ListOpenAlerts)
<1>1. Init /\ file = {} => Undisturbed
  BY DEF Init, Fleet!Init, Exceptions!Init, Heartbeat!Init, Fleet!Channel!Init,
         Exceptions!Channel!Init, Heartbeat!Channel!Init, Undisturbed,
         FleetFacts!Undisturbed, ExceptionFacts!Undisturbed, SentinelFacts!Undisturbed,
         Fleet!Ids, Fleet!Kinds, FleetFacts!Kinds, Heartbeat!Id, SentinelFacts!Id
<1>2. PartsInv /\ Undisturbed /\ [Next]_vars /\ [Unsilencing]_vars
        /\ [ExceptionFacts!Apart]_(ExceptionFacts!vars) => Undisturbed'
  BY UndisturbedStep
<1>3. Undisturbed => AllAgree
  <2> SUFFICES ASSUME Undisturbed PROVE AllAgree
    OBVIOUS
  <2>1. ASSUME NEW id \in Fleet!Ids PROVE fleetTrust[id] = "agrees"
    <3>1. id[1] \in Services /\ id[2] \in FleetFacts!Kinds /\ id = <<id[1], id[2]>>
      BY DEF Fleet!Ids, Fleet!Kinds, FleetFacts!Kinds
    <3> QED BY <3>1 DEF Undisturbed, FleetFacts!Undisturbed
  <2>2. \A k \in Keys : exceptionTrust[k] = "agrees"
    BY DEF Undisturbed, ExceptionFacts!Undisturbed
  <2>3. sentinelTrust[Heartbeat!Id] = "agrees"
    BY DEF Undisturbed, SentinelFacts!Undisturbed, Heartbeat!Id, SentinelFacts!Id
  <2> QED BY <2>1, <2>2, <2>3 DEF AllAgree
<1>4. AllAgree /\ ListIsConsumersView => (Settled => Standing = ListOpenAlerts)
  BY DEF ListIsConsumersView
<1> QED BY <1>1, <1>2, <1>3, <1>4, PartsInvariance, ListIsConsumersViewHolds, PTL
        DEF Spec, ExceptionFacts!BatchesDoNotOverlap

-----------------------------------------------------------------------------
\* What a run publishes is made of its event.
Handled ==
  \A r \in Runs : handling[r] # NoAlert =>
    /\ handling[r].event \in Events \ {NotADict}
    /\ handling[r].alert.event_type = Lifecycle!EventType(handling[r].event)
    /\ handling[r].alert.attributes = Lifecycle!Attributes(handling[r].event)

LEMMA HandledStep == Told /\ Handled /\ [Lifecycle!Next]_(Lifecycle!vars) => Handled'
<1> SUFFICES ASSUME Told, Handled, [Lifecycle!Next]_(Lifecycle!vars) PROVE Handled'
  OBVIOUS
<1>1. CASE UNCHANGED handling
  BY <1>1 DEF Handled
<1>2. ASSUME NEW r \in Runs, NEW e \in Events, NEW now \in Times, Lifecycle!Receive(r, e, now)
      PROVE  Handled'
  <2>1. /\ e # NotADict
        /\ handling' = [handling EXCEPT ![r] =
                          [event |-> e, alert |-> Lifecycle!BuildAlert(e, now)]]
    BY <1>2 DEF Lifecycle!Receive, Lifecycle!Mapped
  <2>2. handling'[r].event = e /\ handling'[r].alert = Lifecycle!BuildAlert(e, now)
    BY <2>1 DEF Told
  <2>3. \A q \in Runs \ {r} : handling'[q] = handling[q]
    BY <2>1 DEF Told
  <2>4. /\ handling'[r].alert.event_type = Lifecycle!EventType(e)
        /\ handling'[r].alert.attributes = Lifecycle!Attributes(e)
    BY <2>2 DEF Lifecycle!BuildAlert
  <2> QED BY <2>1, <2>2, <2>3, <2>4 DEF Handled
<1>3. ASSUME NEW r \in Runs, Lifecycle!Publish(r) PROVE Handled'
  BY <1>3 DEF Lifecycle!Publish, Lifecycle!Ends, Handled, Told
<1>4. CASE Lifecycle!Crash
  BY <1>4 DEF Lifecycle!Crash, Handled
<1> QED BY <1>1, <1>2, <1>3, <1>4
        DEF Lifecycle!Next, Lifecycle!vars, Lifecycle!LinkChange, Lifecycle!Silence,
            Lifecycle!Start

LEMMA HandledAlways == Spec => []Handled
<1>1. Lifecycle!Init => Handled
  BY DEF Lifecycle!Init, Handled
<1> QED BY <1>1, HandledStep, ToldAlways, PartsHold, PTL DEF ImplementsParts, Lifecycle!Spec

LEMMA LifecycleOffered ==
  ASSUME Handled, NEW r \in Runs, handling[r] # NoAlert
  PROVE  Offered(Criteria, Optional \ handling[r].event.extras,
                 handling[r].alert.event_type, handling[r].alert.attributes)
<1> DEFINE e == handling[r].event
<1>1. e \in Lifecycle!Event
  BY PartsAssumption DEF Handled, Lifecycle!WellFormed
<1>2. e.type \in {"registered", "deregistered", "status_changed"}
  BY <1>1 DEF Lifecycle!Event, Lifecycle!Types
<1>3. Offered(Criteria, Optional \ e.extras, Lifecycle!EventType(e), Lifecycle!Attributes(e))
  <2>1. CASE e.type = "registered"
    BY <2>1 DEF Offered, Criteria, Optional, Lifecycle!EventType, Lifecycle!Attributes
  <2>2. CASE e.type = "deregistered"
    BY <2>2 DEF Offered, Criteria, Optional, Lifecycle!EventType, Lifecycle!Attributes
  <2>3. CASE e.type = "status_changed"
    BY <2>3 DEF Offered, Criteria, Optional, Lifecycle!EventType, Lifecycle!Attributes
  <2> QED BY <1>2, <2>1, <2>2, <2>3
<1> QED BY <1>3 DEF Handled

\* Every alert on its way has a type that the subscription catalog offers, with
\* the attributes that the criteria of its type ask for.
THEOREM EveryAlertIsOfferedHolds == Spec => []EveryAlertIsOffered
<1>1. Handled => EveryAlertIsOffered
  <2> SUFFICES ASSUME Handled PROVE EveryAlertIsOffered
    OBVIOUS
  <2>1. ASSUME NEW a \in Fleet!Channel!Pending
        PROVE  Offered(Criteria, {}, FleetType(a.id[2]), FleetAttributes)
    BY DEF Offered, Criteria, FleetType, FleetAttributes
  <2>2. ASSUME NEW a \in Exceptions!Channel!Pending
        PROVE  LET typed == a.id \in deployed.typed
               IN  Offered(Criteria, IF typed THEN {} ELSE {"exception_type"},
                           "exception_recorded", ExceptionAttributes(typed))
    BY DEF Offered, Criteria, ExceptionAttributes
  <2>3. Offered(Criteria, {}, "sentinel_unreachable", SentinelAttributes)
    BY DEF Offered, Criteria, SentinelAttributes
  <2> QED BY <2>1, <2>2, <2>3, LifecycleOffered DEF EveryAlertIsOffered
<1> QED BY <1>1, HandledAlways, PTL

-----------------------------------------------------------------------------
\* The types of the process are those of its parts.
LEMMA FleetTyped == FleetFacts!TypeOK => Fleet!TypeOK
BY DEF FleetFacts!TypeOK, Fleet!TypeOK, FleetFacts!Alert, Fleet!Alert, FleetFacts!Ids,
       Fleet!Ids, FleetFacts!Kinds, Fleet!Kinds, FleetFacts!Resolutions, Fleet!Resolutions,
       FleetFacts!Cardinality, Fleet!Cardinality, FleetFacts!Poll, Fleet!Poll,
       FleetFacts!Channel!Trust, Fleet!Channel!Trust

LEMMA ExceptionTyped == ExceptionFacts!TypeOK => Exceptions!TypeOK
BY DEF ExceptionFacts!TypeOK, Exceptions!TypeOK, ExceptionFacts!Alert, Exceptions!Alert,
       ExceptionFacts!Entry, Exceptions!Entry, ExceptionFacts!Publishers,
       Exceptions!Publishers, ExceptionFacts!SweepTask, Exceptions!SweepTask,
       ExceptionFacts!Channel!Trust, Exceptions!Channel!Trust

LEMMA SentinelTyped == SentinelFacts!TypeOK => Heartbeat!TypeOK
BY DEF SentinelFacts!TypeOK, Heartbeat!TypeOK, SentinelFacts!Alert, Heartbeat!Alert,
       SentinelFacts!Ticks, Heartbeat!Ticks, SentinelFacts!Outcomes, Heartbeat!Outcomes,
       SentinelFacts!BuildAlert, Heartbeat!BuildAlert, SentinelFacts!Poll, Heartbeat!Poll,
       SentinelFacts!Id, Heartbeat!Id, SentinelFacts!Channel!Trust, Heartbeat!Channel!Trust

LEMMA LifecycleTypeStep ==
  Lifecycle!TypeOK /\ [Lifecycle!Next]_(Lifecycle!vars) => Lifecycle!TypeOK'
<1> SUFFICES ASSUME Lifecycle!TypeOK, [Lifecycle!Next]_(Lifecycle!vars)
             PROVE  Lifecycle!TypeOK'
  OBVIOUS
<1> USE DEF Lifecycle!TypeOK
<1>1. CASE UNCHANGED Lifecycle!vars
  BY <1>1 DEF Lifecycle!vars
<1>2. ASSUME NEW r \in Runs, NEW e \in Events, NEW now \in Times, Lifecycle!Receive(r, e, now)
      PROVE  Lifecycle!TypeOK'
  <2>1. e \in Events \ {NotADict}
    BY <1>2 DEF Lifecycle!Receive, Lifecycle!Mapped
  <2>2. Lifecycle!BuildAlert(e, now) \in Lifecycle!Alert
    BY <2>1 DEF Lifecycle!Alert
  <2> QED BY <1>2, <2>2 DEF Lifecycle!Receive
<1>3. ASSUME NEW r \in Runs, Lifecycle!Publish(r) PROVE Lifecycle!TypeOK'
  <2>1. handling[r] \in [event : Events, alert : Lifecycle!Alert]
    BY <1>3 DEF Lifecycle!Publish, Lifecycle!Ends
  <2>2. told' \in [Lifecycle!Stamped -> SUBSET Lifecycle!Alert]
    BY <1>3, <2>1 DEF Lifecycle!Publish, Lifecycle!Reaches
  <2> QED BY <1>3, <2>2 DEF Lifecycle!Publish, Lifecycle!Ends
<1>4. CASE Lifecycle!Crash \/ Lifecycle!LinkChange
  BY <1>4 DEF Lifecycle!Crash, Lifecycle!LinkChange
<1>5. ASSUME NEW names \in SUBSET Names, Lifecycle!Silence(names) \/ Lifecycle!Start(names)
      PROVE  Lifecycle!TypeOK'
  BY <1>5 DEF Lifecycle!Silence, Lifecycle!Start
<1> QED BY <1>1, <1>2, <1>3, <1>4, <1>5 DEF Lifecycle!Next

LEMMA LifecycleTyped == Lifecycle!Spec => []Lifecycle!TypeOK
<1>1. Lifecycle!Init => Lifecycle!TypeOK
  BY DEF Lifecycle!Init, Lifecycle!TypeOK
<1> QED BY <1>1, LifecycleTypeStep, PTL DEF Lifecycle!Spec

LEMMA PromisedTypeStep ==
  promised \in SUBSET Names /\ [Next]_vars => (promised \in SUBSET Names)'
BY DEF Next, vars, FleetStep, ExceptionStep, SentinelStep, LifecycleStep, Start, Crash,
       LinkChange, Tick, AddSilence, ClearSilence

\* Every variable of the process keeps its type, whatever its parts do: each part
\* types what is its own, with the store, the connection and the life they share.
THEOREM TypeCorrect == Spec => []TypeOK
<1>1. Init => promised \in SUBSET Names
  BY DEF Init
<1>2. PartsInv => Fleet!TypeOK /\ Exceptions!TypeOK /\ Heartbeat!TypeOK
  BY FleetTyped, ExceptionTyped, SentinelTyped DEF PartsInv, FleetFacts!IInv
<1>3. Known => deployed \in Deployments
  BY DEF Known
<1> QED BY <1>1, <1>2, <1>3, PromisedTypeStep, PartsInvariance, LifecycleTyped, KnownAlways,
           PartsHold, PTL DEF Spec, ImplementsParts, TypeOK
=============================================================================
