-------------------------------- MODULE Monitor --------------------------------
(* kontiki-monitor as one process: its fleet half, its exception half, the    *)
(* sentinel heartbeat and the lifecycle handlers, around one silence store,   *)
(* one Messenger and one life.  A handler or task of one part leaves the      *)
(* others alone; a silence, the connection, a start and a crash meet them all.*)
EXTENDS Catalog, Integers, FiniteSets

CONSTANTS Names, Raw, Blank, Normalize,                      \* see LifecycleEvents
          Instances, NoAlert, Failures,
          Services, MinActive, Position,                     \* see FleetState
          Keys, ServiceOf, Window, Handlers,                 \* see ExceptionMonitor
          Interval, Threshold,                               \* see Sentinel
          Times, NoTime, BadTime, NotADict, Events, Runs,    \* see LifecycleEvents
          Corrupt,                                           \* see Silences
          Deployments      \* what the process may be set up with, and may meet

\* expected_services and the sentinel block are optional, the rest always runs.
\* events and drops bound what the registry emits and whether the connection may
\* be lost: an instance of the model need not combine everything with everything.
\* typed are the fingerprints whose exception_type is not the empty text.
ASSUME DeploymentAssumption ==
  Deployments \subseteq [parts : SUBSET {"fleet", "sentinel"},
                        events : SUBSET Events, drops : BOOLEAN, typed : SUBSET Keys]

VARIABLES
  up, silenced, file, link,
  deployed,  \* which of the Deployments this is
  promised,  \* names whose add_silence succeeded, no clear_silence since
  fleetOpen, phase, unsaved, fleetQueue, fleetStanding, fleetTrust,
  exceptionOpen, exceptionQueue, exceptionStanding, exceptionTrust,
  wait, posting, failures, sentinelOpen, recent, since, sent,
  sentinelQueue, sentinelStanding, sentinelTrust,
  handling, told

Fleet == INSTANCE FleetMonitor WITH
  Suspends <- TRUE, Failures <- Failures \ {"post"}, fresh <- {},
  open <- fleetOpen, queue <- fleetQueue, standing <- fleetStanding, trust <- fleetTrust

Exceptions == INSTANCE ExceptionMonitor WITH
  Services <- Names, Suspends <- TRUE, Failures <- Failures \ {"post"}, fresh <- {},
  open <- exceptionOpen, queue <- exceptionQueue, standing <- exceptionStanding,
  trust <- exceptionTrust

Heartbeat == INSTANCE Sentinel WITH
  Suspends <- TRUE, Failures <- Failures \ {"save"}, fresh <- {}, phase <- posting,
  open <- sentinelOpen, queue <- sentinelQueue, standing <- sentinelStanding,
  trust <- sentinelTrust

Lifecycle == INSTANCE LifecycleEvents WITH Failures <- Failures \ {"post", "save"}

Store == INSTANCE Silences

\* The parts have the constants they need.
ASSUME PartsAssumption ==
  /\ Fleet!FleetAssumption /\ Fleet!NoAlertAssumption /\ Fleet!MonitorAssumption
  /\ Exceptions!FingerprintAssumption /\ Exceptions!NoAlertAssumption
  /\ Exceptions!MonitorAssumption
  /\ Heartbeat!SentinelAssumption /\ Heartbeat!NoAlertAssumption
  /\ Lifecycle!WellFormed
  /\ \A names \in SUBSET Names : names # Corrupt

fleetVars == <<fleetOpen, phase, unsaved, fleetQueue, fleetStanding, fleetTrust>>
exceptionVars == <<exceptionOpen, exceptionQueue, exceptionStanding, exceptionTrust>>
sentinelVars == <<wait, posting, failures, sentinelOpen, recent, since, sent,
                  sentinelQueue, sentinelStanding, sentinelTrust>>
lifecycleVars == <<handling, told>>
vars == <<up, silenced, file, link, deployed, promised,
          fleetVars, exceptionVars, sentinelVars, lifecycleVars>>

TypeOK == /\ Fleet!TypeOK
          /\ Exceptions!TypeOK
          /\ Heartbeat!TypeOK
          /\ Lifecycle!TypeOK
          /\ deployed \in Deployments
          /\ promised \in SUBSET Names

Init == /\ Fleet!Init
        /\ Exceptions!Init
        /\ Heartbeat!Init
        /\ Lifecycle!Init
        /\ deployed \in Deployments
        /\ promised = {}

-----------------------------------------------------------------------------
\* Tasks and handlers.
FleetStep == /\ "fleet" \in deployed.parts
             /\ \/ Fleet!PollStart \/ Fleet!PollFails \/ Fleet!Publish
                \/ \E services \in Fleet!Replies : Fleet!PollReturns(services)
             /\ UNCHANGED <<deployed, promised, exceptionVars, sentinelVars, lifecycleVars>>

ExceptionStep ==
  /\ \/ Exceptions!ObserveRefused \/ Exceptions!Sweep
     \/ \E h \in Handlers, k \in Keys, i \in Instances : Exceptions!Observe(h, k, i)
     \/ \E p \in Exceptions!Publishers : Exceptions!Publish(p)
  /\ UNCHANGED <<deployed, promised, fleetVars, sentinelVars, lifecycleVars>>

SentinelStep ==
  /\ "sentinel" \in deployed.parts
  /\ \/ Heartbeat!PollStart \/ Heartbeat!CallFails \/ Heartbeat!CallReturns
     \/ Heartbeat!PostSucceeds \/ Heartbeat!PostFails \/ Heartbeat!PostRaises
     \/ Heartbeat!Publish
  /\ UNCHANGED <<silenced, file, deployed, promised, fleetVars, exceptionVars, lifecycleVars>>

LifecycleStep ==
  /\ \/ \E r \in Runs, e \in deployed.events, now \in Times : Lifecycle!Receive(r, e, now)
     \/ \E r \in Runs : Lifecycle!Publish(r)
  /\ UNCHANGED <<file, deployed, promised, fleetVars, exceptionVars, sentinelVars>>

-----------------------------------------------------------------------------
\* Slip: only the fleet tracker is told.
AddSilence_FleetOnly(n, saved) ==
  /\ Fleet!AddSilence(n, saved)
  /\ promised' = IF saved THEN promised \cup {n} ELSE promised
  /\ UNCHANGED <<deployed, exceptionVars, sentinelVars, lifecycleVars>>

\* delegate.add_silence: the store, then the fleet tracker, then the exception
\* tracker; neither is told when the store raises.
AddSilence(n, saved) ==
  /\ Fleet!AddSilence(n, saved)
  /\ Exceptions!AddSilence(n, saved)
  /\ promised' = IF saved THEN promised \cup {n} ELSE promised
  /\ UNCHANGED <<deployed, sentinelVars, lifecycleVars>>

ClearSilence(n, saved) ==
  /\ Fleet!ClearSilence(n, saved)
  /\ Exceptions!ClearSilence(n, saved)
  /\ promised' = promised \ {n}
  /\ UNCHANGED <<deployed, sentinelVars, lifecycleVars>>

\* Slip: setup does not read the silences file.
Start_Empty == /\ ~up
               /\ up' = TRUE
               /\ silenced' = {}
               /\ UNCHANGED <<file, link, deployed, promised, fleetVars, exceptionVars,
                              sentinelVars, lifecycleVars>>

\* setup builds the store from its file and every tracker empty.
Start == /\ Fleet!Start
         /\ Exceptions!Start
         /\ Heartbeat!Start
         /\ Lifecycle!Start(file)
         /\ UNCHANGED <<deployed, promised>>

Crash == /\ Fleet!Crash
         /\ Exceptions!Crash
         /\ Heartbeat!Crash
         /\ Lifecycle!Crash
         /\ UNCHANGED <<deployed, promised>>

LinkChange == /\ deployed.drops
              /\ Fleet!LinkChange
              /\ Exceptions!LinkChange
              /\ Heartbeat!LinkChange
              /\ Lifecycle!LinkChange
              /\ UNCHANGED <<deployed, promised>>

Tick == /\ Exceptions!Tick
        /\ Heartbeat!Tick
        /\ UNCHANGED <<deployed, promised, fleetVars, lifecycleVars>>

Next == \/ FleetStep \/ ExceptionStep \/ SentinelStep \/ LifecycleStep
        \/ Start \/ Crash \/ LinkChange \/ Tick
        \/ \E n \in Names, saved \in BOOLEAN : AddSilence(n, saved) \/ ClearSilence(n, saved)

Spec == Init /\ [][Next]_vars

-----------------------------------------------------------------------------
\* What list_open_alerts returns, and what the consumer holds as open.
ListOpenAlerts ==
  ({Fleet!Listed(fleetOpen, id) : id \in Fleet!Ids} \cup
   {Exceptions!Listed(exceptionOpen, k) : k \in Keys} \cup {sentinelOpen}) \ {NoAlert}

Standing ==
  ({fleetStanding[id] : id \in Fleet!Ids} \cup
   {exceptionStanding[k] : k \in Keys} \cup {sentinelStanding[Heartbeat!Id]}) \ {NoAlert}

Settled ==
  Fleet!Channel!Pending \cup Exceptions!Channel!Pending \cup Heartbeat!Channel!Pending = {}

AllAgree == /\ \A id \in Fleet!Ids : fleetTrust[id] = "agrees"
            /\ \A k \in Keys : exceptionTrust[k] = "agrees"
            /\ sentinelTrust[Heartbeat!Id] = "agrees"

\* list-open-alerts-monitor.feature: the list holds the objects of the open edges.
\* With no edge on its way, and none lost, raced or dropped before that was not
\* repaired since, the joint list of the three trackers is what the consumer of
\* the one event stream holds, whichever parts ran, in whatever interleaving.
ListIsConsumersView == Settled /\ AllAgree => Standing = ListOpenAlerts

\* A silence that add_silence has confirmed is in force until somebody clears it,
\* through failed saves of other calls, crashes and restarts: the file has it, a
\* running service has it, and no tracker lists an alert of that service.
PromisedHolds ==
  \A n \in promised :
    /\ n \in file
    /\ up => n \in silenced
    /\ n \in Services => fleetOpen[n] = NoAlert
    /\ \A k \in Keys : ServiceOf[k] = n => exceptionOpen[k] = NoAlert

\* alert-silences.feature: a silenced service is skipped by every feed.  No task
\* and no handler run sets out to publish an alert, be it an open, a recover or a
\* lifecycle alert, about a service whose silence was confirmed and not cleared.
PromisedSilence ==
  [][\A n \in promised :
       /\ \A a \in Fleet!Channel!Pending' \ Fleet!Channel!Pending : a.id[1] # n
       /\ \A a \in Exceptions!Channel!Pending' \ Exceptions!Channel!Pending :
            ServiceOf[a.id] # n
       /\ \A r \in Runs : handling'[r] \in {handling[r], NoAlert}
                          \/ handling'[r].alert.id.service # n]_vars

\* Every alert on its way has a type that the subscription catalog offers, with
\* the attributes that the criteria of that type ask for.  A criterion may go
\* without its attribute only where the event did not say what it would hold.
EveryAlertIsOffered ==
  /\ \A a \in Fleet!Channel!Pending :
       Offered(Criteria, {}, FleetType(a.id[2]), FleetAttributes)
  /\ \A a \in Exceptions!Channel!Pending :
       LET typed == a.id \in deployed.typed
       IN  Offered(Criteria, IF typed THEN {} ELSE {"exception_type"},
                   "exception_recorded", ExceptionAttributes(typed))
  /\ \A a \in Heartbeat!Channel!Pending :
       Offered(Criteria, {}, "sentinel_unreachable", SentinelAttributes)
  /\ \A r \in Runs : handling[r] # NoAlert =>
       Offered(Criteria, Optional \ handling[r].event.extras,
               handling[r].alert.event_type, handling[r].alert.attributes)

\* README: "Lifecycle events map one-to-one onto alert.normalized", redelivered
\* ones included when they carry a timestamp.
OneAlertPerEvent == Lifecycle!OneAlertPerEvent

\* The process is each of its parts, as they are modelled and checked alone, and
\* its store is the atomic one that SilenceStore implements.
ImplementsParts ==
  Fleet!Spec /\ Exceptions!Spec /\ Heartbeat!Spec /\ Lifecycle!Spec /\ Store!Spec
=============================================================================
