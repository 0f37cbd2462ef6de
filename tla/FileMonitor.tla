------------------------------ MODULE FileMonitor ------------------------------
(* kontiki-monitor as one process around the store that writes files.  Nothing *)
(* in a silence RPC awaits: tasks and handlers run before and after it.  But   *)
(* the process may be killed between two of its file operations, and memory is *)
(* ahead of the file and of the trackers until the call returns.               *)
EXTENDS SilenceStore

CONSTANTS Instances, NoAlert, Failures, Services, MinActive, Position, Keys, ServiceOf,
          Window, Handlers, Interval, Threshold, Times, NoTime, BadTime, NotADict,
          Events, Runs, Deployments                        \* see Monitor

VARIABLES
  link, deployed,
  confirmed,     \* names whose add_silence returned and no clear_silence ended since
  fleetOpen, phase, unsaved, fleetQueue, fleetStanding, fleetTrust,
  exceptionOpen, exceptionQueue, exceptionStanding, exceptionTrust,
  wait, posting, failures, sentinelOpen, recent, since, sent,
  sentinelQueue, sentinelStanding, sentinelTrust,
  handling, told                                           \* see Monitor

fleetVars == <<fleetOpen, phase, unsaved, fleetQueue, fleetStanding, fleetTrust>>
exceptionVars == <<exceptionOpen, exceptionQueue, exceptionStanding, exceptionTrust>>
sentinelVars == <<wait, posting, failures, sentinelOpen, recent, since, sent,
                  sentinelQueue, sentinelStanding, sentinelTrust>>
otherVars == <<link, deployed, sentinelVars, handling, told>>
processVars == <<vars, confirmed, fleetVars, exceptionVars, otherVars>>

\* What the process shows from outside its calls: the silences of before the call
\* under way, and the names that a restart would read.
Process == INSTANCE Monitor WITH
  silenced <- IF pc \in Saving THEN before ELSE silenced,
  file <- IF file = Corrupt THEN Corrupt ELSE Loaded(file),
  promised <- confirmed

\* The constants are those the process and its parts need.
ASSUME ProcessAssumption == Process!PartsAssumption /\ Process!DeploymentAssumption

\* A blank entry is left to SilenceStore: it silences nothing.
ProcessInit == /\ Init
               /\ file # Corrupt
               /\ Loaded(file) \subseteq Names
               /\ Process!Init

\* Tasks and handlers run between the silence RPCs.
TaskStep == /\ pc = "idle"
            /\ UNCHANGED vars
            /\ \/ Process!FleetStep \/ Process!ExceptionStep
               \/ Process!SentinelStep \/ Process!LifecycleStep

\* The connection changes and the clock goes on whatever the process is at.
OutsideStep == /\ UNCHANGED vars
               /\ Process!LinkChange \/ Process!Tick

\* Slip: the fleet tracker is told before the store has saved.
SaveStep_TellsFirst ==
  \/ /\ \E r \in Raw : Clear(r) \/ MakeTemp \/ WriteTemp
     /\ UNCHANGED <<confirmed, fleetVars, exceptionVars, otherVars>>
  \/ \E r \in Raw :
       /\ Add(r)
       /\ fleetOpen' = Process!Fleet!Drop(fleetOpen, {Normalize[r]})
       /\ Process!Fleet!Channel!Forget(Process!Fleet!Tracked({Normalize[r]}))
       /\ UNCHANGED <<confirmed, phase, unsaved, exceptionVars, otherVars>>

\* add_silence and clear_silence up to the first file operation, and their writes.
SaveStep == /\ \/ \E r \in Raw : Add(r) \/ Clear(r)
               \/ MakeTemp \/ WriteTemp
            /\ UNCHANGED <<confirmed, fleetVars, exceptionVars, otherVars>>

\* add_silence from the replacement on: the store has saved and returns, then the
\* fleet tracker and the exception tracker drop what they list of the service.  A
\* kill between these loses tables and silences alike, as one right after does.
AddReturns ==
  /\ pc = "replace" /\ call.op = "add"
  /\ Replace
  /\ confirmed' = confirmed \cup {call.name}
  /\ unsaved' = unsaved \ {call.name}
  /\ fleetOpen' = Process!Fleet!Drop(fleetOpen, {call.name})
  /\ Process!Fleet!Channel!Forget(Process!Fleet!Tracked({call.name}))
  /\ exceptionOpen' = Process!Exceptions!Drop(exceptionOpen, {call.name})
  /\ Process!Exceptions!Channel!Forget(Process!Exceptions!Tracked({call.name}))
  /\ UNCHANGED <<phase, otherVars>>

ClearReturns == /\ pc = "replace" /\ call.op = "clear"
                /\ Replace
                /\ confirmed' = confirmed \ {call.name}
                /\ unsaved' = unsaved \ {call.name}
                /\ UNCHANGED <<fleetOpen, phase, fleetQueue, fleetStanding, fleetTrust,
                               exceptionVars, otherVars>>

\* The store raises: the trackers are not told, the caller gets the exception.
CallRaises == /\ "save" \in Failures
              /\ Raise
              /\ IF call.op = "add"
                 THEN unsaved' = unsaved \cup {call.name} /\ UNCHANGED confirmed
                 ELSE unsaved' = unsaved \ {call.name} /\ confirmed' = confirmed \ {call.name}
              /\ UNCHANGED <<fleetOpen, phase, fleetQueue, fleetStanding, fleetTrust,
                             exceptionVars, otherVars>>

\* The process dies, maybe between two file operations, and is started again.
ProcessDies == Crash /\ Process!Crash
ProcessStarts == Start /\ Process!Start

ProcessNext == \/ TaskStep \/ OutsideStep \/ SaveStep
               \/ AddReturns \/ ClearReturns \/ CallRaises
               \/ ProcessDies \/ ProcessStarts

ProcessSpec == ProcessInit /\ [][ProcessNext]_processVars

-----------------------------------------------------------------------------
\* A confirmed silence needs no luck: at every file operation of every later call,
\* whether it raises or the process is killed there, the file that a restart would
\* read has the name, memory has it until a clear of that very name begins, and
\* neither tracker lists an alert of the service.
ConfirmedHolds ==
  \A n \in confirmed :
    /\ file # Corrupt
    /\ n \in Loaded(file)
    /\ up => n \in silenced \/ call = [op |-> "clear", name |-> n]
    /\ n \in Services => fleetOpen[n] = NoAlert
    /\ \A k \in Keys : ServiceOf[k] = n => exceptionOpen[k] = NoAlert

\* The process that writes files is the one whose silence RPCs are one step each:
\* no task, handler or restart ever meets a silence that only half took effect, and
\* what is checked and proved of Monitor holds of it.
ImplementsMonitor == Process!Spec
===============================================================================
