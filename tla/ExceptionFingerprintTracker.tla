--------------------- MODULE ExceptionFingerprintTracker ---------------------
(* ExceptionFingerprintTracker as its delegate drives it: events of the       *)
(* registry, the sweep task, silences, and the clock.                         *)
EXTENDS ExceptionFingerprint

VARIABLES entries,    \* _open: fingerprint -> entry, or NoAlert
          edges,      \* the alerts the last call returned
          silences,   \* SilenceStore._silenced
          unsaved,    \* services whose add_silence raised, nothing dropped since
          quiet       \* ticks since the last event of a fingerprint that its
                      \* service was not silenced for; kept apart from entries

trackerVars == <<entries, edges, silences, unsaved, quiet>>

TrackerTypeOK == /\ entries \in [Keys -> Entry \cup {NoAlert}]
                 /\ edges \in SUBSET Alert
                 /\ silences \in SUBSET Services
                 /\ unsaved \in SUBSET silences
                 /\ quiet \in [Keys -> 0..Window]

TrackerInit == /\ entries = [k \in Keys |-> NoAlert]
               /\ edges = {}
               /\ silences \in SUBSET Services
               /\ unsaved = {}
               /\ quiet = [k \in Keys |-> Window]

\* An event of k arrives for a service that is not silenced.
ObserveCall(k, instance) ==
  /\ ServiceOf[k] \notin silences
  /\ edges' = ObserveEdges(entries, k, instance, silences)
  /\ entries' = ObserveOpen(entries, k, instance, silences)
  /\ unsaved' = {}
  /\ quiet' = [quiet EXCEPT ![k] = 0]
  /\ UNCHANGED silences

\* An event that observe returns early on, or raises on: of a silenced service,
\* without a service or an instance, with a bad timestamp.  Only the drop of the
\* silenced entries has happened by then, and no sweep.
RefusedCall ==
  /\ edges' = {}
  /\ entries' = Drop(entries, silences)
  /\ unsaved' = {}
  /\ UNCHANGED <<silences, quiet>>

\* sweep_exception_fingerprints: the silenced names are not passed to it.
SweepCall == /\ edges' = SweepEdges(entries, {})
             /\ entries' = Swept(entries, {})
             /\ UNCHANGED <<silences, unsaved, quiet>>

\* Slip: the silence is stored and the tracker is not told.
AddSilenceCall_StoreOnly(s, saved) ==
  /\ silences' = silences \cup {s}
  /\ unsaved' = IF saved THEN unsaved \ {s} ELSE unsaved \cup {s}
  /\ edges' = {}
  /\ UNCHANGED <<entries, quiet>>

\* delegate.add_silence: the tracker is not told when writing the file raises.
AddSilenceCall(s, saved) ==
  /\ silences' = silences \cup {s}
  /\ entries' = IF saved THEN Drop(entries, {s}) ELSE entries
  /\ unsaved' = IF saved THEN unsaved \ {s} ELSE unsaved \cup {s}
  /\ edges' = {}
  /\ UNCHANGED quiet

ClearSilenceCall(s) == /\ silences' = silences \ {s}
                       /\ unsaved' = unsaved \ {s}
                       /\ edges' = {}
                       /\ UNCHANGED <<entries, quiet>>

ClockTick == /\ entries' = Older(entries)
             /\ quiet' = [k \in Keys |-> IF quiet[k] < Window THEN quiet[k] + 1 ELSE Window]
             /\ edges' = {}
             /\ UNCHANGED <<silences, unsaved>>

TrackerNext == \/ \E k \in Keys, instance \in Instances : ObserveCall(k, instance)
               \/ RefusedCall
               \/ SweepCall
               \/ \E s \in Services, saved \in BOOLEAN : AddSilenceCall(s, saved)
               \/ \E s \in Services : ClearSilenceCall(s)
               \/ ClockTick

TrackerSpec == TrackerInit /\ [][TrackerNext]_trackerVars

-----------------------------------------------------------------------------
Feed == INSTANCE AlertFeed WITH
          Ids <- Keys,
          Edge <- Alert,
          listed <- [k \in Keys |-> Listed(entries, k)],
          muted <- {k \in Keys : ServiceOf[k] \in silences}

\* The tracker keeps the promise of AlertFeed: a repeat is quiet, every change of
\* list_open_alerts is an edge or the drop of a silenced service, and no alert is
\* opened for a silenced service.
ImplementsFeed == Feed!Spec

\* README: an open fingerprint recovers after exception_recover_after_seconds,
\* and a repeat starts the window anew: no recover is returned for a fingerprint
\* with an event in the window, whatever was observed of the others meanwhile.
RecoverOnlyIfQuiet ==
  \A a \in edges : a.resolution = "recovered" => quiet[a.id] = Window

\* list-open-alerts-monitor.feature: silences drop matching opens without a recover
\* publish.  The sweep is not given the silenced names, yet it returns a recover of
\* a silenced service only where add_silence failed to save and so did not drop.
SilencedAreSpared ==
  \A a \in edges : ServiceOf[a.id] \notin silences \ unsaved

\* After the sweep task has run nothing that is overdue is still listed.
SweepLeavesNoneOverdue ==
  [][SweepCall => \A k \in Keys : quiet[k] = Window => entries'[k] = NoAlert]_trackerVars
=============================================================================
