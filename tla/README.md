# kontiki-monitor: formal models

TLA+ models of the two services in `src/`, the TLC runs that check them on small instances, and
theorems that TLAPS proves for all instances. `PROJECT.json` lists the runs, the source lines each
definition models, the disagreements between documents and code that the runs show, and the hazards
the properties are aimed at.

## The system

`kontiki-monitor` and `host-check-service` watch other services and hosts. Both are single asyncio
processes on the Kontiki framework: scheduled tasks, event handlers, RPCs and HTTP routes that
interleave only where one of them awaits. Each has *trackers*: a table of the conditions that are
open, and calls that judge an observation, update the table and return *edges*, alerts with
`resolution` open or recovered. The service publishes the edges as `alert.normalized`; whoever
consumes them rebuilds the table from them. `list_open_alerts` shows the table itself.

| Part | State | Operations | Depends on |
|---|---|---|---|
| Silence store (`silences.py`) | set of names, JSON file | add, clear, list, load, save | file system, an operator who may edit the file |
| Fleet tracker (`fleet_state.py`) | service → open condition and its alert | evaluate, drop, list | `expected_services` |
| Exception tracker (`exception_fingerprint.py`) | fingerprint → alert, last instance, last seen | observe, sweep, drop, list | wall clock |
| Sentinel (`sentinel.py`) | failed POSTs in a row, open alert | POST, observe, list | external watchdog |
| Disk tracker (`disk_state.py`) | path → high alert, path → unavailable alert | measure, evaluate, list | file systems of the host |
| Monitor service (`service.py`, `delegate.py`) | the three trackers, the store, `_sentinel_not_before` | fleet poll, sentinel poll, sweep, event handlers, silence RPCs and routes, list | registry, Messenger |
| Host check service (`kontiki_host_check/`) | the disk tracker | disk poll, list | Messenger |
| Registry event mapping (`alert_mapping.py`) | none; one alert per handler run | lifecycle event → alert | silences |
| Subscription catalogs (`catalog.py`, twice) | constants | event types and the attribute keys one may filter on | the builders of alerts |
| Entry points, configuration | constants | | |

How they interact. The fleet poll awaits the registry's `get_services`, judges the answer with the
silences of that moment, then publishes the edges one by one, each publish an await. The event
handler of recorded exceptions observes, which also sweeps, and publishes; the sweep task sweeps and
publishes; any number of handler runs and the sweep task can be publishing at once. `add_silence`
changes the set, saves the file, then drops the service's entries from both trackers without an edge;
`clear_silence` changes and saves. None of the calls into a tracker or into the store awaits. The
handlers of lifecycle events keep nothing: each looks the service up in the silences, maps the event
to one alert and publishes it. `setup` leaves out the fleet tracker when there are no
`expected_services`, and the sentinel when it has no configuration block; `list_open_alerts` joins
what the trackers that exist list.

What is hard, and what makes each part correct:

- *Tables and consumers drift apart.* A tracker is quiet about what it has already told. An alert
  that is skipped while the Messenger is disconnected, a batch that a raising publish cuts short, a
  silent drop and a restart all separate the table from what the consumer knows; nothing is sent
  again. The models state exactly when the two agree, and that the next edge repairs the difference.
- *Batches are published outside the call that computed them.* Silences, other handlers and other
  batches come in between.
- *One service or path has two conditions* that exclude each other and are told under different ids:
  recovers must precede opens, and a repeated observation must produce nothing.
- *Saving can fail anywhere*: between the change in memory and the file, within the write, before or
  after the replacement; the process may die at the same places.
- *One silence, four readers.* Store, fleet tracker, exception tracker and lifecycle handlers each
  look at silences at another moment, and payloads may spell a service name with blanks around it. A
  confirmed silence must hold for all of them, through failed saves and restarts.
- *Redelivery.* The broker may deliver a lifecycle event again; its alert must keep its `alert_id`.
- *Lists kept twice by hand*: the catalogs repeat event types and attribute keys of five builders.
- *Windows and streaks*: recovery after a quiet time, an alert after three failed POSTs in a row,
  spacing between POSTs measured from before an await.

## Modules

`AlertFeed` is the abstract specification of a tracker by itself: how `list_open_alerts` may change
and which edges a call returns. Per id, a call either opens (the edge is the listed alert), recovers,
is quiet, or drops a muted id without an edge. The two trackers that can be silenced,
`FleetStateTracker` and `ExceptionFingerprintTracker`, are modelled alone as well and implement it
(property `ImplementsFeed`). The disk tracker and the sentinel have one caller each and are checked
where they run, in `HostCheck` and `Sentinel`.

`AlertForwarder` is the abstract specification of a tracker together with its publishing, whatever it
tracks: `Judge` (a call changes the list and hands over a batch that says how), `Publish`, `Drop`
(entries leave the list and nobody is told), `Down` (the process dies), `LinkChange`. `FleetMonitor`,
`ExceptionMonitor`, `Sentinel` and `HostCheck` each implement it (`ImplementsForwarder`). It is where
the central promise of the repository is proved once: consumer and list agree on every id that is not
known to be lost (`Agreement`).

`Silences` is the abstract store, one atomic step per call; `SilenceStore` is the same store with
`_save` taken apart into `MakeTemp`, `WriteTemp` and `Replace`, where `Raise` and `Crash` can come
before each, and implements it (`ImplementsSilences`): while a save is under way the abstract memory
is the one before the call. History variables (`outcome`, `promised`, `revoked`) record what callers
were told.

`FleetState`, `ExceptionFingerprint` and `DiskState` hold the judgment of the three tracker files as
operators: from a table and an observation, the edges and the next table. A list of alerts is a set
whose elements carry their place in the list (`rank`). Texts, times and severities that follow from
id and resolution are left out; what two alerts of one id can differ in (the active count, the
instance, the error text, the severity of a disk alert) is kept, because "keeps the alert of the
opening" is one of the promises.

`AlertChannel` is the way of an alert from a tracker call to the consumer: `queue` holds the batches
still being published, `standing` what the consumer holds per id, `link` the connection of the
Messenger. `Deliver`, `Skip` (disconnected) and `Raise` (any other exception) are the outcomes of one
publish. `trust` is a history variable that says per id whether the consumer can be right: `lost`
after a skip, a raise, a silent drop or a restart; `healing` when an alert that repairs it is on its
way; `raced` when two publishers had an alert of the id on their way at once; else `agrees`. An id
leaves `lost` only through an edge that is handed over afterwards (`OnlyAnAlertHeals`). `Suspends`
chooses between two readings of the framework: publish may suspend before its alert is handed over, or the first alert of
a batch leaves in the turn that computed it (`fresh`; `Turn` and `OtherTurn` keep everything else
waiting until then). The passing runs use the weaker one; the violation runs use the stronger, so
that they need no assumption about the framework. Each publisher sends its batch in order, and
batches of different publishers interleave.

`FleetMonitor` and `ExceptionMonitor` are the two halves of kontiki-monitor around their operators,
`Sentinel` its heartbeat, `LifecycleEvents` its handlers of registry events, `HostCheck` the other
service. Their actions are those of the code between two awaits:

| Module | Actions |
|---|---|
| `FleetMonitor` | `PollStart` (up to awaiting `get_services`), `PollFails`, `PollReturns` (judge, commit, start publishing), `Publish`, `AddSilence`, `ClearSilence`, `Start`, `Crash`, `LinkChange` |
| `ExceptionMonitor` | `Observe`, `ObserveRefused` (events that return or raise early), `Sweep`, `Publish` per publisher, silences, `Tick`, `Start`, `Crash`, `LinkChange` |
| `Sentinel` | `PollStart`, `CallFails`, `CallReturns` (the POST leaves), `PostSucceeds`, `PostFails`, `PostRaises`, `Publish`, `Tick`, `Start`, `Crash`, `LinkChange` |
| `LifecycleEvents` | `Receive` (silence check and mapping, up to the publish; refused events change nothing), `Publish`, `Silence`, `Start`, `Crash`, `LinkChange` |
| `HostCheck` | `IntervalEnds`, `PollDisks`, `Publish`, `Start`, `Crash`, `LinkChange` |
| `FileMonitor` | `SaveStep` (a call begins, makes or writes the temporary file), `AddReturns`, `ClearReturns`, `CallRaises`, `ProcessDies`, `ProcessStarts`; `TaskStep` and `OutsideStep` are those of `Monitor` |

`Monitor` is kontiki-monitor as one process: it instantiates `FleetMonitor`, `ExceptionMonitor`,
`Sentinel`, `LifecycleEvents` and `Silences` over one set of silences, one file, one connection and
one life. A task or handler step is a step of one part that leaves the others alone (`FleetStep`,
`ExceptionStep`, `SentinelStep`, `LifecycleStep`); `AddSilence`, `ClearSilence`, `Start`, `Crash`,
`LinkChange` and `Tick` are conjunctions of the parts' actions, so that leaving a part out of a
silence is a different formula. `ImplementsParts` says that the process is each of its parts as they
are modelled alone, and that its store is the atomic one of `Silences`. `Deployments` is the set of
ways the process may be set up (with the fleet part, with the sentinel) and of what it may meet there
(events of the registry, loss of the connection, fingerprints with and without an exception type).

`FileMonitor` puts `SilenceStore` below the process. In `Monitor` a silence RPC is one step; in the
code it is a sequence of file operations, with memory ahead of the file and of both trackers until
the call returns. Nothing in it awaits, so no task runs in between, but the process can be killed
there and each operation can raise. `Process` is `Monitor` seen through a refinement mapping: while a
save is under way its silences are those of before the call, its file is what `_load` would read.
`ImplementsMonitor` says that this is all there is to see. `AddReturns` is the replacement together
with the drops that follow it: a kill between them loses the tables with everything else.

`Catalog` holds both subscription catalogs, and the event type and attribute keys that each builder
gives to its alerts. `EveryAlertIsOffered` compares them over the alerts that are really on their
way, so a type that is built and not offered, or a criterion without its attribute, is found. An
attribute that a builder adds only when it has a value (`host`, `version`, `reason`, `exception_type`)
may be missing only where the event had none: `extras` of a lifecycle event and `typed` of a deployment,
the fingerprints with an exception type, say where it had one.

Definitions named `X_Something` above a definition `X` are slips: X as a plausible mistake would
have it. No module uses them; replacing X by one must break the property that `PROJECT.json` pairs it
with, which shows that the property looks at the code and that the run reaches the case.

`MC...` modules only give values to constants.

## Runs

Expected to pass:

| Run | Instance | What it shows |
|---|---|---|
| `fleet_tracker` | 2 services (one needs 1 instance, one 2), 2 instances | feed promise, quiet on repeats |
| `silence_store` | 2 names, a padded variant, the blank name | saved silences survive, calls are atomic, one good save repairs |
| `fleet` | 1 service that needs both of 2 instances, a second name that is only silenced, all failures | promise of `AlertForwarder`, agreement, one condition shown, silenced services untracked; a lasting condition, and a lasting recovery, reach the consumer |
| `exc_tracker` | 2 fingerprints of 2 services, 2 instances, window 2 | feed promise, no early recover, none for a silenced service, nothing overdue |
| `exc` | 2 fingerprints of 1 service, window 1, 2 handler slots and the sweep, all failures | promise of `AlertForwarder` with concurrent publishers; a quiet fingerprint is recovered at the consumer |
| `sentinel` | interval 2, threshold 3, all failures | promise of `AlertForwarder`, alert exactly on a streak, spacing of the POSTs of one run of the service; lasting unreachability, and lasting reachability, reach the consumer |
| `host_check` | 1 path, usages 0, 89, 90, 94, 95, 100, 1 error, all failures | the table is what the thresholds say, promise of `AlertForwarder`, one condition shown, every alert offered by the catalog; a lasting severity reaches the consumer |
| `monitor` | 1 service, 1 fingerprint, 2 runs of lifecycle handlers, window 0, interval 1, threshold 1; the exception part with the fleet part, with the sentinel, and with lifecycle events | the joint list is what the consumer holds; confirmed silences hold everywhere; one alert per lifecycle event; every alert offered; the process is its parts |
| `monitor_files` | 1 service with a padded spelling, 1 fingerprint, 1 handler run, window 0; the exception part with the fleet part, and with lifecycle events and a link that breaks | around the store that writes files the process is that of `monitor`; a confirmed silence survives every point of every later call |

The liveness properties say that a state of affairs that lasts ends up at the consumer, whatever
preceded it, unless its alert is known to be lost.

Expected violations, each a sentence of the repository that the code does not keep:

| Run | What the counterexample shows |
|---|---|
| `fleet_raise` | a raising publish drops the rest of a batch that the table counts as told |
| `exc_order` | the sweep's recover of a fingerprint is published after the open with which a handler opened it again, and the consumer drops an alert that is still listed |
| `sentinel_spacing` | a POST that left late is followed by one after less than `interval_seconds` |

Smaller differences met on the way, without a run of their own: `alert-silences-persist.feature` asks
that the file match `list_silences`, which fails after a save that raised until the next good one
(`SavedMeansEqual` says when it holds); a silence added while a batch is being published does not stop
the alerts of that service still in the batch (`alert-silences.feature`: "While silenced, fleet skips
that service"); the comment at `disk_state.py:105` says "last error text" where the table keeps the
alert of the opening; after a restart `_sentinel_not_before` is 0.0 again, so that POSTs of two runs of
the service may come as close as the restart allows, where the README speaks of "minimum seconds between
POSTs" without a condition.

Bounds. The trackers treat services, fingerprints and paths independently of each other, so two show
every interaction there is: the order within a batch, a batch cut between two alerts, and one entry
changing while another waits. Per service the fleet tracker tells three cases apart (missing, too
few, enough); one instance reaches all three when an inactive status counts as registered, two add
the difference in `active_count`. The exception window only matters as "within" and "over": ages stop
at `Window`. The sentinel's counter only matters below its threshold, where it stops. Usages lie on
and beside both thresholds. `fleet` and `host_check` look at one service or path because the checks
of their liveness properties grow too long with two; a batch still has two alerts there, the recover
of one condition and the open of the other, and what they check of safety is proved for any number.

In `monitor` each deployment combines two of the feeds and the silences, which is where feeds meet:
any two share nothing but the silences, the connection and the life of the process. `raise` is left
out there, since a publish that raises concerns one part only and is in the run of each part; for a
lifecycle handler it loses the one alert of its run, as the skip does.
`window`, `interval` and `threshold` are as small as they can be because the runs of the parts vary
them. Two handler runs show a redelivery that overtakes the first delivery. The events differ in what
the properties look at: a name spelled with blanks, each of the three types, an event without a
timestamp, and four that are refused.

`monitor_files` has one name and the two deployments in which a silence is read by other parts: what
it asks is what a kill or an exception at each file operation leaves behind, and one call at a time is
under way. `ProcessRefinement` covers all names and deployments.

No counter grows without bound, so no run bounds one. Runs are never limited in depth, and no state
is a deadlock: a service can always poll, crash or start.

## Fairness

`FairSpec` adds weak fairness to the steps the event loop is bound to take: a task that is due starts,
an awaited RPC or POST ends (with an answer, an error, or its timeout), an awaited publish ends, the
clock goes on. Nothing is assumed of silences, crashes, the link or the outcome of a call: that the
registry answers again and again, that the service stays up from some point on and that the condition
lasts are hypotheses of the properties, since neither holds by itself. For the sentinel they say that
judged POSTs keep coming and that from some point on all of them fail, or all succeed; runs that end in
an exception may come in between for ever.

Assumed of the framework, which is not part of the repository: one run of a scheduled task at a time;
handler runs may overlap; the consumer applies alerts in the order in which publish completed;
`get_services` and publish end.

## Proofs

The proof modules end in `Proofs`. They hold for any finite sets of services, instances and paths,
any fingerprints, names, windows, thresholds, intervals and handler runs, and every choice of
failures. Every safety and action property of the passing runs is a theorem; the liveness properties
are not. `PROJECT.json` lists the theorems to start with; the others follow from these or lead to them.

| Module | Theorems | Inductive argument |
|---|---|---|
| `SilenceStoreProofs` | of the store: `TypeCorrect`, `DurableHolds`, `SavedMeansEqualHolds`, `Refinement`; of the process around it: `ProcessRefinement`, `ConfirmedHoldsAlways`, `PromisedSilenceAlways`, `ListIsConsumersViewAlways` | what each step of a save has done so far; the file can be read |
| `AlertForwarderProofs` | `AgreementHolds`, `HealingIsUnderWayHolds`, `OnlyAnAlertHeals`, `AnAlertAloneHeals`, `NoUntoldChange` | one alert per id in a batch, no second batch with an id that is trusted |
| `FleetStateTrackerProofs` | `TypeCorrect`, `RepeatIsQuietHolds`, `FeedRefinement`, and the lemmas about one evaluation, `EdgesTellAll` above all | a proper table |
| `FleetMonitorProofs` | `TypeCorrect`, `AgreementHolds`, `SilencedNotTrackedHolds`, `OneConditionShownHolds`, `Refinement`, `AttemptedUnlessRaised`, `UndisturbedAgrees`, `OneAnswerIsEnough`; the lemmas about one evaluation are taken from the tracker's proofs | a proper table, one alert per id, order of the batch |
| `ExceptionProofs` | of the exception half: `TypeCorrect`, `Refinement`, `AgreementHolds`, `SettledUnlessRaced`, `UndisturbedAgrees`, `OneEventIsEnough`, `SilencedHandNothing`; of it with the quiet times as history: `AgesAreTrue`, `RecoversAreQuiet`, `OneSweepIsEnough`; of its tracker alone: `TrackerTypesHold`, `RecoverOnlyIfQuietHolds`, `SilencedAreSparedHolds`, `SweepLeavesNoneOverdueHolds`, `FeedRefinement` | a proper table; ages are true quiet times; saved silences left nothing behind |
| `SentinelProofs` | `TypeCorrect`, `OpenMeansStreakHolds`, `SpacingHolds`, `SpacedUpToTheAnswer`, `SpacedWhenPrompt`, `Refinement`, `AgreementHolds`, `UndisturbedAgrees`, `OnePostIsEnough` | the counter is the length of the failed suffix of the judged POSTs |
| `HostCheckProofs` | `TypeCorrect`, `TableMatchesMountsHolds`, `RecoverBeforeOpenHolds`, `Refinement`, `AgreementHolds`, `OneConditionShownHolds`, `EveryAlertIsOfferedHolds`, `UndisturbedAgrees`, `OneMeasurementIsEnough` | a proper table that fits the last measurement, conditions of a path exclude each other, order of the batch |
| `MonitorProofs` | `PartsHold`, `PromisedHoldsAlways`, `PromisedSilenceHolds`, `OneAlertPerEventHolds`, `ListIsConsumersViewHolds`, `ListIsTheStream`, `EveryAlertIsOfferedHolds`, `OneStepIsEnough`, `TypeCorrect` | what is promised is kept everywhere |

`ExceptionProofs` extends `ExceptionMonitor` and `ExceptionFingerprintTracker` at once: the theorems
about the tracker alone name its own specification, `TrackerSpec`, over its own variables (`entries`,
`edges`, `silences`, `unsaved`, `quiet`).

How the arguments run:

- *The store.* The invariant adds to the properties what each step of a save has done so far (`temp`
  exists exactly between `MakeTemp` and the end, it holds the set from `WriteTemp` on, `before`
  differs from the set by the name of the call) and that a promised name is in the set while a save is
  under way: without it `Replace` could take a promised name out of the file.
- *The judgment of a tracker.* One lemma per tracker says that a call changes what is listed under an
  id exactly as its edge for that id says (`EdgesTellAll`, `ObserveTellsAll`, `SweepTellsAll`). It
  rests on there being at most one edge per id and on the form of the next table. The refinements of
  `AlertFeed` and of `AlertForwarder` follow from it. Needed beyond types is that the table is
  `Proper`: what stands under an id is an open alert of that id (or service).
- *Agreement.* In `AlertForwarderProofs` the invariant adds that a batch holds at most one alert per
  id and that an id which two publishers have on their way is not trusted (`Unraced`): only then is
  "the alert on its way" well defined, and delivering one alert leaves all other ids alone.
  `ExceptionProofs`, `SentinelProofs` and `HostCheckProofs` prove the refinement and cite the theorem;
  `FleetMonitorProofs` proves both, agreement directly.
- *Repair.* What `trust` means is itself proved. An id that counts as `healing` has its repair on its
  way (`HealingIsUnderWayHolds`); an id set apart comes back only by an alert that is handed over
  alone (`OnlyAnAlertHeals`), and every such alert brings it back (`AnAlertAloneHeals`); the list
  never changes without an alert that says so or a mark that the id is lost (`NoUntoldChange`). So
  `Agreement` exempts no difference that the code repairs, and hides none behind a repair that never
  comes. The four hold wherever `AlertForwarder` is implemented.
- *One condition shown.* That no two conditions of one service or path stand at the consumer at once
  is not inductive by itself: when an open is delivered, the recover of the other condition must have
  left before. The invariant adds the order of the batch (`Ranked`) and uses agreement: the table has
  one condition, so what the consumer will hold of the other one is nothing.
- *The quiet window.* The age that the tracker keeps equals the time since the last event of the
  fingerprint, which the model counts apart from the table (`Aged`); `Spared` says that a silence
  that was saved has left no entry, which is what the sweep relies on. In the running service the
  same is shown with the quiet times kept beside it (`QuietSpec`; `QuietIsHistory` says that it is the
  service's own specification with one variable more). A restart empties the table and leaves the
  quiet times alone: an age is true because its entry was made by an event since. `RecoversAreQuiet`
  follows where a handler or the sweep hands over a recover: what is due has the age of the window,
  and the event that a handler has just recorded has not. `SilencedHandNothing` needs that saving
  works: after an `add_silence` that raised, the entries stay until the next event that reaches the
  tracker drops them, and the sweep may recover them before.
- *The sentinel.* `OpenMeansStreak` needs that `failures` is the length of the failed suffix of
  `recent`, the last `Threshold` judged POSTs. Spacing needs the relation of the time since the last
  two POSTs to what is left to wait. The time since a POST (`since`) goes on through a crash, since the
  watchdog sees the POSTs of all runs of the service; what the code keeps apart are those of one run
  only, which `sent` counts, so the spacing theorems speak of these.
- *The process.* `PartsHold` maps every step of `Monitor` to a step or a stutter of every part, so a
  theorem of a part is one of the process (its `TypeCorrect` is that of the parts, too); `ListIsConsumersView` is put together from the agreement of
  the three parts this way. A confirmed silence holds because the file, memory and both tables change
  together (`Kept`, which is `PromisedHolds` with a poll only while the service is up); what a task
  hands over next comes from tables without that service.

- *The process with files.* Every step of `FileMonitor` is a step of `Monitor` or a stutter under the
  mapping: a step of a save changes nothing that can be seen, the replacement is the whole call, an
  exception is a call that raised, a kill at any point is a crash. What makes the last two true is
  the store's own invariant: until `Replace` the file is the old one (`Readable` adds that it can
  always be read), and `before` is the memory of before the call. `ConfirmedHoldsAlways` then takes
  `PromisedHolds` of `Monitor` over through the mapping (`Facts`, an instance of `MonitorProofs`) and
  adds what the mapping hides, the names in the real memory while a call is under way;
  `PromisedSilenceAlways` and `ListIsConsumersViewAlways` take the other two promises over as they are.
- *Where the findings end.* Each violated sentence has a theorem that says under what condition it is
  true, so that what the counterexample does is known to be the only way to break it: `AttemptedUnlessRaised` (an edge is
  handed to publish unless a publish of its batch raised or the process died), `SettledUnlessRaced`
  (list and consumer agree once settled unless two batches with one fingerprint overlapped),
  `SpacedUpToTheAnswer` (POSTs of one run of the service are apart by the interval less the time that
  the registry took to answer), and `SpacedWhenPrompt`: where it answers at once and the service is not
  restarted, the sentence of the README holds as it stands.
- *Agreement without exemption.* `Agreement` exempts ids whose `trust` is not `agrees`. The theorems
  `UndisturbedAgrees` show that nothing else is exempted: without loss of the link, exception, death,
  silence and overlap no id ever leaves `agrees`, and consumer and list are equal. `ListIsTheStream`
  is the same for the joint list of the whole process, in terms of the one stream the consumer reads.
- *One step is enough.* What the liveness properties need besides fairness is proved of the step that
  fairness promises. The step that evaluates an answer of the registry lists the conditions of that
  answer and hands over what makes the consumer agree, whatever came before (`OneAnswerIsEnough`), and
  so do one measurement of the disks (`OneMeasurementIsEnough`), one judged POST (`OnePostIsEnough`),
  one event and one sweep (`OneEventIsEnough`, `OneSweepIsEnough`). Left out is an id that was lost
  before and about which the step tells nothing, be it that nothing changes or that its service is
  silenced. The first three need that one publisher never races (`NotRaced`); for fingerprints, which
  have several, the theorems ask that no older alert of the fingerprint is on its way, which is what
  `exc_order` shows to be necessary. `OneStepIsEnough` takes the theorems about answers, events and
  POSTs over to the whole process.
- *The disk table.* That it fits the last measurement holds between the first poll of a life and the
  next due time, since the poll both measures and judges (`Matches`); no invariant about earlier
  measurements is needed, because the next table depends on the old one only in which alert it keeps.

The assumptions are those named in the modules (`FleetAssumption`, `FingerprintAssumption`,
`DiskAssumption` and the like, `NoAlertAssumption`, `MonitorAssumption`, `SentinelAssumption`,
`DeploymentAssumption`, `PartsAssumption`, `ProcessAssumption`, `HostAssumption`); TLC evaluates them in the runs.

Only model-checked: liveness, for which no proof method is available here
(`ConditionReachesConsumer`, `RecoveryReachesConsumer`, `QuietReachesConsumer`,
`UnreachableReachesConsumer`, `ReachableReachesConsumer`, `SeverityReachesConsumer`). The three violated properties are shown by
their counterexamples.

## Not modelled

- Entry points, configuration parsing, packaging, the demo application: no behaviour that can go
  wrong in time. What setup refuses appears as assumptions on constants, what it leaves out as
  `Deployments`.
- Texts of alerts (title, body, expiry, the hash in an `alert_id`): they follow from the fields kept.
- A power loss and a failing `unlink` of the temporary file: what remains depends on the file system.
- A clock that is set back or forward: what the window should mean then is stated nowhere.
- The blank name, which `_load` keeps when an editor wrote it and which no call can clear, is in the
  store's model but not in the monitors': it silences nothing.

## Plan

Done: the silence store, the three trackers and the sentinel, their services around them, lifecycle
events, catalogs, the process as a whole and around the store that writes files, the two abstract
promises that trackers and services share, the proofs of all safety properties, the conditions under
which the sentences behind the findings are true, and for every liveness property the theorem that the
step which fairness promises is enough.

Left: the order of handler runs at the broker, once the framework says what it promises; `exc_order`
shows what goes wrong without.
