------------------------------- MODULE HostCheck -------------------------------
(* host-check-service as it runs: the poll task, which also runs at once when *)
(* the service starts, the publishing of its edges, the consumer at the other *)
(* end, and restarts.                                                         *)
EXTENDS DiskState, Catalog

CONSTANTS Suspends,    \* see AlertChannel
          Failures     \* which failures may happen, of "link", "raise", "crash"

ASSUME HostAssumption ==
  /\ Suspends \in BOOLEAN
  /\ Failures \subseteq {"link", "raise", "crash"}

VARIABLES
  up,        \* the service runs
  due,       \* the scheduler is to run poll_disk_usage
  mounts,    \* what collect_disk_state measured last
  open,      \* the table of its DiskStateTracker
  queue, standing, trust, fresh, link       \* see AlertChannel

Poll == "poll_disk_usage"
Channel == INSTANCE AlertChannel WITH Publishers <- {Poll}

channelVars == <<queue, standing, trust, fresh, link>>
vars == <<up, due, mounts, open, channelVars>>

TypeOK == /\ up \in BOOLEAN
          /\ due \in BOOLEAN
          /\ mounts \in Mounts
          /\ open \in [Ids -> Alert \cup {NoAlert}]
          /\ \A d \in Ids : open[d] # NoAlert => open[d].resolution = "open"
          /\ queue \in [{Poll} -> SUBSET Alert]
          /\ standing \in [Ids -> Alert \cup {NoAlert}]
          /\ trust \in [Ids -> Channel!Trust]
          /\ fresh \in SUBSET {Poll}
          /\ link \in BOOLEAN

Listed == {d \in Ids : open[d] # NoAlert}

Init == /\ up = FALSE
        /\ due = FALSE
        /\ mounts \in Mounts
        /\ open = [d \in Ids |-> NoAlert]
        /\ Channel!Init(Ids)

\* immediate=True: the first run is due at once.
Start == /\ ~up
         /\ up' = TRUE
         /\ due' = TRUE
         /\ UNCHANGED <<mounts, open, channelVars>>

\* poll_interval_seconds have gone by.
IntervalEnds == /\ up
                /\ ~due
                /\ due' = TRUE
                /\ UNCHANGED <<up, mounts, open, channelVars>>

\* poll_disk_usage up to its first publish; one run at a time, and the first
\* one may come before the Messenger is connected.
PollDisks(measured) ==
  /\ up
  /\ due
  /\ due' = FALSE
  /\ mounts' = measured
  /\ open' = NextOpen(open, measured)
  /\ Channel!Hand(Poll, Edges(open, measured), {})
  /\ UNCHANGED up

Publish == /\ \E a \in queue[Poll] :
                \/ Channel!Deliver(Poll, a)
                \/ Channel!Skip(Poll, a)
                \/ /\ "raise" \in Failures
                   /\ \E reached \in BOOLEAN : Channel!Raise(Poll, a, reached)
           /\ UNCHANGED <<up, due, mounts, open>>

Crash == /\ "crash" \in Failures
         /\ up
         /\ up' = FALSE
         /\ due' = FALSE
         /\ open' = [d \in Ids |-> NoAlert]
         /\ Channel!Down(Listed)
         /\ UNCHANGED mounts

LinkChange == /\ "link" \in Failures
              /\ Channel!LinkChange
              /\ UNCHANGED <<up, due, mounts, open>>

Next == \/ Start \/ IntervalEnds \/ Publish \/ Crash \/ LinkChange
        \/ \E measured \in Mounts : PollDisks(measured)

Spec == Init /\ [][Next]_vars

\* The scheduler starts the task when it is due; an awaited publish ends.
Polled == \E measured \in Mounts : PollDisks(measured)
Fairness == WF_vars(IntervalEnds) /\ WF_vars(Polled) /\ WF_vars(Publish)
FairSpec == Spec /\ Fairness

-----------------------------------------------------------------------------
\* From the first poll after a start until the next one is due, along any history
\* of readings and restarts, the table is what the thresholds say of the last
\* measurement: a path has at most one alert, unavailable exactly when it could not
\* be measured, high at the severity whose threshold its usage has reached.
TableMatchesMounts ==
  up /\ ~due =>
    \A p \in Paths :
      /\ open[<<p, "unavailable">>] # NoAlert <=> mounts[p] \in Errors
      /\ open[<<p, "high">>] # NoAlert <=> mounts[p] \notin Errors /\ mounts[p] >= Warning
      /\ open[<<p, "high">>] # NoAlert =>
           (open[<<p, "high">>].severity = "critical" <=> mounts[p] >= Critical)

\* The consumer never shows a path as full and as unreadable at the same time, at
\* any point of a batch, save where an alert was lost.
OneConditionShown ==
  \A p \in Paths :
    /\ \A k \in Kinds : trust[<<p, k>>] = "agrees"
    => \E k \in Kinds : standing[<<p, k>>] = NoAlert

\* Every alert on its way has a type that the subscription catalog offers, with
\* the attributes that the criteria of that type ask for.
EveryAlertIsOffered ==
  \A a \in Channel!Pending :
    Offered(HostCriteria, {}, DiskType(a.id[2]), DiskAttributes(a.id[2]))

\* From some point on every measurement puts the condition at this severity.
Stays(d, severity) == <>[](Judged(mounts[d[1]], d[2]) = severity)

\* A condition that stays at one severity ends up standing at that severity at
\* the consumer, after any history of other severities, failures and restarts,
\* unless the alert that would tell it was lost: nothing sends it again.
SeverityReachesConsumer ==
  \A d \in Ids, severity \in Severities :
    <>[]up /\ Stays(d, severity)
      => <>[](\/ trust[d] = "lost"
              \/ standing[d] # NoAlert /\ standing[d].severity = severity)

Forwarder == INSTANCE AlertForwarder WITH
               Publishers <- {Poll},
               listed <- open

\* Tracker and poll task together keep the promise of AlertForwarder: the list
\* changes with a batch that is handed over whole and says so, or in a crash.
\* Once everything is delivered, the consumer then holds under every id what
\* list_open_alerts shows, its severity included, unless an alert was skipped,
\* raised on, or lost to a restart (Forwarder!Agreement).
ImplementsForwarder == Forwarder!Spec
=============================================================================
