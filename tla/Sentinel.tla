------------------------------- MODULE Sentinel -------------------------------
(* The sentinel heartbeat of kontiki-monitor: a task that asks the registry   *)
(* and, once it has an answer, POSTs to an external watchdog, at most every   *)
(* interval_seconds; the streak of failed POSTs; the alert about it on its    *)
(* way to a consumer; and restarts.                                           *)
EXTENDS Integers, Sequences

CONSTANTS Interval,   \* sentinel.interval_seconds, in ticks of the clock
          Threshold,  \* FAILED_POSTS_BEFORE_OPEN
          NoAlert,    \* no open alert
          Suspends,   \* see AlertChannel
          Failures    \* which failures may happen, of "link", "raise", "post", "crash"

ASSUME SentinelAssumption ==
  /\ Interval \in Nat \ {0}
  /\ Threshold \in Nat \ {0}
  /\ Suspends \in BOOLEAN
  /\ Failures \subseteq {"link", "raise", "post", "crash"}

Id == "sentinel:unreachable"
Alert == [id : {Id}, resolution : {"open", "recovered"}, rank : {1}]

BuildAlert(resolution) == [id |-> Id, resolution |-> resolution, rank |-> 1]

ASSUME NoAlertAssumption == NoAlert \notin Alert

VARIABLES
  up,        \* the service runs
  wait,      \* time until the clock reaches _sentinel_not_before
  phase,     \* "idle", "calling" get_services, or "posting"
  failures,  \* _consecutive_failures; only its place below Threshold matters,
             \* so it is counted up to Threshold
  open,      \* _open
  recent,    \* the outcomes of the last Threshold judged POSTs of this run
  since,     \* time since the last POST and the one before it, up to Interval
  sent,      \* POSTs of this run of the service, counted up to 2
  queue, standing, trust, fresh, link       \* see AlertChannel

Poll == "poll_sentinel_heartbeat"
Channel == INSTANCE AlertChannel WITH Publishers <- {Poll}

channelVars == <<queue, standing, trust, fresh, link>>
vars == <<up, wait, phase, failures, open, recent, since, sent, channelVars>>

Ticks == 0..Interval
Outcomes == UNION {[1..n -> BOOLEAN] : n \in 0..Threshold}

TypeOK == /\ up \in BOOLEAN
          /\ wait \in Ticks
          /\ phase \in {"idle", "calling", "posting"}
          /\ failures \in 0..Threshold
          /\ open \in {BuildAlert("open"), NoAlert}
          /\ recent \in Outcomes
          /\ since \in Ticks \X Ticks
          /\ sent \in 0..2
          /\ queue \in [{Poll} -> SUBSET Alert]
          /\ standing \in [{Id} -> Alert \cup {NoAlert}]
          /\ trust \in [{Id} -> Channel!Trust]
          /\ fresh \in SUBSET {Poll}
          /\ link \in BOOLEAN

Init == /\ up = FALSE
        /\ wait = 0
        /\ phase = "idle"
        /\ failures = 0
        /\ open = NoAlert
        /\ recent = <<>>
        /\ since = <<Interval, Interval>>
        /\ sent = 0
        /\ Channel!Init({Id})

\* setup: not_before is 0.0, the streak empty.
Start == /\ ~up
         /\ up' = TRUE
         /\ UNCHANGED <<wait, phase, failures, open, recent, since, sent, channelVars>>

\* Slip: not_before stays where it is.
PollStart_Unspaced == /\ up
                      /\ phase = "idle"
                      /\ Channel!Idle(Poll)
                      /\ wait = 0
                      /\ phase' = "calling"
                      /\ UNCHANGED <<up, wait, failures, open, recent, since, sent, channelVars>>

\* A run of the task that finds the time come: not_before moves before the
\* first await.  A run that is too early returns and changes nothing.
PollStart == /\ up
             /\ phase = "idle"
             /\ Channel!Idle(Poll)
             /\ wait = 0
             /\ wait' = Interval
             /\ phase' = "calling"
             /\ UNCHANGED <<up, failures, open, recent, since, sent, channelVars>>

\* Slip: a failed get_services ends the streak.
CallFails_Resets == /\ phase = "calling"
                    /\ phase' = "idle"
                    /\ failures' = 0
                    /\ UNCHANGED <<up, wait, open, recent, since, sent, channelVars>>

\* Slip: a failed get_services counts as a failed POST.
CallFails_Counted == /\ phase = "calling"
                     /\ phase' = "idle"
                     /\ failures' = IF failures < Threshold THEN failures + 1 ELSE Threshold
                     /\ UNCHANGED <<up, wait, open, recent, since, sent, channelVars>>

\* get_services fails: no POST, and the streak stays as it is.
CallFails == /\ phase = "calling"
             /\ phase' = "idle"
             /\ UNCHANGED <<up, wait, failures, open, recent, since, sent, channelVars>>

\* get_services returns and send_heartbeat sends the POST.
CallReturns == /\ phase = "calling"
               /\ phase' = "posting"
               /\ since' = <<0, since[1]>>
               /\ sent' = IF sent < 2 THEN sent + 1 ELSE 2
               /\ UNCHANGED <<up, wait, failures, open, recent, channelVars>>

\* The outcomes of the last Threshold POSTs after one more.
Extended(ok) == IF Len(recent) < Threshold THEN Append(recent, ok)
                ELSE Append(Tail(recent), ok)

\* Slip: whether the alert is open is asked of the streak, once it is set back.
PostSucceeds_Streak ==
  /\ phase = "posting"
  /\ phase' = "idle"
  /\ failures' = 0
  /\ recent' = Extended(TRUE)
  /\ Channel!Hand(Poll, {}, {})
  /\ UNCHANGED <<up, wait, open, since, sent>>

\* Slip: the recovered alert takes the place of the open one.
PostSucceeds_Kept ==
  /\ phase = "posting"
  /\ phase' = "idle"
  /\ failures' = 0
  /\ open' = IF open = NoAlert THEN NoAlert ELSE BuildAlert("recovered")
  /\ recent' = Extended(TRUE)
  /\ Channel!Hand(Poll, IF open = NoAlert THEN {} ELSE {BuildAlert("recovered")}, {})
  /\ UNCHANGED <<up, wait, since, sent>>

\* A 2xx answer: the streak is over, and an open alert recovers.
PostSucceeds ==
  /\ phase = "posting"
  /\ phase' = "idle"
  /\ failures' = 0
  /\ open' = NoAlert
  /\ recent' = Extended(TRUE)
  /\ Channel!Hand(Poll, IF open = NoAlert THEN {} ELSE {BuildAlert("recovered")}, {})
  /\ UNCHANGED <<up, wait, since, sent>>

\* The alert opens on the POST that reaches the threshold, once.
Opens(count) == count >= Threshold /\ open = NoAlert

\* Any other status, a connection error or the timeout of 10 seconds.
PostFails ==
  LET count == failures + 1
      batch == IF Opens(count) THEN {BuildAlert("open")} ELSE {}
  IN  /\ phase = "posting"
      /\ phase' = "idle"
      /\ failures' = IF count < Threshold THEN count ELSE Threshold
      /\ open' = IF Opens(count) THEN BuildAlert("open") ELSE open
      /\ recent' = Extended(FALSE)
      /\ Channel!Hand(Poll, batch, {})
      /\ UNCHANGED <<up, wait, since, sent>>

\* An exception that send_heartbeat does not catch ends the run unjudged.
PostRaises == /\ "post" \in Failures
              /\ phase = "posting"
              /\ phase' = "idle"
              /\ UNCHANGED <<up, wait, failures, open, recent, since, sent, channelVars>>

Publish == /\ \E a \in queue[Poll] :
                \/ Channel!Deliver(Poll, a)
                \/ Channel!Skip(Poll, a)
                \/ /\ "raise" \in Failures
                   /\ \E reached \in BOOLEAN : Channel!Raise(Poll, a, reached)
           /\ UNCHANGED <<up, wait, phase, failures, open, recent, since, sent>>

Later(t) == IF t < Interval THEN t + 1 ELSE Interval

\* The monotonic clock, which goes on during the awaits.
Tick == /\ wait' = IF wait > 0 THEN wait - 1 ELSE 0
        /\ since' = <<Later(since[1]), Later(since[2])>>
        /\ UNCHANGED <<up, phase, failures, open, recent, sent, channelVars>>

\* The process dies.  The not_before of the next one is 0.0: it may POST at once,
\* however short a time ago this one did.
Crash == /\ "crash" \in Failures
         /\ up
         /\ up' = FALSE
         /\ wait' = 0
         /\ phase' = "idle"
         /\ failures' = 0
         /\ open' = NoAlert
         /\ recent' = <<>>
         /\ sent' = 0
         /\ Channel!Down(IF open = NoAlert THEN {} ELSE {Id})
         /\ UNCHANGED since

LinkChange == /\ "link" \in Failures
              /\ Channel!LinkChange
              /\ UNCHANGED <<up, wait, phase, failures, open, recent, since, sent>>

Next == \/ Start \/ PollStart \/ CallFails \/ CallReturns
        \/ PostSucceeds \/ PostFails \/ PostRaises
        \/ Publish \/ Tick \/ Crash \/ LinkChange

Spec == Init /\ [][Next]_vars

\* The clock goes on, the scheduler starts a due run, the RPC and the POST end at
\* their timeouts at the latest, an awaited publish ends.
Fairness == /\ WF_vars(Tick)
            /\ WF_vars(PollStart)
            /\ WF_vars(CallFails \/ CallReturns)
            /\ WF_vars(PostSucceeds \/ PostFails \/ PostRaises)
            /\ WF_vars(Publish)
FairSpec == Spec /\ Fairness

-----------------------------------------------------------------------------
\* The alert is open exactly while the last Threshold judged POSTs of this run of
\* the service failed: registry failures and runs that ended in an exception are
\* passed over, and one success, whenever it comes, starts the count anew.
OpenMeansStreak == open # NoAlert <=> recent = [n \in 1..Threshold |-> FALSE]

\* README: interval_seconds is the "minimum seconds between POSTs".
PostsAreSpaced == [][CallReturns => since[1] >= Interval]_vars

\* What the code guarantees of the spacing, within one run of the service: a POST
\* may follow the last one too soon, when get_services was slow before that one,
\* but never the one before it: the first and the third of three POSTs are an
\* interval apart.  After a restart nothing is left of the old not_before, so
\* POSTs of different runs may come as close as the restart allows.
NoThreePostsInInterval == [][CallReturns => since[2] >= Interval \/ sent < 2]_vars

\* Judged POSTs keep coming, and from some point on they all fail.  Runs in
\* between may end without a POST or unjudged.
Unreachable == /\ <>[]up
               /\ []<><<PostFails>>_vars
               /\ <>[][~PostSucceeds]_vars

\* A sentinel that stays unreachable ends up open at the consumer, whatever came
\* before, unless that alert was lost: a later failure does not send it again.
UnreachableReachesConsumer ==
  Unreachable => <>[](standing[Id] # NoAlert \/ trust[Id] = "lost")

\* Judged POSTs keep coming, and from some point on they all succeed.
Reachable == /\ <>[]up
             /\ []<><<PostSucceeds>>_vars
             /\ <>[][~PostFails]_vars

\* A sentinel that is reached again is not shown as unreachable for good, however
\* its POSTs failed before, unless an alert about it was lost: a restart forgets
\* that the alert is open, and then no success recovers it.
ReachableReachesConsumer ==
  Reachable => <>[](standing[Id] = NoAlert \/ trust[Id] = "lost")

Forwarder == INSTANCE AlertForwarder WITH
               Ids <- {Id},
               Publishers <- {Poll},
               listed <- [id \in {Id} |-> open]

\* Streak and heartbeat task together keep the promise of AlertForwarder: the
\* list changes with an edge that is handed over, or in a crash.  Once everything is
\* delivered, the consumer then holds what list_open_alerts shows, unless an alert
\* was skipped, raised on, or lost to a restart (Forwarder!Agreement).
ImplementsForwarder == Forwarder!Spec
=============================================================================
