---------------------------- MODULE SentinelProofs ----------------------------
(* The sentinel heartbeat for every interval and threshold: the streak, the   *)
(* spacing of POSTs, and the promise of AlertForwarder.                       *)
EXTENDS Sentinel, TLAPS

Proper == /\ up \in BOOLEAN
          /\ wait \in Ticks
          /\ phase \in {"idle", "calling", "posting"}
          /\ failures \in 0..Threshold
          /\ open \in {BuildAlert("open"), NoAlert}
          /\ recent \in Outcomes
          /\ since \in Ticks \X Ticks
          /\ sent \in 0..2
          /\ queue \in [{Poll} -> SUBSET Alert]
          /\ fresh \in SUBSET {Poll}
          /\ link \in BOOLEAN

\* The last POSTs failed, as many as are counted, and the one before did not.
Counted(outcomes, count) ==
  /\ count <= Len(outcomes)
  /\ \A n \in 1..Len(outcomes) :
       /\ n > Len(outcomes) - count => outcomes[n] = FALSE
       /\ n = Len(outcomes) - count /\ count < Threshold => outcomes[n] = TRUE

Streak == /\ Counted(recent, failures)
          /\ open # NoAlert <=> failures = Threshold

\* Of the POSTs of this run, the one before the last is an interval before the
\* next that may come.
Spacing == /\ sent = 2 => wait + since[2] >= Interval
           /\ phase = "calling" => /\ sent > 0 => wait + since[1] >= Interval
                                   /\ sent = 2 => since[2] >= Interval

IInv == Proper /\ Streak /\ Spacing

LEMMA AlertFacts ==
  /\ BuildAlert("open") \in Alert /\ BuildAlert("recovered") \in Alert
  /\ BuildAlert("open") # NoAlert
  /\ \A a \in Alert : a.id = Id
<1>1. BuildAlert("open") \in Alert /\ BuildAlert("recovered") \in Alert
  BY DEF BuildAlert, Alert
<1> QED BY <1>1, NoAlertAssumption DEF Alert

LEMMA OutcomesShape ==
  ASSUME NEW r
  PROVE  r \in Outcomes <=> /\ r \in Seq(BOOLEAN)
                            /\ Len(r) <= Threshold
<1>1. ASSUME r \in Outcomes PROVE r \in Seq(BOOLEAN) /\ Len(r) <= Threshold
  <2>1. PICK n \in 0..Threshold : r \in [1..n -> BOOLEAN]
    BY <1>1 DEF Outcomes
  <2>2. n \in Nat /\ n <= Threshold
    BY SentinelAssumption
  <2>3. r \in Seq(BOOLEAN) /\ Len(r) = n
    BY <2>1, <2>2
  <2> QED BY <2>2, <2>3
<1>2. ASSUME r \in Seq(BOOLEAN), Len(r) <= Threshold PROVE r \in Outcomes
  <2>1. Len(r) \in 0..Threshold /\ r \in [1..Len(r) -> BOOLEAN]
    BY <1>2, SentinelAssumption
  <2> QED BY <2>1 DEF Outcomes
<1> QED BY <1>1, <1>2

\* r is the window of the last outcomes after one more of these.
Shifted(r, last) ==
  /\ r \in Seq(BOOLEAN)
  /\ Len(r) = IF Len(recent) < Threshold THEN Len(recent) + 1 ELSE Threshold
  /\ \A n \in 1..Len(r) :
       /\ n = Len(r) => r[n] \in last
       /\ \A m \in 1..Len(recent) : m + Len(r) = n + Len(recent) + 1 => r[n] = recent[m]

LEMMA ExtendedShape ==
  ASSUME Proper, NEW ok \in BOOLEAN, NEW r, r = Extended(ok)
  PROVE  r \in Outcomes /\ Shifted(r, {ok})
<1>0. /\ recent \in Seq(BOOLEAN) /\ Len(recent) \in Nat /\ Len(recent) <= Threshold
      /\ Threshold \in Nat /\ Threshold > 0
  BY OutcomesShape, SentinelAssumption DEF Proper
<1>1. CASE Len(recent) < Threshold
  <2>1. r = Append(recent, ok)
    BY <1>1 DEF Extended
  <2>2. r \in Seq(BOOLEAN) /\ Len(r) = Len(recent) + 1
    BY <1>0, <2>1
  <2>3. ASSUME NEW n \in 1..Len(r)
        PROVE  /\ n = Len(r) => r[n] = ok
               /\ n < Len(r) => r[n] = recent[n]
    BY <1>0, <2>1, <2>2
  <2>4. r \in Outcomes
    BY <1>0, <1>1, <2>2, OutcomesShape
  <2>5. ASSUME NEW n \in 1..Len(r), NEW m \in 1..Len(recent),
               m + Len(r) = n + Len(recent) + 1
        PROVE  r[n] = recent[m]
    <3>1. n = m /\ n < Len(r)
      BY <1>0, <2>2, <2>5
    <3> QED BY <2>3, <3>1
  <2> QED BY <1>1, <2>2, <2>3, <2>4, <2>5 DEF Shifted
<1>2. CASE ~(Len(recent) < Threshold)
  <2> DEFINE tail == Tail(recent)
  <2>1. r = Append(tail, ok)
    BY <1>2 DEF Extended
  <2>2. /\ tail \in Seq(BOOLEAN) /\ Len(tail) = Threshold - 1
        /\ \A n \in 1..Len(tail) : tail[n] = recent[n + 1]
    BY <1>0, <1>2
  <2> HIDE DEF tail
  <2>3. r \in Seq(BOOLEAN) /\ Len(r) = Threshold /\ Len(recent) = Threshold
    BY <1>0, <1>2, <2>1, <2>2
  <2>4. ASSUME NEW n \in 1..Len(r)
        PROVE  /\ n = Len(r) => r[n] = ok
               /\ n < Len(r) => r[n] = tail[n]
    BY <1>0, <2>1, <2>2, <2>3
  <2>5. r \in Outcomes
    BY <1>0, <2>3, OutcomesShape
  <2>6. ASSUME NEW n \in 1..Len(r), NEW m \in 1..Len(recent),
               m + Len(r) = n + Len(recent) + 1
        PROVE  r[n] = recent[m]
    <3>1. m = n + 1 /\ n < Len(r) /\ n \in 1..Len(tail)
      BY <1>0, <2>2, <2>3, <2>6
    <3> QED BY <2>2, <2>4, <3>1
  <2> QED BY <1>2, <2>3, <2>4, <2>5, <2>6 DEF Shifted
<1> QED BY <1>1, <1>2

LEMMA StreakOver ==
  ASSUME NEW r, NEW last, Shifted(r, last), \A ok \in last : ok = TRUE
  PROVE  Counted(r, 0)
<1>1. Len(r) \in Nat /\ \A n \in 1..Len(r) : n = Len(r) => r[n] = TRUE
  BY DEF Shifted
<1> QED BY <1>1 DEF Counted

LEMMA StreakGrows ==
  ASSUME Proper, Counted(recent, failures),
         NEW r, NEW last, Shifted(r, last), \A ok \in last : ok = FALSE,
         NEW count, \/ count = failures + 1 /\ count < Threshold
                    \/ count = Threshold /\ count <= failures + 1
  PROVE  Counted(r, count)
<1>0. /\ Len(recent) \in Nat /\ Len(recent) <= Threshold
      /\ Threshold \in Nat /\ Threshold > 0 /\ failures \in 0..Threshold
  BY OutcomesShape, SentinelAssumption DEF Proper
<1>1. /\ Len(r) = IF Len(recent) < Threshold THEN Len(recent) + 1 ELSE Threshold
      /\ \A n \in 1..Len(r) :
           /\ n = Len(r) => r[n] = FALSE
           /\ \A m \in 1..Len(recent) : m + Len(r) = n + Len(recent) + 1 => r[n] = recent[m]
  BY DEF Shifted
<1>2. /\ Len(r) \in Nat /\ count \in Nat
      /\ Len(r) = IF Len(recent) < Threshold THEN Len(recent) + 1 ELSE Threshold
  BY <1>0, <1>1
<1>3. failures <= Len(recent)
  BY DEF Counted
<1>4. count <= Len(r)
  BY <1>0, <1>2, <1>3
<1>5. ASSUME NEW n \in 1..Len(r), n < Len(r)
      PROVE  \E m \in 1..Len(recent) :
               /\ m + Len(r) = n + Len(recent) + 1
               /\ r[n] = recent[m]
  <2>1. PICK m \in 1..Len(recent) : m + Len(r) = n + Len(recent) + 1
    <3> DEFINE k == n + Len(recent) + 1 - Len(r)
    <3>1. k \in 1..Len(recent) /\ k + Len(r) = n + Len(recent) + 1
      BY <1>0, <1>2, <1>5
    <3> HIDE DEF k
    <3> QED BY <3>1
  <2>2. r[n] = recent[m]
    BY <1>1, <2>1
  <2> QED BY <2>1, <2>2
<1>6. ASSUME NEW n \in 1..Len(r), n > Len(r) - count PROVE r[n] = FALSE
  <2>1. CASE n = Len(r)
    BY <1>1, <2>1
  <2>2. CASE n < Len(r)
    <3>1. PICK m \in 1..Len(recent) :
            m + Len(r) = n + Len(recent) + 1 /\ r[n] = recent[m]
      BY <1>5, <2>2
    <3>2. m > Len(recent) - failures
      BY <1>0, <1>2, <1>6, <3>1
    <3> QED BY <3>1, <3>2 DEF Counted
  <2>3. n = Len(r) \/ n < Len(r)
    BY <1>2
  <2> QED BY <2>1, <2>2, <2>3
<1>7. ASSUME NEW n \in 1..Len(r), n = Len(r) - count, count < Threshold
      PROVE  r[n] = TRUE
  <2>1. count = failures + 1 /\ failures < Threshold /\ n < Len(r)
    BY <1>0, <1>2, <1>7
  <2>2. PICK m \in 1..Len(recent) :
          m + Len(r) = n + Len(recent) + 1 /\ r[n] = recent[m]
    BY <1>5, <2>1
  <2>3. m = Len(recent) - failures
    BY <1>0, <1>2, <1>7, <2>1, <2>2
  <2> QED BY <2>1, <2>2, <2>3 DEF Counted
<1> QED BY <1>4, <1>6, <1>7 DEF Counted

-----------------------------------------------------------------------------
LEMMA InitIInv == Init => IInv
<1> SUFFICES ASSUME Init PROVE IInv
  OBVIOUS
<1>1. recent \in Seq(BOOLEAN) /\ Len(recent) = 0
  <2>1. recent = <<>>
    BY DEF Init
  <2> QED BY <2>1
<1>2. recent \in Outcomes
  <2>1. Len(recent) <= Threshold
    BY <1>1, SentinelAssumption
  <2> QED BY <1>1, <2>1, OutcomesShape
<1>3. Proper
  <2>1. /\ wait \in Ticks /\ since \in Ticks \X Ticks /\ failures \in 0..Threshold
        /\ sent \in 0..2
    BY SentinelAssumption DEF Init, Ticks
  <2>2. queue \in [{Poll} -> SUBSET Alert] /\ fresh \in SUBSET {Poll} /\ link \in BOOLEAN
    BY DEF Init, Channel!Init
  <2> QED BY <1>2, <2>1, <2>2 DEF Init, Proper
<1>4. Streak
  BY <1>1, SentinelAssumption DEF Init, Streak, Counted
<1>5. Spacing
  BY SentinelAssumption DEF Init, Spacing
<1> QED BY <1>3, <1>4, <1>5 DEF IInv

\* A judged POST: what the next window, streak and alert are.
LEMMA SucceedsStep ==
  ASSUME IInv, PostSucceeds
  PROVE  recent' \in Outcomes /\ Streak'
<1>1. \A ok \in BOOLEAN : Extended(ok) \in Outcomes /\ Shifted(Extended(ok), {ok})
  BY ExtendedShape DEF IInv
<1>2. PICK last : last = {TRUE}
  OBVIOUS
<1>3. \A ok \in last : ok = TRUE
  BY <1>2
<1>4. recent' \in Outcomes /\ Shifted(recent', last)
  <2>1. recent' = Extended(TRUE)
    BY Zenon DEF PostSucceeds
  <2>2. Extended(TRUE) \in Outcomes /\ Shifted(Extended(TRUE), {TRUE})
    BY <1>1, Zenon
  <2> QED BY <1>2, <2>1, <2>2, Zenon
<1>5. Counted(recent', 0)
  BY <1>3, <1>4, StreakOver
<1>6. failures' = 0 /\ open' = NoAlert
  BY DEF PostSucceeds
<1>7. Counted(recent', failures')
  BY <1>5, <1>6
<1>8. Counted(recent, failures)'
  BY <1>7 DEF Counted
<1>9. open' # NoAlert <=> failures' = Threshold
  BY <1>6, SentinelAssumption
<1> QED BY <1>4, <1>8, <1>9 DEF Streak

LEMMA FailsStep ==
  ASSUME IInv, PostFails
  PROVE  recent' \in Outcomes /\ Streak'
<1>0. Threshold \in Nat /\ Threshold > 0 /\ failures \in 0..Threshold
  BY SentinelAssumption DEF IInv, Proper
<1>1. \A ok \in BOOLEAN : Extended(ok) \in Outcomes /\ Shifted(Extended(ok), {ok})
  BY ExtendedShape DEF IInv
<1>2. PICK last : last = {FALSE}
  OBVIOUS
<1>3. \A ok \in last : ok = FALSE
  BY <1>2
<1>4. recent' \in Outcomes /\ Shifted(recent', last)
  <2>1. recent' = Extended(FALSE)
    BY Zenon DEF PostFails
  <2>2. Extended(FALSE) \in Outcomes /\ Shifted(Extended(FALSE), {FALSE})
    BY <1>1, Zenon
  <2> QED BY <1>2, <2>1, <2>2, Zenon
<1>5. failures' = IF failures + 1 < Threshold THEN failures + 1 ELSE Threshold
  BY DEF PostFails
<1>6. \/ failures' = failures + 1 /\ failures' < Threshold
      \/ failures' = Threshold /\ failures' <= failures + 1
  BY <1>0, <1>5
<1>7. Counted(recent', failures')
  <2>1. Counted(recent, failures) /\ Proper
    BY DEF IInv, Streak
  <2> QED BY <1>6, <1>3, <1>4, <2>1, StreakGrows
<1>8. Counted(recent, failures)'
  BY <1>7 DEF Counted
<1>9. open' # NoAlert <=> failures' = Threshold
  <2>1. open' = IF Opens(failures + 1) THEN BuildAlert("open") ELSE open
    BY DEF PostFails
  <2>2. Opens(failures + 1) <=> failures + 1 >= Threshold /\ open = NoAlert
    BY DEF Opens
  <2>3. open # NoAlert <=> failures = Threshold
    BY DEF IInv, Streak
  <2> QED BY <1>0, <1>5, <2>1, <2>2, <2>3, AlertFacts
<1> QED BY <1>4, <1>8, <1>9 DEF Streak

LEMMA HandType ==
  ASSUME Proper, NEW batch \in SUBSET Alert, NEW dropped, Channel!Hand(Poll, batch, dropped)
  PROVE  /\ queue' \in [{Poll} -> SUBSET Alert]
         /\ queue'[Poll] = batch
         /\ fresh' \in SUBSET {Poll}
         /\ link' \in BOOLEAN
BY DEF Proper, Channel!Hand

LEMMA PublishType ==
  ASSUME Proper, Publish
  PROVE  /\ queue' \in [{Poll} -> SUBSET Alert]
         /\ fresh' \in SUBSET {Poll}
         /\ link' \in BOOLEAN
<1>1. PICK a \in queue[Poll] :
        Channel!Deliver(Poll, a) \/ Channel!Skip(Poll, a) \/
          \E reached \in BOOLEAN : Channel!Raise(Poll, a, reached)
  BY DEF Publish
<1>2. queue' = [queue EXCEPT ![Poll] = @ \ {a}] \/ queue' = [queue EXCEPT ![Poll] = {}]
  BY <1>1 DEF Channel!Deliver, Channel!Skip, Channel!Raise
<1>3. fresh' = fresh \ {Poll} /\ link' = link
  BY <1>1 DEF Channel!Deliver, Channel!Skip, Channel!Raise
<1> QED BY <1>2, <1>3 DEF Proper

\* Nothing but a judged POST and a crash touches the streak.
LEMMA StreakSame ==
  ASSUME Streak, UNCHANGED <<recent, failures, open>>
  PROVE  Streak'
BY DEF Streak, Counted

LEMMA StateStep == IInv /\ [Next]_vars => IInv'
<1> SUFFICES ASSUME IInv, [Next]_vars PROVE Proper' /\ Streak' /\ Spacing'
  BY DEF IInv
<1>0. /\ Interval \in Nat /\ Interval > 0 /\ wait \in 0..Interval
      /\ since[1] \in 0..Interval /\ since[2] \in 0..Interval /\ since = <<since[1], since[2]>>
      /\ sent \in 0..2
  BY SentinelAssumption DEF IInv, Proper, Ticks
<1>a. Proper /\ Streak /\ Spacing
  BY DEF IInv
<1>1. CASE Start
  BY <1>a, <1>1, StreakSame DEF Start, channelVars, Proper, Spacing
<1>2. CASE PollStart
  <2>1. Proper'
    BY <1>a, <1>0, <1>2 DEF PollStart, channelVars, Proper, Ticks
  <2>2. Spacing'
    BY <1>a, <1>0, <1>2 DEF PollStart, Spacing
  <2> QED BY <1>a, <1>2, <2>1, <2>2, StreakSame DEF PollStart
<1>3. CASE CallFails
  BY <1>a, <1>3, StreakSame DEF CallFails, channelVars, Proper, Spacing
<1>4. CASE CallReturns
  <2>1. /\ since' = <<0, since[1]>> /\ phase = "calling" /\ phase' = "posting" /\ wait' = wait
        /\ sent' = IF sent < 2 THEN sent + 1 ELSE 2
    BY <1>4 DEF CallReturns
  <2>2. Proper'
    BY <1>a, <1>0, <1>4, <2>1 DEF CallReturns, channelVars, Proper, Ticks
  <2>3. Spacing'
    BY <1>a, <1>0, <2>1 DEF Spacing
  <2> QED BY <1>a, <1>4, <2>2, <2>3, StreakSame DEF CallReturns
<1>5. CASE PostSucceeds
  <2>1. recent' \in Outcomes /\ Streak'
    BY <1>5, SucceedsStep
  <2>2. (IF open = NoAlert THEN {} ELSE {BuildAlert("recovered")}) \in SUBSET Alert
    BY AlertFacts
  <2>3. /\ queue' \in [{Poll} -> SUBSET Alert] /\ fresh' \in SUBSET {Poll}
        /\ link' \in BOOLEAN
    BY <1>a, <1>5, <2>2, HandType DEF PostSucceeds
  <2>4. /\ phase' = "idle" /\ failures' = 0 /\ open' = NoAlert
        /\ UNCHANGED <<up, wait, since, sent>>
    BY <1>5 DEF PostSucceeds
  <2>5. Proper'
    BY <1>a, <2>1, <2>3, <2>4, SentinelAssumption DEF Proper
  <2>6. Spacing'
    BY <1>a, <2>4 DEF Spacing
  <2> QED BY <2>1, <2>5, <2>6
<1>6. CASE PostFails
  <2>1. recent' \in Outcomes /\ Streak'
    BY <1>6, FailsStep
  <2>2. (IF Opens(failures + 1) THEN {BuildAlert("open")} ELSE {}) \in SUBSET Alert
    BY AlertFacts
  <2>3. /\ queue' \in [{Poll} -> SUBSET Alert] /\ fresh' \in SUBSET {Poll}
        /\ link' \in BOOLEAN
    BY <1>a, <1>6, <2>2, HandType DEF PostFails
  <2>4. /\ phase' = "idle"
        /\ failures' = IF failures + 1 < Threshold THEN failures + 1 ELSE Threshold
        /\ open' \in {BuildAlert("open"), open}
        /\ UNCHANGED <<up, wait, since, sent>>
    BY <1>6 DEF PostFails
  <2>5. failures' \in 0..Threshold
    BY <1>a, <2>4, SentinelAssumption DEF Proper
  <2>6. Proper'
    BY <1>a, <2>1, <2>3, <2>4, <2>5 DEF Proper
  <2>7. Spacing'
    BY <1>a, <2>4 DEF Spacing
  <2> QED BY <2>1, <2>6, <2>7
<1>7. CASE PostRaises
  BY <1>a, <1>7, StreakSame DEF PostRaises, channelVars, Proper, Spacing
<1>8. CASE Publish
  <2>1. UNCHANGED <<up, wait, phase, failures, open, recent, since, sent>>
    BY <1>8 DEF Publish
  <2> QED BY <1>a, <1>8, <2>1, PublishType, StreakSame DEF Proper, Spacing
<1>9. CASE Tick
  <2>1. /\ wait' = IF wait > 0 THEN wait - 1 ELSE 0
        /\ since' = <<Later(since[1]), Later(since[2])>>
        /\ UNCHANGED <<up, phase, failures, open, recent, sent, channelVars>>
    BY <1>9 DEF Tick
  <2>2. /\ Later(since[1]) \in 0..Interval /\ Later(since[2]) \in 0..Interval
        /\ Later(since[1]) = Interval \/ Later(since[1]) = since[1] + 1
        /\ Later(since[2]) = Interval \/ Later(since[2]) = since[2] + 1
        /\ Later(since[2]) >= since[2]
    BY <1>0 DEF Later
  <2>3. wait' \in 0..Interval /\ wait' + 1 >= wait
    BY <1>0, <2>1
  <2>4. since'[1] = Later(since[1]) /\ since'[2] = Later(since[2]) /\ since' \in Ticks \X Ticks
    BY <2>1, <2>2 DEF Ticks
  <2>5. Proper'
    BY <1>a, <2>1, <2>3, <2>4 DEF Proper, channelVars, Ticks
  <2>6. Spacing'
    BY <1>a, <1>0, <2>1, <2>2, <2>3, <2>4 DEF Spacing
  <2> QED BY <1>a, <2>1, <2>5, <2>6, StreakSame
<1>10. CASE Crash
  <2>1. /\ ~up' /\ wait' = 0 /\ phase' = "idle" /\ failures' = 0 /\ open' = NoAlert
        /\ recent' = <<>> /\ since' = since /\ sent' = 0
        /\ queue' = [p \in {Poll} |-> {}] /\ fresh' = {} /\ link' = link /\ up' = FALSE
    BY <1>10 DEF Crash, Channel!Down
  <2>2. recent' \in Seq(BOOLEAN) /\ Len(recent') = 0
    <3>1. recent' = <<>>
      BY <2>1
    <3> QED BY <3>1
  <2>3. recent' \in Outcomes
    <3>1. Len(recent') <= Threshold
      BY <2>2, SentinelAssumption
    <3> QED BY <2>2, <3>1, OutcomesShape
  <2>a. /\ wait' \in Ticks /\ since' \in Ticks \X Ticks /\ failures' \in 0..Threshold
        /\ sent' \in 0..2
    BY <1>0, <2>1, SentinelAssumption DEF Ticks
  <2>b. queue' \in [{Poll} -> SUBSET Alert] /\ fresh' \in SUBSET {Poll} /\ link' \in BOOLEAN
    BY <1>a, <2>1 DEF Proper
  <2>4. Proper'
    BY <2>1, <2>3, <2>a, <2>b DEF Proper
  <2>5. Streak'
    BY <2>1, <2>2, SentinelAssumption DEF Streak, Counted
  <2>6. Spacing'
    BY <2>1 DEF Spacing
  <2> QED BY <2>4, <2>5, <2>6
<1>11. CASE LinkChange
  BY <1>a, <1>11, StreakSame DEF LinkChange, Channel!LinkChange, Proper, Spacing
<1>12. CASE UNCHANGED vars
  BY <1>a, <1>12, StreakSame DEF vars, channelVars, Proper, Spacing
<1> QED
  BY <1>1, <1>2, <1>3, <1>4, <1>5, <1>6, <1>7, <1>8, <1>9, <1>10, <1>11, <1>12 DEF Next

LEMMA Invariance == Spec => []IInv
BY InitIInv, StateStep, PTL DEF Spec

-----------------------------------------------------------------------------
LEMMA StreakMeans == IInv => OpenMeansStreak
<1> SUFFICES ASSUME IInv PROVE OpenMeansStreak
  OBVIOUS
<1>0. /\ recent \in Seq(BOOLEAN) /\ Len(recent) \in Nat /\ Len(recent) <= Threshold
      /\ Threshold \in Nat /\ Threshold > 0 /\ failures \in 0..Threshold
  BY OutcomesShape, SentinelAssumption DEF IInv, Proper
<1>1. /\ failures <= Len(recent)
      /\ \A n \in 1..Len(recent) :
           /\ n > Len(recent) - failures => recent[n] = FALSE
           /\ n = Len(recent) - failures /\ failures < Threshold => recent[n] = TRUE
  BY DEF IInv, Streak, Counted
<1> DEFINE allFailed == [n \in 1..Threshold |-> FALSE]
<1>2. /\ allFailed \in Seq(BOOLEAN) /\ Len(allFailed) = Threshold
      /\ \A n \in 1..Threshold : allFailed[n] = FALSE
  BY <1>0
<1> HIDE DEF allFailed
<1>3. ASSUME failures = Threshold PROVE recent = allFailed
  <2>1. Len(recent) = Threshold
    BY <1>0, <1>1, <1>3
  <2>2. \A n \in 1..Threshold : recent[n] = FALSE
    BY <1>0, <1>1, <1>3, <2>1
  <2> QED BY <1>0, <1>2, <2>1, <2>2
<1>4. ASSUME failures # Threshold PROVE recent # allFailed
  <2> SUFFICES ASSUME recent = allFailed PROVE FALSE
    OBVIOUS
  <2>1. Len(recent) = Threshold /\ \A n \in 1..Threshold : recent[n] = FALSE
    BY <1>2
  <2>2. PICK n \in 1..Threshold : n = Len(recent) - failures
    BY <1>0, <1>4, <2>1
  <2>3. recent[n] = TRUE
    BY <1>0, <1>1, <1>4, <2>1, <2>2
  <2> QED BY <2>1, <2>3
<1>5. open # NoAlert <=> failures = Threshold
  BY DEF IInv, Streak
<1> QED BY <1>3, <1>4, <1>5 DEF OpenMeansStreak, allFailed

\* The alert is open exactly while the last Threshold judged POSTs failed, for
\* every threshold, through failed registry calls, exceptions and restarts.
THEOREM OpenMeansStreakHolds == Spec => []OpenMeansStreak
BY Invariance, StreakMeans, PTL

\* Of three POSTs in a row of one run of the service the first and the third are
\* an interval apart, however slow get_services is and however fast the scheduler.
THEOREM SpacingHolds == Spec => NoThreePostsInInterval
<1>1. IInv => [CallReturns => since[2] >= Interval \/ sent < 2]_vars
  BY DEF IInv, Proper, Spacing, CallReturns
<1> QED BY <1>1, Invariance, PTL DEF NoThreePostsInInterval

-----------------------------------------------------------------------------
\* No answer of get_services takes more than d ticks: not_before, set before the
\* call, has come no nearer than that when the call ends.
AnswersWithin(d) == [](phase = "calling" => wait >= Interval - d)

\* POSTs of one run of the service are interval_seconds apart, up to d ticks.
SpacedUpTo(d) == [][CallReturns => since[1] >= Interval - d \/ sent = 0]_vars

\* The time since the last POST of this run, and what is left until the task may
\* ask again.
Apart(d) == /\ phase = "calling" /\ sent > 0 => since[1] >= Interval - d
            /\ phase # "calling" /\ sent > 0 => since[1] + wait >= Interval - d

LEMMA ApartStep ==
  ASSUME NEW d \in Nat, IInv, Apart(d), [Next]_vars,
         phase = "calling" => wait >= Interval - d
  PROVE  Apart(d)'
<1>0. /\ Interval \in Nat /\ Interval > 0 /\ wait \in 0..Interval
      /\ since[1] \in 0..Interval /\ since[2] \in 0..Interval /\ sent \in 0..2
  BY SentinelAssumption DEF IInv, Proper, Ticks
<1> USE DEF Apart
<1>1. CASE UNCHANGED <<wait, since, sent>> /\ phase # "calling" /\ phase' # "calling"
  BY <1>1
<1>2. CASE UNCHANGED <<wait, since, sent, phase>>
  BY <1>2
<1>3. CASE PollStart
  BY <1>0, <1>3 DEF PollStart
<1>4. CASE CallFails
  BY <1>0, <1>4 DEF CallFails
<1>5. CASE CallReturns
  <2>1. since'[1] = 0 /\ wait' = wait /\ phase = "calling" /\ phase' = "posting"
    BY <1>5 DEF CallReturns
  <2> QED BY <1>0, <2>1
<1>6. CASE Tick
  <2>1. /\ wait' = IF wait > 0 THEN wait - 1 ELSE 0
        /\ since'[1] = Later(since[1]) /\ phase' = phase /\ sent' = sent
    BY <1>6 DEF Tick
  <2>2. Later(since[1]) \in Nat
        /\ (Later(since[1]) = Interval \/ Later(since[1]) = since[1] + 1)
    BY <1>0 DEF Later
  <2>3. wait' \in Nat /\ wait' + 1 >= wait
    BY <1>0, <2>1
  <2> QED BY <1>0, <2>1, <2>2, <2>3
<1>7. CASE Crash
  BY <1>0, <1>7 DEF Crash
<1> QED
  BY <1>1, <1>2, <1>3, <1>4, <1>5, <1>6, <1>7
     DEF Next, vars, Start, PostSucceeds, PostFails, PostRaises, Publish, LinkChange

\* What README's "minimum seconds between POSTs" takes: interval_seconds less the
\* longest answer of get_services is the least time between two POSTs of one run
\* of the service, however long POSTs and publishes take and whatever fails.
THEOREM SpacedUpToTheAnswer ==
  ASSUME NEW d \in Nat
  PROVE  Spec /\ AnswersWithin(d) => SpacedUpTo(d)
<1>1. Init => Apart(d)
  BY SentinelAssumption DEF Init, Apart
<1>2. IInv /\ Apart(d) /\ [Next]_vars /\ (phase = "calling" => wait >= Interval - d)
        => Apart(d)'
  BY ApartStep
<1>3. IInv /\ Apart(d) => [CallReturns => since[1] >= Interval - d \/ sent = 0]_vars
  BY DEF IInv, Proper, Apart, CallReturns
<1> QED BY <1>1, <1>2, <1>3, Invariance, PTL DEF Spec, AnswersWithin, SpacedUpTo

\* Where the process lives, nothing was POSTed before this run.
First == sent = 0 => since[1] = Interval

\* The README's sentence holds as it stands where get_services answers at once and
\* the service is not restarted: a slow answer, as in the violating run, and a
\* restart are the only ways to break it.
THEOREM SpacedWhenPrompt ==
  ASSUME "crash" \notin Failures
  PROVE  Spec /\ AnswersWithin(0) => PostsAreSpaced
<1>1. Spec /\ AnswersWithin(0) => SpacedUpTo(0)
  BY SpacedUpToTheAnswer
<1>2. Init => First
  BY DEF Init, First
<1>3. IInv /\ First /\ [Next]_vars => First'
  <2> SUFFICES ASSUME IInv, First, [Next]_vars PROVE First'
    OBVIOUS
  <2>0. Interval \in Nat /\ since[1] \in 0..Interval /\ sent \in 0..2
    BY SentinelAssumption DEF IInv, Proper, Ticks
  <2>1. CASE UNCHANGED <<since, sent>>
    BY <2>1 DEF First
  <2>2. CASE CallReturns
    BY <2>0, <2>2 DEF CallReturns, First
  <2>3. CASE Tick
    BY <2>0, <2>3 DEF Tick, Later, First
  <2> QED BY <2>1, <2>2, <2>3
          DEF Next, vars, Start, PollStart, CallFails, PostSucceeds, PostFails, PostRaises,
              Publish, Crash, LinkChange
<1>4. First => [(CallReturns => since[1] >= Interval - 0 \/ sent = 0)
                  => (CallReturns => since[1] >= Interval)]_vars
  BY SentinelAssumption DEF First
<1> QED BY <1>1, <1>2, <1>3, <1>4, Invariance, PTL DEF Spec, SpacedUpTo, PostsAreSpaced

-----------------------------------------------------------------------------
Facts == INSTANCE AlertForwarderProofs WITH
           Ids <- {Id},
           Publishers <- {Poll},
           listed <- [id \in {Id} |-> open]

\* A judged POST is a Judge step.
LEMMA JudgeRefines ==
  ASSUME Proper, NEW batch \in SUBSET Alert, Channel!Hand(Poll, batch, {}),
         \/ batch = {} /\ open' = open
         \/ \E a \in Alert : /\ batch = {a}
                             /\ open' = IF a.resolution = "open" THEN a ELSE NoAlert
  PROVE  Forwarder!Next
<1>1. queue'[Poll] = batch
  BY HandType
<1>2. Forwarder!Channel!Hand(Poll, batch, {})
  BY DEF Channel!Hand, Forwarder!Channel!Hand, Channel!Idle, Forwarder!Channel!Idle,
         Channel!Handed, Forwarder!Channel!Handed, Channel!IdsOf,
         Forwarder!Channel!IdsOf, Channel!Pending, Forwarder!Channel!Pending
<1>3. open' \in Alert \cup {NoAlert}
  BY AlertFacts DEF Proper
<1>4. Forwarder!ChangesOnly(Forwarder!Channel!IdsOf(batch) \cup {})
  BY <1>3, AlertFacts DEF Forwarder!ChangesOnly, Forwarder!Channel!IdsOf
<1>5. Forwarder!Judge(Poll, batch, {})
  BY <1>2, <1>4, AlertFacts DEF Forwarder!Judge, Forwarder!Channel!Effect
<1> QED BY <1>1, <1>5 DEF Forwarder!Next

LEMMA PublishRefines == Publish => Forwarder!Next
<1> SUFFICES ASSUME Publish PROVE Forwarder!Next
  OBVIOUS
<1>1. PICK a \in queue[Poll] :
        Channel!Deliver(Poll, a) \/ Channel!Skip(Poll, a) \/
          \E reached \in BOOLEAN : Channel!Raise(Poll, a, reached)
  BY DEF Publish
<1>2. UNCHANGED [id \in {Id} |-> open]
  BY DEF Publish
<1>3. \/ Forwarder!Channel!Deliver(Poll, a)
      \/ Forwarder!Channel!Skip(Poll, a)
      \/ \E reached \in BOOLEAN : Forwarder!Channel!Raise(Poll, a, reached)
  BY <1>1 DEF Channel!Deliver, Channel!Skip, Channel!Raise, Channel!IsNext, Channel!OtherTurn,
              Channel!Effect, Channel!Reached, Channel!Lost, Channel!IdsOf,
              Forwarder!Channel!Deliver, Forwarder!Channel!Skip, Forwarder!Channel!Raise,
              Forwarder!Channel!IsNext, Forwarder!Channel!OtherTurn,
              Forwarder!Channel!Effect, Forwarder!Channel!Reached,
              Forwarder!Channel!Lost, Forwarder!Channel!IdsOf
<1>4. Forwarder!Publish(Poll, a)
  BY <1>2, <1>3 DEF Forwarder!Publish
<1> QED BY <1>4 DEF Forwarder!Next

LEMMA SameList ==
  ASSUME UNCHANGED <<open, channelVars>>
  PROVE  UNCHANGED Forwarder!vars
BY DEF Forwarder!vars, Forwarder!channelVars, channelVars

LEMMA StepRefines == IInv /\ [Next]_vars => [Forwarder!Next]_(Forwarder!vars)
<1> SUFFICES ASSUME IInv, [Next]_vars PROVE Forwarder!Next \/ UNCHANGED Forwarder!vars
  OBVIOUS
<1>1. CASE Start \/ PollStart \/ CallFails \/ CallReturns \/ PostRaises \/ Tick
  BY <1>1, SameList DEF Start, PollStart, CallFails, CallReturns, PostRaises, Tick
<1>2. CASE PostSucceeds
  <2>1. open' = NoAlert /\ Proper
    BY <1>2 DEF PostSucceeds, IInv
  <2>2. CASE open = NoAlert
    <3>1. Channel!Hand(Poll, {}, {})
      BY <1>2, <2>2 DEF PostSucceeds
    <3> QED BY <2>1, <2>2, <3>1, JudgeRefines
  <2>3. CASE open # NoAlert
    <3>1. Channel!Hand(Poll, {BuildAlert("recovered")}, {})
      BY <1>2, <2>3 DEF PostSucceeds
    <3>2. /\ BuildAlert("recovered") \in Alert
          /\ BuildAlert("recovered").resolution = "recovered"
      BY AlertFacts DEF BuildAlert
    <3> QED BY <2>1, <3>1, <3>2, JudgeRefines
  <2> QED BY <2>2, <2>3
<1>3. CASE PostFails
  <2>1. Proper
    BY DEF IInv
  <2>2. CASE Opens(failures + 1)
    <3>1. Channel!Hand(Poll, {BuildAlert("open")}, {}) /\ open' = BuildAlert("open")
      BY <1>3, <2>2 DEF PostFails
    <3>2. BuildAlert("open") \in Alert /\ BuildAlert("open").resolution = "open"
      BY AlertFacts DEF BuildAlert
    <3> QED BY <2>1, <3>1, <3>2, JudgeRefines
  <2>3. CASE ~Opens(failures + 1)
    <3>1. Channel!Hand(Poll, {}, {}) /\ open' = open
      BY <1>3, <2>3 DEF PostFails
    <3> QED BY <2>1, <3>1, JudgeRefines
  <2> QED BY <2>2, <2>3
<1>4. CASE Publish
  BY <1>4, PublishRefines
<1>5. CASE Crash
  <2> DEFINE ids == IF open = NoAlert THEN {} ELSE {Id}
  <2>1. open' = NoAlert /\ ids \in SUBSET {Id}
    BY <1>5 DEF Crash
  <2>2. Forwarder!ChangesOnly(ids)
    BY <2>1 DEF Forwarder!ChangesOnly
  <2>3. Forwarder!Channel!Down(ids)
    BY <1>5 DEF Crash, Channel!Down, Forwarder!Channel!Down, Channel!Lost,
                Forwarder!Channel!Lost, Channel!IdsOf, Forwarder!Channel!IdsOf,
                Channel!Pending, Forwarder!Channel!Pending
  <2> HIDE DEF ids
  <2> QED BY <2>1, <2>2, <2>3 DEF Forwarder!Next, Forwarder!Down
<1>6. CASE LinkChange
  <2>1. Forwarder!LinkChange
    BY <1>6 DEF LinkChange, Channel!LinkChange, Forwarder!LinkChange,
                Forwarder!Channel!LinkChange
  <2> QED BY <2>1 DEF Forwarder!Next
<1>7. CASE UNCHANGED vars
  BY <1>7, SameList DEF vars
<1> QED BY <1>1, <1>2, <1>3, <1>4, <1>5, <1>6, <1>7 DEF Next

LEMMA InitRefines == Init => Forwarder!Init
BY DEF Init, Forwarder!Init, Channel!Init, Forwarder!Channel!Init

\* Streak and heartbeat task keep the promise of AlertForwarder, whatever fails.
THEOREM Refinement == Spec => ImplementsForwarder
<1>1. Spec => [][Forwarder!Next]_(Forwarder!vars)
  BY Invariance, StepRefines, PTL DEF Spec
<1>2. Spec => Forwarder!Init
  BY InitRefines DEF Spec
<1> QED BY <1>1, <1>2, PTL DEF ImplementsForwarder, Forwarder!Spec

\* The instance of the proofs speaks of the same specification.
LEMMA SameSpec == Forwarder!Spec => Facts!Spec
<1>1. Forwarder!Init => Facts!Init
  BY DEF Forwarder!Init, Facts!Init, Forwarder!Channel!Init, Facts!Channel!Init
<1>2. Forwarder!Next => Facts!Next
  BY DEF Forwarder!Next, Facts!Next, Forwarder!Judge, Facts!Judge, Forwarder!Publish,
         Facts!Publish, Forwarder!Drop, Facts!Drop, Forwarder!Down, Facts!Down,
         Forwarder!LinkChange, Facts!LinkChange, Forwarder!ChangesOnly, Facts!ChangesOnly,
         Forwarder!Channel!Hand, Facts!Channel!Hand, Forwarder!Channel!Deliver,
         Facts!Channel!Deliver, Forwarder!Channel!Skip, Facts!Channel!Skip,
         Forwarder!Channel!Raise, Facts!Channel!Raise, Forwarder!Channel!Forget,
         Facts!Channel!Forget, Forwarder!Channel!Down, Facts!Channel!Down,
         Forwarder!Channel!LinkChange, Facts!Channel!LinkChange,
         Forwarder!Channel!Handed, Facts!Channel!Handed, Forwarder!Channel!Idle,
         Facts!Channel!Idle, Forwarder!Channel!IdsOf, Facts!Channel!IdsOf,
         Forwarder!Channel!Pending, Facts!Channel!Pending, Forwarder!Channel!IsNext,
         Facts!Channel!IsNext, Forwarder!Channel!OtherTurn, Facts!Channel!OtherTurn,
         Forwarder!Channel!Effect, Facts!Channel!Effect, Forwarder!Channel!Lost,
         Facts!Channel!Lost, Forwarder!Channel!Reached, Facts!Channel!Reached
<1>3. UNCHANGED Forwarder!vars => UNCHANGED Facts!vars
  BY DEF Forwarder!vars, Facts!vars, Forwarder!channelVars, Facts!channelVars
<1> QED BY <1>1, <1>2, <1>3, PTL DEF Forwarder!Spec, Facts!Spec

\* With nothing on its way the consumer holds the alert exactly while it is open,
\* unless it was lost.
THEOREM AgreementHolds == Spec => []Forwarder!Agreement
<1>1. Facts!WellFormed
  BY AlertFacts DEF Facts!WellFormed
<1>2. Facts!WellFormed => (Facts!Spec => []Facts!Agreement)
  BY Facts!AgreementHolds
<1>3. Facts!Agreement => Forwarder!Agreement
  BY DEF Facts!Agreement, Forwarder!Agreement, Facts!Channel!Trusted,
         Forwarder!Channel!Trusted, Facts!Channel!Projected, Forwarder!Channel!Projected,
         Facts!Channel!Pending, Forwarder!Channel!Pending, Facts!Channel!Effect,
         Forwarder!Channel!Effect
<1> QED BY <1>1, <1>2, <1>3, Refinement, SameSpec, PTL DEF ImplementsForwarder
\* Types, of the streak, the spacing and everything on its way.
THEOREM TypeCorrect == Spec => []TypeOK
<1>1. Facts!WellFormed
  BY AlertFacts DEF Facts!WellFormed
<1>2. Facts!WellFormed => (Facts!Spec => []Facts!IInv)
  BY Facts!Invariance
<1>3. IInv /\ Facts!IInv => TypeOK
  BY DEF IInv, Proper, Facts!IInv, Facts!TypeOK, TypeOK, Channel!Trust, Facts!Channel!Trust
<1> QED BY <1>1, <1>2, <1>3, Invariance, Refinement, SameSpec, PTL DEF ImplementsForwarder

-----------------------------------------------------------------------------
\* Nothing has set consumer and streak apart.
Undisturbed == link /\ trust[Id] = "agrees"

LEMMA UndisturbedStep ==
  ASSUME Failures \subseteq {"post"}, IInv, trust \in [{Id} -> Channel!Trust],
         Undisturbed, [Next]_vars
  PROVE  Undisturbed'
<1> USE DEF Undisturbed
<1>1. CASE UNCHANGED channelVars
  BY <1>1 DEF channelVars
<1>2. ASSUME NEW batch, Channel!Hand(Poll, batch, {}) PROVE Undisturbed'
  <2>1. Channel!Pending = {}
    BY <1>2 DEF Channel!Hand, Channel!Idle, Channel!Pending
  <2>2. trust'[Id] = Channel!Handed(Id, batch, {}) /\ link' = link
    BY <1>2 DEF Channel!Hand
  <2>3. Channel!Handed(Id, batch, {}) = "agrees"
    BY <2>1 DEF Channel!Handed, Channel!IdsOf
  <2> QED BY <2>2, <2>3
<1>3. CASE PostSucceeds \/ PostFails
  BY <1>2, <1>3 DEF PostSucceeds, PostFails
<1>4. CASE Publish
  <2>1. PICK a \in queue[Poll] : Channel!Deliver(Poll, a)
    BY <1>4 DEF Publish, Channel!Skip
  <2> QED BY <2>1 DEF Channel!Deliver, Channel!Reached
<1> QED BY <1>1, <1>3, <1>4
        DEF Next, vars, Start, PollStart, CallFails, CallReturns, PostRaises, Tick, Crash,
            LinkChange

\* Only a lost alert sets consumer and streak apart: where no link breaks, no
\* publish raises and the process lives, the consumer will at every moment hold
\* the alert exactly if list_open_alerts shows it, whatever the POSTs do.
THEOREM UndisturbedAgrees ==
  ASSUME Failures \subseteq {"post"}
  PROVE  Spec => [](Forwarder!Channel!Projected(Id) = open)
<1>1. Init => Undisturbed
  BY DEF Init, Channel!Init, Undisturbed
<1>2. IInv /\ TypeOK /\ Undisturbed /\ [Next]_vars => Undisturbed'
  BY UndisturbedStep DEF TypeOK
<1>3. Undisturbed /\ Forwarder!Agreement => Forwarder!Channel!Projected(Id) = open
  BY DEF Undisturbed, Forwarder!Agreement, Forwarder!Channel!Trusted
<1> QED BY <1>1, <1>2, <1>3, Invariance, TypeCorrect, AgreementHolds, PTL DEF Spec

-----------------------------------------------------------------------------
\* The last Threshold judged POSTs all failed.
AllFailed(outcomes) == outcomes = [n \in 1..Threshold |-> FALSE]

\* One judged POST is enough: it leaves the alert open exactly if the last Threshold
\* of them failed, itself included, and the consumer will hold the alert exactly
\* then, unless it was lost before and this POST changes nothing.  It is what
\* UnreachableReachesConsumer needs besides fairness.
OnePostTells ==
  [][PostSucceeds \/ PostFails =>
       /\ open' # NoAlert <=> AllFailed(recent')
       /\ trust'[Id] # "lost" \/ open' # open
            => (Forwarder!Channel!Projected(Id)' # NoAlert <=> AllFailed(recent'))]_vars

\* One publisher races with nobody.
NotRaced == trust[Id] # "raced"

\* A judged POST never races, and it trusts what it tells.
LEMMA HandTrusts ==
  ASSUME TypeOK, NotRaced, NEW batch \in SUBSET Alert, Channel!Hand(Poll, batch, {})
  PROVE  /\ trust'[Id] # "raced"
         /\ batch # {} => trust'[Id] \in {"agrees", "healing"}
<1>1. Channel!Pending = {}
  BY DEF Channel!Hand, Channel!Idle, Channel!Pending
<1>2. trust'[Id] = Channel!Handed(Id, batch, {})
  BY DEF Channel!Hand, TypeOK
<1>3. batch # {} => Id \in Channel!IdsOf(batch)
  BY AlertFacts DEF Channel!IdsOf
<1> QED BY <1>1, <1>2, <1>3 DEF Channel!Handed, Channel!IdsOf, NotRaced

\* What a judged POST hands over tells every change.
LEMMA PostHands ==
  ASSUME PostSucceeds \/ PostFails
  PROVE  \E batch \in SUBSET Alert : /\ Channel!Hand(Poll, batch, {})
                                     /\ open' # open => batch # {}
<1>1. {BuildAlert("open")} \in SUBSET Alert /\ {BuildAlert("recovered")} \in SUBSET Alert
      /\ {} \in SUBSET Alert
  BY AlertFacts
<1>2. CASE PostSucceeds
  BY <1>1, <1>2 DEF PostSucceeds
<1>3. CASE PostFails
  BY <1>1, <1>3 DEF PostFails
<1> QED BY <1>2, <1>3

LEMMA NotRacedStep == TypeOK /\ NotRaced /\ [Next]_vars => NotRaced'
<1> SUFFICES ASSUME TypeOK, NotRaced, [Next]_vars PROVE NotRaced'
  OBVIOUS
<1>1. CASE UNCHANGED channelVars
  BY <1>1 DEF NotRaced, channelVars
<1>2. ASSUME NEW ids, trust' = Channel!Lost(ids) PROVE NotRaced'
  BY <1>2 DEF NotRaced, TypeOK, Channel!Lost
<1>3. CASE PostSucceeds \/ PostFails
  BY <1>3, PostHands, HandTrusts DEF NotRaced
<1>4. CASE Publish
  <2>1. PICK a \in queue[Poll] :
          Channel!Deliver(Poll, a) \/ Channel!Skip(Poll, a) \/
            \E reached \in BOOLEAN : Channel!Raise(Poll, a, reached)
    BY <1>4 DEF Publish
  <2>2. CASE Channel!Deliver(Poll, a)
    BY <2>2 DEF Channel!Deliver, Channel!Reached, NotRaced, TypeOK
  <2> QED BY <1>2, <2>1, <2>2 DEF Channel!Skip, Channel!Raise
<1>5. CASE Crash
  BY <1>2, <1>5 DEF Crash, Channel!Down
<1>6. CASE LinkChange
  BY <1>6 DEF LinkChange, Channel!LinkChange, NotRaced
<1> QED BY <1>1, <1>3, <1>4, <1>5, <1>6
        DEF Next, vars, Start, PollStart, CallFails, CallReturns, PostRaises, Tick

\* One judged POST sets the open alert and the consumer right, for any threshold
\* and after any history.
THEOREM OnePostIsEnough == Spec => OnePostTells
<1>1. Init => NotRaced
  BY DEF Init, Channel!Init, NotRaced
<1>2. IInv' /\ TypeOK /\ TypeOK' /\ NotRaced /\ Forwarder!Agreement'
        => [PostSucceeds \/ PostFails =>
              /\ open' # NoAlert <=> AllFailed(recent')
              /\ trust'[Id] # "lost" \/ open' # open
                   => (Forwarder!Channel!Projected(Id)' # NoAlert <=> AllFailed(recent'))]_vars
  <2> SUFFICES ASSUME IInv', TypeOK, TypeOK', NotRaced, Forwarder!Agreement',
                      PostSucceeds \/ PostFails
               PROVE  /\ open' # NoAlert <=> AllFailed(recent')
                      /\ trust'[Id] # "lost" \/ open' # open
                           => (Forwarder!Channel!Projected(Id)' # NoAlert
                                 <=> AllFailed(recent'))
    OBVIOUS
  <2>1. OpenMeansStreak'
    BY StreakMeans, PTL
  <2>2. trust'[Id] # "lost" \/ open' # open => trust'[Id] \in {"agrees", "healing"}
    BY PostHands, HandTrusts DEF TypeOK, Channel!Trust
  <2>3. trust'[Id] \in {"agrees", "healing"} => Forwarder!Channel!Projected(Id)' = open'
    BY DEF Forwarder!Agreement, Forwarder!Channel!Trusted
  <2> QED BY <2>1, <2>2, <2>3 DEF OpenMeansStreak, AllFailed
<1> QED BY <1>1, <1>2, NotRacedStep, Invariance, TypeCorrect, AgreementHolds, PTL
        DEF Spec, OnePostTells
=============================================================================
