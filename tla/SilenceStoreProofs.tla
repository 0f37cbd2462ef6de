-------------------------- MODULE SilenceStoreProofs --------------------------
(* SilenceStore for every set of names: its files survive, and its calls are  *)
(* those of Silences.  FileMonitor: around this store, kontiki-monitor is the *)
(* process of Monitor.                                                        *)
EXTENDS FileMonitor, TLAPS

\* What ties the call under way to memory and to the temporary file.
Steps ==
  /\ pc = "idle" => call = None
  /\ pc \in Saving =>
       /\ up
       /\ call \in Calls
       /\ silenced = IF call.op = "add" THEN before \cup {call.name}
                                        ELSE before \ {call.name}
  /\ pc = "replace" => temp = silenced

\* What was saved is also what memory holds, until the process dies.
Remembered == up => promised \subseteq silenced /\ revoked \cap silenced = {}

IInv == TypeOK /\ Steps /\ Remembered /\ Durable /\ SavedMeansEqual

\* _load maps a file of entries to names the store may hold.
LEMMA LoadedType ==
  ASSUME NEW content \in (SUBSET Raw) \cup {Absent}
  PROVE  Loaded(content) \in SUBSET Kept
BY StoreAssumption DEF Loaded, Kept

\* A file written by _save reads back as the set it was written from.
LEMMA LoadedKept ==
  ASSUME NEW content \in SUBSET Kept
  PROVE  /\ content \in SUBSET Raw
         /\ content \notin {Absent, Corrupt}
         /\ Loaded(content) = content
<1>1. content \in SUBSET Raw
  BY StoreAssumption DEF Kept
<1>2. content \notin {Absent, Corrupt}
  BY <1>1, StoreAssumption
<1>3. \A r \in content : Normalize[r] = r
  BY StoreAssumption DEF Kept
<1> QED BY <1>1, <1>2, <1>3 DEF Loaded

LEMMA NormalizeName ==
  ASSUME NEW r \in Raw, Normalize[r] # Blank
  PROVE  Normalize[r] \in Names
BY StoreAssumption

\* TypeOK and the invariants hold at the start.
LEMMA InitIInv == Init => IInv
BY DEF Init, IInv, TypeOK, Steps, Remembered, Durable, SavedMeansEqual, Saving, Kept

LEMMA TypeStep == IInv /\ [Next]_vars => TypeOK'
<1> SUFFICES ASSUME TypeOK, Steps, [Next]_vars PROVE TypeOK'
  BY DEF IInv
<1> USE DEF TypeOK
<1>1. ASSUME NEW r \in Raw, Add(r) PROVE TypeOK'
  BY <1>1, NormalizeName DEF Add, Call, Calls, Saving, Kept
<1>2. ASSUME NEW r \in Raw, Clear(r) PROVE TypeOK'
  BY <1>2, NormalizeName DEF Clear, Call, Calls, Saving, Kept
<1>3. CASE MakeTemp
  BY <1>3 DEF MakeTemp, history, Saving
<1>4. CASE WriteTemp
  BY <1>4 DEF WriteTemp, history, Saving
<1>5. CASE Replace
  <2>1. temp \in SUBSET Kept /\ call \in Calls
    BY <1>5 DEF Replace, Steps, Saving
  <2>2. temp \in Contents
    BY <2>1, LoadedKept DEF Contents
  <2> QED BY <1>5, <2>1, <2>2 DEF Replace, Calls, Saving
<1>6. CASE Raise
  BY <1>6 DEF Raise, Saving
<1>7. CASE Crash
  BY <1>7 DEF Crash, history
<1>8. CASE Start
  BY <1>8, LoadedType DEF Start, Contents
<1>9. ASSUME NEW content \in Contents, Edit(content) PROVE TypeOK'
  BY <1>9 DEF Edit
<1>10. CASE UNCHANGED vars
  BY <1>10 DEF vars
<1> QED BY <1>1, <1>2, <1>3, <1>4, <1>5, <1>6, <1>7, <1>8, <1>9, <1>10 DEF Next

LEMMA StepsStep == IInv /\ [Next]_vars => Steps'
<1> SUFFICES ASSUME TypeOK, Steps, [Next]_vars PROVE Steps'
  BY DEF IInv
<1> USE DEF Steps, Saving
<1>1. ASSUME NEW r \in Raw, Add(r) PROVE Steps'
  BY <1>1, NormalizeName DEF Add, Call, Calls
<1>2. ASSUME NEW r \in Raw, Clear(r) PROVE Steps'
  BY <1>2, NormalizeName DEF Clear, Call, Calls
<1>3. CASE MakeTemp
  BY <1>3 DEF MakeTemp
<1>4. CASE WriteTemp
  BY <1>4 DEF WriteTemp
<1>5. CASE Replace
  BY <1>5 DEF Replace
<1>6. CASE Raise
  BY <1>6 DEF Raise
<1>7. CASE Crash
  BY <1>7 DEF Crash
<1>8. CASE Start
  BY <1>8 DEF Start
<1>9. ASSUME NEW content \in Contents, Edit(content) PROVE Steps'
  BY <1>9 DEF Edit
<1>10. CASE UNCHANGED vars
  BY <1>10 DEF vars
<1> QED BY <1>1, <1>2, <1>3, <1>4, <1>5, <1>6, <1>7, <1>8, <1>9, <1>10 DEF Next

\* The step of os.replace: memory, temporary file and name of the call agree.
LEMMA ReplaceFacts ==
  ASSUME TypeOK, Steps, Replace
  PROVE  /\ up
         /\ file' = silenced
         /\ Loaded(file') = silenced
         /\ file' \notin {Absent, Corrupt}
         /\ call \in Calls
         /\ call.op = "add" => call.name \in silenced
         /\ call.op = "clear" => call.name \notin silenced
<1>1. file' = silenced /\ silenced \in SUBSET Kept
  BY DEF Replace, Steps, TypeOK
<1>2. call \in Calls /\ up
  BY DEF Replace, Steps, Saving
<1>3. /\ call.op = "add" => call.name \in silenced
      /\ call.op = "clear" => call.name \notin silenced
  BY <1>2 DEF Replace, Steps, Saving, Calls
<1> QED BY <1>1, <1>2, <1>3, LoadedKept

LEMMA DurableStep == IInv /\ [Next]_vars => Remembered' /\ Durable'
<1> SUFFICES ASSUME TypeOK, Steps, Remembered, Durable, [Next]_vars
             PROVE  Remembered' /\ Durable'
  BY DEF IInv
<1> USE DEF Remembered, Durable
<1>1. ASSUME NEW r \in Raw, Add(r) PROVE Remembered' /\ Durable'
  BY <1>1, NormalizeName DEF Add, Call, Loaded, TypeOK
<1>2. ASSUME NEW r \in Raw, Clear(r) PROVE Remembered' /\ Durable'
  BY <1>2, NormalizeName DEF Clear, Call, Loaded, TypeOK
<1>3. CASE MakeTemp
  BY <1>3 DEF MakeTemp, history, Loaded
<1>4. CASE WriteTemp
  BY <1>4 DEF WriteTemp, history, Loaded
<1>5. CASE Replace
  BY <1>5, ReplaceFacts DEF Replace, Calls
<1>6. CASE Raise
  BY <1>6 DEF Raise, Loaded
<1>7. CASE Crash
  BY <1>7 DEF Crash, history, Loaded
<1>8. CASE Start
  BY <1>8 DEF Start, Loaded
<1>9. ASSUME NEW content \in Contents, Edit(content) PROVE Remembered' /\ Durable'
  BY <1>9 DEF Edit
<1>10. CASE UNCHANGED vars
  BY <1>10 DEF vars, Loaded
<1> QED BY <1>1, <1>2, <1>3, <1>4, <1>5, <1>6, <1>7, <1>8, <1>9, <1>10 DEF Next

LEMMA SavedStep == IInv /\ [Next]_vars => SavedMeansEqual'
<1> SUFFICES ASSUME TypeOK, Steps, SavedMeansEqual, [Next]_vars PROVE SavedMeansEqual'
  BY DEF IInv
<1> USE DEF SavedMeansEqual
<1>1. ASSUME NEW r \in Raw, Add(r) \/ Clear(r) PROVE SavedMeansEqual'
  BY <1>1 DEF Add, Clear, Call
<1>2. CASE MakeTemp \/ WriteTemp
  BY <1>2 DEF MakeTemp, WriteTemp
<1>3. CASE Replace
  BY <1>3, ReplaceFacts DEF Replace
<1>4. CASE Raise
  BY <1>4 DEF Raise
<1>5. CASE Crash
  BY <1>5 DEF Crash
<1>6. CASE Start
  BY <1>6 DEF Start, Loaded
<1>7. ASSUME NEW content \in Contents, Edit(content) PROVE SavedMeansEqual'
  BY <1>7 DEF Edit
<1>8. CASE UNCHANGED vars
  BY <1>8 DEF vars, Loaded
<1> QED BY <1>1, <1>2, <1>3, <1>4, <1>5, <1>6, <1>7, <1>8 DEF Next

THEOREM Invariance == Spec => []IInv
<1>1. IInv /\ [Next]_vars => IInv'
  BY TypeStep, StepsStep, DurableStep, SavedStep DEF IInv
<1> QED BY InitIInv, <1>1, PTL DEF Spec

\* Every variable keeps its type, for any names, entries and normalization.
THEOREM TypeCorrect == Spec => []TypeOK
BY Invariance, PTL DEF IInv

\* A silence or a clear that was saved is what a restart reads, whatever raises
\* or dies in later saves, and the code never leaves an unreadable file.
THEOREM DurableHolds == Spec => []Durable
BY Invariance, PTL DEF IInv

\* A call that returned normally has memory and file equal.
THEOREM SavedMeansEqualHolds == Spec => []SavedMeansEqual
BY Invariance, PTL DEF IInv

-----------------------------------------------------------------------------
\* What a save under way shows to Silences: the memory of before the call.
Shown == IF pc \in Saving THEN before ELSE silenced
Read == IF file = Corrupt THEN Corrupt ELSE Loaded(file)

\* The initial file of Silences is one that Silences knows.
LEMMA InitRefines == Init => Store!Init
<1> SUFFICES ASSUME Init PROVE Store!Init
  OBVIOUS
<1>1. Read \in (SUBSET Kept) \cup {Corrupt}
  BY LoadedType DEF Init, Contents, Read
<1> QED BY <1>1 DEF Init, Store!Init, Saving, Read

\* Every file operation is a step of Silences, or invisible to it.
LEMMA StepRefines == IInv /\ IInv' /\ [Next]_vars => [Store!Next]_(Store!vars)
<1> SUFFICES ASSUME IInv, IInv', [Next]_vars PROVE [Store!Next]_(Store!vars)
  OBVIOUS
<1> USE DEF IInv
<1> DEFINE Same == UNCHANGED <<up, Shown, Read>>
<1>0. Same => [Store!Next]_(Store!vars)
  BY DEF Store!vars, Shown, Read
<1>1. ASSUME NEW r \in Raw, Add(r) \/ Clear(r) PROVE Same
  BY <1>1 DEF Add, Clear, Call, Shown, Read, Loaded, Saving
<1>2. ASSUME MakeTemp \/ WriteTemp PROVE Same
  BY <1>2 DEF MakeTemp, WriteTemp, Shown, Read, Loaded, Saving
<1>3. CASE Replace
  <2>1. /\ up /\ up' = up
        /\ Shown = before /\ Shown' = silenced
        /\ Read' = silenced
        /\ call \in Calls /\ call.name \in Kept
    BY <1>3, ReplaceFacts DEF Replace, Shown, Read, Saving, Calls, Kept
  <2>2. CASE call.op = "add"
    <3>1. Shown' = Shown \cup {call.name} /\ Read' = Shown'
      BY <1>3, <2>1, <2>2 DEF Replace, Steps, Saving
    <3>2. Store!Add(call.name, TRUE)
      BY <2>1, <3>1 DEF Store!Add, Shown, Read
    <3> QED BY <2>1, <3>2 DEF Store!Next
  <2>3. CASE call.op = "clear"
    <3>1. Shown' = Shown \ {call.name} /\ Read' = Shown'
      BY <1>3, <2>1, <2>3 DEF Replace, Steps, Saving
    <3>2. Store!Clear(call.name, TRUE)
      BY <2>1, <3>1 DEF Store!Clear, Shown, Read
    <3> QED BY <2>1, <3>2 DEF Store!Next
  <2> QED BY <2>1, <2>2, <2>3 DEF Calls
<1>4. CASE Raise
  <2>1. /\ up /\ up' = up
        /\ Shown = before /\ Shown' = silenced
        /\ Read' = Read
        /\ call \in Calls /\ call.name \in Kept
    BY <1>4 DEF Raise, Steps, Shown, Read, Loaded, Saving, Calls, Kept
  <2>2. CASE call.op = "add"
    <3>1. Shown' = Shown \cup {call.name}
      BY <1>4, <2>1, <2>2 DEF Raise, Steps, Saving
    <3>2. Store!Add(call.name, FALSE)
      BY <2>1, <3>1 DEF Store!Add, Shown, Read
    <3> QED BY <2>1, <3>2 DEF Store!Next
  <2>3. CASE call.op = "clear"
    <3>1. Shown' = Shown \ {call.name}
      BY <1>4, <2>1, <2>3 DEF Raise, Steps, Saving
    <3>2. Store!Clear(call.name, FALSE)
      BY <2>1, <3>1 DEF Store!Clear, Shown, Read
    <3> QED BY <2>1, <3>2 DEF Store!Next
  <2> QED BY <2>1, <2>2, <2>3 DEF Calls
<1>5. CASE Crash
  <2>1. up /\ up' = FALSE /\ Shown' = {} /\ Read' = Read
    BY <1>5 DEF Crash, Shown, Read, Loaded, Saving
  <2>2. Store!Crash
    BY <2>1 DEF Store!Crash, Shown, Read
  <2> QED BY <2>2 DEF Store!Next
<1>6. CASE Start
  <2>1. ~up /\ up' /\ Read # Corrupt /\ Shown' = Read /\ Read' = Read
    <3>1. file # Corrupt /\ file \in Contents /\ Loaded(file) # Corrupt
      BY <1>6, LoadedType, LoadedKept DEF Start, TypeOK, Contents
    <3> QED BY <1>6, <3>1 DEF Start, Shown, Read, Loaded, Saving, Steps
  <2>2. Store!Start
    BY <1>6, <2>1 DEF Start, Store!Start, Shown, Read
  <2> QED BY <2>2 DEF Store!Next
<1>7. ASSUME NEW content \in Contents, Edit(content) PROVE [Store!Next]_(Store!vars)
  <2>1. Read' \in (SUBSET Kept) \cup {Corrupt}
    BY <1>7, LoadedType DEF Edit, Read, Contents
  <2>2. UNCHANGED <<up, Shown>>
    BY <1>7 DEF Edit, Shown, Saving
  <2>3. Store!Edit(Read')
    BY <2>2 DEF Store!Edit, Shown, Read
  <2> QED BY <2>1, <2>3 DEF Store!Next
<1>8. CASE UNCHANGED vars
  BY <1>0, <1>8 DEF vars, Shown, Read, Loaded
<1> QED
  BY <1>0, <1>1, <1>2, <1>3, <1>4, <1>5, <1>6, <1>7, <1>8 DEF Next

\* The file operations implement Silences: what memory holds and what a restart
\* would read change together at os.replace, or the memory alone when a save
\* raises, and a crash in between shows the state of before the call.
THEOREM Refinement == Spec => ImplementsSilences
BY Invariance, InitRefines, StepRefines, PTL DEF Spec, Store!Spec, ImplementsSilences

-----------------------------------------------------------------------------
\* The store within the process takes its own steps, or none.
LEMMA StoreSteps == [ProcessNext]_processVars => [Next]_vars
BY DEF ProcessNext, TaskStep, OutsideStep, SaveStep, AddReturns, ClearReturns, CallRaises,
       ProcessDies, ProcessStarts, Next, processVars

LEMMA StoreInvariance == ProcessSpec => []IInv
<1>1. ProcessSpec => Spec
  BY StoreSteps, PTL DEF ProcessSpec, ProcessInit, Spec
<1> QED BY <1>1, Invariance, PTL

\* No step of the process leaves a file that a restart could not read.
Readable == file # Corrupt

LEMMA ReadableAlways == ProcessSpec => []Readable
<1>1. IInv /\ Readable /\ [ProcessNext]_processVars => Readable'
  <2> SUFFICES ASSUME IInv, Readable, [ProcessNext]_processVars PROVE Readable'
    OBVIOUS
  <2>1. CASE AddReturns \/ ClearReturns
    BY <2>1, ReplaceFacts DEF AddReturns, ClearReturns, IInv, Readable
  <2>2. CASE SaveStep
    BY <2>2 DEF SaveStep, Add, Clear, Call, MakeTemp, WriteTemp, Readable
  <2>3. CASE ProcessDies \/ ProcessStarts \/ CallRaises
    BY <2>3 DEF ProcessDies, ProcessStarts, CallRaises, Crash, Start, Raise, Readable
  <2>4. CASE UNCHANGED file
    BY <2>4 DEF Readable
  <2> QED BY <2>1, <2>2, <2>3, <2>4 DEF ProcessNext, TaskStep, OutsideStep, vars, processVars
<1>2. ProcessInit => Readable
  BY DEF ProcessInit, Readable
<1> QED BY <1>1, <1>2, StoreInvariance, PTL DEF ProcessSpec

\* What the process shows while its store saves.
LEMMA ShownAtReturn ==
  ASSUME IInv, pc \in Saving, silenced' = silenced, pc' = "idle"
  PROVE  /\ call.name \in Names /\ up
         /\ call.op = "add" => Shown' = Shown \cup {call.name}
         /\ call.op = "clear" => Shown' = Shown \ {call.name}
BY DEF IInv, Steps, Shown, Saving, Calls

LEMMA AddReturnsRefines ==
  ASSUME IInv, AddReturns PROVE Process!AddSilence(call.name, TRUE)
<1>1. /\ call.name \in Names /\ up /\ up' = up
      /\ Shown' = Shown \cup {call.name}
      /\ Read' = Shown'
  <2>1. Replace /\ pc \in Saving /\ pc' = "idle" /\ silenced' = silenced /\ up' = up
    BY DEF AddReturns, Replace, Saving
  <2>2. Read' = silenced /\ Shown' = silenced
    BY <2>1, ReplaceFacts DEF IInv, Read, Shown, Saving
  <2> QED BY <2>1, <2>2, ShownAtReturn DEF AddReturns
<1>2. Process!Fleet!AddSilence(call.name, TRUE)
  BY <1>1 DEF AddReturns, Process!Fleet!AddSilence, Process!Fleet!Channel!Turn,
              Process!Fleet!Channel!Forget, Shown, Read
<1>3. Process!Exceptions!AddSilence(call.name, TRUE)
  BY <1>1 DEF AddReturns, Process!Exceptions!AddSilence, Process!Exceptions!Channel!Turn,
              Process!Exceptions!Channel!Forget, Shown, Read
<1> QED BY <1>2, <1>3 DEF AddReturns, otherVars, sentinelVars, Process!AddSilence,
                          Process!sentinelVars, Process!lifecycleVars

LEMMA ClearReturnsRefines ==
  ASSUME IInv, ClearReturns PROVE Process!ClearSilence(call.name, TRUE)
<1>1. /\ call.name \in Names /\ up /\ up' = up
      /\ Shown' = Shown \ {call.name}
      /\ Read' = Shown'
  <2>1. Replace /\ pc \in Saving /\ pc' = "idle" /\ silenced' = silenced /\ up' = up
    BY DEF ClearReturns, Replace, Saving
  <2>2. Read' = silenced /\ Shown' = silenced
    BY <2>1, ReplaceFacts DEF IInv, Read, Shown, Saving
  <2> QED BY <2>1, <2>2, ShownAtReturn DEF ClearReturns
<1>2. Process!Fleet!ClearSilence(call.name, TRUE)
  BY <1>1 DEF ClearReturns, Process!Fleet!ClearSilence, Process!Fleet!Channel!Turn,
              Process!Fleet!channelVars, otherVars, Shown, Read
<1>3. Process!Exceptions!ClearSilence(call.name, TRUE)
  BY <1>1 DEF ClearReturns, Process!Exceptions!ClearSilence,
              Process!Exceptions!Channel!Turn, Process!Exceptions!channelVars,
              exceptionVars, otherVars, Shown, Read
<1> QED BY <1>2, <1>3 DEF ClearReturns, otherVars, sentinelVars, Process!ClearSilence,
                          Process!sentinelVars, Process!lifecycleVars

LEMMA CallRaisesRefines ==
  ASSUME IInv, CallRaises
  PROVE  Process!AddSilence(call.name, FALSE) \/ Process!ClearSilence(call.name, FALSE)
<1>1. /\ call.name \in Names /\ up /\ up' = up /\ call.op \in {"add", "clear"}
      /\ call.op = "add" => Shown' = Shown \cup {call.name}
      /\ call.op = "clear" => Shown' = Shown \ {call.name}
      /\ Read' = Read
  <2>1. pc \in Saving /\ pc' = "idle" /\ silenced' = silenced /\ file' = file /\ up' = up
    BY DEF CallRaises, Raise
  <2>2. call \in Calls
    BY <2>1 DEF IInv, Steps
  <2> QED BY <2>1, <2>2, ShownAtReturn DEF Read, Loaded, Calls
<1>2. CASE call.op = "add"
  <2>1. Process!Fleet!AddSilence(call.name, FALSE)
    BY <1>1, <1>2 DEF CallRaises, Process!Fleet!AddSilence, Process!Fleet!Channel!Turn,
                      Process!Fleet!channelVars, otherVars, Shown, Read
  <2>2. Process!Exceptions!AddSilence(call.name, FALSE)
    BY <1>1, <1>2 DEF CallRaises, Process!Exceptions!AddSilence,
                      Process!Exceptions!Channel!Turn, Process!Exceptions!channelVars,
                      exceptionVars, otherVars, Shown, Read
  <2> QED BY <1>2, <2>1, <2>2 DEF CallRaises, otherVars, sentinelVars, Process!AddSilence,
                                  Process!sentinelVars, Process!lifecycleVars
<1>3. CASE call.op = "clear"
  <2>1. Process!Fleet!ClearSilence(call.name, FALSE)
    BY <1>1, <1>3 DEF CallRaises, Process!Fleet!ClearSilence, Process!Fleet!Channel!Turn,
                      Process!Fleet!channelVars, otherVars, Shown, Read
  <2>2. Process!Exceptions!ClearSilence(call.name, FALSE)
    BY <1>1, <1>3 DEF CallRaises, Process!Exceptions!ClearSilence,
                      Process!Exceptions!Channel!Turn, Process!Exceptions!channelVars,
                      exceptionVars, otherVars, Shown, Read
  <2> QED BY <1>3, <2>1, <2>2 DEF CallRaises, otherVars, sentinelVars,
               Process!ClearSilence, Process!sentinelVars, Process!lifecycleVars
<1> QED BY <1>1, <1>2, <1>3

\* A file operation before the last is invisible from outside the call.
LEMMA SaveStepHidden == IInv /\ SaveStep => UNCHANGED Process!vars
<1> SUFFICES ASSUME IInv, SaveStep PROVE UNCHANGED Process!vars
  OBVIOUS
<1>1. up' = up /\ Shown' = Shown /\ Read' = Read
  <2>1. ASSUME NEW r \in Raw, Add(r) \/ Clear(r) PROVE up' = up /\ Shown' = Shown /\ file' = file
    BY <2>1 DEF Add, Clear, Call, Shown, Saving
  <2>2. ASSUME MakeTemp \/ WriteTemp PROVE up' = up /\ Shown' = Shown /\ file' = file
    BY <2>2 DEF MakeTemp, WriteTemp, Shown, Saving
  <2> QED BY <2>1, <2>2 DEF SaveStep, Read, Loaded
<1> QED BY <1>1 DEF SaveStep, fleetVars, exceptionVars, otherVars, sentinelVars,
          Process!vars, Process!fleetVars, Process!exceptionVars, Process!sentinelVars,
          Process!lifecycleVars, Shown, Read

LEMMA ProcessStepRefines ==
  IInv /\ [ProcessNext]_processVars => [Process!Next]_(Process!vars)
<1> SUFFICES ASSUME IInv, [ProcessNext]_processVars
             PROVE  Process!Next \/ UNCHANGED Process!vars
  OBVIOUS
<1>1. CASE TaskStep \/ OutsideStep
  BY <1>1 DEF TaskStep, OutsideStep, Process!Next
<1>2. CASE SaveStep
  BY <1>2, SaveStepHidden
<1>3. CASE AddReturns \/ ClearReturns \/ CallRaises
  <2>1. call.name \in Names
    BY <1>3 DEF AddReturns, ClearReturns, CallRaises, Raise, IInv, Steps, Saving, Calls
  <2> QED BY <1>3, <2>1, AddReturnsRefines, ClearReturnsRefines, CallRaisesRefines
          DEF Process!Next
<1>4. CASE ProcessDies \/ ProcessStarts
  BY <1>4 DEF ProcessDies, ProcessStarts, Process!Next
<1>5. CASE UNCHANGED processVars
  BY <1>5 DEF processVars, vars, fleetVars, exceptionVars, otherVars, sentinelVars,
          Process!vars, Process!fleetVars, Process!exceptionVars, Process!sentinelVars,
          Process!lifecycleVars, Shown, Read, Loaded
<1> QED BY <1>1, <1>2, <1>3, <1>4, <1>5 DEF ProcessNext

\* Around the store that writes files, kontiki-monitor is the process whose silence
\* RPCs are one step each, wherever in a save it raises or is killed: what is true
\* of Monitor is true of it.
THEOREM ProcessRefinement == ProcessSpec => ImplementsMonitor
BY StoreInvariance, ProcessStepRefines, PTL
   DEF ProcessSpec, ProcessInit, ImplementsMonitor, Process!Spec

-----------------------------------------------------------------------------
\* What is proved of Monitor, of the process as it shows from outside its calls.
Facts == INSTANCE MonitorProofs WITH
  silenced <- IF pc \in Saving THEN before ELSE silenced,
  file <- IF file = Corrupt THEN Corrupt ELSE Loaded(file),
  promised <- confirmed

LEMMA SameFleetStep == Process!FleetStep => Facts!FleetStep
BY DEF Process!FleetStep, Facts!FleetStep, Process!exceptionVars, Facts!exceptionVars,
       Process!sentinelVars, Facts!sentinelVars, Process!lifecycleVars, Facts!lifecycleVars,
       Process!Fleet!PollStart, Facts!Fleet!PollStart, Process!Fleet!PollFails,
       Facts!Fleet!PollFails, Process!Fleet!Publish, Facts!Fleet!Publish,
       Process!Fleet!PollReturns, Facts!Fleet!PollReturns, Process!Fleet!Poll,
       Facts!Fleet!Poll, Process!Fleet!channelVars, Facts!Fleet!channelVars,
       Process!Fleet!Replies, Facts!Fleet!Replies, Process!Fleet!Snapshot,
       Facts!Fleet!Snapshot, Process!Fleet!Statuses, Facts!Fleet!Statuses,
       Process!Fleet!Tracked, Facts!Fleet!Tracked, Process!Fleet!NextOpen,
       Facts!Fleet!NextOpen, Process!Fleet!Edges, Facts!Fleet!Edges, Process!Fleet!Recovers,
       Facts!Fleet!Recovers, Process!Fleet!Opens, Facts!Fleet!Opens, Process!Fleet!Drop,
       Facts!Fleet!Drop, Process!Fleet!ComputeOpen, Facts!Fleet!ComputeOpen,
       Process!Fleet!Condition, Facts!Fleet!Condition, Process!Fleet!Registered,
       Facts!Fleet!Registered, Process!Fleet!ActiveCount, Facts!Fleet!ActiveCount,
       Process!Fleet!Kinds, Facts!Fleet!Kinds, Process!Fleet!Ids, Facts!Fleet!Ids,
       Process!Fleet!Listed, Facts!Fleet!Listed, Process!Fleet!BuildAlert,
       Facts!Fleet!BuildAlert, Process!Fleet!Rank, Facts!Fleet!Rank,
       Process!Fleet!Channel!Hand, Facts!Fleet!Channel!Hand, Process!Fleet!Channel!Deliver,
       Facts!Fleet!Channel!Deliver, Process!Fleet!Channel!Skip, Facts!Fleet!Channel!Skip,
       Process!Fleet!Channel!Raise, Facts!Fleet!Channel!Raise, Process!Fleet!Channel!Handed,
       Facts!Fleet!Channel!Handed, Process!Fleet!Channel!Idle, Facts!Fleet!Channel!Idle,
       Process!Fleet!Channel!IdsOf, Facts!Fleet!Channel!IdsOf,
       Process!Fleet!Channel!Pending, Facts!Fleet!Channel!Pending,
       Process!Fleet!Channel!IsNext, Facts!Fleet!Channel!IsNext,
       Process!Fleet!Channel!OtherTurn, Facts!Fleet!Channel!OtherTurn,
       Process!Fleet!Channel!Turn, Facts!Fleet!Channel!Turn, Process!Fleet!Channel!Effect,
       Facts!Fleet!Channel!Effect, Process!Fleet!Channel!Lost, Facts!Fleet!Channel!Lost,
       Process!Fleet!Channel!Reached, Facts!Fleet!Channel!Reached,
       Process!Fleet!Cardinality, Facts!Fleet!Cardinality

LEMMA SameExceptionStep == Process!ExceptionStep => Facts!ExceptionStep
BY DEF Process!ExceptionStep, Facts!ExceptionStep, Process!fleetVars, Facts!fleetVars,
       Process!sentinelVars, Facts!sentinelVars, Process!lifecycleVars, Facts!lifecycleVars,
       Process!Exceptions!ObserveRefused, Facts!Exceptions!ObserveRefused,
       Process!Exceptions!Sweep, Facts!Exceptions!Sweep, Process!Exceptions!Observe,
       Facts!Exceptions!Observe, Process!Exceptions!Publish, Facts!Exceptions!Publish,
       Process!Exceptions!Publishers, Facts!Exceptions!Publishers,
       Process!Exceptions!SweepTask, Facts!Exceptions!SweepTask,
       Process!Exceptions!channelVars, Facts!Exceptions!channelVars,
       Process!Exceptions!Tracked, Facts!Exceptions!Tracked, Process!Exceptions!Drop,
       Facts!Exceptions!Drop, Process!Exceptions!Swept, Facts!Exceptions!Swept,
       Process!Exceptions!Due, Facts!Exceptions!Due, Process!Exceptions!SweepEdges,
       Facts!Exceptions!SweepEdges, Process!Exceptions!ObserveEdges,
       Facts!Exceptions!ObserveEdges, Process!Exceptions!ObserveOpen,
       Facts!Exceptions!ObserveOpen, Process!Exceptions!Seen, Facts!Exceptions!Seen,
       Process!Exceptions!BuildAlert, Facts!Exceptions!BuildAlert,
       Process!Exceptions!Channel!Hand, Facts!Exceptions!Channel!Hand,
       Process!Exceptions!Channel!Deliver, Facts!Exceptions!Channel!Deliver,
       Process!Exceptions!Channel!Skip, Facts!Exceptions!Channel!Skip,
       Process!Exceptions!Channel!Raise, Facts!Exceptions!Channel!Raise,
       Process!Exceptions!Channel!Forget, Facts!Exceptions!Channel!Forget,
       Process!Exceptions!Channel!Handed, Facts!Exceptions!Channel!Handed,
       Process!Exceptions!Channel!Idle, Facts!Exceptions!Channel!Idle,
       Process!Exceptions!Channel!IdsOf, Facts!Exceptions!Channel!IdsOf,
       Process!Exceptions!Channel!Pending, Facts!Exceptions!Channel!Pending,
       Process!Exceptions!Channel!IsNext, Facts!Exceptions!Channel!IsNext,
       Process!Exceptions!Channel!OtherTurn, Facts!Exceptions!Channel!OtherTurn,
       Process!Exceptions!Channel!Turn, Facts!Exceptions!Channel!Turn,
       Process!Exceptions!Channel!Effect, Facts!Exceptions!Channel!Effect,
       Process!Exceptions!Channel!Lost, Facts!Exceptions!Channel!Lost,
       Process!Exceptions!Channel!Reached, Facts!Exceptions!Channel!Reached

LEMMA SameSentinelStep == Process!SentinelStep => Facts!SentinelStep
BY DEF Process!SentinelStep, Facts!SentinelStep, Process!fleetVars, Facts!fleetVars,
       Process!exceptionVars, Facts!exceptionVars, Process!lifecycleVars,
       Facts!lifecycleVars, Process!Heartbeat!PollStart, Facts!Heartbeat!PollStart,
       Process!Heartbeat!CallFails, Facts!Heartbeat!CallFails,
       Process!Heartbeat!CallReturns, Facts!Heartbeat!CallReturns,
       Process!Heartbeat!PostSucceeds, Facts!Heartbeat!PostSucceeds,
       Process!Heartbeat!PostFails, Facts!Heartbeat!PostFails, Process!Heartbeat!PostRaises,
       Facts!Heartbeat!PostRaises, Process!Heartbeat!Publish, Facts!Heartbeat!Publish,
       Process!Heartbeat!Poll, Facts!Heartbeat!Poll, Process!Heartbeat!Id,
       Facts!Heartbeat!Id, Process!Heartbeat!channelVars, Facts!Heartbeat!channelVars,
       Process!Heartbeat!Extended, Facts!Heartbeat!Extended, Process!Heartbeat!Opens,
       Facts!Heartbeat!Opens, Process!Heartbeat!BuildAlert, Facts!Heartbeat!BuildAlert,
       Process!Heartbeat!Channel!Hand, Facts!Heartbeat!Channel!Hand,
       Process!Heartbeat!Channel!Deliver, Facts!Heartbeat!Channel!Deliver,
       Process!Heartbeat!Channel!Skip, Facts!Heartbeat!Channel!Skip,
       Process!Heartbeat!Channel!Raise, Facts!Heartbeat!Channel!Raise,
       Process!Heartbeat!Channel!Forget, Facts!Heartbeat!Channel!Forget,
       Process!Heartbeat!Channel!Handed, Facts!Heartbeat!Channel!Handed,
       Process!Heartbeat!Channel!Idle, Facts!Heartbeat!Channel!Idle,
       Process!Heartbeat!Channel!IdsOf, Facts!Heartbeat!Channel!IdsOf,
       Process!Heartbeat!Channel!Pending, Facts!Heartbeat!Channel!Pending,
       Process!Heartbeat!Channel!IsNext, Facts!Heartbeat!Channel!IsNext,
       Process!Heartbeat!Channel!OtherTurn, Facts!Heartbeat!Channel!OtherTurn,
       Process!Heartbeat!Channel!Turn, Facts!Heartbeat!Channel!Turn,
       Process!Heartbeat!Channel!Effect, Facts!Heartbeat!Channel!Effect,
       Process!Heartbeat!Channel!Lost, Facts!Heartbeat!Channel!Lost,
       Process!Heartbeat!Channel!Reached, Facts!Heartbeat!Channel!Reached

LEMMA SameLifecycleStep == Process!LifecycleStep => Facts!LifecycleStep
BY DEF Process!LifecycleStep, Facts!LifecycleStep, Process!fleetVars, Facts!fleetVars,
       Process!exceptionVars, Facts!exceptionVars, Process!sentinelVars, Facts!sentinelVars,
       Process!Lifecycle!Receive, Facts!Lifecycle!Receive, Process!Lifecycle!Publish,
       Facts!Lifecycle!Publish, Process!Lifecycle!Ends, Facts!Lifecycle!Ends,
       Process!Lifecycle!Reaches, Facts!Lifecycle!Reaches, Process!Lifecycle!Mapped,
       Facts!Lifecycle!Mapped, Process!Lifecycle!BuildAlert, Facts!Lifecycle!BuildAlert,
       Process!Lifecycle!AlertId, Facts!Lifecycle!AlertId, Process!Lifecycle!EventType,
       Facts!Lifecycle!EventType, Process!Lifecycle!Severity, Facts!Lifecycle!Severity,
       Process!Lifecycle!SeverityForStateChange, Facts!Lifecycle!SeverityForStateChange,
       Process!Lifecycle!Attributes, Facts!Lifecycle!Attributes,
       Process!Lifecycle!OccurredAt, Facts!Lifecycle!OccurredAt, Process!Lifecycle!Stamped,
       Facts!Lifecycle!Stamped

LEMMA SameSilence ==
  ASSUME NEW n \in Names, NEW saved \in BOOLEAN
  PROVE  /\ Process!AddSilence(n, saved) => Facts!AddSilence(n, saved)
         /\ Process!ClearSilence(n, saved) => Facts!ClearSilence(n, saved)
BY DEF Process!AddSilence, Facts!AddSilence, Process!ClearSilence, Facts!ClearSilence,
       Process!sentinelVars, Facts!sentinelVars, Process!lifecycleVars, Facts!lifecycleVars,
       Process!Fleet!AddSilence, Facts!Fleet!AddSilence, Process!Fleet!ClearSilence,
       Facts!Fleet!ClearSilence, Process!Fleet!Drop, Facts!Fleet!Drop,
       Process!Fleet!Tracked, Facts!Fleet!Tracked, Process!Fleet!Ids, Facts!Fleet!Ids,
       Process!Fleet!Kinds, Facts!Fleet!Kinds, Process!Fleet!Listed, Facts!Fleet!Listed,
       Process!Fleet!channelVars, Facts!Fleet!channelVars, Process!Fleet!Channel!Turn,
       Facts!Fleet!Channel!Turn, Process!Fleet!Channel!Forget, Facts!Fleet!Channel!Forget,
       Process!Fleet!Channel!Lost, Facts!Fleet!Channel!Lost, Process!Exceptions!AddSilence,
       Facts!Exceptions!AddSilence, Process!Exceptions!ClearSilence,
       Facts!Exceptions!ClearSilence, Process!Exceptions!Drop, Facts!Exceptions!Drop,
       Process!Exceptions!Tracked, Facts!Exceptions!Tracked, Process!Exceptions!channelVars,
       Facts!Exceptions!channelVars, Process!Exceptions!Channel!Turn,
       Facts!Exceptions!Channel!Turn, Process!Exceptions!Channel!Forget,
       Facts!Exceptions!Channel!Forget, Process!Exceptions!Channel!Lost,
       Facts!Exceptions!Channel!Lost

LEMMA SameLife ==
  /\ Process!Start => Facts!Start
  /\ Process!Crash => Facts!Crash
  /\ Process!LinkChange => Facts!LinkChange
  /\ Process!Tick => Facts!Tick
BY DEF Process!Start, Facts!Start, Process!Crash, Facts!Crash, Process!LinkChange,
       Facts!LinkChange, Process!Tick, Facts!Tick, Process!fleetVars, Facts!fleetVars,
       Process!lifecycleVars, Facts!lifecycleVars, Process!Fleet!Start, Facts!Fleet!Start,
       Process!Fleet!Crash, Facts!Fleet!Crash, Process!Fleet!LinkChange,
       Facts!Fleet!LinkChange, Process!Fleet!Tracked, Facts!Fleet!Tracked,
       Process!Fleet!Ids, Facts!Fleet!Ids, Process!Fleet!Kinds, Facts!Fleet!Kinds,
       Process!Fleet!Listed, Facts!Fleet!Listed, Process!Fleet!channelVars,
       Facts!Fleet!channelVars, Process!Fleet!Poll, Facts!Fleet!Poll,
       Process!Fleet!Channel!Down, Facts!Fleet!Channel!Down, Process!Fleet!Channel!Lost,
       Facts!Fleet!Channel!Lost, Process!Fleet!Channel!IdsOf, Facts!Fleet!Channel!IdsOf,
       Process!Fleet!Channel!Pending, Facts!Fleet!Channel!Pending,
       Process!Fleet!Channel!LinkChange, Facts!Fleet!Channel!LinkChange,
       Process!Exceptions!Start, Facts!Exceptions!Start, Process!Exceptions!Crash,
       Facts!Exceptions!Crash, Process!Exceptions!LinkChange, Facts!Exceptions!LinkChange,
       Process!Exceptions!Tick, Facts!Exceptions!Tick, Process!Exceptions!Older,
       Facts!Exceptions!Older, Process!Exceptions!Tracked, Facts!Exceptions!Tracked,
       Process!Exceptions!Publishers, Facts!Exceptions!Publishers,
       Process!Exceptions!SweepTask, Facts!Exceptions!SweepTask,
       Process!Exceptions!channelVars, Facts!Exceptions!channelVars,
       Process!Exceptions!Channel!Down, Facts!Exceptions!Channel!Down,
       Process!Exceptions!Channel!Lost, Facts!Exceptions!Channel!Lost,
       Process!Exceptions!Channel!IdsOf, Facts!Exceptions!Channel!IdsOf,
       Process!Exceptions!Channel!Pending, Facts!Exceptions!Channel!Pending,
       Process!Exceptions!Channel!LinkChange, Facts!Exceptions!Channel!LinkChange,
       Process!Heartbeat!Start, Facts!Heartbeat!Start, Process!Heartbeat!Crash,
       Facts!Heartbeat!Crash, Process!Heartbeat!LinkChange, Facts!Heartbeat!LinkChange,
       Process!Heartbeat!Tick, Facts!Heartbeat!Tick, Process!Heartbeat!Later,
       Facts!Heartbeat!Later, Process!Heartbeat!Id, Facts!Heartbeat!Id,
       Process!Heartbeat!Poll, Facts!Heartbeat!Poll, Process!Heartbeat!channelVars,
       Facts!Heartbeat!channelVars, Process!Heartbeat!Channel!Down,
       Facts!Heartbeat!Channel!Down, Process!Heartbeat!Channel!Lost,
       Facts!Heartbeat!Channel!Lost, Process!Heartbeat!Channel!IdsOf,
       Facts!Heartbeat!Channel!IdsOf, Process!Heartbeat!Channel!Pending,
       Facts!Heartbeat!Channel!Pending, Process!Heartbeat!Channel!LinkChange,
       Facts!Heartbeat!Channel!LinkChange, Process!Lifecycle!Start, Facts!Lifecycle!Start,
       Process!Lifecycle!Crash, Facts!Lifecycle!Crash, Process!Lifecycle!LinkChange,
       Facts!Lifecycle!LinkChange

LEMMA SameInit == Process!Init => Facts!Init
BY DEF Process!Init, Facts!Init, Process!Fleet!Init, Facts!Fleet!Init, Process!Fleet!Ids,
       Facts!Fleet!Ids, Process!Fleet!Kinds, Facts!Fleet!Kinds, Process!Fleet!Poll,
       Facts!Fleet!Poll, Process!Fleet!Channel!Init, Facts!Fleet!Channel!Init,
       Process!Exceptions!Init, Facts!Exceptions!Init, Process!Exceptions!Publishers,
       Facts!Exceptions!Publishers, Process!Exceptions!SweepTask,
       Facts!Exceptions!SweepTask, Process!Exceptions!Channel!Init,
       Facts!Exceptions!Channel!Init, Process!Heartbeat!Init, Facts!Heartbeat!Init,
       Process!Heartbeat!Id, Facts!Heartbeat!Id, Process!Heartbeat!Poll,
       Facts!Heartbeat!Poll, Process!Heartbeat!Channel!Init, Facts!Heartbeat!Channel!Init,
       Process!Lifecycle!Init, Facts!Lifecycle!Init, Process!Lifecycle!Stamped,
       Facts!Lifecycle!Stamped

LEMMA SameVars == UNCHANGED Process!vars => UNCHANGED Facts!vars
BY DEF Process!vars, Facts!vars, Process!fleetVars, Facts!fleetVars, Process!exceptionVars,
       Facts!exceptionVars, Process!sentinelVars, Facts!sentinelVars,
       Process!lifecycleVars, Facts!lifecycleVars

LEMMA SameSpec == Process!Spec => Facts!Spec
<1>1. Process!Next => Facts!Next
  BY SameFleetStep, SameExceptionStep, SameSentinelStep, SameLifecycleStep, SameSilence,
     SameLife DEF Process!Next, Facts!Next
<1> QED BY <1>1, SameInit, SameVars, PTL DEF Process!Spec, Facts!Spec

LEMMA PartsFacts == Facts!PartsAssumption /\ Facts!DeploymentAssumption
BY ProcessAssumption
   DEF Process!PartsAssumption, Facts!PartsAssumption, Process!DeploymentAssumption,
       Facts!DeploymentAssumption, Process!Fleet!FleetAssumption,
       Facts!Fleet!FleetAssumption, Process!Fleet!NoAlertAssumption,
       Facts!Fleet!NoAlertAssumption, Process!Fleet!MonitorAssumption,
       Facts!Fleet!MonitorAssumption, Process!Fleet!Alert, Facts!Fleet!Alert,
       Process!Fleet!Ids, Facts!Fleet!Ids, Process!Fleet!Kinds, Facts!Fleet!Kinds,
       Process!Fleet!Resolutions, Facts!Fleet!Resolutions, Process!Fleet!IsFiniteSet,
       Facts!Fleet!IsFiniteSet, Process!Fleet!Cardinality, Facts!Fleet!Cardinality,
       Process!Exceptions!FingerprintAssumption, Facts!Exceptions!FingerprintAssumption,
       Process!Exceptions!NoAlertAssumption, Facts!Exceptions!NoAlertAssumption,
       Process!Exceptions!MonitorAssumption, Facts!Exceptions!MonitorAssumption,
       Process!Exceptions!Alert, Facts!Exceptions!Alert, Process!Exceptions!Entry,
       Facts!Exceptions!Entry, Process!Exceptions!SweepTask, Facts!Exceptions!SweepTask,
       Process!Heartbeat!SentinelAssumption, Facts!Heartbeat!SentinelAssumption,
       Process!Heartbeat!NoAlertAssumption, Facts!Heartbeat!NoAlertAssumption,
       Process!Heartbeat!Alert, Facts!Heartbeat!Alert, Process!Heartbeat!Id,
       Facts!Heartbeat!Id, Process!Lifecycle!WellFormed, Facts!Lifecycle!WellFormed,
       Process!Lifecycle!Event, Facts!Lifecycle!Event, Process!Lifecycle!Types,
       Facts!Lifecycle!Types, Process!Lifecycle!States, Facts!Lifecycle!States

LEMMA PromisedFacts == ProcessSpec => []Facts!PromisedHolds
<1>1. Facts!Spec => []Facts!PromisedHolds
  BY PartsFacts, Facts!PromisedHoldsAlways
     DEF Facts!PartsAssumption, Facts!DeploymentAssumption
<1> QED BY <1>1, SameSpec, ProcessRefinement, PTL DEF ImplementsMonitor

\* A confirmed silence is in force at every file operation of every later call, and
\* a process that is killed there comes up with it.
THEOREM ConfirmedHoldsAlways == ProcessSpec => []ConfirmedHolds
<1>1. IInv /\ Readable /\ Facts!PromisedHolds => ConfirmedHolds
  <2> SUFFICES ASSUME IInv, Readable, Facts!PromisedHolds, NEW n \in confirmed
               PROVE  /\ file # Corrupt
                      /\ n \in Loaded(file)
                      /\ up => n \in silenced \/ call = [op |-> "clear", name |-> n]
                      /\ n \in Services => fleetOpen[n] = NoAlert
                      /\ \A k \in Keys : ServiceOf[k] = n => exceptionOpen[k] = NoAlert
    BY DEF ConfirmedHolds, Readable
  <2>1. /\ n \in IF file = Corrupt THEN Corrupt ELSE Loaded(file)
        /\ up => n \in IF pc \in Saving THEN before ELSE silenced
        /\ n \in Services => fleetOpen[n] = NoAlert
        /\ \A k \in Keys : ServiceOf[k] = n => exceptionOpen[k] = NoAlert
    BY DEF Facts!PromisedHolds
  <2>2. up => n \in silenced \/ call = [op |-> "clear", name |-> n]
    BY <2>1 DEF IInv, Steps, Saving, Calls, TypeOK
  <2> QED BY <2>1, <2>2 DEF Readable
<1> QED BY <1>1, StoreInvariance, ReadableAlways, PromisedFacts, PTL

-----------------------------------------------------------------------------
LEMMA SameView == Facts!ListIsConsumersView => Process!ListIsConsumersView
BY DEF Process!ListIsConsumersView, Facts!ListIsConsumersView, Process!Settled,
       Facts!Settled, Process!AllAgree, Facts!AllAgree, Process!Standing, Facts!Standing,
       Process!ListOpenAlerts, Facts!ListOpenAlerts, Process!Fleet!Ids, Facts!Fleet!Ids,
       Process!Fleet!Kinds, Facts!Fleet!Kinds, Process!Fleet!Listed, Facts!Fleet!Listed,
       Process!Exceptions!Listed, Facts!Exceptions!Listed, Process!Heartbeat!Id,
       Facts!Heartbeat!Id, Process!Fleet!Channel!Pending, Facts!Fleet!Channel!Pending,
       Process!Fleet!Poll, Facts!Fleet!Poll, Process!Exceptions!Channel!Pending,
       Facts!Exceptions!Channel!Pending, Process!Exceptions!Publishers,
       Facts!Exceptions!Publishers, Process!Exceptions!SweepTask,
       Facts!Exceptions!SweepTask, Process!Heartbeat!Channel!Pending,
       Facts!Heartbeat!Channel!Pending, Process!Heartbeat!Poll, Facts!Heartbeat!Poll

\* At every file operation of a silence RPC, and where the process is killed in one,
\* the joint list of open alerts is what the consumer of the stream holds, once
\* nothing is on its way and where no alert was lost, raced or dropped.
THEOREM ListIsConsumersViewAlways == ProcessSpec => []Process!ListIsConsumersView
<1>1. Facts!Spec => []Facts!ListIsConsumersView
  BY PartsFacts, Facts!ListIsConsumersViewHolds
     DEF Facts!PartsAssumption, Facts!DeploymentAssumption
<1> QED BY <1>1, SameView, SameSpec, ProcessRefinement, PTL DEF ImplementsMonitor

\* No task and no handler run sets out to publish about a service whose silence was
\* confirmed and not cleared, whatever a store that writes files went through since:
\* calls that raised, kills in the middle of a save, restarts.
THEOREM PromisedSilenceAlways == ProcessSpec => Process!PromisedSilence
<1>1. Facts!Spec => Facts!PromisedSilence
  BY PartsFacts, Facts!PromisedSilenceHolds
     DEF Facts!PartsAssumption, Facts!DeploymentAssumption
<1> DEFINE NotAbout ==
             \A n \in confirmed :
               /\ \A a \in Process!Fleet!Channel!Pending' \ Process!Fleet!Channel!Pending :
                    a.id[1] # n
               /\ \A a \in Process!Exceptions!Channel!Pending'
                             \ Process!Exceptions!Channel!Pending : ServiceOf[a.id] # n
               /\ \A r \in Runs : handling'[r] \in {handling[r], NoAlert}
                                  \/ handling'[r].alert.id.service # n
           AlsoNotAbout ==
             \A n \in confirmed :
               /\ \A a \in Facts!Fleet!Channel!Pending' \ Facts!Fleet!Channel!Pending :
                    a.id[1] # n
               /\ \A a \in Facts!Exceptions!Channel!Pending'
                             \ Facts!Exceptions!Channel!Pending : ServiceOf[a.id] # n
               /\ \A r \in Runs : handling'[r] \in {handling[r], NoAlert}
                                  \/ handling'[r].alert.id.service # n
<1>2. [AlsoNotAbout]_(Facts!vars) => [NotAbout]_(Process!vars)
  BY DEF Process!vars, Facts!vars, Process!fleetVars, Facts!fleetVars,
         Process!exceptionVars, Facts!exceptionVars, Process!sentinelVars,
         Facts!sentinelVars, Process!lifecycleVars, Facts!lifecycleVars,
         Process!Fleet!Channel!Pending, Facts!Fleet!Channel!Pending, Process!Fleet!Poll,
         Facts!Fleet!Poll, Process!Exceptions!Channel!Pending,
         Facts!Exceptions!Channel!Pending, Process!Exceptions!Publishers,
         Facts!Exceptions!Publishers, Process!Exceptions!SweepTask,
         Facts!Exceptions!SweepTask
<1> QED BY <1>1, <1>2, SameSpec, ProcessRefinement, PTL
        DEF ImplementsMonitor, Facts!PromisedSilence, Process!PromisedSilence
=============================================================================
