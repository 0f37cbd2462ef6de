----------------------------- MODULE SilenceStore -----------------------------
(* SilenceStore of silences.py at the grain of its file operations.  Nothing  *)
(* in a call awaits, so no other handler runs between two of its steps; what  *)
(* can come between them is the death of the process, a file operation that   *)
(* raises, and an operator who edits the file.  The operating system stays    *)
(* up: a kill loses the process, not what it has handed to the file system.   *)
CONSTANTS Raw,        \* service_name arguments, and entries an editor may write
          Names,      \* those that are nonempty and carry no outer blanks
          Blank,      \* the empty name
          Normalize,  \* _normalize_service_name: strip
          Absent,     \* no file
          Corrupt,    \* a file that _load raises on
          None

ASSUME StoreAssumption ==
  /\ Names \subseteq Raw
  /\ Blank \in Raw \ Names
  /\ Normalize \in [Raw -> Names \cup {Blank}]
  /\ \A n \in Names \cup {Blank} : Normalize[n] = n
  /\ \A content \in SUBSET Raw : content \notin {Absent, Corrupt, None}
  /\ Absent # Corrupt

VARIABLES
  up,        \* setup has built the store and the process runs
  silenced,  \* _silenced
  file,      \* content of _path
  temp,      \* content of the temporary file of the save under way, or None
  pc,        \* "idle", or the next file operation of _save
  call,      \* the call under way: its operation and name
  before,    \* _silenced when that call began, {} between calls
  outcome,   \* "saved": memory and file were last made equal; "raised": a save
             \* failed since; "edited": an operator changed the file since
  promised,  \* names an add has saved and neither a clear nor an edit touched since
  revoked    \* names a clear has saved and neither an add nor an edit touched since

vars == <<up, silenced, file, temp, pc, call, before, outcome, promised, revoked>>
history == <<outcome, promised, revoked>>

Kept == Names \cup {Blank}        \* what _silenced may hold: _load keeps blanks
Contents == (SUBSET Raw) \cup {Absent, Corrupt}
Calls == [op : {"add", "clear"}, name : Names]
Saving == {"mkstemp", "write", "replace"}

\* Slip: the entries of the file are not normalized.
Loaded_AsWritten(content) == IF content = Absent THEN {} ELSE content

\* What _load makes of a readable file.
Loaded(content) == IF content = Absent THEN {} ELSE {Normalize[r] : r \in content}

TypeOK == /\ up \in BOOLEAN
          /\ silenced \in SUBSET Kept
          /\ file \in Contents
          /\ temp \in (SUBSET Kept) \cup {None}
          /\ pc \in Saving \cup {"idle"}
          /\ call \in Calls \cup {None}
          /\ before \in SUBSET Kept
          /\ outcome \in {"saved", "raised", "edited"}
          /\ promised \in SUBSET Names
          /\ revoked \in SUBSET Names

Init == /\ up = FALSE
        /\ silenced = {}
        /\ file \in Contents
        /\ temp = None
        /\ pc = "idle"
        /\ call = None
        /\ before = {}
        /\ outcome = "edited"
        /\ promised = {}
        /\ revoked = {}

\* add and clear refuse a name that normalizes to nothing.
Call(op, r) ==
  /\ up
  /\ pc = "idle"
  /\ Normalize[r] # Blank
  /\ call' = [op |-> op, name |-> Normalize[r]]
  /\ before' = silenced
  /\ pc' = "mkstemp"
  /\ UNCHANGED <<up, file, temp, outcome>>

\* add: the name is silenced in memory before anything is written.
Add(r) == /\ Call("add", r)
          /\ silenced' = silenced \cup {Normalize[r]}
          /\ revoked' = revoked \ {Normalize[r]}
          /\ UNCHANGED promised

\* Slip: clear returns at once when the name is not silenced.
Clear_NothingToDo(r) ==
  \/ /\ Normalize[r] \in silenced
     /\ Call("clear", r)
     /\ silenced' = silenced \ {Normalize[r]}
     /\ promised' = promised \ {Normalize[r]}
     /\ UNCHANGED revoked
  \/ /\ up
     /\ pc = "idle"
     /\ Normalize[r] \notin silenced
     /\ outcome' = "saved"
     /\ UNCHANGED <<up, silenced, file, temp, pc, call, before, promised, revoked>>

\* clear: both branches save, the one for a name that is not silenced too.
Clear(r) == /\ Call("clear", r)
            /\ silenced' = silenced \ {Normalize[r]}
            /\ promised' = promised \ {Normalize[r]}
            /\ UNCHANGED revoked

\* Slip: the real file is opened for writing, which truncates it.
MakeTemp_InPlace == /\ pc = "mkstemp"
                    /\ file' = Corrupt
                    /\ temp' = {}
                    /\ pc' = "write"
                    /\ UNCHANGED <<up, silenced, call, before, history>>

\* makedirs and mkstemp: an empty file beside the real one.
MakeTemp == /\ pc = "mkstemp"
            /\ temp' = {}
            /\ pc' = "write"
            /\ UNCHANGED <<up, silenced, file, call, before, history>>

\* Slip: the data to write is taken before the name is added or removed.
WriteTemp_Early == /\ pc = "write"
                   /\ temp' = before
                   /\ pc' = "replace"
                   /\ UNCHANGED <<up, silenced, file, call, before, history>>

\* json.dump of list(), and the close that flushes it.
WriteTemp == /\ pc = "write"
             /\ temp' = silenced
             /\ pc' = "replace"
             /\ UNCHANGED <<up, silenced, file, call, before, history>>

\* os.replace, after which the call returns.
Replace == /\ pc = "replace"
           /\ file' = temp
           /\ temp' = None
           /\ pc' = "idle"
           /\ call' = None
           /\ outcome' = "saved"
           /\ promised' = IF call.op = "add" THEN promised \cup {call.name} ELSE promised
           /\ revoked' = IF call.op = "clear" THEN revoked \cup {call.name} ELSE revoked
           /\ before' = {}
           /\ UNCHANGED <<up, silenced>>

\* An OSError in _save: the temporary file is unlinked, the memory keeps the
\* change and the caller gets the exception.
Raise == /\ pc \in Saving
         /\ temp' = None
         /\ pc' = "idle"
         /\ call' = None
         /\ before' = {}
         /\ outcome' = IF outcome = "edited" THEN "edited" ELSE "raised"
         /\ UNCHANGED <<up, silenced, file, promised, revoked>>

\* The process dies, maybe within a save; its temporary file is never read.
Crash == /\ up
         /\ up' = FALSE
         /\ silenced' = {}
         /\ temp' = None
         /\ pc' = "idle"
         /\ call' = None
         /\ before' = {}
         /\ UNCHANGED <<file, history>>

\* setup: _load raises on a corrupt file and the service does not come up.
Start == /\ ~up
         /\ file # Corrupt
         /\ up' = TRUE
         /\ silenced' = Loaded(file)
         /\ outcome' = "saved"
         /\ UNCHANGED <<file, temp, pc, call, before, promised, revoked>>

\* An operator writes or removes the file.
Edit(content) == /\ file' = content
                 /\ outcome' = "edited"
                 /\ promised' = {}
                 /\ revoked' = {}
                 /\ UNCHANGED <<up, silenced, temp, pc, call, before>>

Next == \/ \E r \in Raw : Add(r) \/ Clear(r)
        \/ MakeTemp \/ WriteTemp \/ Replace \/ Raise
        \/ Crash
        \/ Start
        \/ \E content \in Contents : Edit(content)

Spec == Init /\ [][Next]_vars

-----------------------------------------------------------------------------
\* A silence that was saved survives every later failure: whatever raises or
\* dies, and wherever in a later save, a restart still reads the saved adds and
\* still does not read the saved clears.  In particular the code itself never
\* leaves a file that stops the service from starting.
Durable ==
  /\ file = Corrupt => outcome = "edited"
  /\ promised \cup revoked # {} =>
       /\ file # Corrupt
       /\ promised \subseteq Loaded(file)
       /\ revoked \cap Loaded(file) = {}

\* After a call that returned normally, or a start, memory and file agree, even
\* when earlier saves raised: each save writes the whole set, and clear saves
\* also when it has nothing to remove, so one good call repairs the file.
SavedMeansEqual ==
  up /\ pc = "idle" /\ outcome = "saved" => file # Corrupt /\ silenced = Loaded(file)

Store == INSTANCE Silences WITH
  Names <- Kept,
  silenced <- IF pc \in Saving THEN before ELSE silenced,
  file <- IF file = Corrupt THEN Corrupt ELSE Loaded(file)

\* The file operations of a call take effect as one step (os.replace, or the
\* exception): a crash never exposes a state in between.
ImplementsSilences == Store!Spec
=============================================================================
