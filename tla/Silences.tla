------------------------------- MODULE Silences -------------------------------
(* What the silences RPCs promise: one set of silenced names in memory, and a *)
(* JSON file that a restart reads.  Every call is one step here; SilenceStore *)
(* shows the file operations below it.                                        *)
CONSTANTS Names,     \* normalized, nonempty service names
          Corrupt    \* a file that json.load or the entries' reader rejects

VARIABLES up,        \* the service runs
          silenced,  \* SilenceStore._silenced
          file       \* what a restart would read: a set of names, or Corrupt

vars == <<up, silenced, file>>

Init == /\ up = FALSE
        /\ silenced = {}
        /\ file \in (SUBSET Names) \cup {Corrupt}

\* add: the memory first, then the file; saved is FALSE when _save raises.
Add(n, saved) ==
  /\ up
  /\ silenced' = silenced \cup {n}
  /\ file' = IF saved THEN silenced' ELSE file
  /\ UNCHANGED up

\* clear writes the file whether or not the name was silenced.
Clear(n, saved) ==
  /\ up
  /\ silenced' = silenced \ {n}
  /\ file' = IF saved THEN silenced' ELSE file
  /\ UNCHANGED up

Crash == /\ up
         /\ up' = FALSE
         /\ silenced' = {}
         /\ UNCHANGED file

\* A restart takes the file as it is and does not start on a corrupt one.
Start == /\ ~up
         /\ file # Corrupt
         /\ up' = TRUE
         /\ silenced' = file
         /\ UNCHANGED file

\* The operator replaces the file by hand; a running service does not notice.
Edit(content) == /\ file' = content
                 /\ UNCHANGED <<up, silenced>>

Next == \/ \E n \in Names, saved \in BOOLEAN : Add(n, saved) \/ Clear(n, saved)
        \/ Crash
        \/ Start
        \/ \E content \in (SUBSET Names) \cup {Corrupt} : Edit(content)

Spec == Init /\ [][Next]_vars
=============================================================================
