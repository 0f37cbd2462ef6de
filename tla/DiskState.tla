------------------------------- MODULE DiskState -------------------------------
(* The judgment of disk_state.py as operators: what was measured of each      *)
(* configured path and the table of open alerts give the alerts to emit and   *)
(* the next table.                                                            *)
EXTENDS Integers, FiniteSets

CONSTANTS Paths,       \* host-check.paths
          Position,    \* path -> its place in that list
          Percents,    \* used_percent values that a measurement may give
          Warning,     \* warning_used_percent
          Critical,    \* critical_used_percent
          Errors,      \* nonempty OSError texts
          NoError,     \* the empty text
          NoAlert      \* "no open alert"

\* What setup makes sure of: it refuses other thresholds, and a list without paths.
ASSUME DiskAssumption ==
  /\ IsFiniteSet(Paths)
  /\ Position \in [Paths -> 1..Cardinality(Paths)]
  /\ \A p, q \in Paths : Position[p] = Position[q] => p = q
  /\ Percents \subseteq 0..100
  /\ Warning \in 1..100
  /\ Critical \in Warning..100
  /\ Errors \cap (0..100) = {}
  /\ NoError \notin Errors

Kinds == {"high", "unavailable"}
Ids == Paths \X Kinds                    \* disk:<host>:<path>[:unavailable]
Severities == {"warning", "critical"}

\* detail is the used_percent or the error text of the alert's attributes, rank
\* the place of the alert in the list that evaluate returns.
Alert == [id : Ids, resolution : {"open", "recovered"},
          severity : Severities \cup {"low"},
          detail : (0..100) \cup Errors \cup {NoError},
          rank : 1..(4 * Cardinality(Paths))]

ASSUME NoAlertAssumption == NoAlert \notin Alert

\* collect_disk_state measures every path: a percentage, or the text of an OSError.
Mounts == [Paths -> Percents \cup Errors]

\* Slip: only usage above a threshold counts, not at it.
SeverityForUsage_Above(used) ==
  IF used > Critical THEN "critical" ELSE IF used > Warning THEN "warning" ELSE "none"

SeverityForUsage(used) ==
  IF used >= Critical THEN "critical" ELSE IF used >= Warning THEN "warning" ELSE "none"

\* The severity under which a reading belongs to a table, "none" if it does not:
\* a path with an error is unavailable and never high.
Judged(reading, kind) ==
  CASE reading \in Errors /\ kind = "unavailable" -> "critical"
    [] reading \in Errors /\ kind = "high" -> "none"
    [] reading \notin Errors /\ kind = "unavailable" -> "none"
    [] OTHER -> SeverityForUsage(reading)

UsedPercent(reading) == IF reading \in Errors THEN 0 ELSE reading

\* Slip: all the opens of an evaluation precede its recovers.
Group_OpensFirst(kind, resolution) ==
  CASE kind = "high" /\ resolution = "open" -> 0
    [] kind = "unavailable" /\ resolution = "open" -> 1
    [] kind = "high" /\ resolution = "recovered" -> 2
    [] OTHER -> 3

\* High recovers, unavailable recovers, high opens, unavailable opens: four loops.
Group(kind, resolution) ==
  CASE kind = "high" /\ resolution = "recovered" -> 0
    [] kind = "unavailable" /\ resolution = "recovered" -> 1
    [] kind = "high" /\ resolution = "open" -> 2
    [] OTHER -> 3

BuildAlert(p, kind, reading, resolution) ==
  [id |-> <<p, kind>>, resolution |-> resolution,
   severity |-> IF resolution = "open" THEN Judged(reading, kind) ELSE "low",
   detail |-> IF kind = "high" THEN UsedPercent(reading)
              ELSE IF resolution = "open" THEN reading ELSE NoError,
   rank |-> Group(kind, resolution) * Cardinality(Paths) + Position[p]]

\* A condition leaves its table.
Recovers(open, mounts) ==
  {BuildAlert(id[1], id[2], mounts[id[1]], "recovered") :
     id \in {d \in Ids : open[d] # NoAlert /\ Judged(mounts[d[1]], d[2]) = "none"}}

\* Slip: an alert that is open already is not opened at another severity.
Opening_Once(open, mounts) ==
  {d \in Ids : Judged(mounts[d[1]], d[2]) # "none" /\ open[d] = NoAlert}

\* The ids that open: conditions that are new, or whose severity is another one.
Opening(open, mounts) ==
  {d \in Ids : LET severity == Judged(mounts[d[1]], d[2])
               IN  /\ severity # "none"
                   /\ open[d] = NoAlert \/ open[d].severity # severity}

Opens(open, mounts) ==
  {BuildAlert(id[1], id[2], mounts[id[1]], "open") : id \in Opening(open, mounts)}

Edges(open, mounts) == Recovers(open, mounts) \cup Opens(open, mounts)

\* Slip: the table keeps a condition that has recovered.
NextOpen_Kept(open, mounts) ==
  [d \in Ids |-> IF d \in Opening(open, mounts)
                 THEN BuildAlert(d[1], d[2], mounts[d[1]], "open") ELSE open[d]]

\* Slip: the recover of a condition takes its place in the table.
NextOpen_Closed(open, mounts) ==
  [d \in Ids |-> IF Judged(mounts[d[1]], d[2]) = "none"
                 THEN IF open[d] = NoAlert THEN NoAlert
                      ELSE BuildAlert(d[1], d[2], mounts[d[1]], "recovered")
                 ELSE IF d \in Opening(open, mounts)
                      THEN BuildAlert(d[1], d[2], mounts[d[1]], "open") ELSE open[d]]

\* A condition that persists at its severity keeps the alert of its opening.
NextOpen(open, mounts) ==
  [d \in Ids |-> IF Judged(mounts[d[1]], d[2]) = "none" THEN NoAlert
                 ELSE IF d \in Opening(open, mounts)
                      THEN BuildAlert(d[1], d[2], mounts[d[1]], "open")
                      ELSE open[d]]
=============================================================================
