----------------------------- MODULE MCHostCheck -----------------------------
EXTENDS HostCheck, TLC

CONSTANTS p1, e1

MCPaths == {p1}
MCPosition == p1 :> 1
\* Two percentages below the thresholds and two for each severity, each threshold
\* and the number before it among them.
MCPercents == {0, 89, 90, 94, 95, 100}
=============================================================================
