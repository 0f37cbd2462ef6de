------------------------- MODULE MCFleetStateTracker -------------------------
EXTENDS FleetStateTracker, TLC

CONSTANTS s1, s2, i1, i2

MCServices == {s1, s2}
MCInstances == {i1, i2}
\* One service that a single instance satisfies, one that needs both.
MCMinActive == s1 :> 1 @@ s2 :> 2
MCPosition == s1 :> 1 @@ s2 :> 2
=============================================================================
