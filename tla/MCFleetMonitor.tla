---------------------------- MODULE MCFleetMonitor ----------------------------
EXTENDS FleetMonitor, TLC

CONSTANTS s1, s2, i1, i2

\* One service that both of two instances satisfy.
MCOneService == {s1}
MCTwoInstances == {i1, i2}
MCMinTwo == s1 :> 2
MCPositionOne == s1 :> 1

\* Two services that one instance each satisfies.
MCServices == {s1, s2}
MCInstances == {i1}
MCMinActive == s1 :> 1 @@ s2 :> 1
MCPosition == s1 :> 1 @@ s2 :> 2
=============================================================================
