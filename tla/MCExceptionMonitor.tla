-------------------------- MODULE MCExceptionMonitor --------------------------
EXTENDS ExceptionMonitor, TLC

CONSTANTS s1, s2, k1, k2, i1, h1, h2

MCServices == {s1, s2}
MCKeys == {k1, k2}
MCInstances == {i1}
MCServiceOf == k1 :> s1 @@ k2 :> s2

\* Two fingerprints of one service.
MCOneService == {s1}
MCOneServiceOf == k1 :> s1 @@ k2 :> s1
=============================================================================
