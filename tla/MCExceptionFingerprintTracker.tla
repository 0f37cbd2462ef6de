-------------------- MODULE MCExceptionFingerprintTracker --------------------
EXTENDS ExceptionFingerprintTracker, TLC

CONSTANTS s1, s2, k1, k2, i1, i2

MCServices == {s1, s2}
MCKeys == {k1, k2}
MCInstances == {i1, i2}
MCServiceOf == k1 :> s1 @@ k2 :> s2
=============================================================================
