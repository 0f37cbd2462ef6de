---------------------------- MODULE MCFileMonitor -----------------------------
EXTENDS FileMonitor, TLC

CONSTANTS s1, padded, i1, k1, h1

MCNames == {s1}
MCRaw == {s1, padded, Blank}
MCNormalize == s1 :> s1 @@ padded :> s1 @@ Blank :> Blank
MCMinActive == s1 :> 1
MCPosition == s1 :> 1
MCServiceOf == k1 :> s1

\* One lifecycle event of the service, in another spelling.
MCEvents == {[type |-> "registered", service |-> padded, instance |-> i1, time |-> 1,
              before |-> "active", after |-> "active", extras |-> {}]}
MCDeployments ==
  {[parts |-> {"fleet"}, events |-> {}, drops |-> FALSE, typed |-> {k1}],
   [parts |-> {}, events |-> MCEvents, drops |-> TRUE, typed |-> {}]}
=============================================================================
