------------------------------- MODULE MCMonitor -------------------------------
EXTENDS Monitor, TLC

CONSTANTS s1, padded, i1, k1, h1, r1, r2

MCNames == {s1}
MCRaw == {s1, padded, Blank}
MCNormalize == s1 :> s1 @@ padded :> s1 @@ Blank :> Blank
MCMinActive == s1 :> 1
MCPosition == s1 :> 1
MCServiceOf == k1 :> s1

\* A name that the silences know in another spelling; the other types of events;
\* one that does not say when it happened; and events that are refused.
WentDown == [type |-> "status_changed", service |-> padded, instance |-> i1, time |-> 1,
             before |-> "active", after |-> "down", extras |-> {"reason"}]
Registered == [WentDown EXCEPT !.type = "registered", !.service = s1, !.extras = {"host"}]
Left == [WentDown EXCEPT !.type = "deregistered", !.time = NoTime, !.extras = {}]
Refused == {NotADict, [WentDown EXCEPT !.time = BadTime],
            [WentDown EXCEPT !.service = Blank], [WentDown EXCEPT !.after = Blank]}
MCEvents == {WentDown, Registered, Left} \cup Refused

MCDeployments ==
  {[parts |-> {"fleet"}, events |-> {}, drops |-> TRUE, typed |-> {k1}],
   [parts |-> {"sentinel"}, events |-> {}, drops |-> TRUE, typed |-> {}],
   [parts |-> {}, events |-> MCEvents, drops |-> TRUE, typed |-> {k1}]}
=============================================================================
