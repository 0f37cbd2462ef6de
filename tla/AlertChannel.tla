----------------------------- MODULE AlertChannel -----------------------------
(* How the alerts of one tracker call reach a consumer.  The service's loops  *)
(*     for alert in alerts: await self._publish_alert_normalized(alert)       *)
(* send a batch one alert at a time; every await lets other handlers and      *)
(* tasks run.  A batch is the set of its alerts: rank is the place of an      *)
(* alert in the list.  The consumer applies what it receives in the order it  *)
(* was published: per id it holds the last open alert, or none once recovered.*)
EXTENDS Integers

CONSTANTS Publishers,  \* the tasks and handler runs that publish
          NoAlert,     \* "no open alert under this id"
          Suspends     \* TRUE: publish may suspend before it hands its alert over;
                       \* FALSE: the first alert of a batch leaves in the turn that
                       \* computed the batch

VARIABLES queue,     \* publisher -> the alerts of its batch still to publish
          standing,  \* id -> the open alert the consumer holds, or NoAlert
          trust,     \* id -> "agrees"; "lost": a lost alert or a silent drop has set
                     \* tracker and consumer apart; "raced": two publishers had an
                     \* alert of this id on their way at once; "healing": one of
                     \* these, and an alert that repairs it is on its way
          fresh,     \* publishers that must publish the first of their batch now
          link       \* the Messenger is connected

Trust == {"agrees", "lost", "raced", "healing"}
Trusted(id) == trust[id] \in {"agrees", "healing"}

IdsOf(batch) == {a.id : a \in batch}
Pending == UNION {queue[p] : p \in Publishers}
Idle(p) == queue[p] = {}

\* Nothing else runs between computing a batch and its first publish.
OtherTurn(p) == ~Suspends => fresh \subseteq {p}
Turn == ~Suspends => fresh = {}

IsNext(p, a) == a \in queue[p] /\ \A b \in queue[p] : a.rank <= b.rank

Effect(a) == IF a.resolution = "open" THEN a ELSE NoAlert

\* What the consumer will hold once everything handed over has arrived.
Projected(id) ==
  IF \E a \in Pending : a.id = id
  THEN Effect(CHOOSE a \in Pending : a.id = id)
  ELSE standing[id]

\* trust with the ids of a set lost, and with one id reached by an alert.
Lost(ids) == [id \in DOMAIN trust |-> IF id \in ids THEN "lost" ELSE trust[id]]
Reached(id) == IF trust[id] = "healing" THEN [trust EXCEPT ![id] = "agrees"] ELSE trust

\* The trust of id when a batch is handed over and dropped ids are forgotten.
Handed(id, batch, dropped) ==
  CASE id \in dropped -> "lost"
    [] id \notin dropped /\ id \notin IdsOf(batch) -> trust[id]
    [] id \notin dropped /\ id \in IdsOf(batch) /\ id \in IdsOf(Pending) ->
         IF trust[id] = "lost" THEN "lost" ELSE "raced"
    [] OTHER -> IF trust[id] = "agrees" THEN "agrees" ELSE "healing"

Init(ids) == /\ queue = [p \in Publishers |-> {}]
             /\ standing = [id \in ids |-> NoAlert]
             /\ trust = [id \in ids |-> "agrees"]
             /\ fresh = {}
             /\ link = TRUE

\* A tracker call returned batch; the ids in dropped left its table silently.
Hand(p, batch, dropped) ==
  /\ Idle(p)
  /\ queue' = [queue EXCEPT ![p] = batch]
  /\ fresh' = IF Suspends \/ batch = {} THEN fresh ELSE fresh \cup {p}
  /\ trust' = [id \in DOMAIN trust |-> Handed(id, batch, dropped)]
  /\ UNCHANGED <<standing, link>>

\* messenger.publish returns and the consumer applies the alert.
Deliver(p, a) ==
  /\ IsNext(p, a)
  /\ OtherTurn(p)
  /\ link
  /\ queue' = [queue EXCEPT ![p] = @ \ {a}]
  /\ standing' = [standing EXCEPT ![a.id] = Effect(a)]
  /\ trust' = Reached(a.id)
  /\ fresh' = fresh \ {p}
  /\ UNCHANGED link

\* AmqpDisconnectedError is caught: this alert is skipped, the loop goes on.
Skip(p, a) ==
  /\ IsNext(p, a)
  /\ OtherTurn(p)
  /\ ~link
  /\ queue' = [queue EXCEPT ![p] = @ \ {a}]
  /\ trust' = Lost({a.id})
  /\ fresh' = fresh \ {p}
  /\ UNCHANGED <<standing, link>>

\* Any other exception leaves the loop and with it the rest of the batch; the
\* alert itself may have reached the broker before the exception.
Raise(p, a, reached) ==
  /\ IsNext(p, a)
  /\ OtherTurn(p)
  /\ link
  /\ queue' = [queue EXCEPT ![p] = {}]
  /\ standing' = IF reached THEN [standing EXCEPT ![a.id] = Effect(a)] ELSE standing
  /\ trust' = Lost(IdsOf(queue[p]))
  /\ fresh' = fresh \ {p}
  /\ UNCHANGED link

\* The open alerts under these ids left the table and nobody is told.
Forget(ids) == /\ trust' = Lost(ids)
               /\ UNCHANGED <<queue, standing, fresh, link>>

\* The process dies with what it had still to publish and what it tracked.
Down(ids) == /\ queue' = [p \in Publishers |-> {}]
             /\ fresh' = {}
             /\ trust' = Lost(ids \cup IdsOf(Pending))
             /\ UNCHANGED <<standing, link>>

LinkChange == /\ link' = ~link
              /\ UNCHANGED <<queue, standing, trust, fresh>>
=============================================================================
