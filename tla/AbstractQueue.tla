----------------------------- MODULE AbstractQueue -----------------------------
(***************************************************************************)
(* What message queues promise: each holds at most Capacity messages, and  *)
(* a receiver gets the oldest message of the highest priority.  A queue    *)
(* whose last update was cut short promises nothing any more.              *)
(***************************************************************************)
EXTENDS Naturals, FiniteSets

CONSTANTS Queues, Message, Capacity

VARIABLES
  queue,   \* the messages of each queue; a later one has a higher sequence
  intact   \* the queues that are still queues

Init == queue = [g \in Queues |-> {}] /\ intact = Queues

Before(m, n) == m.prio > n.prio \/ (m.prio = n.prio /\ m.sequence < n.sequence)

Send(g) ==
  /\ intact' = intact
  /\ \E m \in queue'[g] \ queue[g] :
       /\ m \in Message
       /\ Cardinality(queue[g]) < Capacity
       /\ \A n \in queue[g] : n.sequence < m.sequence
       /\ queue' = [queue EXCEPT ![g] = @ \cup {m}]

Receive(g) ==
  /\ intact' = intact
  /\ \E m \in queue[g] \ queue'[g] :
       /\ \A n \in queue[g] \ {m} : Before(m, n)
       /\ queue' = [queue EXCEPT ![g] = @ \ {m}]

Damage(g) ==
  /\ intact' = intact \ {g}
  /\ queue' = [queue EXCEPT ![g] = {}]

\* Only a queue that is still one changes.
Next ==
  \E g \in intact :
    \/ queue'[g] # queue[g] /\ (Send(g) \/ Receive(g))
    \/ Damage(g)

Spec == Init /\ [][Next]_<<queue, intact>>
=============================================================================
