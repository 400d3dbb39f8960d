------------------------------ MODULE CondClient ------------------------------
(***************************************************************************)
(* The program a condition variable is for, composed with CondVar.  Each   *)
(* consumer takes the mutex and waits in a loop until a predicate holds;   *)
(* one producer signals before there is anything to see, sets the          *)
(* predicate under the mutex, gives the mutex back, broadcasts without it  *)
(* and destroys the condition variable at once (no consumer waits any more *)
(* once the predicate holds).                                              *)
(***************************************************************************)
EXTENDS CondVar

CONSTANT Producer

ASSUME ProducerAssumption == Producer \in Threads

VARIABLES
  ready,   \* the predicate
  stage    \* how far each thread is: "start", "critical", "after", "done"

clientVars == <<magic, linked, behind, posted, pc, timed, result, owner,
                count, ready, stage>>

Consumers == Threads \ {Producer}

ClientInit ==
  /\ Init
  /\ ready = FALSE
  /\ stage = [t \in Threads |-> "start"]

Step(t, to) == stage' = [stage EXCEPT ![t] = to]

ClientLock(t) ==
  /\ stage[t] = "start"
  /\ Lock(t)
  /\ Step(t, "critical")
  /\ UNCHANGED ready

\* while (!ready) pthread_cond_wait(...)
ConsumerWaits(t, d) ==
  /\ stage[t] = "critical"
  /\ ~ready
  /\ Link(t, d)
  /\ UNCHANGED <<ready, stage>>

\* The steps of cond_wait() once it has begun.
InWait(t) ==
  /\ \/ Release(t)
     \/ WaitOk(t)
     \/ Timeout(t)
     \/ WaitError(t)
     \/ Cancel(t)
     \/ Relock(t)
     \/ ExitUnlock(t)
  /\ UNCHANGED <<ready, stage>>

ConsumerDone(t) ==
  /\ stage[t] = "critical"
  /\ ready
  /\ Unlock(t)
  /\ Step(t, "done")
  /\ UNCHANGED ready

\* A signal that finds nothing changed: the consumer's loop waits again.
ProducerSignals ==
  /\ stage[Producer] \in {"start", "critical"}
  /\ Signal(Producer)
  /\ UNCHANGED <<ready, stage>>

ProducerSets ==
  /\ stage[Producer] = "critical"
  /\ ready' = TRUE
  /\ Unlock(Producer)
  /\ Step(Producer, "after")

ProducerBroadcasts ==
  /\ stage[Producer] = "after"
  /\ Broadcast(Producer) \/ (linked = {} /\ UNCHANGED vars)
  /\ Step(Producer, "done")
  /\ UNCHANGED ready

ProducerDestroys ==
  /\ stage[Producer] = "done"
  /\ Destroy(Producer)
  /\ UNCHANGED <<ready, stage>>

ClientNext ==
  \/ \E t \in Threads : ClientLock(t)
  \/ \E t \in Consumers, d \in BOOLEAN : ConsumerWaits(t, d)
  \/ \E t \in Consumers : InWait(t)
  \/ \E t \in Consumers : ConsumerDone(t)
  \/ ProducerSignals
  \/ ProducerSets
  \/ ProducerBroadcasts
  \/ ProducerDestroys

\* Every thread runs, a posted semaphore wakes its sleeper, and a mutex that
\* stays free is taken.  Deadlines and cancellations may come or not.
Fairness ==
  /\ \A t \in Consumers :
       /\ WF_clientVars(ClientLock(t))
       /\ WF_clientVars(Release(t) /\ UNCHANGED <<ready, stage>>)
       /\ WF_clientVars(WaitOk(t) /\ UNCHANGED <<ready, stage>>)
       /\ WF_clientVars(Relock(t) /\ UNCHANGED <<ready, stage>>)
       /\ WF_clientVars(ExitUnlock(t) /\ UNCHANGED <<ready, stage>>)
       /\ WF_clientVars(ConsumerDone(t))
  /\ WF_clientVars(ProducerBroadcasts)

ClientSpec == ClientInit /\ [][ClientNext]_clientVars /\ Fairness

-----------------------------------------------------------------------------

\* cond_wait() "does not reopen the lost-wakeup race": once the producer has
\* broadcast after setting the predicate, no consumer is left in the list,
\* whatever it was doing when the predicate was set.
NoConsumerStranded == stage[Producer] = "done" => linked = {}

\* Why: the producer sets the predicate before it broadcasts, and a consumer
\* that sees the predicate links itself no more.
ClientInv ==
  /\ ready \in BOOLEAN
  /\ stage \in [Threads -> {"start", "critical", "after", "done"}]
  /\ stage[Producer] \in {"after", "done"} => ready
  /\ NoConsumerStranded

\* Every consumer gets through once the predicate is set.
ConsumersFinish ==
  ready ~> \A t \in Consumers : stage[t] = "done" \/ pc[t] = "gone"
=============================================================================
