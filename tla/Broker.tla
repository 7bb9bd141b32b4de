------------------------------- MODULE Broker -------------------------------
(***************************************************************************)
(* RabbitMQ as pkg/queue uses it: a durable queue of persistent messages,  *)
(* one exchange bound to it, no publisher confirms, manual acknowledgement.*)
(* The message of an event is identified with the event.  A delivery that  *)
(* is not acknowledged when its connection ends goes back to the queue.    *)
(***************************************************************************)
EXTENDS OutboxEvents

VARIABLE queue   \* ready messages of each event

Enqueue(e) == queue' = [queue EXCEPT ![e] = @ + 1]

Dequeue(e) ==
  /\ queue[e] > 0
  /\ queue' = [queue EXCEPT ![e] = @ - 1]

\* How often one publisher may write the message of an event (AttemptsBounded of Publisher).
MaxSends == IF MaxRetries = 0 THEN 1 ELSE MaxRetries

BrokerInit == queue = [e \in Events |-> 0]
BrokerTypeOK == queue \in [Events -> Nat]
=============================================================================
