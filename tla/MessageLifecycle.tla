-------------------------- MODULE MessageLifecycle --------------------------
(***************************************************************************)
(* What becomes of a message over the life of one connection of pkg/queue, *)
(* for those on both sides of it: it is queued or it is settled, and       *)
(* MsgController.Requeue (pkg/queue/message.go), for which the client      *)
(* needs two frames, is one step, which raises the retry count.            *)
(*                                                                         *)
(* Where Requeue is less than it says, the steps have names: Drop and      *)
(* Restart lose a message, and LeaveTwice leaves it in the queue twice for *)
(* whoever connects next.                                                  *)
(***************************************************************************)
EXTENDS Naturals

CONSTANTS Messages, MaxRetryCount

VARIABLE message   \* [Messages -> [status, retries]]

Outside == [status |-> "outside", retries |-> 0]
Queued(r) == [status |-> "queued", retries |-> r]
Settled == [status |-> "settled", retries |-> 0]
Lost == [status |-> "lost", retries |-> 0]
Twice == [status |-> "twice", retries |-> 0]

\* A published message reaches the queue, once.
Arrive(m) ==
  /\ message[m] = Outside
  /\ message' = [message EXCEPT ![m] = Queued(0)]

\* ErrRetryCountExceeded beyond the limit.
Requeue(m) ==
  \E r \in 0..MaxRetryCount :
    /\ message[m] = Queued(r)
    /\ message' = [message EXCEPT ![m] = Queued(r + 1)]

\* Acknowledged or rejected, whatever its retries.
Settle(m) ==
  /\ message[m].status = "queued"
  /\ message' = [message EXCEPT ![m] = Settled]

\* A Requeue whose copy the exchange leads nowhere.
Drop(m) ==
  \E r \in 0..MaxRetryCount :
    /\ message[m] = Queued(r)
    /\ message' = [message EXCEPT ![m] = Lost]

\* The connection ends before the broker knows that the old copy is acknowledged.
LeaveTwice(m) ==
  /\ \E r \in 0..MaxRetryCount : message[m] = Queued(r + 1)
  /\ message' = [message EXCEPT ![m] = Twice]

\* The broker restarts and keeps no copy that Requeue published: a message that was requeued is lost,
\* but for the one whose first copy was not yet acknowledged, if there is one.
Requeued(m) == \E r \in 0..MaxRetryCount : message[m] = Queued(r + 1)

Restart ==
  \E spared \in {{}} \cup {{m} : m \in Messages} :
    /\ \A m \in spared : message[m] = Queued(1)
    /\ message' = [m \in Messages |-> IF m \in spared THEN Queued(0)
                                      ELSE IF Requeued(m) THEN Lost ELSE message[m]]

MessagesInit == message = [m \in Messages |-> Outside]

\* The steps after which some message is not where it was.
MessagesNext ==
  /\ message' # message
  /\ \/ \E m \in Messages : Arrive(m) \/ Requeue(m) \/ Settle(m) \/ Drop(m) \/ LeaveTwice(m)
     \/ Restart

MessagesSpec == MessagesInit /\ [][MessagesNext]_message
=============================================================================
