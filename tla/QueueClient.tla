---------------------------- MODULE QueueClient ----------------------------
(***************************************************************************)
(* The RabbitMQ client pkg/queue: the one connection and channel of a      *)
(* process, the goroutine of ChannelWrapper.consume that forwards          *)
(* deliveries, the goroutine of StartConsumer that handles them, and the   *)
(* caller of Consume.  The handler may settle a message in any way that    *)
(* MsgController offers, or fail.                                          *)
(*                                                                         *)
(* Client and broker talk over a wire that keeps the order of the frames:  *)
(* a call that has written its frame returns nil, whatever comes of it.    *)
(*                                                                         *)
(* It is the life of one connection.  Nothing in the package dials again,  *)
(* although doc.go:13 promises it: once the channel is dead this client    *)
(* does nothing more with the broker, and what is in the queue then waits  *)
(* for another process.                                                    *)
(***************************************************************************)
EXTENDS Naturals, Sequences

CONSTANTS Messages,
          Poison,          \* those whose body is no JSON message
          MaxRetryCount    \* defaultMaxRetryCount

ASSUME QueueAssumption == Poison \subseteq Messages /\ MaxRetryCount \in Nat

VARIABLES channel,     \* "new", "open" or "dead"
          closed,      \* ChannelWrapper.closed
          exchange,    \* the one of the queue's name, to which Requeue publishes: it is missing, it
                       \* has no binding for that name as a key ("unrouted"), or it leads to the queue
          wire,        \* frames on their way to the broker
          ready,       \* the queue: copies of each kind
          unacked,     \* copies delivered to this channel and not settled
          buffer,      \* those of them that the AMQP library holds
          forwarder, carried,    \* the forwarding goroutine and what it carries
          consumer, hand,        \* the consuming goroutine and what it handles
          caller,      \* the caller of Consume
          cancelled,   \* its context
          sent,        \* messages whose Publish returned nil
          stored,      \* messages the queue has got
          settled,     \* messages acknowledged, rejected or dead-lettered for good
          dropped      \* copies that the broker has thrown away

brokerVars == <<exchange, ready, stored, settled, dropped>>
clientVars == <<forwarder, carried, consumer, hand, caller, cancelled>>
queueVars == <<channel, closed, wire, unacked, buffer, sent, brokerVars, clientVars>>

\* A copy of a message: its retry count is in a header.
Copy == [msg : Messages, retries : 0..MaxRetryCount + 1]
None == [msg |-> "none"]

Adding(bag, c) == [bag EXCEPT ![c] = @ + 1]
Removing(bag, c) == [bag EXCEPT ![c] = @ - 1]
Empty == [c \in Copy |-> 0]

\* How often the broker has a copy.
Count(c) == ready[c] + unacked[c]

Frames == [kind : {"publish", "requeue", "settle", "ackRequeued"}, copy : Copy]

Write(kind, c) == wire' = Append(wire, [kind |-> kind, copy |-> c])

-----------------------------------------------------------------------------
(* Connection                                                              *)

\* The connection or the channel is gone: what was not settled is ready again, as far as the broker
\* keeps it, what was on its way is lost, and the AMQP library ends the deliveries.
Die(kept) ==
  /\ channel' = "dead"
  /\ ready' = [c \in Copy |-> IF c \in kept THEN Count(c) ELSE 0]
  /\ dropped' = dropped \cup {c \in Copy \ kept : Count(c) > 0}
  /\ unacked' = Empty /\ buffer' = Empty /\ wire' = <<>>

Connect ==
  /\ channel = "new"
  /\ channel' = "open"
  /\ UNCHANGED <<closed, wire, unacked, buffer, sent, brokerVars, clientVars>>

ConnectionLost ==
  /\ channel = "open"
  /\ Die(Copy)
  /\ UNCHANGED <<closed, sent, exchange, stored, settled, clientVars>>

Close ==
  /\ channel # "new" /\ ~ closed
  /\ closed' = TRUE
  /\ IF channel = "open" THEN Die(Copy)
                         ELSE UNCHANGED <<channel, ready, dropped, unacked, buffer, wire>>
  /\ UNCHANGED <<sent, exchange, stored, settled, clientVars>>

\* The broker restarts: it keeps what was published as persistent, as Publish does; a copy that
\* Requeue has published has no DeliveryMode.
Persistent == {c \in Copy : c.retries = 0}

BrokerRestarts ==
  /\ channel = "open"
  /\ Die(Persistent)
  /\ UNCHANGED <<closed, sent, exchange, stored, settled, clientVars>>

\* PublishWithOptions: neither confirms nor the mandatory flag; the caller's exchange leads here.
Publish(m) ==
  /\ channel = "open" /\ m \notin sent
  /\ sent' = sent \cup {m}
  /\ Write("publish", [msg |-> m, retries |-> 0])
  /\ UNCHANGED <<channel, closed, unacked, buffer, brokerVars, clientVars>>

-----------------------------------------------------------------------------
(* The broker                                                              *)

BrokerStores ==
  /\ wire # <<>>
  /\ \/ Head(wire).kind = "publish"
     \/ Head(wire).kind = "requeue" /\ exchange = "bound"
  /\ ready' = Adding(ready, Head(wire).copy)
  /\ stored' = stored \cup {Head(wire).copy.msg}
  /\ wire' = Tail(wire)
  /\ UNCHANGED <<channel, closed, unacked, buffer, sent, exchange, settled, dropped, clientVars>>

\* A publication that the exchange leads nowhere is thrown away, and as it is not mandatory nobody
\* is told.
BrokerDrops ==
  /\ wire # <<>> /\ Head(wire).kind = "requeue" /\ exchange = "unrouted"
  /\ dropped' = dropped \cup {Head(wire).copy}
  /\ wire' = Tail(wire)
  /\ UNCHANGED <<channel, closed, unacked, buffer, sent, exchange, ready, stored, settled, clientVars>>

\* A publication to an exchange that is missing ends the channel.
BrokerRefuses ==
  /\ wire # <<>> /\ Head(wire).kind = "requeue" /\ exchange = "missing"
  /\ Die(Copy)
  /\ UNCHANGED <<closed, sent, exchange, stored, settled, clientVars>>

BrokerSettles ==
  /\ wire # <<>> /\ Head(wire).kind \in {"settle", "ackRequeued"}
  /\ unacked' = Removing(unacked, Head(wire).copy)
  /\ settled' = IF Head(wire).kind = "settle" THEN settled \cup {Head(wire).copy.msg} ELSE settled
  /\ wire' = Tail(wire)
  /\ UNCHANGED <<channel, closed, buffer, sent, exchange, ready, stored, dropped, clientVars>>

\* No limit of prefetched messages is set.
BrokerDelivers(c) ==
  /\ channel = "open" /\ forwarder \in {"range", "send"} /\ ready[c] > 0
  /\ ready' = Removing(ready, c)
  /\ unacked' = Adding(unacked, c) /\ buffer' = Adding(buffer, c)
  /\ UNCHANGED <<channel, closed, wire, sent, exchange, stored, settled, dropped, clientVars>>

Broker ==
  \/ BrokerStores \/ BrokerDrops \/ BrokerRefuses \/ BrokerSettles
  \/ \E c \in Copy : BrokerDelivers(c)

-----------------------------------------------------------------------------
(* ChannelWrapper.consume                                                  *)

Forwards(from, to) ==
  /\ forwarder = from /\ forwarder' = to
  /\ UNCHANGED <<channel, closed, wire, unacked, sent, brokerVars, caller, cancelled>>

\* amqp.Consume; when the channel is gone it fails, and fails again after every delay.
ForwarderConsumes ==
  /\ Forwards("consume", "range")
  /\ channel = "open"
  /\ UNCHANGED <<buffer, carried, consumer, hand>>

ForwarderTakes(c) ==
  /\ Forwards("range", "send")
  /\ buffer[c] > 0 /\ buffer' = Removing(buffer, c)
  /\ carried' = c
  /\ UNCHANGED <<consumer, hand>>

\* The channel of deliveries has no capacity.
ForwarderSends ==
  /\ Forwards("send", "range")
  /\ consumer = "select" /\ consumer' = "decode" /\ hand' = carried
  /\ carried' = None
  /\ UNCHANGED buffer

DeliveriesEnd ==
  /\ Forwards("range", "sleep")
  /\ channel = "dead"
  /\ UNCHANGED <<buffer, carried, consumer, hand>>

\* Mutant: only a cancelled channel ends it.
ForwarderWakesAgain ==
  /\ Forwards("sleep", "consume")
  /\ UNCHANGED <<buffer, carried, consumer, hand>>

\* Whether the channel was closed is looked at after the reconnect delay, and only here.
ForwarderWakes ==
  /\ Forwards("sleep", IF closed THEN "ended" ELSE "consume")
  /\ UNCHANGED <<buffer, carried, consumer, hand>>

Forwarder ==
  \/ ForwarderConsumes \/ (\E c \in Copy : ForwarderTakes(c)) \/ ForwarderSends
  \/ DeliveriesEnd \/ ForwarderWakes

-----------------------------------------------------------------------------
(* StartConsumer                                                           *)

StartConsumer ==
  /\ caller = "start" /\ channel # "new"
  /\ IF channel = "open"
       THEN caller' = "wait" /\ forwarder' = "consume" /\ consumer' = "select"
       ELSE caller' = "returned" /\ UNCHANGED <<forwarder, consumer>>
  /\ UNCHANGED <<channel, closed, wire, unacked, buffer, sent, brokerVars, carried, hand, cancelled>>

Cancel ==
  /\ ~ cancelled
  /\ cancelled' = TRUE
  /\ UNCHANGED <<channel, closed, wire, unacked, buffer, sent, brokerVars,
                 forwarder, carried, consumer, hand, caller>>

Consumes(from, to) ==
  /\ consumer = from /\ consumer' = to
  /\ hand' = IF to = "select" THEN None ELSE hand
  /\ UNCHANGED <<channel, closed, unacked, buffer, sent, brokerVars,
                 forwarder, carried, caller, cancelled>>

\* Mutant: the channel of errors has no capacity.
ConsumerStopsHeard ==
  /\ Consumes("select", "ended")
  /\ cancelled \/ forwarder = "ended"
  /\ caller = "wait"
  /\ UNCHANGED wire

\* ctx.Done() or the end of the deliveries, in any order when both are there.
ConsumerStops ==
  /\ Consumes("select", "ended")
  /\ cancelled \/ forwarder = "ended"
  /\ UNCHANGED wire

\* A frame for the copy in hand; an error, when the channel is gone, is logged at most.
Writes(kind, c) == IF channel = "open" THEN Write(kind, c) ELSE UNCHANGED wire

Rejects == Consumes("decode", "select") /\ hand.msg \in Poison /\ Writes("settle", hand)
Decodes == Consumes("decode", "handle") /\ hand.msg \notin Poison /\ UNCHANGED wire

\* Ack, Nack and Reject do not put the message back.
HandlerSettles == Consumes("handle", "select") /\ Writes("settle", hand)

\* The handler's error is logged, and the message is neither settled nor put back.
HandlerFails == Consumes("handle", "select") /\ UNCHANGED wire

Retried(c) == [c EXCEPT !.retries = @ + 1]

\* Mutant: the message is acknowledged first.
RequeueAcknowledgesFirst ==
  /\ Consumes("handle", "acknowledge") /\ hand.retries <= MaxRetryCount
  /\ channel = "open"
  /\ wire' = wire \o <<[kind |-> "ackRequeued", copy |-> hand],
                       [kind |-> "requeue", copy |-> Retried(hand)]>>

\* Requeue, which fails when the message was retried too often or the channel is gone.
RequeuePublishes ==
  /\ Consumes("handle", "acknowledge") /\ hand.retries <= MaxRetryCount
  /\ channel = "open" /\ Write("requeue", Retried(hand))

\* Mutant: nothing is acknowledged.
RequeueLeaves == Consumes("acknowledge", "select") /\ UNCHANGED wire

RequeueAcknowledges == Consumes("acknowledge", "select") /\ Writes("ackRequeued", hand)

Consumer ==
  \/ ConsumerStops \/ Rejects \/ Decodes \/ HandlerSettles \/ HandlerFails
  \/ RequeuePublishes \/ RequeueAcknowledges

\* Consume waits for its context or for the consumer's error.
ConsumeReturns ==
  /\ caller = "wait" /\ (cancelled \/ consumer = "ended")
  /\ caller' = "returned"
  /\ UNCHANGED <<channel, closed, wire, unacked, buffer, sent, brokerVars,
                 forwarder, carried, consumer, hand, cancelled>>

-----------------------------------------------------------------------------
QueueInit ==
  /\ channel = "new" /\ closed = FALSE /\ exchange \in {"missing", "unrouted", "bound"}
  /\ wire = <<>> /\ ready = Empty /\ unacked = Empty /\ buffer = Empty
  /\ forwarder = "none" /\ carried = None
  /\ consumer = "none" /\ hand = None
  /\ caller = "start" /\ cancelled = FALSE
  /\ sent = {} /\ stored = {} /\ settled = {} /\ dropped = {}

QueueNext ==
  \/ Connect \/ ConnectionLost \/ BrokerRestarts \/ Close \/ (\E m \in Messages : Publish(m))
  \/ Broker \/ Forwarder \/ StartConsumer \/ Cancel \/ Consumer \/ ConsumeReturns

\* Goroutines run; handlers return; a select takes each of its branches in the end.
QueueSpec ==
  /\ QueueInit /\ [][QueueNext]_queueVars
  /\ WF_queueVars(Broker) /\ WF_queueVars(Forwarder) /\ WF_queueVars(ConsumeReturns)
  /\ WF_queueVars(Consumer) /\ SF_queueVars(ConsumerStops)

Bags == [Copy -> 0..2]
QueueTypeOK ==
  /\ channel \in {"new", "open", "dead"} /\ closed \in BOOLEAN
  /\ exchange \in {"missing", "unrouted", "bound"}
  /\ wire \in Seq(Frames)
  /\ ready \in Bags /\ unacked \in Bags /\ buffer \in Bags
  /\ forwarder \in {"none", "consume", "range", "send", "sleep", "ended"}
  /\ consumer \in {"none", "select", "decode", "handle", "acknowledge", "ended"}
  /\ carried \in Copy \cup {None} /\ hand \in Copy \cup {None}
  /\ caller \in {"start", "wait", "returned"} /\ cancelled \in BOOLEAN
  /\ sent \subseteq Messages /\ stored \subseteq Messages /\ settled \subseteq Messages
  /\ dropped \subseteq Copy

-----------------------------------------------------------------------------
(* Properties                                                              *)

Present(m) == \E c \in Copy : c.msg = m /\ Count(c) > 0

OnWire(m, kind) == \E i \in DOMAIN wire : wire[i].copy.msg = m /\ wire[i].kind = kind

\* The broker has thrown away a copy that Requeue had published.
Dropped(m) == \E c \in dropped : c.msg = m

\* A Publish that returned nil comes to nothing only if the channel dies with the frame on its
\* way, and what the broker has got is not lost before a handler settled it, whether the broker
\* refuses the copy that Requeue publishes or the connection ends between it and the acknowledgement
\* of the old one: the wire keeps their order.  Two cases are excepted, which the comment of Requeue
\* (pkg/queue/message.go:127) does not know of: the exchange has no binding for the queue's name, and
\* the copy is not mandatory; or the broker restarts, and the copy is not persistent.
NeverLost ==
  \A m \in sent :
    IF m \in stored THEN m \in settled \/ Present(m) \/ Dropped(m)
                    ELSE OnWire(m, "publish") \/ channel = "dead"

\* While the channel lives there is one copy of a message, and a second one, retried once more, only
\* between the two halves of a Requeue; a third one never, not even when the channel has died.
OneCopy ==
  \A c, d \in Copy : c.msg = d.msg /\ Count(c) > 0 /\ Count(d) > 0 =>
    /\ Count(c) = 1
    /\ c # d =>
         /\ c.retries = d.retries + 1 \/ d.retries = c.retries + 1
         /\ \/ channel = "dead" \/ OnWire(c.msg, "ackRequeued")
            \/ consumer = "acknowledge" /\ hand.msg = c.msg

\* The connection has ended between the two halves of a Requeue, and both copies are in the queue.
Twice(m) ==
  /\ channel = "dead"
  /\ \E c, d \in Copy : c # d /\ c.msg = m /\ d.msg = m /\ Count(c) > 0 /\ Count(d) > 0

\* Where a message is, for those who do not look between the two halves while the connection lives:
\* its copy with the most retries stands for it.
Newest(c) == Count(c) > 0 /\ \A d \in Copy : d.msg = c.msg /\ Count(d) > 0 => d.retries <= c.retries

Standing(m) ==
  IF m \in settled THEN [status |-> "settled", retries |-> 0]
  ELSE IF ~ Present(m)
    THEN [status |-> IF Dropped(m) THEN "lost" ELSE "outside", retries |-> 0]
  ELSE IF Twice(m) THEN [status |-> "twice", retries |-> 0]
  ELSE [status |-> "queued", retries |-> (CHOOSE c \in Copy : c.msg = m /\ Newest(c)).retries]

Lifecycle == INSTANCE MessageLifecycle WITH message <- [m \in Messages |-> Standing(m)]

\* Ack, Nack, Reject and Requeue, over one connection: a message comes once, each Requeue raises its
\* count by one, up to the limit, and once settled it does not come back.  A Requeue that is under way
\* when the connection ends, wherever it ends, is made or not made, but for one message, the last,
\* which is left in the queue twice.  A message is lost with a Requeue that is not routed, one message
\* at a time, and with a restart of the broker, which takes every message that was ever requeued.
ImplementsMessages == Lifecycle!MessagesSpec

\* After Close the deliveries end, and the goroutine that forwards them.  Two cases are excepted:
\* once the channel was lost, a forwarder that is back in Consume stays there for ever; and one
\* whose consumer has left stays with the delivery that nobody takes.
CloseEndsDeliveries ==
  (closed /\ forwarder \in {"range", "send", "sleep"})
    ~> (forwarder = "ended" \/ (forwarder = "send" /\ consumer = "ended"))

\* When its context is cancelled Consume returns, and its goroutine ends however the two of them
\* notice it.
CancelEndsConsumer ==
  (cancelled /\ caller = "wait") ~> (caller = "returned" /\ consumer = "ended")
=============================================================================
