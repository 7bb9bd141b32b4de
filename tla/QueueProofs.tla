---------------------------- MODULE QueueProofs ----------------------------
(***************************************************************************)
(* Proofs about QueueClient, for any messages, any of them poison, and any *)
(* limit of retries.                                                       *)
(***************************************************************************)
EXTENDS QueueClient, TLAPS

Arriving(i) == wire[i].kind \in {"publish", "requeue"}
Leaving(i) == wire[i].kind \in {"settle", "ackRequeued"}

Coming(c) == \E i \in DOMAIN wire : Arriving(i) /\ wire[i].copy = c
Going(c) == \E i \in DOMAIN wire : Leaving(i) /\ wire[i].copy = c

\* A copy that has reached the broker, which may have thrown it away.
There(c) == Count(c) > 0 \/ c \in dropped
Exists(c) == There(c) \/ Coming(c)

Carrying(c) == forwarder = "send" /\ carried = c
Handling(c) == consumer \in {"decode", "handle", "acknowledge"} /\ hand = c
Acknowledging(c) == consumer = "acknowledge" /\ hand = c

\* A newer copy has been written to the wire, and the acknowledgement too, or it is the next thing
\* to be written.
Acknowledges(i, c) == wire[i].kind = "ackRequeued" /\ wire[i].copy = c
Replacing(c) == \E i \in DOMAIN wire : Acknowledges(i, c)
Passed(c) == Replacing(c) \/ Acknowledging(c)

Later(d, c) == d.msg = c.msg /\ d.retries > c.retries

-----------------------------------------------------------------------------
(* The inductive invariant                                                 *)

\* A copy is in one place: ready, or delivered and then buffered, carried, handled or none of these;
\* or thrown away.
OnePlace(c) ==
  /\ Count(c) <= 1
  /\ buffer[c] <= unacked[c]
  /\ buffer[c] > 0 => ~ Carrying(c) /\ ~ Handling(c)
  /\ Carrying(c) => unacked[c] > 0 /\ ~ Handling(c)
  /\ Handling(c) => unacked[c] > 0
  /\ c \in dropped => Count(c) = 0

Places == \A c \in Copy : OnePlace(c)

\* No two frames are about the same copy.
Distinct == \A i, j \in DOMAIN wire : i # j => wire[i].copy # wire[j].copy

\* What arrives is not there yet; what leaves is there, and nobody has it any more.
Arrivals == \A i \in DOMAIN wire : Arriving(i) => ~ There(wire[i].copy)
Departed(c) == unacked[c] > 0 /\ buffer[c] = 0 /\ ~ Carrying(c) /\ ~ Handling(c)
Departures == \A i \in DOMAIN wire : Leaving(i) => Departed(wire[i].copy)

\* When a copy is acknowledged because of its Requeue, the next one is there or ahead on the wire;
\* it is the only later one that is there, and nothing but its arrival is ahead on the wire.
Ahead(i, c) == \E j \in DOMAIN wire : j < i /\ Arriving(j) /\ wire[j].copy = c
ReplacedAt(i, c) ==
  /\ c.retries <= MaxRetryCount
  /\ There(Retried(c)) \/ Ahead(i, Retried(c))
  /\ \A d \in Copy : Later(d, c) /\ There(d) => d = Retried(c)
  /\ \A j \in DOMAIN wire : j < i /\ Later(wire[j].copy, c) =>
       Arriving(j) /\ wire[j].copy = Retried(c)
Replaced == \A i \in DOMAIN wire, c \in Copy : Acknowledges(i, c) => ReplacedAt(i, c)

\* A copy that is not the last of its message has been passed.
InOrder == \A c, d \in Copy : Exists(c) /\ Exists(d) /\ Later(d, c) => Passed(c)

\* Between the two halves of a Requeue.
Halfway ==
  \A c \in Copy : Acknowledging(c) =>
    /\ c.retries <= MaxRetryCount
    /\ Exists(Retried(c))
    /\ \A d \in Copy : Later(d, c) => ~ Going(d) /\ (Exists(d) => d = Retried(c))

Known == stored \subseteq sent /\ \A c \in Copy : Exists(c) => c.msg \in sent

Live ==
  Places /\ Distinct /\ Arrivals /\ Departures /\ Replaced /\ InOrder /\ Halfway /\ Known

Dead ==
  /\ wire = <<>> /\ OneCopy
  /\ \A c \in Copy : unacked[c] = 0 /\ buffer[c] = 0 /\ ready[c] <= 1

Locals ==
  /\ forwarder = "send" => carried \in Copy
  /\ consumer \in {"decode", "handle", "acknowledge"} => hand \in Copy
  /\ caller = "start" => forwarder = "none" /\ consumer = "none"
  /\ channel = "new" => caller = "start"

QueueInv ==
  /\ QueueTypeOK
  /\ Locals
  /\ NeverLost
  /\ channel = "dead" => Dead
  /\ channel # "dead" => Live

-----------------------------------------------------------------------------
(* Copies and frames                                                       *)

LEMMA RetriedNext ==
  ASSUME NEW c \in Copy
  PROVE  /\ c.msg \in Messages /\ c.retries \in 0..MaxRetryCount + 1
         /\ c.retries <= MaxRetryCount =>
              Retried(c) \in Copy /\ Retried(c).msg = c.msg /\ Retried(c).retries = c.retries + 1
  BY QueueAssumption DEF Copy, Retried

LEMMA SameCopy ==
  ASSUME NEW c \in Copy, NEW d \in Copy, c.msg = d.msg, c.retries = d.retries
  PROVE  c = d
  BY DEF Copy

LEMMA LaterOrder ==
  ASSUME NEW c \in Copy, NEW d \in Copy, NEW e \in Copy
  PROVE  /\ ~ Later(c, c)
         /\ c.msg = d.msg /\ c # d => Later(c, d) \/ Later(d, c)
         /\ Later(e, d) /\ Later(d, c) => Later(e, c)
         /\ Later(d, c) => ~ Later(c, d)
         /\ c.retries <= MaxRetryCount =>
              /\ Later(Retried(c), c)
              /\ Later(d, c) /\ d # Retried(c) => Later(d, Retried(c))
              /\ Later(Retried(c), d) /\ c # d => Later(c, d)
              /\ Retried(c) = Retried(d) => c = d
  <1>1. /\ c.retries \in Nat /\ d.retries \in Nat /\ e.retries \in Nat
    BY RetriedNext, QueueAssumption
  <1>2. c.msg = d.msg /\ c.retries = d.retries => c = d
    BY SameCopy
  <1>3. ASSUME c.retries <= MaxRetryCount
        PROVE  /\ Later(Retried(c), c)
               /\ Later(d, c) /\ d # Retried(c) => Later(d, Retried(c))
               /\ Later(Retried(c), d) /\ c # d => Later(c, d)
    <2>1. Retried(c) \in Copy /\ Retried(c).msg = c.msg /\ Retried(c).retries = c.retries + 1
      BY <1>3, RetriedNext
    <2>2. d.msg = Retried(c).msg /\ d.retries = Retried(c).retries => d = Retried(c)
      BY <2>1, SameCopy
    <2> QED
      BY <1>1, <1>2, <2>1, <2>2 DEF Later
  <1>4. ASSUME c.retries <= MaxRetryCount, Retried(c) = Retried(d)
        PROVE  c = d
    BY <1>1, <1>2, <1>4 DEF Copy, Retried
  <1> QED
    BY <1>1, <1>2, <1>3, <1>4 DEF Later

LEMMA WireFrames ==
  ASSUME wire \in Seq(Frames)
  PROVE  /\ Len(wire) \in Nat /\ DOMAIN wire = 1..Len(wire)
         /\ \A i \in DOMAIN wire :
              /\ wire[i].copy \in Copy /\ (Arriving(i) \/ Leaving(i)) /\ ~ (Arriving(i) /\ Leaving(i))
              /\ wire[i].kind = "ackRequeued" => Leaving(i)
  <1>1. \A i \in DOMAIN wire : wire[i] \in Frames
    OBVIOUS
  <1> QED
    BY <1>1 DEF Frames, Arriving, Leaving

LEMMA Written ==
  ASSUME wire \in Seq(Frames), NEW kind, NEW c \in Copy, Write(kind, c),
         kind \in {"publish", "requeue", "settle", "ackRequeued"}
  PROVE  /\ wire' \in Seq(Frames)
         /\ DOMAIN wire' = 1..Len(wire) + 1
         /\ \A i \in DOMAIN wire : i \in DOMAIN wire' /\ i < Len(wire) + 1 /\ wire'[i] = wire[i]
         /\ \A i \in DOMAIN wire' : i \notin DOMAIN wire => i = Len(wire) + 1
         /\ wire'[Len(wire) + 1].kind = kind /\ wire'[Len(wire) + 1].copy = c
         /\ Len(wire) + 1 \in DOMAIN wire'
  <1>1. [kind |-> kind, copy |-> c] \in Frames
    BY DEF Frames
  <1> QED
    BY <1>1 DEF Write

LEMMA HeadTaken ==
  ASSUME wire \in Seq(Frames), wire # <<>>, wire' = Tail(wire)
  PROVE  /\ wire' \in Seq(Frames)
         /\ Head(wire) = wire[1] /\ 1 \in DOMAIN wire
         /\ \A i \in DOMAIN wire' : i \in Nat /\ i + 1 \in DOMAIN wire /\ i + 1 # 1 /\ wire'[i] = wire[i + 1]
         /\ \A i \in DOMAIN wire : i # 1 => i - 1 \in DOMAIN wire' /\ wire'[i - 1] = wire[i] /\ i - 1 \in Nat /\ i = (i - 1) + 1
  OBVIOUS

\* What one more frame changes.
LEMMA FrameWritten ==
  ASSUME wire \in Seq(Frames), NEW kind, NEW c \in Copy, Write(kind, c),
         kind \in {"publish", "requeue", "settle", "ackRequeued"}, NEW n, n = Len(wire) + 1
  PROVE  /\ \A i \in DOMAIN wire : /\ Arriving(i)' = Arriving(i) /\ Leaving(i)' = Leaving(i)
                                   /\ \A d : Ahead(i, d)' <=> Ahead(i, d)
         /\ \A d : Ahead(n, d)' <=> Coming(d)
         /\ Arriving(n)' <=> kind \in {"publish", "requeue"}
         /\ Leaving(n)' <=> kind \in {"settle", "ackRequeued"}
         /\ \A d : Coming(d)' <=> Coming(d) \/ (kind \in {"publish", "requeue"} /\ d = c)
         /\ \A d : Going(d)' <=> Going(d) \/ (kind \in {"settle", "ackRequeued"} /\ d = c)
         /\ \A d : Replacing(d)' <=> Replacing(d) \/ (kind = "ackRequeued" /\ d = c)
  <1>1. /\ n \in DOMAIN wire' /\ \A i \in DOMAIN wire' : i \in DOMAIN wire \/ i = n
        /\ \A i \in DOMAIN wire : i \in DOMAIN wire' /\ wire'[i] = wire[i] /\ i < n /\ ~ (n < i)
        /\ wire'[n].kind = kind /\ wire'[n].copy = c /\ ~ (n < n)
    BY Written, WireFrames
  <1>2. /\ \A i \in DOMAIN wire : Arriving(i)' = Arriving(i) /\ Leaving(i)' = Leaving(i)
        /\ Arriving(n)' <=> kind \in {"publish", "requeue"}
        /\ Leaving(n)' <=> kind \in {"settle", "ackRequeued"}
    BY <1>1 DEF Arriving, Leaving
  <1>3. \A i \in DOMAIN wire : \A d : Ahead(i, d)' <=> Ahead(i, d)
    BY <1>1, <1>2 DEF Ahead
  <1>4. \A d : Ahead(n, d)' <=> Coming(d)
    BY <1>1, <1>2 DEF Ahead, Coming
  <1>5. \A d : Coming(d)' <=> Coming(d) \/ (kind \in {"publish", "requeue"} /\ d = c)
    BY <1>1, <1>2 DEF Coming
  <1>6. \A d : Going(d)' <=> Going(d) \/ (kind \in {"settle", "ackRequeued"} /\ d = c)
    BY <1>1, <1>2 DEF Going
  <1>7. \A d : Replacing(d)' <=> Replacing(d) \/ (kind = "ackRequeued" /\ d = c)
    BY <1>1 DEF Replacing, Acknowledges
  <1> QED
    BY <1>2, <1>3, <1>4, <1>5, <1>6, <1>7

\* What the broker's taking of the first frame changes, when no other frame is about its copy.
LEMMA FrameTaken ==
  ASSUME wire \in Seq(Frames), wire # <<>>, wire' = Tail(wire), Distinct
  PROVE  /\ wire[1].copy \in Copy
         /\ \A i \in DOMAIN wire' : /\ Arriving(i)' = Arriving(i + 1) /\ Leaving(i)' = Leaving(i + 1)
                                    /\ wire'[i].copy # wire[1].copy
                                    /\ \A d : Ahead(i + 1, d) <=> Ahead(i, d)' \/ (Arriving(1) /\ d = wire[1].copy)
         /\ \A d : Coming(d)' <=> Coming(d) /\ d # wire[1].copy
         /\ \A d : Going(d)' <=> Going(d) /\ d # wire[1].copy
         /\ \A d : Replacing(d)' <=> Replacing(d) /\ d # wire[1].copy
  <1>1. /\ 1 \in DOMAIN wire
        /\ \A i \in DOMAIN wire' : /\ i \in Nat /\ i + 1 \in DOMAIN wire /\ 1 < i + 1 /\ wire'[i] = wire[i + 1]
                                   /\ wire[i + 1].copy # wire[1].copy
        /\ \A i \in DOMAIN wire : i # 1 => i - 1 \in DOMAIN wire' /\ wire'[i - 1] = wire[i] /\ i \in Nat
        /\ \A i \in DOMAIN wire : i # 1 => (i - 1) + 1 = i
    BY HeadTaken, WireFrames DEF Distinct
  <1>2. \A i \in DOMAIN wire' : Arriving(i)' = Arriving(i + 1) /\ Leaving(i)' = Leaving(i + 1)
    BY <1>1 DEF Arriving, Leaving
  <1>8. \A i \in DOMAIN wire : i # 1 => Arriving(i - 1)' = Arriving(i) /\ Leaving(i - 1)' = Leaving(i)
    BY <1>1 DEF Arriving, Leaving
  <1>3. \A i \in DOMAIN wire' : \A d :
           Ahead(i + 1, d) <=> Ahead(i, d)' \/ (Arriving(1) /\ d = wire[1].copy)
    <2> SUFFICES ASSUME NEW i \in DOMAIN wire', NEW d
                 PROVE  Ahead(i + 1, d) <=> Ahead(i, d)' \/ (Arriving(1) /\ d = wire[1].copy)
      OBVIOUS
    <2>1. ASSUME NEW j \in DOMAIN wire, j < i + 1, Arriving(j), wire[j].copy = d, j # 1
          PROVE  Ahead(i, d)'
      <3>1. j - 1 \in DOMAIN wire' /\ j - 1 < i /\ Arriving(j - 1)' /\ wire'[j - 1].copy = d
        BY <1>1, <1>2, <2>1
      <3> QED
        BY <3>1 DEF Ahead
    <2>2. ASSUME NEW j \in DOMAIN wire', j < i, Arriving(j)', wire'[j].copy = d
          PROVE  Ahead(i + 1, d)
      <3>1. j + 1 \in DOMAIN wire /\ j + 1 < i + 1 /\ Arriving(j + 1) /\ wire[j + 1].copy = d
        BY <1>1, <1>2, <2>2
      <3> QED
        BY <3>1 DEF Ahead
    <2> QED
      BY <1>1, <2>1, <2>2 DEF Ahead
  <1>4. \A d : Coming(d)' <=> Coming(d) /\ d # wire[1].copy
    <2> SUFFICES ASSUME NEW d
                 PROVE  Coming(d)' <=> Coming(d) /\ d # wire[1].copy
      OBVIOUS
    <2>1. ASSUME Coming(d), d # wire[1].copy
          PROVE  Coming(d)'
      <3>1. PICK i \in DOMAIN wire : Arriving(i) /\ wire[i].copy = d
        BY <2>1 DEF Coming
      <3>2. i - 1 \in DOMAIN wire' /\ Arriving(i - 1)' /\ wire'[i - 1].copy = d
        BY <1>1, <1>8, <2>1, <3>1
      <3> QED
        BY <3>2 DEF Coming
    <2>2. ASSUME Coming(d)'
          PROVE  Coming(d) /\ d # wire[1].copy
      <3>1. PICK i \in DOMAIN wire' : Arriving(i)' /\ wire'[i].copy = d
        BY <2>2 DEF Coming
      <3>2. i + 1 \in DOMAIN wire /\ Arriving(i + 1) /\ wire[i + 1].copy = d /\ d # wire[1].copy
        BY <1>1, <1>2, <3>1
      <3> QED
        BY <3>2 DEF Coming
    <2> QED
      BY <2>1, <2>2
  <1>5. \A d : Going(d)' <=> Going(d) /\ d # wire[1].copy
    <2> SUFFICES ASSUME NEW d
                 PROVE  Going(d)' <=> Going(d) /\ d # wire[1].copy
      OBVIOUS
    <2>1. ASSUME Going(d), d # wire[1].copy
          PROVE  Going(d)'
      <3>1. PICK i \in DOMAIN wire : Leaving(i) /\ wire[i].copy = d
        BY <2>1 DEF Going
      <3>2. i - 1 \in DOMAIN wire' /\ Leaving(i - 1)' /\ wire'[i - 1].copy = d
        BY <1>1, <1>8, <2>1, <3>1
      <3> QED
        BY <3>2 DEF Going
    <2>2. ASSUME Going(d)'
          PROVE  Going(d) /\ d # wire[1].copy
      <3>1. PICK i \in DOMAIN wire' : Leaving(i)' /\ wire'[i].copy = d
        BY <2>2 DEF Going
      <3>2. i + 1 \in DOMAIN wire /\ Leaving(i + 1) /\ wire[i + 1].copy = d /\ d # wire[1].copy
        BY <1>1, <1>2, <3>1
      <3> QED
        BY <3>2 DEF Going
    <2> QED
      BY <2>1, <2>2
  <1>6. \A d : Replacing(d)' <=> Replacing(d) /\ d # wire[1].copy
    <2> SUFFICES ASSUME NEW d
                 PROVE  Replacing(d)' <=> Replacing(d) /\ d # wire[1].copy
      OBVIOUS
    <2>1. ASSUME Replacing(d), d # wire[1].copy
          PROVE  Replacing(d)'
      <3>1. PICK i \in DOMAIN wire : Acknowledges(i, d)
        BY <2>1 DEF Replacing
      <3>2. i - 1 \in DOMAIN wire' /\ wire'[i - 1] = wire[i]
        BY <1>1, <2>1, <3>1 DEF Acknowledges
      <3> QED
        BY <3>1, <3>2 DEF Replacing, Acknowledges
    <2>2. ASSUME Replacing(d)'
          PROVE  Replacing(d) /\ d # wire[1].copy
      BY <1>1, <2>2 DEF Replacing, Acknowledges
    <2> QED
      BY <2>1, <2>2
  <1>7. wire[1].copy \in Copy
    BY <1>1, WireFrames
  <1> QED
    BY <1>1, <1>2, <1>3, <1>4, <1>5, <1>6, <1>7

LEMMA Counts ==
  ASSUME QueueTypeOK, NEW c \in Copy
  PROVE  /\ ready[c] \in 0..2 /\ unacked[c] \in 0..2 /\ buffer[c] \in 0..2
         /\ Count(c) \in Nat
  BY DEF QueueTypeOK, Bags, Count

LEMMA LiveOneCopy ==
  ASSUME QueueTypeOK, Live
  PROVE  OneCopy
  <1> SUFFICES ASSUME NEW c \in Copy, NEW d \in Copy, c.msg = d.msg, Count(c) > 0, Count(d) > 0
               PROVE  /\ Count(c) = 1
                      /\ c # d =>
                           /\ c.retries = d.retries + 1 \/ d.retries = c.retries + 1
                           /\ \/ channel = "dead" \/ OnWire(c.msg, "ackRequeued")
                              \/ consumer = "acknowledge" /\ hand.msg = c.msg
    BY DEF OneCopy
  <1>1. Count(c) = 1
    BY Counts DEF Live, Places, OnePlace
  <1>2. ASSUME NEW e \in Copy, NEW f \in Copy, Count(e) > 0, Count(f) > 0, Later(f, e)
        PROVE  /\ f.retries = e.retries + 1
               /\ OnWire(e.msg, "ackRequeued") \/ (consumer = "acknowledge" /\ hand.msg = e.msg)
    <2>1. Passed(e)
      BY <1>2 DEF Live, InOrder, Exists, There
    <2>2. CASE Acknowledging(e)
      <3>1. f = Retried(e) /\ e.retries <= MaxRetryCount
        BY <1>2, <2>2 DEF Live, Halfway, Exists, There
      <3> QED
        BY <2>2, <3>1, RetriedNext DEF Acknowledging
    <2>3. CASE Replacing(e)
      <3>1. PICK i \in DOMAIN wire : Acknowledges(i, e)
        BY <2>3 DEF Replacing
      <3>2. f = Retried(e) /\ e.retries <= MaxRetryCount
        BY <1>2, <3>1 DEF Live, Replaced, ReplacedAt, There
      <3> QED
        BY <3>1, <3>2, RetriedNext DEF OnWire, Acknowledges
    <2> QED
      BY <2>1, <2>2, <2>3 DEF Passed
  <1>3. c # d => Later(c, d) \/ Later(d, c)
    BY LaterOrder
  <1> QED
    BY <1>1, <1>2, <1>3

-----------------------------------------------------------------------------
(* Steps of a channel that is not dead                                     *)

\* Steps that write no frame, take none and move no copy at the broker.
LEMMA LocalStep ==
  ASSUME QueueTypeOK, Locals, Live, UNCHANGED <<wire, ready, unacked, dropped, stored, sent>>,
         \A c \in Copy : buffer'[c] <= buffer[c],
         Places', \A c \in Copy : Departed(c) => Departed(c)',
         \A c \in Copy : Acknowledging(c)' <=> Acknowledging(c)
  PROVE  Live'
  <1>1. /\ \A c : Coming(c)' = Coming(c) /\ Going(c)' = Going(c) /\ There(c)' = There(c)
        /\ \A i : Arriving(i)' = Arriving(i) /\ Leaving(i)' = Leaving(i)
    BY DEF Coming, Going, Count, There, Arriving, Leaving
  <1>2. /\ \A c : Exists(c)' = Exists(c)
        /\ \A c \in Copy : Passed(c)' = Passed(c)
        /\ \A i, c : Ahead(i, c)' = Ahead(i, c)
    BY <1>1 DEF Exists, Passed, Replacing, Acknowledges, Ahead
  <1>3. Distinct' /\ Arrivals' /\ Replaced'
    BY <1>1, <1>2 DEF Live, Distinct, Arrivals, Replaced, ReplacedAt, Acknowledges
  <1>4. Departures'
    BY <1>1, WireFrames DEF Live, Departures, QueueTypeOK
  <1>5. InOrder' /\ Known'
    BY <1>2 DEF Live, InOrder, Known
  <1>6. Halfway'
    BY <1>1, <1>2 DEF Live, Halfway
  <1> QED
    BY <1>3, <1>4, <1>5, <1>6 DEF Live

LEMMA PublishStep ==
  ASSUME QueueTypeOK, Live, NEW m \in Messages, Publish(m)
  PROVE  Live'
  <1> DEFINE c == [msg |-> m, retries |-> 0]
  <1>0. c \in Copy /\ c.msg = m /\ wire \in Seq(Frames) /\ Write("publish", c)
    BY QueueAssumption DEF Copy, QueueTypeOK, Publish
  <1>1. /\ \A d : Count(d)' = Count(d) /\ There(d)' = There(d) /\ Acknowledging(d)' = Acknowledging(d)
        /\ \A d : OnePlace(d)' = OnePlace(d) /\ Departed(d)' = Departed(d)
        /\ stored' = stored /\ sent' = sent \cup {m} /\ m \notin sent
    BY DEF Publish, clientVars, brokerVars, Count, There, Carrying, Handling, Acknowledging, OnePlace, Departed
  <1>2. \A d \in Copy : d.msg = m => ~ Exists(d) /\ ~ Coming(d) /\ ~ There(d) /\ ~ Going(d)
    <2>1. \A d \in Copy : d.msg = m => ~ Exists(d)
      BY <1>1 DEF Live, Known
    <2>2. \A d \in Copy : Going(d) => Count(d) > 0
      BY Counts DEF Going, Live, Departures, Departed, Count
    <2> QED
      BY <2>1, <2>2 DEF Exists, There
  <1> HIDE DEF c
  <1>3. /\ ~ Exists(c) /\ ~ Coming(c) /\ ~ There(c) /\ ~ Going(c)
        /\ \A i \in DOMAIN wire : wire[i].copy # c
    <2>1. ~ Exists(c) /\ ~ Coming(c) /\ ~ There(c) /\ ~ Going(c)
      BY <1>0, <1>2, Counts
    <2> QED
      BY <1>0, <2>1, WireFrames DEF Coming, Going
  <1>4. PICK n : n = Len(wire) + 1
    OBVIOUS
  <1>5. /\ \A i \in DOMAIN wire' : i \in DOMAIN wire \/ i = n
        /\ \A i \in DOMAIN wire : wire'[i] = wire[i] /\ i < n /\ ~ (n < i)
        /\ wire'[n].kind = "publish" /\ wire'[n].copy = c
    BY <1>0, <1>4, Written, WireFrames
  <1>6. /\ \A i \in DOMAIN wire : /\ Arriving(i)' = Arriving(i) /\ Leaving(i)' = Leaving(i)
                                  /\ \A d : Ahead(i, d)' <=> Ahead(i, d)
        /\ Arriving(n)' /\ ~ Leaving(n)'
        /\ \A d : Coming(d)' <=> Coming(d) \/ d = c
        /\ \A d : Going(d)' <=> Going(d)
        /\ \A d : Replacing(d)' <=> Replacing(d)
    BY <1>0, <1>4, FrameWritten
  <1>7. /\ \A d : Exists(d)' <=> Exists(d) \/ d = c
        /\ \A d : Passed(d)' <=> Passed(d)
    BY <1>1, <1>6 DEF Exists, Passed
  <1>8. Places' /\ Distinct' /\ Arrivals' /\ Departures'
    BY <1>1, <1>3, <1>5, <1>6 DEF Live, Places, Distinct, Arrivals, Departures
  <1>9. Replaced'
    BY <1>1, <1>5, <1>6 DEF Live, Replaced, ReplacedAt, Acknowledges
  <1>10. InOrder'
    BY <1>0, <1>2, <1>7, LaterOrder DEF Live, InOrder, Later
  <1>11. Halfway'
    <2> SUFFICES ASSUME NEW d \in Copy, Acknowledging(d)'
                 PROVE  /\ d.retries <= MaxRetryCount
                        /\ Exists(Retried(d))'
                        /\ \A e \in Copy : Later(e, d) => ~ Going(e)' /\ (Exists(e)' => e = Retried(d))
      BY DEF Halfway
    <2>1. /\ d.retries <= MaxRetryCount /\ Exists(Retried(d))
          /\ \A e \in Copy : Later(e, d) => ~ Going(e) /\ (Exists(e) => e = Retried(d))
      BY <1>1 DEF Live, Halfway
    <2>2. ~ Later(c, d)
      BY <1>0, <1>2, <2>1, RetriedNext DEF Later
    <2> QED
      BY <1>6, <1>7, <2>1, <2>2
  <1>12. Known'
    BY <1>0, <1>1, <1>7 DEF Live, Known
  <1> QED
    BY <1>8, <1>9, <1>10, <1>11, <1>12 DEF Live

\* The copy in hand is settled: a frame is written for it, and the consumer is done with it.
LEMMA SettleStep ==
  ASSUME QueueTypeOK, Locals, Live, NEW kind \in {"settle", "ackRequeued"}, NEW from,
         Consumes(from, "select"), Write(kind, hand),
         IF kind = "ackRequeued" THEN from = "acknowledge" ELSE from \in {"decode", "handle"}
  PROVE  Live'
  <1> PICK c : c = hand
    OBVIOUS
  <1>0. c \in Copy /\ wire \in Seq(Frames) /\ Write(kind, c) /\ Handling(c)
    BY DEF Consumes, Locals, Handling, QueueTypeOK
  <1>1. /\ \A d : Count(d)' = Count(d) /\ There(d)' = There(d) /\ Carrying(d)' = Carrying(d)
        /\ \A d : ~ Acknowledging(d)' /\ ~ Handling(d)'
        /\ \A d : OnePlace(d) => OnePlace(d)'
        /\ \A d : Departed(d) => Departed(d)'
        /\ stored' = stored /\ sent' = sent
    BY DEF Consumes, brokerVars, Count, There, Carrying, Handling, Acknowledging, OnePlace, Departed
  <1>2. Departed(c)' /\ Count(c) > 0
    BY <1>0, <1>1, Counts DEF Consumes, Live, Places, OnePlace, Departed, Count
  <1>3. \A i \in DOMAIN wire : wire[i].copy # c
    BY <1>0, <1>2, WireFrames, Counts DEF Live, Arrivals, Departures, Departed, There
  <1>13. \A d : Acknowledging(d) => d = c /\ kind = "ackRequeued"
    BY DEF Acknowledging, Consumes
  <1>14. kind = "ackRequeued" => Acknowledging(c)
    BY DEF Acknowledging, Consumes
  <1>4. PICK n : n = Len(wire) + 1
    OBVIOUS
  <1>5. /\ \A i \in DOMAIN wire' : i \in DOMAIN wire \/ i = n
        /\ \A i \in DOMAIN wire : wire'[i] = wire[i] /\ i < n /\ ~ (n < i)
        /\ wire'[n].kind = kind /\ wire'[n].copy = c /\ ~ (n < n)
    BY <1>0, <1>4, Written, WireFrames
  <1>6. /\ \A i \in DOMAIN wire : /\ Arriving(i)' = Arriving(i) /\ Leaving(i)' = Leaving(i)
                                  /\ \A d : Ahead(i, d)' <=> Ahead(i, d)
        /\ ~ Arriving(n)' /\ Leaving(n)' /\ \A d : Ahead(n, d)' <=> Coming(d)
        /\ \A d : Coming(d)' <=> Coming(d)
        /\ \A d : Replacing(d)' <=> Replacing(d) \/ (kind = "ackRequeued" /\ d = c)
    BY <1>0, <1>4, FrameWritten
  <1>7. /\ \A d : Exists(d)' <=> Exists(d)
        /\ \A d : Passed(d) => Passed(d)'
    BY <1>1, <1>6, <1>13 DEF Exists, Passed
  <1>8. Places' /\ Distinct' /\ Arrivals' /\ Departures'
    BY <1>1, <1>2, <1>3, <1>5, <1>6 DEF Live, Places, Distinct, Arrivals, Departures
  <1>9. ASSUME kind = "ackRequeued"
        PROVE  ReplacedAt(n, c)'
    <2>1. /\ c.retries <= MaxRetryCount /\ Exists(Retried(c))
          /\ \A d \in Copy : Later(d, c) => ~ Going(d) /\ (Exists(d) => d = Retried(c))
      BY <1>0, <1>9, <1>14 DEF Live, Halfway
    <2>2. \A j \in DOMAIN wire : Later(wire[j].copy, c) => Arriving(j) /\ wire[j].copy = Retried(c)
      BY <1>0, <2>1, WireFrames DEF Exists, Coming, Going
    <2>3. \A d \in Copy : Later(d, c) /\ There(d)' => d = Retried(c)
      BY <1>1, <2>1 DEF Exists
    <2>4. There(Retried(c))' \/ Ahead(n, Retried(c))'
      BY <1>1, <1>6, <2>1 DEF Exists, Retried
    <2>5. \A j \in DOMAIN wire' : j < n /\ Later(wire'[j].copy, c) =>
             Arriving(j)' /\ wire'[j].copy = Retried(c)
      BY <1>5, <1>6, <2>2
    <2> QED
      BY <2>1, <2>3, <2>4, <2>5 DEF ReplacedAt
  <1>10. Replaced'
    <2> SUFFICES ASSUME NEW i \in DOMAIN wire', NEW d \in Copy, Acknowledges(i, d)'
                 PROVE  ReplacedAt(i, d)'
      BY DEF Replaced
    <2>1. CASE i \in DOMAIN wire
      <3>1. ReplacedAt(i, d)
        BY <1>5, <2>1 DEF Live, Replaced, Acknowledges
      <3> QED
        BY <1>1, <1>5, <1>6, <2>1, <3>1 DEF ReplacedAt
    <2>2. CASE i = n
      BY <1>5, <1>9, <2>2 DEF Acknowledges
    <2> QED
      BY <1>5, <2>1, <2>2
  <1>11. InOrder' /\ Halfway' /\ Known'
    BY <1>1, <1>7 DEF Live, InOrder, Halfway, Known
  <1> QED
    BY <1>8, <1>10, <1>11 DEF Live

LEMMA RequeueStep ==
  ASSUME QueueTypeOK, Locals, Live, RequeuePublishes
  PROVE  Live'
  <1> PICK h : h = hand
    OBVIOUS
  <1> PICK c : c = Retried(h)
    OBVIOUS
  <1>0. /\ h \in Copy /\ h.retries <= MaxRetryCount /\ c \in Copy /\ c.msg = h.msg
        /\ wire \in Seq(Frames) /\ Write("requeue", c) /\ Handling(h)
    BY RetriedNext DEF RequeuePublishes, Consumes, Locals, Handling, QueueTypeOK
  <1>1. /\ \A d : Count(d)' = Count(d) /\ There(d)' = There(d) /\ Carrying(d)' = Carrying(d)
        /\ \A d : ~ Acknowledging(d)
        /\ \A d : Acknowledging(d)' <=> d = h
        /\ \A d : Handling(d)' = Handling(d)
        /\ \A d : OnePlace(d) => OnePlace(d)'
        /\ \A d : Departed(d) => Departed(d)'
        /\ stored' = stored /\ sent' = sent
    BY DEF RequeuePublishes, Consumes, brokerVars, Count, There, Carrying, Handling, Acknowledging, OnePlace, Departed
  <1>2. /\ Count(h) > 0 /\ Exists(h)
        /\ \A i \in DOMAIN wire : wire[i].copy # h
    <2>1. Count(h) > 0
      BY <1>0, Counts DEF Live, Places, OnePlace, Count
    <2> QED
      BY <1>0, <2>1, WireFrames, Counts DEF Live, Arrivals, Departures, Departed, Exists, There
  <1>3. \A d \in Copy : Later(d, h) => ~ Exists(d) /\ ~ Coming(d) /\ ~ There(d) /\ ~ Going(d)
    <2>1. ~ Passed(h)
      BY <1>1, <1>2 DEF Passed, Replacing, Acknowledges
    <2>2. \A d \in Copy : Later(d, h) => ~ Exists(d)
      BY <1>0, <1>2, <2>1 DEF Live, InOrder
    <2>3. \A d \in Copy : Going(d) => Count(d) > 0
      BY Counts DEF Going, Live, Departures, Departed, Count
    <2> QED
      BY <2>2, <2>3 DEF Exists, There
  <1>4. /\ ~ There(c)
        /\ \A i \in DOMAIN wire : ~ Later(wire[i].copy, h) /\ wire[i].copy # c
    <2>1. Later(c, h)
      BY <1>0, LaterOrder
    <2>2. \A i \in DOMAIN wire : ~ Later(wire[i].copy, h)
      BY <1>0, <1>3, WireFrames DEF Coming, Going
    <2> QED
      BY <1>0, <1>3, <2>1, <2>2, Counts
  <1>5. PICK n : n = Len(wire) + 1
    OBVIOUS
  <1>6. /\ \A i \in DOMAIN wire' : i \in DOMAIN wire \/ i = n
        /\ \A i \in DOMAIN wire : wire'[i] = wire[i] /\ i < n /\ ~ (n < i)
        /\ wire'[n].kind = "requeue" /\ wire'[n].copy = c /\ ~ (n < n)
    BY <1>0, <1>5, Written, WireFrames
  <1>7. /\ \A i \in DOMAIN wire : /\ Arriving(i)' = Arriving(i) /\ Leaving(i)' = Leaving(i)
                                  /\ \A d : Ahead(i, d)' <=> Ahead(i, d)
        /\ Arriving(n)' /\ ~ Leaving(n)'
        /\ \A d : Coming(d)' <=> Coming(d) \/ d = c
        /\ \A d : Going(d)' <=> Going(d)
        /\ \A d : Replacing(d)' <=> Replacing(d)
    BY <1>0, <1>5, FrameWritten
  <1>8. /\ \A d : Exists(d)' <=> Exists(d) \/ d = c
        /\ \A d : Passed(d)' <=> Passed(d) \/ d = h
    BY <1>1, <1>7 DEF Exists, Passed
  <1>9. Places' /\ Distinct' /\ Arrivals' /\ Departures'
    BY <1>1, <1>4, <1>6, <1>7 DEF Live, Places, Distinct, Arrivals, Departures
  <1>10. Replaced'
    <2> SUFFICES ASSUME NEW i \in DOMAIN wire', NEW d \in Copy, Acknowledges(i, d)'
                 PROVE  ReplacedAt(i, d)'
      BY DEF Replaced
    <2>1. i \in DOMAIN wire /\ Acknowledges(i, d)
      BY <1>6 DEF Acknowledges
    <2>2. ReplacedAt(i, d)
      BY <2>1 DEF Live, Replaced
    <2> QED
      BY <1>1, <1>6, <1>7, <2>1, <2>2 DEF ReplacedAt
  <1>11. InOrder'
    <2> SUFFICES ASSUME NEW d \in Copy, NEW e \in Copy, Exists(d)', Exists(e)', Later(e, d), d # h
                 PROVE  Passed(d)
      BY <1>8 DEF InOrder
    <2>1. CASE Exists(d) /\ Exists(e)
      BY <2>1 DEF Live, InOrder
    <2>2. CASE d = c
      BY <1>0, <1>3, <1>8, <2>2, LaterOrder
    <2>3. CASE e = c /\ Exists(d)
      <3>1. Later(h, d)
        BY <1>0, <2>3, LaterOrder
      <3> QED
        BY <1>0, <1>2, <2>3, <3>1 DEF Live, InOrder
    <2> QED
      BY <1>8, <2>1, <2>2, <2>3
  <1>12. Halfway'
    <2>1. \A d \in Copy : Later(d, h) => ~ Going(d)' /\ (Exists(d)' => d = c)
      BY <1>3, <1>7, <1>8
    <2>2. Exists(c)'
      BY <1>8
    <2> QED
      BY <1>0, <1>1, <2>1, <2>2 DEF Halfway
  <1>13. Known'
    BY <1>0, <1>1, <1>2, <1>8 DEF Live, Known
  <1> QED
    BY <1>9, <1>10, <1>11, <1>12, <1>13 DEF Live

\* The broker takes a frame that arrives, and keeps its copy or throws it away.
LEMMA ArrivesStep ==
  ASSUME QueueTypeOK, Live, wire # <<>>, wire' = Tail(wire), Arriving(1), NEW c, c = wire[1].copy,
         \A d \in Copy : There(d)' <=> There(d) \/ d = c,
         Places', \A d \in Copy : Departed(d) => Departed(d)',
         \A d \in Copy : Acknowledging(d)' <=> Acknowledging(d),
         sent' = sent, stored' \subseteq stored \cup {c.msg}
  PROVE  Live'
  <1>0. wire \in Seq(Frames) /\ Distinct
    BY DEF QueueTypeOK, Live
  <1>1. c \in Copy /\ 1 \in DOMAIN wire
    BY <1>0, FrameTaken, HeadTaken
  <1>3. \A i \in DOMAIN wire' : i \in Nat /\ i + 1 \in DOMAIN wire /\ wire'[i] = wire[i + 1]
    BY <1>0, HeadTaken
  <1>4. /\ \A i \in DOMAIN wire' : /\ Arriving(i)' = Arriving(i + 1) /\ Leaving(i)' = Leaving(i + 1)
                                   /\ wire'[i].copy # c
                                   /\ \A d : Ahead(i + 1, d) <=> Ahead(i, d)' \/ d = c
        /\ \A d : Coming(d)' <=> Coming(d) /\ d # c
        /\ \A d : Going(d)' <=> Going(d) /\ d # c
        /\ \A d : Replacing(d)' <=> Replacing(d) /\ d # c
    BY <1>0, <1>1, FrameTaken
  <1>5. ~ Replacing(c)
    <2>1. \A i \in DOMAIN wire : wire[i].kind = "ackRequeued" => wire[i].copy # c
      BY <1>0, <1>1 DEF Distinct, Arriving
    <2> QED
      BY <2>1 DEF Replacing, Acknowledges
  <1>6. /\ \A d \in Copy : Exists(d)' <=> Exists(d)
        /\ \A d \in Copy : Passed(d)' <=> Passed(d)
    <2>1. Coming(c)
      BY <1>1 DEF Coming
    <2> QED
      BY <1>4, <1>5, <2>1 DEF Exists, Passed
  <1>8. Distinct' /\ Arrivals' /\ Departures'
    <2>1. Distinct'
      BY <1>3 DEF Live, Distinct
    <2>2. Arrivals'
      BY <1>0, <1>3, <1>4, WireFrames DEF Live, Arrivals
    <2>3. Departures'
      BY <1>0, <1>3, <1>4, WireFrames DEF Live, Departures
    <2> QED
      BY <2>1, <2>2, <2>3
  <1>9. Replaced'
    <2> SUFFICES ASSUME NEW i \in DOMAIN wire', NEW e \in Copy, Acknowledges(i, e)'
                 PROVE  ReplacedAt(i, e)'
      BY DEF Replaced
    <2>1. i + 1 \in DOMAIN wire /\ 1 < i + 1 /\ ReplacedAt(i + 1, e)
      BY <1>0, <1>3, HeadTaken DEF Live, Replaced, Acknowledges
    <2>2. /\ e.retries <= MaxRetryCount /\ Retried(e) \in Copy
          /\ \A j \in DOMAIN wire : j < i + 1 /\ Later(wire[j].copy, e) => Arriving(j) /\ wire[j].copy = Retried(e)
      BY <2>1, RetriedNext DEF ReplacedAt
    <2>3. Later(c, e) => c = Retried(e)
      BY <1>1, <2>1, <2>2
    <2>4. There(Retried(e))' \/ Ahead(i, Retried(e))'
      <3>1. There(Retried(e)) \/ Ahead(i + 1, Retried(e))
        BY <2>1 DEF ReplacedAt
      <3> QED
        BY <1>4, <2>2, <3>1
    <2>5. \A d \in Copy : Later(d, e) /\ There(d)' => d = Retried(e)
      BY <2>1, <2>3 DEF ReplacedAt
    <2>6. \A j \in DOMAIN wire' : j < i /\ Later(wire'[j].copy, e) => Arriving(j)' /\ wire'[j].copy = Retried(e)
      <3> SUFFICES ASSUME NEW j \in DOMAIN wire', j < i, Later(wire'[j].copy, e)
                   PROVE  Arriving(j)' /\ wire'[j].copy = Retried(e)
        OBVIOUS
      <3>1. j + 1 \in DOMAIN wire /\ j + 1 < i + 1 /\ wire'[j] = wire[j + 1]
        BY <1>3
      <3> QED
        BY <1>4, <2>2, <3>1
    <2> QED
      BY <2>2, <2>4, <2>5, <2>6 DEF ReplacedAt
  <1>10. InOrder' /\ Known'
    <2>1. InOrder'
      BY <1>6 DEF Live, InOrder
    <2>2. c.msg \in sent
      BY <1>1 DEF Live, Known, Exists, Coming
    <2>3. Known'
      BY <1>6, <2>2 DEF Live, Known
    <2> QED
      BY <2>1, <2>3
  <1>11. Halfway'
    <2> SUFFICES ASSUME NEW e \in Copy, Acknowledging(e)
                 PROVE  /\ e.retries <= MaxRetryCount
                        /\ Exists(Retried(e))'
                        /\ \A d \in Copy : Later(d, e) => ~ Going(d)' /\ (Exists(d)' => d = Retried(e))
      BY DEF Halfway
    <2>1. /\ e.retries <= MaxRetryCount /\ Exists(Retried(e)) /\ Retried(e) \in Copy
          /\ \A d \in Copy : Later(d, e) => ~ Going(d) /\ (Exists(d) => d = Retried(e))
      BY RetriedNext DEF Live, Halfway
    <2> QED
      BY <1>4, <1>6, <2>1
  <1> QED
    BY <1>8, <1>9, <1>10, <1>11 DEF Live

LEMMA StoresStep ==
  ASSUME QueueTypeOK, Live, BrokerStores
  PROVE  Live'
  <1> PICK c : c = wire[1].copy
    OBVIOUS
  <1>0. /\ wire \in Seq(Frames) /\ wire # <<>> /\ wire' = Tail(wire) /\ Head(wire) = wire[1]
        /\ sent' = sent /\ dropped' = dropped /\ 1 \in DOMAIN wire /\ Arriving(1) /\ c \in Copy
    BY HeadTaken, WireFrames DEF BrokerStores, QueueTypeOK, Arriving
  <1>1. ready[c] = 0 /\ unacked[c] = 0 /\ buffer[c] = 0 /\ c \notin dropped
    <2>1. Count(c) = 0 /\ c \notin dropped
      BY <1>0, Counts DEF Live, Arrivals, There
    <2>2. ready[c] \in 0..2 /\ unacked[c] \in 0..2 /\ buffer[c] \in 0..2 /\ buffer[c] <= unacked[c]
      BY <1>0, Counts DEF Live, Places, OnePlace
    <2> QED
      BY <2>1, <2>2 DEF Count
  <1>2. /\ ready' = [ready EXCEPT ![c] = 1] /\ ready \in [Copy -> 0..2] /\ unacked \in [Copy -> 0..2]
        /\ unacked' = unacked /\ buffer' = buffer /\ stored' = stored \cup {c.msg}
    <2>1. /\ ready' = [ready EXCEPT ![c] = ready[c] + 1] /\ stored' = stored \cup {c.msg}
          /\ unacked' = unacked /\ buffer' = buffer
      BY <1>0 DEF BrokerStores, Adding
    <2> QED
      BY <1>1, <2>1 DEF QueueTypeOK, Bags
  <1>3. /\ Count(c)' = 1 /\ \A d \in Copy : d # c => Count(d)' = Count(d)
        /\ \A d : Carrying(d)' = Carrying(d) /\ Handling(d)' = Handling(d)
        /\ \A d : Acknowledging(d)' = Acknowledging(d) /\ Departed(d)' = Departed(d)
    BY <1>0, <1>1, <1>2 DEF BrokerStores, clientVars, Count, Carrying, Handling, Acknowledging, Departed
  <1>4. \A d \in Copy : There(d)' <=> There(d) \/ d = c
    BY <1>0, <1>3 DEF There
  <1>5. Places'
    BY <1>0, <1>1, <1>2, <1>3 DEF Live, Places, OnePlace
  <1> QED
    BY <1>0, <1>2, <1>3, <1>4, <1>5, ArrivesStep

LEMMA DropsStep ==
  ASSUME QueueTypeOK, Live, BrokerDrops
  PROVE  Live'
  <1> PICK c : c = wire[1].copy
    OBVIOUS
  <1>0. /\ wire \in Seq(Frames) /\ wire # <<>> /\ wire' = Tail(wire) /\ Head(wire) = wire[1]
        /\ sent' = sent /\ stored' = stored /\ dropped' = dropped \cup {c}
        /\ 1 \in DOMAIN wire /\ Arriving(1) /\ c \in Copy
    BY HeadTaken, WireFrames DEF BrokerDrops, QueueTypeOK, Arriving
  <1>1. Count(c) = 0
    BY <1>0, Counts DEF Live, Arrivals, There
  <1>2. /\ ready' = ready /\ unacked' = unacked /\ buffer' = buffer
        /\ \A d : Count(d)' = Count(d)
        /\ \A d : Carrying(d)' = Carrying(d) /\ Handling(d)' = Handling(d)
        /\ \A d : Acknowledging(d)' = Acknowledging(d) /\ Departed(d)' = Departed(d)
    BY DEF BrokerDrops, clientVars, Count, Carrying, Handling, Acknowledging, Departed
  <1>3. \A d \in Copy : There(d)' <=> There(d) \/ d = c
    BY <1>0, <1>2 DEF There
  <1>4. Places'
    BY <1>0, <1>1, <1>2 DEF Live, Places, OnePlace
  <1> QED
    BY <1>0, <1>2, <1>3, <1>4, ArrivesStep

LEMMA SettlesStep ==
  ASSUME QueueTypeOK, Live, BrokerSettles
  PROVE  Live'
  <1> PICK c : c = wire[1].copy
    OBVIOUS
  <1>0. wire \in Seq(Frames) /\ wire # <<>> /\ wire' = Tail(wire) /\ Distinct /\ Head(wire) = wire[1]
    BY HeadTaken DEF BrokerSettles, QueueTypeOK, Live
  <1>1. /\ c \in Copy /\ 1 \in DOMAIN wire /\ Leaving(1) /\ ~ Arriving(1) /\ Departed(c)
        /\ Count(c) = 1 /\ unacked[c] = 1 /\ ready[c] = 0 /\ buffer[c] = 0 /\ c \notin dropped
        /\ unacked \in [Copy -> 0..2]
    <2>1. c \in Copy /\ 1 \in DOMAIN wire /\ Leaving(1) /\ ~ Arriving(1) /\ Departed(c)
      BY <1>0, FrameTaken, HeadTaken, WireFrames DEF BrokerSettles, Leaving, Live, Departures
    <2>2. ready[c] \in 0..2 /\ unacked[c] \in 0..2 /\ unacked[c] > 0 /\ Count(c) <= 1 /\ buffer[c] = 0
        /\ (c \in dropped => Count(c) = 0)
      BY <2>1, Counts DEF Live, Places, OnePlace, Departed
    <2>3. Count(c) = 1 /\ unacked[c] = 1 /\ ready[c] = 0 /\ c \notin dropped
      BY <2>2 DEF Count
    <2> QED
      BY <2>1, <2>2, <2>3 DEF QueueTypeOK, Bags
  <1>2. /\ Count(c)' = 0 /\ ~ There(c)' /\ unacked'[c] = 0
        /\ \A d \in Copy : d # c => Count(d)' = Count(d) /\ There(d)' = There(d) /\ unacked'[d] = unacked[d]
        /\ \A d : Carrying(d)' = Carrying(d) /\ Handling(d)' = Handling(d)
        /\ \A d : Acknowledging(d)' = Acknowledging(d)
        /\ ready' = ready /\ buffer' = buffer /\ dropped' = dropped
    BY <1>0, <1>1 DEF BrokerSettles, Removing, clientVars, Count, There, Carrying, Handling, Acknowledging
  <1>3. \A i \in DOMAIN wire' : /\ i \in Nat /\ i + 1 \in DOMAIN wire /\ wire'[i] = wire[i + 1]
                                /\ 1 < i + 1 /\ wire'[i].copy \in Copy
    BY <1>0, HeadTaken, WireFrames
  <1>4. /\ \A i \in DOMAIN wire' : /\ Arriving(i)' = Arriving(i + 1) /\ Leaving(i)' = Leaving(i + 1)
                                   /\ wire'[i].copy # c
                                   /\ \A d : Ahead(i + 1, d) <=> Ahead(i, d)'
        /\ \A d : Coming(d)' <=> Coming(d) /\ d # c
        /\ \A d : Going(d)' <=> Going(d) /\ d # c
        /\ \A d : Replacing(d)' <=> Replacing(d) /\ d # c
    BY <1>0, <1>1, FrameTaken
  <1>5. /\ \A d \in Copy : Exists(d)' <=> Exists(d) /\ d # c
        /\ \A d : d # c /\ Passed(d) => Passed(d)'
        /\ Going(c)
    <2>1. ~ Coming(c) /\ Going(c)
      BY <1>0, <1>1 DEF Coming, Going, Distinct
    <2> QED
      BY <1>2, <1>4, <2>1 DEF Exists, Passed
  <1>6. Places'
    BY <1>1, <1>2 DEF Live, Places, OnePlace, Departed
  <1>7. Distinct' /\ Arrivals' /\ Departures'
    <2>1. Distinct'
      BY <1>3 DEF Live, Distinct
    <2>2. Arrivals'
      BY <1>2, <1>3, <1>4 DEF Live, Arrivals
    <2>3. \A d \in Copy : d # c /\ Departed(d) => Departed(d)'
      BY <1>2 DEF Departed
    <2>4. Departures'
      BY <1>3, <1>4, <2>3 DEF Live, Departures
    <2> QED
      BY <2>1, <2>2, <2>4
  <1>8. Replaced'
    <2> SUFFICES ASSUME NEW i \in DOMAIN wire', NEW e \in Copy, Acknowledges(i, e)'
                 PROVE  ReplacedAt(i, e)'
      BY DEF Replaced
    <2>1. i + 1 \in DOMAIN wire /\ 1 < i + 1 /\ ReplacedAt(i + 1, e)
      BY <1>3 DEF Live, Replaced, Acknowledges
    <2>2. /\ e.retries <= MaxRetryCount /\ Retried(e) \in Copy
          /\ \A j \in DOMAIN wire : j < i + 1 /\ Later(wire[j].copy, e) => Arriving(j) /\ wire[j].copy = Retried(e)
      BY <2>1, RetriedNext DEF ReplacedAt
    <2>3. ~ Later(c, e) /\ Retried(e) # c
      BY <1>1, <2>1, <2>2, LaterOrder
    <2>4. There(Retried(e))' \/ Ahead(i, Retried(e))'
      <3>1. There(Retried(e)) \/ Ahead(i + 1, Retried(e))
        BY <2>1 DEF ReplacedAt
      <3> QED
        BY <1>2, <1>4, <2>2, <2>3, <3>1
    <2>5. \A d \in Copy : Later(d, e) /\ There(d)' => d = Retried(e)
      BY <1>2, <2>1, <2>3 DEF ReplacedAt
    <2>6. \A j \in DOMAIN wire' : j < i /\ Later(wire'[j].copy, e) => Arriving(j)' /\ wire'[j].copy = Retried(e)
      <3> SUFFICES ASSUME NEW j \in DOMAIN wire', j < i, Later(wire'[j].copy, e)
                   PROVE  Arriving(j)' /\ wire'[j].copy = Retried(e)
        OBVIOUS
      <3>1. j + 1 \in DOMAIN wire /\ j + 1 < i + 1 /\ wire'[j] = wire[j + 1]
        BY <1>3
      <3> QED
        BY <1>4, <2>2, <3>1
    <2> QED
      BY <2>2, <2>4, <2>5, <2>6 DEF ReplacedAt
  <1>9. InOrder'
    BY <1>5 DEF Live, InOrder
  <1>10. Known'
    BY <1>5 DEF Live, Known, BrokerSettles
  <1>11. Halfway'
    <2> SUFFICES ASSUME NEW e \in Copy, Acknowledging(e)
                 PROVE  /\ e.retries <= MaxRetryCount
                        /\ Exists(Retried(e))'
                        /\ \A d \in Copy : Later(d, e) => ~ Going(d)' /\ (Exists(d)' => d = Retried(e))
      BY <1>2 DEF Halfway
    <2>1. /\ e.retries <= MaxRetryCount /\ Exists(Retried(e)) /\ Retried(e) \in Copy
          /\ \A d \in Copy : Later(d, e) => ~ Going(d) /\ (Exists(d) => d = Retried(e))
      BY RetriedNext DEF Live, Halfway
    <2>2. Retried(e) # c
      BY <1>1, <1>5, <2>1, LaterOrder
    <2> QED
      BY <1>4, <1>5, <2>1, <2>2
  <1> QED
    BY <1>6, <1>7, <1>8, <1>9, <1>10, <1>11 DEF Live

LEMMA DeliversStep ==
  ASSUME QueueTypeOK, Live, NEW c \in Copy, BrokerDelivers(c)
  PROVE  Live'
  <1>1. /\ ready[c] = 1 /\ unacked[c] = 0 /\ buffer[c] = 0
        /\ ~ Carrying(c) /\ ~ Handling(c)
    <2>1. ready[c] \in 0..2 /\ unacked[c] \in 0..2 /\ buffer[c] \in 0..2 /\ ready[c] > 0
      BY Counts DEF BrokerDelivers
    <2>2. OnePlace(c) /\ Count(c) <= 1 /\ buffer[c] <= unacked[c]
      BY DEF Live, Places, OnePlace
    <2>3. ready[c] = 1 /\ unacked[c] = 0 /\ buffer[c] = 0
      BY <2>1, <2>2 DEF Count
    <2> QED
      BY <2>2, <2>3 DEF OnePlace
  <1>2. /\ ready' = [ready EXCEPT ![c] = 0]
        /\ unacked' = [unacked EXCEPT ![c] = 1]
        /\ buffer' = [buffer EXCEPT ![c] = 1]
        /\ ready \in [Copy -> 0..2] /\ unacked \in [Copy -> 0..2] /\ buffer \in [Copy -> 0..2]
    BY <1>1 DEF BrokerDelivers, Removing, Adding, QueueTypeOK, Bags
  <1>3. /\ \A d \in Copy : Count(d)' = Count(d) /\ There(d)' = There(d)
        /\ \A d : Carrying(d)' = Carrying(d) /\ Handling(d)' = Handling(d)
        /\ \A d : Acknowledging(d)' = Acknowledging(d)
        /\ UNCHANGED <<wire, stored, sent, dropped>>
    BY <1>1, <1>2 DEF BrokerDelivers, clientVars, Count, There, Carrying, Handling, Acknowledging
  <1>4. Places'
    BY <1>1, <1>2, <1>3 DEF Live, Places, OnePlace
  <1>5. \A d \in Copy : Departed(d) => Departed(d)'
    BY <1>1, <1>2, <1>3 DEF Departed
  <1>6. /\ \A d : Coming(d)' = Coming(d) /\ Going(d)' = Going(d)
        /\ \A i : Arriving(i)' = Arriving(i) /\ Leaving(i)' = Leaving(i)
        /\ \A d \in Copy : Exists(d)' = Exists(d)
        /\ \A d \in Copy : Passed(d)' = Passed(d)
        /\ \A i, d : Ahead(i, d)' = Ahead(i, d) /\ Acknowledges(i, d)' = Acknowledges(i, d)
    BY <1>3 DEF Coming, Going, Arriving, Leaving, Exists, Passed, Ahead, Replacing, Acknowledges
  <1>7. Distinct' /\ Arrivals' /\ Departures'
    BY <1>3, <1>5, <1>6, WireFrames DEF Live, Distinct, Arrivals, Departures, QueueTypeOK
  <1>8. Replaced'
    <2> SUFFICES ASSUME NEW i \in DOMAIN wire, NEW e \in Copy, Acknowledges(i, e)
                 PROVE  ReplacedAt(i, e)'
      BY <1>3, <1>6 DEF Replaced
    <2>1. ReplacedAt(i, e) /\ Retried(e) \in Copy
      BY RetriedNext DEF Live, Replaced, ReplacedAt
    <2> QED
      BY <1>3, <1>6, <2>1 DEF ReplacedAt
  <1>9. InOrder' /\ Known'
    BY <1>3, <1>6 DEF Live, InOrder, Known
  <1>10. Halfway'
    <2> SUFFICES ASSUME NEW e \in Copy, Acknowledging(e)
                 PROVE  /\ e.retries <= MaxRetryCount
                        /\ Exists(Retried(e))'
                        /\ \A d \in Copy : Later(d, e) => ~ Going(d)' /\ (Exists(d)' => d = Retried(e))
      BY <1>3 DEF Halfway
    <2>1. /\ e.retries <= MaxRetryCount /\ Exists(Retried(e)) /\ Retried(e) \in Copy
          /\ \A d \in Copy : Later(d, e) => ~ Going(d) /\ (Exists(d) => d = Retried(e))
      BY RetriedNext DEF Live, Halfway
    <2> QED
      BY <1>6, <2>1
  <1> QED
    BY <1>4, <1>7, <1>8, <1>9, <1>10 DEF Live

-----------------------------------------------------------------------------
(* The invariant is kept                                                   *)

\* The channel dies: every copy that the broker keeps is ready again.
LEMMA DieStep ==
  ASSUME QueueInv, channel # "dead", NEW kept, Die(kept),
         UNCHANGED <<stored, settled, sent, exchange, clientVars>>, closed' \in BOOLEAN
  PROVE  QueueInv'
  <1> USE DEF QueueInv
  <1>1. \A c \in Copy : /\ Count(c) \in 0..1 /\ unacked'[c] = 0 /\ buffer'[c] = 0
                        /\ ready'[c] = IF c \in kept THEN Count(c) ELSE 0
    <2>1. \A c \in Copy : Count(c) \in 0..1
      BY Counts DEF Live, Places, OnePlace
    <2> QED
      BY <2>1 DEF Die, Empty
  <1>2. \A c \in Copy : /\ ready'[c] \in 0..1 /\ Count(c)' = ready'[c]
                        /\ Count(c)' > 0 => Count(c)' = Count(c)
                        /\ Count(c) > 0 => Count(c)' > 0 \/ c \in dropped'
    <2>1. \A c \in Copy : ready'[c] \in 0..1
      BY <1>1
    <2>2. \A c \in Copy : Count(c)' = ready'[c]
      BY <1>1, <2>1 DEF Count
    <2>3. \A c \in Copy : Count(c) > 0 /\ c \notin kept => c \in dropped'
      BY DEF Die
    <2> QED
      BY <1>1, <2>1, <2>2, <2>3
  <1>3. QueueTypeOK'
    <2>1. ready' \in Bags /\ unacked' \in Bags /\ buffer' \in Bags
      BY <1>1, <1>2 DEF Die, Empty, Bags
    <2>2. dropped' \subseteq Copy /\ wire' \in Seq(Frames) /\ channel' = "dead"
      BY DEF Die, QueueTypeOK
    <2> QED
      BY <2>1, <2>2 DEF QueueTypeOK, clientVars
  <1>4. Locals'
    BY DEF Locals, Die, clientVars
  <1>5. NeverLost'
    <2>1. \A m : Dropped(m) => Dropped(m)'
      BY DEF Dropped, Die
    <2>2. \A m : Present(m) => Present(m)' \/ Dropped(m)'
      BY <1>2 DEF Present, Dropped
    <2> QED
      BY <2>1, <2>2 DEF NeverLost, Die
  <1>6. OneCopy'
    <2>1. OneCopy
      BY LiveOneCopy
    <2> QED
      BY <1>2, <2>1 DEF OneCopy, Die
  <1>7. Dead' /\ channel' = "dead"
    BY <1>1, <1>2, <1>6 DEF Dead, Die
  <1> QED
    BY <1>3, <1>4, <1>5, <1>7

\* Steps of one goroutine, of which neither the wire nor the broker knows, and in which no copy
\* changes its place but one that the handler leaves.
Quiet ==
  \/ Connect \/ ForwarderConsumes \/ DeliveriesEnd \/ ForwarderWakes \/ StartConsumer \/ Cancel
  \/ ConsumerStops \/ Decodes \/ HandlerFails \/ ConsumeReturns

LEMMA QuietStep ==
  ASSUME QueueInv, Quiet
  PROVE  QueueInv'
  <1> USE DEF QueueInv
  <1>1. /\ UNCHANGED <<wire, ready, unacked, buffer, stored, settled, sent, exchange, dropped>>
        /\ channel' = channel \/ (channel = "new" /\ channel' = "open")
    BY DEF Quiet, Connect, ForwarderConsumes, DeliveriesEnd, ForwarderWakes, Forwards, StartConsumer,
           Cancel, ConsumerStops, Decodes, HandlerFails, Consumes, ConsumeReturns, brokerVars, clientVars
  <1>2. QueueTypeOK' /\ Locals'
    <2> USE DEF QueueTypeOK, Locals, brokerVars
    <2>1. CASE Connect \/ StartConsumer \/ Cancel \/ ConsumeReturns
      BY <2>1 DEF Connect, StartConsumer, Cancel, ConsumeReturns, clientVars
    <2>2. CASE ForwarderConsumes \/ DeliveriesEnd \/ ForwarderWakes
      BY <2>2 DEF ForwarderConsumes, DeliveriesEnd, ForwarderWakes, Forwards
    <2>3. CASE ConsumerStops \/ Decodes \/ HandlerFails
      BY <2>3 DEF ConsumerStops, Decodes, HandlerFails, Consumes
    <2> QED
      BY <2>1, <2>2, <2>3 DEF Quiet
  <1>3. NeverLost'
    BY <1>1 DEF NeverLost, Present, Dropped, Count, OnWire
  <1>4. /\ \A c : Carrying(c)' => Carrying(c)
        /\ \A c : Handling(c)' => Handling(c)
        /\ \A c : Acknowledging(c)' <=> Acknowledging(c)
    BY DEF Quiet, Connect, ForwarderConsumes, DeliveriesEnd, ForwarderWakes, Forwards, StartConsumer,
           Cancel, ConsumerStops, Decodes, HandlerFails, Consumes, ConsumeReturns, brokerVars, clientVars,
           Locals, Carrying, Handling, Acknowledging
  <1>5. ASSUME channel # "dead"
        PROVE  Live'
    <2>1. Places'
      BY <1>1, <1>4, <1>5 DEF Live, Places, OnePlace, Count
    <2>2. \A c \in Copy : Departed(c) => Departed(c)'
      BY <1>1, <1>4 DEF Departed
    <2>3. \A c \in Copy : buffer'[c] <= buffer[c]
      BY <1>1, Counts
    <2> QED
      BY <1>1, <1>4, <1>5, <2>1, <2>2, <2>3, LocalStep
  <1>6. ASSUME channel = "dead"
        PROVE  Dead'
    BY <1>1, <1>6 DEF Dead, OneCopy, Count
  <1> QED
    BY <1>1, <1>2, <1>3, <1>5, <1>6

LEMMA TakesStep ==
  ASSUME QueueInv, NEW c \in Copy, ForwarderTakes(c)
  PROVE  QueueInv'
  <1> USE DEF QueueInv
  <1>1. /\ UNCHANGED <<channel, wire, ready, unacked, stored, settled, sent, exchange, dropped, consumer, hand>>
        /\ forwarder = "range" /\ forwarder' = "send" /\ carried' = c
    BY DEF ForwarderTakes, Forwards, brokerVars
  <1>2. /\ buffer[c] \in 0..2 /\ buffer[c] > 0 /\ buffer' = [buffer EXCEPT ![c] = buffer[c] - 1]
        /\ buffer \in [Copy -> 0..2]
    BY Counts DEF ForwarderTakes, Removing, QueueTypeOK, Bags
  <1>3. channel # "dead"
    BY <1>2 DEF Dead
  <1>4. OnePlace(c) /\ unacked[c] \in 0..2 /\ ready[c] \in 0..2 /\ buffer[c] = 1 /\ unacked[c] = 1
    <2>1. OnePlace(c) /\ unacked[c] \in 0..2 /\ ready[c] \in 0..2
      BY <1>3, Counts DEF Live, Places
    <2> QED
      BY <1>2, <2>1 DEF OnePlace, Count
  <1>5. QueueTypeOK' /\ Locals'
    <2>1. buffer' \in Bags
      BY <1>2 DEF Bags
    <2> QED
      BY <1>1, <2>1 DEF QueueTypeOK, Locals, ForwarderTakes, Forwards, brokerVars
  <1>6. NeverLost'
    BY <1>1 DEF NeverLost, Present, Dropped, Count, OnWire
  <1>7. Places'
    BY <1>1, <1>2, <1>3, <1>4 DEF Live, Places, OnePlace, Count, Carrying, Handling
  <1>8. \A d \in Copy : Departed(d) => Departed(d)'
    BY <1>1, <1>2 DEF Departed, Carrying, Handling
  <1>9. \A d \in Copy : buffer'[d] <= buffer[d]
    BY <1>2
  <1>10. \A d \in Copy : Acknowledging(d)' <=> Acknowledging(d)
    BY <1>1 DEF Acknowledging
  <1>11. Live'
    BY <1>1, <1>3, <1>7, <1>8, <1>9, <1>10, LocalStep
  <1> QED
    BY <1>1, <1>3, <1>5, <1>6, <1>11

LEMMA SendsStep ==
  ASSUME QueueInv, ForwarderSends
  PROVE  QueueInv'
  <1> USE DEF QueueInv
  <1>1. /\ UNCHANGED <<channel, wire, ready, unacked, buffer, stored, settled, sent, exchange, dropped>>
        /\ forwarder = "send" /\ forwarder' = "range" /\ consumer = "select" /\ consumer' = "decode"
        /\ hand' = carried /\ carried \in Copy
    BY DEF ForwarderSends, Forwards, brokerVars, Locals
  <1>2. QueueTypeOK' /\ Locals'
    BY <1>1 DEF QueueTypeOK, Locals, ForwarderSends, Forwards, brokerVars
  <1>3. NeverLost'
    BY <1>1 DEF NeverLost, Present, Dropped, Count, OnWire
  <1>4. /\ \A d : ~ Carrying(d)' /\ (Handling(d)' <=> Carrying(d))
        /\ \A d : ~ Acknowledging(d)' /\ ~ Acknowledging(d)
    BY <1>1 DEF Carrying, Handling, Acknowledging
  <1>5. ASSUME channel # "dead"
        PROVE  Live'
    <2>1. Places'
      BY <1>1, <1>4, <1>5 DEF Live, Places, OnePlace, Count
    <2>2. \A d \in Copy : Departed(d) => Departed(d)'
      BY <1>1, <1>4 DEF Departed
    <2>3. \A d \in Copy : buffer'[d] <= buffer[d]
      BY <1>1, Counts
    <2> QED
      BY <1>1, <1>4, <1>5, <2>1, <2>2, <2>3, LocalStep
  <1>6. ASSUME channel = "dead"
        PROVE  Dead'
    BY <1>1, <1>6 DEF Dead, OneCopy, Count
  <1> QED
    BY <1>1, <1>2, <1>3, <1>5, <1>6

\* The calls of the handler that write a frame, when the channel is gone.
LEMMA WritesNothing ==
  ASSUME QueueInv, channel # "open", Rejects \/ HandlerSettles \/ RequeueAcknowledges
  PROVE  QueueInv'
  <1> USE DEF QueueInv
  <1>1. /\ UNCHANGED <<wire, ready, unacked, buffer, stored, settled, sent, exchange, dropped>>
        /\ channel' = channel
    BY DEF Rejects, HandlerSettles, RequeueAcknowledges, Writes, Consumes, brokerVars
  <1>2. channel = "dead"
    BY DEF Rejects, HandlerSettles, RequeueAcknowledges, Consumes, Locals, QueueTypeOK
  <1>3. QueueTypeOK' /\ Locals'
    BY DEF Rejects, HandlerSettles, RequeueAcknowledges, Writes, Consumes, brokerVars, QueueTypeOK, Locals
  <1>4. NeverLost'
    BY <1>1 DEF NeverLost, Present, Dropped, Count, OnWire
  <1>5. Dead'
    BY <1>1, <1>2 DEF Dead, OneCopy, Count
  <1> QED
    BY <1>1, <1>2, <1>3, <1>4, <1>5

\* A frame is written.
LEMMA WritesStep ==
  ASSUME QueueInv, channel = "open",
         Rejects \/ HandlerSettles \/ RequeueAcknowledges \/ RequeuePublishes
  PROVE  QueueInv'
  <1> USE DEF QueueInv
  <1>1. Live'
    <2>1. CASE Rejects
      BY <2>1, SettleStep DEF Rejects, Writes
    <2>2. CASE HandlerSettles
      BY <2>2, SettleStep DEF HandlerSettles, Writes
    <2>3. CASE RequeueAcknowledges
      BY <2>3, SettleStep DEF RequeueAcknowledges, Writes
    <2>4. CASE RequeuePublishes
      BY <2>4, RequeueStep
    <2> QED
      BY <2>1, <2>2, <2>3, <2>4
  <1>2. PICK kind \in {"requeue", "settle", "ackRequeued"}, c \in Copy : Write(kind, c)
    <2>1. hand \in Copy
      BY DEF Rejects, HandlerSettles, RequeueAcknowledges, RequeuePublishes, Consumes, Locals
    <2>2. RequeuePublishes => Retried(hand) \in Copy
      BY <2>1, RetriedNext DEF RequeuePublishes
    <2> QED
      BY <2>1, <2>2 DEF Rejects, HandlerSettles, RequeueAcknowledges, RequeuePublishes, Writes
  <1>3. /\ wire' \in Seq(Frames)
        /\ \A i \in DOMAIN wire : i \in DOMAIN wire' /\ wire'[i] = wire[i]
    BY <1>2, Written DEF QueueTypeOK
  <1>4. /\ UNCHANGED <<channel, closed, unacked, buffer, sent, brokerVars, forwarder, carried, caller, cancelled>>
        /\ consumer' \in {"select", "acknowledge"} /\ hand' \in {None, hand}
        /\ consumer' = "acknowledge" => hand' \in Copy
        /\ consumer # "none"
    BY DEF Rejects, HandlerSettles, RequeueAcknowledges, RequeuePublishes, Consumes, Locals
  <1>5. QueueTypeOK' /\ Locals'
    BY <1>3, <1>4 DEF QueueTypeOK, Locals, brokerVars
  <1>6. NeverLost'
    BY <1>3, <1>4 DEF NeverLost, Present, Dropped, Count, OnWire, brokerVars
  <1> QED
    BY <1>1, <1>4, <1>5, <1>6

\* The broker takes the first frame, or delivers.
LEMMA StoresKept ==
  ASSUME QueueInv, channel # "dead", BrokerStores
  PROVE  QueueInv'
  <1> USE DEF QueueInv
  <1>1. Live'
    BY StoresStep
  <1> PICK c : c = wire[1].copy
    OBVIOUS
  <1>2. /\ wire \in Seq(Frames) /\ wire # <<>> /\ Head(wire) = wire[1] /\ 1 \in DOMAIN wire
        /\ c \in Copy /\ wire' = Tail(wire) /\ wire' \in Seq(Frames) /\ Arriving(1)
        /\ \A i \in DOMAIN wire : i # 1 => i - 1 \in DOMAIN wire' /\ wire'[i - 1] = wire[i]
    BY HeadTaken, WireFrames DEF BrokerStores, QueueTypeOK, Arriving
  <1>3. /\ Count(c) = 0 /\ dropped' = dropped /\ ready \in [Copy -> 0..2] /\ c.msg \in sent
        /\ ready[c] \in 0..2 /\ unacked[c] \in 0..2
    BY <1>2, Counts DEF BrokerStores, Live, Arrivals, There, Known, Exists, Coming, QueueTypeOK, Bags
  <1>4. ready[c] = 0 /\ unacked[c] = 0 /\ ready' = [ready EXCEPT ![c] = 1] /\ unacked' = unacked
    <2>1. ready[c] = 0 /\ unacked[c] = 0
      BY <1>3 DEF Count
    <2>2. ready' = [ready EXCEPT ![c] = ready[c] + 1] /\ unacked' = unacked
      BY <1>2 DEF BrokerStores, Adding
    <2> QED
      BY <2>1, <2>2
  <1>5. c.msg \in Messages
    BY <1>2, RetriedNext
  <1>6. QueueTypeOK'
    <2>1. ready' \in Bags
      BY <1>2, <1>3, <1>4 DEF Bags
    <2> QED
      BY <1>2, <1>5, <2>1 DEF QueueTypeOK, BrokerStores, clientVars
  <1>7. Locals'
    BY DEF Locals, BrokerStores, clientVars
  <1>8. NeverLost'
    <2> SUFFICES ASSUME NEW m \in sent
                 PROVE  IF m \in stored' THEN m \in settled \/ Present(m)' \/ Dropped(m)'
                                        ELSE OnWire(m, "publish")'
      BY DEF NeverLost, BrokerStores
    <2>1. Count(c)' = 1 /\ \A d \in Copy : d # c => Count(d)' = Count(d)
      BY <1>2, <1>3, <1>4 DEF Count
    <2>2. CASE m = c.msg
      BY <1>2, <2>1, <2>2 DEF BrokerStores, Present
    <2>3. CASE m # c.msg /\ m \in stored
      <3>1. m \in settled \/ Present(m) \/ Dropped(m)
        BY <2>3 DEF NeverLost
      <3>2. (Present(m) => Present(m)') /\ (Dropped(m) => Dropped(m)')
        BY <1>3, <2>1, <2>3 DEF Present, Dropped
      <3> QED
        BY <2>3, <3>1, <3>2 DEF BrokerStores
    <2>4. CASE m # c.msg /\ m \notin stored
      <3>1. PICK i \in DOMAIN wire : wire[i].copy.msg = m /\ wire[i].kind = "publish"
        BY <2>4 DEF NeverLost, OnWire
      <3>2. i - 1 \in DOMAIN wire' /\ wire'[i - 1] = wire[i]
        BY <1>2, <2>4, <3>1
      <3>3. OnWire(m, "publish")'
        BY <3>1, <3>2 DEF OnWire
      <3> QED
        BY <1>2, <2>4, <3>3 DEF BrokerStores
    <2> QED
      BY <2>2, <2>3, <2>4
  <1> QED
    BY <1>1, <1>6, <1>7, <1>8 DEF BrokerStores

LEMMA DropsKept ==
  ASSUME QueueInv, channel # "dead", BrokerDrops
  PROVE  QueueInv'
  <1> USE DEF QueueInv
  <1>1. Live'
    BY DropsStep
  <1> PICK c : c = wire[1].copy
    OBVIOUS
  <1>2. /\ wire \in Seq(Frames) /\ wire # <<>> /\ Head(wire) = wire[1] /\ wire[1].kind = "requeue"
        /\ c \in Copy /\ wire' = Tail(wire) /\ wire' \in Seq(Frames)
        /\ \A i \in DOMAIN wire : i # 1 => i - 1 \in DOMAIN wire' /\ wire'[i - 1] = wire[i]
    BY HeadTaken, WireFrames DEF BrokerDrops, QueueTypeOK
  <1>3. dropped' = dropped \cup {c} /\ UNCHANGED <<channel, sent, stored, settled, ready, unacked>>
    BY <1>2 DEF BrokerDrops
  <1>4. QueueTypeOK' /\ Locals'
    BY <1>2, <1>3 DEF QueueTypeOK, Locals, BrokerDrops, clientVars
  <1>5. NeverLost'
    <2> SUFFICES ASSUME NEW m \in sent
                 PROVE  IF m \in stored THEN m \in settled \/ Present(m)' \/ Dropped(m)'
                                        ELSE OnWire(m, "publish")'
      BY <1>3 DEF NeverLost
    <2>1. CASE m \in stored
      BY <1>3, <2>1 DEF NeverLost, Present, Dropped, Count
    <2>2. CASE m \notin stored
      <3>1. PICK i \in DOMAIN wire : wire[i].copy.msg = m /\ wire[i].kind = "publish"
        BY <2>2 DEF NeverLost, OnWire
      <3>2. i - 1 \in DOMAIN wire' /\ wire'[i - 1] = wire[i]
        BY <1>2, <3>1
      <3>3. OnWire(m, "publish")'
        BY <3>1, <3>2 DEF OnWire
      <3> QED
        BY <2>2, <3>3
    <2> QED
      BY <2>1, <2>2
  <1> QED
    BY <1>1, <1>3, <1>4, <1>5

LEMMA SettlesKept ==
  ASSUME QueueInv, channel # "dead", BrokerSettles
  PROVE  QueueInv'
  <1> USE DEF QueueInv
  <1>1. Live'
    BY SettlesStep
  <1> PICK c : c = wire[1].copy
    OBVIOUS
  <1>2. /\ wire \in Seq(Frames) /\ wire # <<>> /\ Head(wire) = wire[1] /\ 1 \in DOMAIN wire
        /\ c \in Copy /\ wire' = Tail(wire) /\ wire' \in Seq(Frames) /\ Leaving(1) /\ ~ Arriving(1)
        /\ \A i \in DOMAIN wire : i # 1 => i - 1 \in DOMAIN wire' /\ wire'[i - 1] = wire[i]
        /\ ~ \E j \in DOMAIN wire : j < 1
    BY HeadTaken, WireFrames DEF BrokerSettles, QueueTypeOK, Leaving
  <1>3. unacked \in [Copy -> 0..2] /\ unacked[c] > 0 /\ unacked[c] \in 0..2
    BY <1>2, Counts DEF Live, Departures, Departed, QueueTypeOK, Bags
  <1>4. ready' = ready /\ dropped' = dropped /\ unacked' = [unacked EXCEPT ![c] = unacked[c] - 1]
    BY <1>2 DEF BrokerSettles, Removing
  <1>5. c.msg \in Messages
    BY <1>2, RetriedNext
  <1>6. QueueTypeOK'
    <2>1. unacked' \in Bags
      BY <1>2, <1>3, <1>4 DEF Bags
    <2> QED
      BY <1>2, <1>5, <2>1 DEF QueueTypeOK, BrokerSettles, clientVars
  <1>7. Locals'
    BY DEF Locals, BrokerSettles, clientVars
  <1>8. NeverLost'
    <2> SUFFICES ASSUME NEW m \in sent
                 PROVE  IF m \in stored THEN m \in settled' \/ Present(m)' \/ Dropped(m)'
                                        ELSE OnWire(m, "publish")'
      BY DEF NeverLost, BrokerSettles
    <2>1. \A d \in Copy : d # c => Count(d)' = Count(d)
      BY <1>2, <1>3, <1>4 DEF Count
    <2>2. CASE m = c.msg /\ m \in stored
      <3>1. CASE wire[1].kind = "settle"
        BY <1>2, <2>2, <3>1 DEF BrokerSettles
      <3>2. CASE wire[1].kind = "ackRequeued"
        <4>1. ReplacedAt(1, c)
          BY <1>2, <3>2 DEF Live, Replaced, Acknowledges
        <4>2. Retried(c) \in Copy /\ Retried(c).msg = c.msg /\ Retried(c) # c /\ There(Retried(c))
          BY <1>2, <4>1, RetriedNext, LaterOrder DEF ReplacedAt, Ahead
        <4>3. Present(m)' \/ Dropped(m)'
          BY <1>4, <2>1, <2>2, <4>2 DEF Present, Dropped, There
        <4> QED
          BY <2>2, <4>3
      <3> QED
        BY <1>2, <3>1, <3>2 DEF Leaving
    <2>3. CASE m # c.msg /\ m \in stored
      <3>1. m \in settled \/ Present(m) \/ Dropped(m)
        BY <2>3 DEF NeverLost
      <3>2. (Present(m) => Present(m)') /\ (Dropped(m) => Dropped(m)')
        BY <1>4, <2>1, <2>3 DEF Present, Dropped
      <3> QED
        BY <2>3, <3>1, <3>2 DEF BrokerSettles
    <2>4. CASE m \notin stored
      <3>1. PICK i \in DOMAIN wire : wire[i].copy.msg = m /\ wire[i].kind = "publish"
        BY <2>4 DEF NeverLost, OnWire
      <3>2. i # 1
        BY <1>2, <3>1 DEF Arriving
      <3>3. i - 1 \in DOMAIN wire' /\ wire'[i - 1] = wire[i]
        BY <1>2, <3>1, <3>2
      <3>4. OnWire(m, "publish")'
        BY <3>1, <3>3 DEF OnWire
      <3> QED
        BY <2>4, <3>4
    <2> QED
      BY <2>2, <2>3, <2>4
  <1> QED
    BY <1>1, <1>6, <1>7, <1>8 DEF BrokerSettles

LEMMA DeliversKept ==
  ASSUME QueueInv, NEW c \in Copy, BrokerDelivers(c)
  PROVE  QueueInv'
  <1> USE DEF QueueInv
  <1>1. channel = "open"
    BY DEF BrokerDelivers
  <1>2. Live'
    BY <1>1, DeliversStep
  <1>3. /\ ready[c] > 0 /\ ready[c] \in 0..2 /\ unacked[c] \in 0..2 /\ buffer[c] \in 0..2
        /\ OnePlace(c)
    BY <1>1, Counts DEF BrokerDelivers, Live, Places
  <1>4. ready[c] = 1 /\ unacked[c] = 0 /\ buffer[c] = 0
    BY <1>3 DEF OnePlace, Count
  <1>5. /\ ready' = [ready EXCEPT ![c] = 0]
        /\ unacked' = [unacked EXCEPT ![c] = 1] /\ buffer' = [buffer EXCEPT ![c] = 1]
        /\ ready \in Bags /\ unacked \in Bags /\ buffer \in Bags
    BY <1>4 DEF BrokerDelivers, Removing, Adding, QueueTypeOK
  <1>6. ready' \in Bags /\ unacked' \in Bags /\ buffer' \in Bags
    BY <1>5 DEF Bags
  <1>7. QueueTypeOK' /\ Locals'
    BY <1>6 DEF BrokerDelivers, QueueTypeOK, Locals, clientVars
  <1>8. \A d \in Copy : Count(d)' = Count(d)
    BY <1>4, <1>5 DEF Count, Bags
  <1>9. NeverLost'
    BY <1>8 DEF NeverLost, Present, Dropped, OnWire, BrokerDelivers
  <1> QED
    BY <1>1, <1>2, <1>7, <1>9 DEF BrokerDelivers

LEMMA PublishKept ==
  ASSUME QueueInv, NEW m \in Messages, Publish(m)
  PROVE  QueueInv'
  <1> USE DEF QueueInv
  <1>1. channel = "open"
    BY DEF Publish
  <1>2. Live'
    BY <1>1, PublishStep
  <1> DEFINE c == [msg |-> m, retries |-> 0]
  <1>3. c \in Copy /\ c.msg = m /\ Write("publish", c) /\ wire \in Seq(Frames)
    BY QueueAssumption DEF Copy, Publish, QueueTypeOK
  <1> HIDE DEF c
  <1>4. PICK n : n = Len(wire) + 1
    OBVIOUS
  <1>5. /\ wire' \in Seq(Frames)
        /\ \A i \in DOMAIN wire : i \in DOMAIN wire' /\ wire'[i] = wire[i]
        /\ n \in DOMAIN wire' /\ wire'[n].kind = "publish" /\ wire'[n].copy = c
    BY <1>3, <1>4, Written
  <1>6. QueueTypeOK' /\ Locals'
    BY <1>5 DEF Publish, QueueTypeOK, Locals, clientVars, brokerVars
  <1>7. NeverLost'
    <2> SUFFICES ASSUME NEW k \in sent'
                 PROVE  IF k \in stored THEN k \in settled \/ Present(k)' \/ Dropped(k)'
                                        ELSE OnWire(k, "publish")'
      BY DEF NeverLost, Publish, brokerVars
    <2>1. CASE k = m
      <3>1. k \notin stored
        BY <1>1, <2>1 DEF Live, Known, Publish
      <3> QED
        BY <1>3, <1>5, <2>1, <3>1 DEF OnWire
    <2>2. CASE k \in sent
      BY <1>1, <1>5, <2>2 DEF NeverLost, Present, Dropped, Count, OnWire, Publish, brokerVars
    <2> QED
      BY <2>1, <2>2 DEF Publish
  <1> QED
    BY <1>1, <1>2, <1>6, <1>7 DEF Publish

LEMMA CloseKept ==
  ASSUME QueueInv, Close
  PROVE  QueueInv'
  <1> USE DEF QueueInv
  <1>1. CASE channel = "open"
    BY <1>1, DieStep DEF Close
  <1>2. CASE channel # "open"
    <2>1. /\ UNCHANGED <<channel, wire, ready, unacked, buffer, dropped>>
          /\ UNCHANGED <<stored, settled, sent, exchange, clientVars>>
          /\ closed' \in BOOLEAN /\ channel = "dead"
      BY <1>2 DEF Close, QueueTypeOK
    <2>2. QueueTypeOK' /\ Locals' /\ NeverLost' /\ Dead'
      BY <2>1 DEF QueueTypeOK, Locals, NeverLost, Present, Dropped, Count, OnWire, Dead, OneCopy, clientVars
    <2> QED
      BY <2>1, <2>2
  <1> QED
    BY <1>1, <1>2

LEMMA QueueStep ==
  ASSUME QueueInv, [QueueNext]_queueVars
  PROVE  QueueInv'
  <1>1. CASE Connect \/ StartConsumer \/ Cancel \/ ConsumeReturns
    BY <1>1, QuietStep DEF Quiet
  <1>2. CASE ConnectionLost \/ BrokerRestarts
    BY <1>2, DieStep DEF ConnectionLost, BrokerRestarts, QueueInv, QueueTypeOK
  <1>3. CASE Close
    BY <1>3, CloseKept
  <1>4. ASSUME NEW m \in Messages, Publish(m)
        PROVE  QueueInv'
    BY <1>4, PublishKept
  <1>5. CASE Broker
    <2>1. CASE BrokerStores \/ BrokerDrops \/ BrokerSettles \/ BrokerRefuses
      <3>1. channel # "dead"
        BY <2>1 DEF QueueInv, Dead, BrokerStores, BrokerDrops, BrokerSettles, BrokerRefuses
      <3> QED
        BY <2>1, <3>1, StoresKept, DropsKept, SettlesKept, DieStep DEF BrokerRefuses, QueueInv, QueueTypeOK
    <2> QED
      BY <1>5, <2>1, DeliversKept DEF Broker
  <1>6. CASE Forwarder
    BY <1>6, TakesStep, SendsStep, QuietStep DEF Forwarder, Quiet
  <1>7. CASE Consumer
    <2>1. CASE ConsumerStops \/ Decodes \/ HandlerFails
      BY <2>1, QuietStep DEF Quiet
    <2>2. CASE Rejects \/ HandlerSettles \/ RequeueAcknowledges \/ RequeuePublishes
      BY <2>2, WritesStep, WritesNothing DEF RequeuePublishes
    <2> QED
      BY <1>7, <2>1, <2>2 DEF Consumer
  <1>8. CASE UNCHANGED queueVars
    BY <1>8 DEF queueVars, brokerVars, clientVars, QueueInv, QueueTypeOK, Locals, NeverLost, Present,
                Dropped, There, Count, OnWire, Dead, OneCopy, Live, Places, OnePlace, Carrying, Handling, Distinct,
                Arrivals, Arriving, Departures, Leaving, Departed, Replaced, ReplacedAt, Acknowledges,
                Ahead, InOrder, Exists, Coming, Passed, Replacing, Acknowledging, Halfway, Going, Known
  <1> QED
    BY <1>1, <1>2, <1>3, <1>4, <1>5, <1>6, <1>7, <1>8 DEF QueueNext

LEMMA QueueStart ==
  ASSUME QueueInit
  PROVE  QueueInv
  <1> USE DEF QueueInit
  <1>1. QueueTypeOK /\ Locals
    <2>1. wire \in Seq(Frames)
      OBVIOUS
    <2>2. ready \in Bags /\ unacked \in Bags /\ buffer \in Bags
      BY DEF Bags, Empty
    <2> QED
      BY <2>1, <2>2 DEF QueueTypeOK, Locals
  <1>2. NeverLost
    BY DEF NeverLost
  <1>3. \A c \in Copy : ready[c] = 0 /\ unacked[c] = 0 /\ buffer[c] = 0 /\ Count(c) = 0
    BY DEF Empty, Count
  <1>4. \A c : ~ Coming(c) /\ ~ Carrying(c) /\ ~ Handling(c) /\ ~ Acknowledging(c)
    BY DEF Coming, Carrying, Handling, Acknowledging
  <1>5. Live
    BY <1>3, <1>4 DEF Live, Places, OnePlace, Distinct, Arrivals, Departures, Replaced, InOrder,
                      Exists, There, Halfway, Known
  <1> QED
    BY <1>1, <1>2, <1>5 DEF QueueInv

LEMMA QueueInvariance == QueueSpec => []QueueInv
  <1>1. QueueInit => QueueInv
    BY QueueStart
  <1>2. QueueInv /\ [QueueNext]_queueVars => QueueInv'
    BY QueueStep
  <1> QED
    BY <1>1, <1>2, PTL DEF QueueSpec

-----------------------------------------------------------------------------
(* The queue as one place                                                  *)

\* Where the frames that arrive come from; and of a settled message nothing is left.
Source(c, d) == Count(c) > 0 /\ c.retries <= MaxRetryCount /\ d = Retried(c)
Sources ==
  \A i \in DOMAIN wire :
    /\ wire[i].kind = "publish" => wire[i].copy.retries = 0
    /\ wire[i].kind = "requeue" => \E c \in Copy : Source(c, wire[i].copy)
SettledOnce == settled \subseteq sent /\ \A c \in Copy : Exists(c) => c.msg \notin settled

\* The acknowledgements of two Requeues are not on the wire without the newer copy of the second
\* between them.
After(i, c) == \E k \in DOMAIN wire : i < k /\ Arriving(k) /\ wire[k].copy = c
OneByOne ==
  \A i \in DOMAIN wire : wire[i].kind = "ackRequeued" =>
    /\ \A j \in DOMAIN wire, d \in Copy : i < j /\ Acknowledges(j, d) => After(i, Retried(d))
    /\ \A d \in Copy : Acknowledging(d) => After(i, Retried(d))

MessageInv == QueueInv /\ Sources /\ SettledOnce /\ OneByOne

LEMMA WrittenOneByOne ==
  ASSUME wire \in Seq(Frames), OneByOne, NEW kind, NEW c \in Copy, Write(kind, c),
         kind \in {"publish", "requeue", "settle", "ackRequeued"},
         kind = "ackRequeued" => consumer = "acknowledge" /\ hand = c /\ consumer' # "acknowledge",
         consumer' = "acknowledge" =>
           \/ consumer = "acknowledge" /\ hand' = hand
           \/ kind = "requeue" /\ c = Retried(hand')
  PROVE  OneByOne'
  <1>1. PICK n : n = Len(wire) + 1
    OBVIOUS
  <1>2. /\ n \in DOMAIN wire' /\ \A i \in DOMAIN wire' : i \in DOMAIN wire \/ i = n
        /\ \A i \in DOMAIN wire : i \in DOMAIN wire' /\ wire'[i] = wire[i] /\ i < n /\ ~ (n < i)
        /\ wire'[n].kind = kind /\ wire'[n].copy = c /\ ~ (n < n)
    BY <1>1, Written, WireFrames
  <1>3. \A i \in DOMAIN wire : \A d : After(i, d) \/ (kind = "requeue" /\ d = c) => After(i, d)'
    BY <1>2 DEF After, Arriving
  <1> SUFFICES ASSUME NEW i \in DOMAIN wire', wire'[i].kind = "ackRequeued", NEW d \in Copy
               PROVE  /\ \A j \in DOMAIN wire' : i < j /\ Acknowledges(j, d)' => After(i, Retried(d))'
                      /\ Acknowledging(d)' => After(i, Retried(d))'
    BY DEF OneByOne
  <1>4. CASE i = n
    BY <1>2, <1>4 DEF Acknowledging
  <1>5. CASE i \in DOMAIN wire
    <2>1. /\ \A j \in DOMAIN wire : i < j /\ Acknowledges(j, d) => After(i, Retried(d))
          /\ Acknowledging(d) => After(i, Retried(d))
      BY <1>2, <1>5 DEF OneByOne
    <2>2. \A j \in DOMAIN wire' : i < j /\ Acknowledges(j, d)' => After(i, Retried(d))'
      <3> SUFFICES ASSUME NEW j \in DOMAIN wire', i < j, Acknowledges(j, d)'
                   PROVE  After(i, Retried(d))
        BY <1>3, <1>5
      <3>1. CASE j \in DOMAIN wire
        BY <1>2, <2>1, <3>1 DEF Acknowledges
      <3>2. CASE j = n
        BY <1>2, <2>1, <3>2 DEF Acknowledges, Acknowledging
      <3> QED
        BY <1>2, <3>1, <3>2
    <2>3. ASSUME Acknowledging(d)'
          PROVE  After(i, Retried(d))'
      <3>1. consumer' = "acknowledge" /\ hand' = d
        BY <2>3 DEF Acknowledging
      <3>2. CASE consumer = "acknowledge" /\ hand' = hand
        BY <1>3, <1>5, <2>1, <3>1, <3>2 DEF Acknowledging
      <3>3. CASE kind = "requeue" /\ c = Retried(hand')
        BY <1>3, <1>5, <3>1, <3>3
      <3> QED
        BY <3>1, <3>2, <3>3
    <2> QED
      BY <2>2, <2>3
  <1> QED
    BY <1>2, <1>4, <1>5

LEMMA TakenOneByOne ==
  ASSUME wire \in Seq(Frames), wire # <<>>, wire' = Tail(wire), OneByOne,
         consumer' = consumer, hand' = hand
  PROVE  OneByOne'
  <1>1. /\ \A i \in DOMAIN wire' : i \in Nat /\ i + 1 \in DOMAIN wire /\ wire'[i] = wire[i + 1]
        /\ \A i \in DOMAIN wire : i # 1 => i - 1 \in DOMAIN wire' /\ wire'[i - 1] = wire[i] /\ i \in Nat
        /\ 1 \in DOMAIN wire /\ \A i \in DOMAIN wire : i \in Nat /\ 1 <= i
    BY HeadTaken, WireFrames
  <1>2. ASSUME NEW i \in DOMAIN wire', NEW d, After(i + 1, d)
        PROVE  After(i, d)'
    <2>1. PICK k \in DOMAIN wire : i + 1 < k /\ Arriving(k) /\ wire[k].copy = d
      BY <1>2 DEF After
    <2>2. k - 1 \in DOMAIN wire' /\ i < k - 1 /\ wire'[k - 1] = wire[k]
      BY <1>1, <2>1
    <2> QED
      BY <2>1, <2>2 DEF After, Arriving
  <1> SUFFICES ASSUME NEW i \in DOMAIN wire', wire'[i].kind = "ackRequeued", NEW d \in Copy
               PROVE  /\ \A j \in DOMAIN wire' : i < j /\ Acknowledges(j, d)' => After(i, Retried(d))'
                      /\ Acknowledging(d)' => After(i, Retried(d))'
    BY DEF OneByOne
  <1>3. /\ \A j \in DOMAIN wire : i + 1 < j /\ Acknowledges(j, d) => After(i + 1, Retried(d))
        /\ Acknowledging(d) => After(i + 1, Retried(d))
    BY <1>1 DEF OneByOne
  <1>4. \A j \in DOMAIN wire' : i < j => i + 1 < j + 1 /\ j + 1 \in DOMAIN wire /\ wire'[j] = wire[j + 1]
    BY <1>1
  <1>5. \A j \in DOMAIN wire' : i < j /\ Acknowledges(j, d)' => After(i, Retried(d))'
    BY <1>2, <1>3, <1>4 DEF Acknowledges
  <1>6. Acknowledging(d)' => After(i, Retried(d))'
    BY <1>2, <1>3 DEF Acknowledging
  <1> QED
    BY <1>5, <1>6

\* While the connection lives, one message at most is there in two copies.
Doubled(c, d) == Count(c) > 0 /\ Count(d) > 0 /\ Later(d, c)

LEMMA OneIsDoubled ==
  ASSUME MessageInv, channel # "dead", NEW c \in Copy, NEW d \in Copy, NEW e \in Copy, NEW f \in Copy,
         Doubled(c, d), Doubled(e, f)
  PROVE  c = e
  <1> USE DEF MessageInv, QueueInv
  <1>1. ASSUME NEW x \in Copy, NEW y \in Copy, Doubled(x, y)
        PROVE  /\ Acknowledging(x) \/ \E i \in DOMAIN wire : Acknowledges(i, x)
               /\ \A i \in DOMAIN wire : ~ After(i, Retried(x))
    <2>1. Passed(x)
      BY <1>1 DEF Live, InOrder, Exists, There, Doubled
    <2>2. y = Retried(x)
      BY <1>1, <2>1 DEF Live, Halfway, Replaced, ReplacedAt, Passed, Replacing, Exists, There, Doubled
    <2>3. \A i \in DOMAIN wire : ~ After(i, y)
      BY <1>1 DEF Live, Arrivals, There, Doubled, After
    <2> QED
      BY <2>1, <2>2, <2>3 DEF Passed, Replacing
  <1>2. ASSUME NEW i \in DOMAIN wire, NEW j \in DOMAIN wire, NEW x \in Copy, NEW y \in Copy,
               Acknowledges(i, x), Acknowledges(j, y), i < j
        PROVE  After(i, Retried(y))
    BY <1>2 DEF OneByOne, Acknowledges
  <1>3. ASSUME NEW i \in DOMAIN wire, NEW x \in Copy, NEW y \in Copy,
               Acknowledges(i, x), Acknowledging(y)
        PROVE  After(i, Retried(y))
    BY <1>3 DEF OneByOne, Acknowledges
  <1>4. \A i, j \in DOMAIN wire : i < j \/ i = j \/ j < i
    BY WireFrames DEF QueueTypeOK
  <1>5. CASE Acknowledging(c) /\ Acknowledging(e)
    BY <1>5 DEF Acknowledging
  <1>6. CASE ~ Acknowledging(c) /\ ~ Acknowledging(e)
    <2>1. PICK i \in DOMAIN wire : Acknowledges(i, c)
      BY <1>1, <1>6
    <2>2. PICK j \in DOMAIN wire : Acknowledges(j, e)
      BY <1>1, <1>6
    <2>3. i = j
      BY <1>1, <1>2, <1>4, <2>1, <2>2
    <2> QED
      BY <2>1, <2>2, <2>3 DEF Acknowledges
  <1> QED
    BY <1>1, <1>3, <1>5, <1>6

\* The newest copy is one, so that Standing says how often its message was retried.
StandsFor(m) ==
  /\ m \in settled => Standing(m) = [status |-> "settled", retries |-> 0]
  /\ m \notin settled /\ ~ Present(m) =>
       /\ Dropped(m) => Standing(m) = [status |-> "lost", retries |-> 0]
       /\ ~ Dropped(m) => Standing(m) = [status |-> "outside", retries |-> 0]
  /\ m \notin settled /\ Twice(m) => Standing(m) = [status |-> "twice", retries |-> 0]
  /\ Present(m) => \E c \in Copy : c.msg = m /\ Newest(c)
  /\ \A c \in Copy : m \notin settled /\ ~ Twice(m) /\ c.msg = m /\ Newest(c) =>
       Standing(m) = [status |-> "queued", retries |-> c.retries]
Stands == \A m \in Messages : StandsFor(m)

LEMMA NewestStands == QueueInv => Stands
  <1> SUFFICES ASSUME QueueInv, NEW m \in Messages
               PROVE  StandsFor(m)
    BY DEF Stands
  <1>1. ASSUME Present(m)
        PROVE  \E c \in Copy : c.msg = m /\ Newest(c)
    <2>1. PICK c \in Copy : c.msg = m /\ Count(c) > 0
      BY <1>1 DEF Present
    <2>2. \A d, e \in Copy : d.msg = m /\ e.msg = m /\ Count(d) > 0 /\ Count(e) > 0 /\ d # e =>
            d.retries = e.retries + 1 \/ e.retries = d.retries + 1
      BY LiveOneCopy DEF QueueInv, Dead, OneCopy
    <2>3. \A d \in Copy : d.retries \in Nat
      BY RetriedNext, QueueAssumption
    <2>4. CASE Newest(c)
      BY <2>1, <2>4
    <2>5. CASE ~ Newest(c)
      <3>1. PICK d \in Copy : d.msg = m /\ Count(d) > 0 /\ ~ (d.retries <= c.retries)
        BY <2>1, <2>5 DEF Newest
      <3>2. d.retries = c.retries + 1
        BY <2>1, <2>2, <2>3, <3>1
      <3>3. \A e \in Copy : e.msg = m /\ Count(e) > 0 => e.retries <= d.retries
        BY <2>1, <2>2, <2>3, <3>1, <3>2
      <3> QED
        BY <3>1, <3>3 DEF Newest
    <2> QED
      BY <2>4, <2>5
  <1>2. ASSUME NEW c \in Copy, m \notin settled, ~ Twice(m), c.msg = m, Newest(c)
        PROVE  Standing(m) = [status |-> "queued", retries |-> c.retries]
    <2> DEFINE n == CHOOSE d \in Copy : d.msg = m /\ Newest(d)
    <2>1. n \in Copy /\ n.msg = m /\ Newest(n)
      BY <1>2
    <2>2. n.retries = c.retries
      BY <1>2, <2>1, RetriedNext, QueueAssumption DEF Newest
    <2>3. Present(m)
      BY <1>2 DEF Newest, Present
    <2> QED
      BY <1>2, <2>2, <2>3 DEF Standing
  <1>3. m \notin settled /\ ~ Present(m) =>
          /\ Dropped(m) => Standing(m) = [status |-> "lost", retries |-> 0]
          /\ ~ Dropped(m) => Standing(m) = [status |-> "outside", retries |-> 0]
    BY DEF Standing
  <1>4. m \notin settled /\ Twice(m) => Standing(m) = [status |-> "twice", retries |-> 0]
    BY DEF Standing, Twice, Present
  <1>5. m \in settled => Standing(m) = [status |-> "settled", retries |-> 0]
    BY DEF Standing
  <1> QED
    BY <1>1, <1>2, <1>3, <1>4, <1>5 DEF StandsFor

\* A message none of whose copies comes or goes stays where it is.
LEMMA Undisturbed ==
  ASSUME Stands, Stands', NEW m \in Messages, m \in settled' <=> m \in settled,
         \A c \in Copy : c.msg = m => Count(c)' = Count(c),
         Twice(m)' <=> Twice(m), Present(m) \/ (Dropped(m)' <=> Dropped(m))
  PROVE  Standing(m)' = Standing(m)
  <1>1. Present(m)' <=> Present(m)
    BY DEF Present
  <1>2. \A c \in Copy : c.msg = m => (Newest(c)' <=> Newest(c))
    BY DEF Newest
  <1>3. StandsFor(m) /\ StandsFor(m)'
    BY DEF Stands
  <1>4. CASE m \in settled \/ ~ Present(m) \/ Twice(m)
    BY <1>1, <1>3, <1>4 DEF StandsFor
  <1>5. CASE m \notin settled /\ Present(m) /\ ~ Twice(m)
    <2>1. PICK c \in Copy : c.msg = m /\ Newest(c)
      BY <1>3, <1>5 DEF StandsFor
    <2>2. Standing(m) = [status |-> "queued", retries |-> c.retries]
      BY <1>3, <1>5, <2>1 DEF StandsFor
    <2>3. Standing(m)' = [status |-> "queued", retries |-> c.retries]
      BY <1>2, <1>3, <1>5, <2>1 DEF StandsFor
    <2> QED
      BY <2>2, <2>3
  <1> QED
    BY <1>4, <1>5

LEMMA LiveIsNotTwice ==
  ASSUME channel # "dead"
  PROVE  \A m : ~ Twice(m)
  BY DEF Twice

\* Only the broker moves what is counted, when it takes a frame or the connection ends.
Ending(kept) == channel # "dead" /\ Die(kept) /\ UNCHANGED <<settled, sent>>

LEMMA CountsKept ==
  ASSUME QueueInv, [QueueNext]_queueVars, ~ BrokerStores, ~ BrokerSettles, ~ BrokerDrops
  PROVE  \/ /\ settled' = settled /\ dropped' = dropped
            /\ channel' = "dead" <=> channel = "dead"
            /\ \A c \in Copy : Count(c)' = Count(c)
         \/ Ending(Copy) \/ Ending(Persistent)
  <1> DEFINE Kept == /\ settled' = settled /\ dropped' = dropped
                     /\ channel' = "dead" <=> channel = "dead"
                     /\ \A c \in Copy : Count(c)' = Count(c)
  <1>1. CASE Connect \/ StartConsumer \/ Cancel \/ ConsumeReturns \/ UNCHANGED queueVars
    BY <1>1 DEF Connect, StartConsumer, Cancel, ConsumeReturns, queueVars, brokerVars, Count
  <1>2. CASE ConnectionLost \/ BrokerRestarts \/ BrokerRefuses \/ Close
    <2>1. BrokerRefuses => channel # "dead"
      BY DEF BrokerRefuses, QueueInv, Dead
    <2>2. CASE ConnectionLost \/ BrokerRestarts \/ BrokerRefuses
      BY <2>1, <2>2 DEF ConnectionLost, BrokerRestarts, BrokerRefuses, Ending
    <2>3. CASE Close
      BY <2>3 DEF Close, Ending, Count
    <2> QED
      BY <1>2, <2>2, <2>3
  <1>3. ASSUME NEW m \in Messages, Publish(m)
        PROVE  Kept
    BY <1>3 DEF Publish, brokerVars, Count
  <1>4. ASSUME NEW c \in Copy, BrokerDelivers(c)
        PROVE  Kept
    <2>1. /\ ready' = [ready EXCEPT ![c] = @ - 1] /\ unacked' = [unacked EXCEPT ![c] = @ + 1]
          /\ settled' = settled /\ dropped' = dropped /\ channel' = channel
          /\ ready \in Bags /\ unacked \in Bags
      BY <1>4 DEF BrokerDelivers, Removing, Adding, QueueInv, QueueTypeOK
    <2> QED
      BY <2>1, Counts DEF Count, Bags, QueueInv
  <1>5. CASE Forwarder
    BY <1>5 DEF Forwarder, ForwarderConsumes, ForwarderTakes, ForwarderSends, DeliveriesEnd,
                ForwarderWakes, Forwards, brokerVars, Count
  <1>6. CASE Consumer
    BY <1>6 DEF Consumer, ConsumerStops, Rejects, Decodes, HandlerSettles, HandlerFails,
                RequeuePublishes, RequeueAcknowledges, Consumes, brokerVars, Count
  <1> QED
    BY <1>1, <1>2, <1>3, <1>4, <1>5, <1>6 DEF QueueNext, Broker

\* What the end of a connection leaves.
LEMMA Ended ==
  ASSUME QueueInv, NEW kept, Ending(kept)
  PROVE  /\ wire' = <<>> /\ channel' = "dead" /\ settled' = settled
         /\ \A c \in Copy : /\ Count(c)' = IF c \in kept THEN Count(c) ELSE 0
                            /\ Count(c) \in 0..1
                            /\ c \in dropped' <=> c \in dropped \/ (c \notin kept /\ Count(c) > 0)
  <1>1. \A c \in Copy : Count(c) \in 0..1
    BY Counts DEF QueueInv, Ending, Live, Places, OnePlace
  <1>2. \A c \in Copy : ready'[c] = (IF c \in kept THEN Count(c) ELSE 0) /\ unacked'[c] = 0
    BY DEF Ending, Die, Empty
  <1>3. \A c \in Copy : Count(c)' = IF c \in kept THEN Count(c) ELSE 0
    BY <1>1, <1>2 DEF Count
  <1>4. \A c \in Copy : c \in dropped' <=> c \in dropped \/ (c \notin kept /\ Count(c) > 0)
    BY DEF Ending, Die
  <1> QED
    BY <1>1, <1>3, <1>4 DEF Ending, Die

LEMMA StoresEffect ==
  ASSUME QueueInv, channel # "dead", BrokerStores, NEW c, c = wire[1].copy
  PROVE  /\ c \in Copy /\ Arriving(1) /\ 1 \in DOMAIN wire /\ wire' = Tail(wire) /\ settled' = settled
         /\ UNCHANGED <<channel, dropped, consumer, hand>> /\ ~ There(c)
         /\ Count(c) = 0 /\ Count(c)' = 1 /\ \A d \in Copy : d # c => Count(d)' = Count(d)
  <1> USE DEF QueueInv
  <1>1. /\ wire \in Seq(Frames) /\ wire # <<>> /\ Head(wire) = wire[1] /\ 1 \in DOMAIN wire
        /\ c \in Copy /\ wire' = Tail(wire) /\ Arriving(1) /\ settled' = settled
        /\ UNCHANGED <<channel, dropped, consumer, hand>>
        /\ ready' = [ready EXCEPT ![c] = @ + 1] /\ unacked' = unacked
    BY HeadTaken, WireFrames DEF BrokerStores, QueueTypeOK, Arriving, Adding, clientVars
  <1>2. Count(c) = 0 /\ ~ There(c) /\ ready \in [Copy -> 0..2] /\ ready[c] \in 0..2 /\ unacked[c] \in 0..2
    BY <1>1, Counts DEF Live, Arrivals, There, QueueTypeOK, Bags
  <1> QED
    BY <1>1, <1>2 DEF Count

LEMMA SettlesEffect ==
  ASSUME QueueInv, channel # "dead", BrokerSettles, NEW c, c = wire[1].copy
  PROVE  /\ c \in Copy /\ Leaving(1) /\ 1 \in DOMAIN wire /\ wire' = Tail(wire)
         /\ UNCHANGED <<channel, dropped, consumer, hand>> /\ c \notin dropped
         /\ settled' = IF wire[1].kind = "settle" THEN settled \cup {c.msg} ELSE settled
         /\ Count(c) = 1 /\ Count(c)' = 0 /\ \A d \in Copy : d # c => Count(d)' = Count(d)
  <1> USE DEF QueueInv
  <1>1. /\ wire \in Seq(Frames) /\ wire # <<>> /\ Head(wire) = wire[1] /\ 1 \in DOMAIN wire
        /\ c \in Copy /\ wire' = Tail(wire) /\ Leaving(1)
        /\ UNCHANGED <<channel, dropped, consumer, hand>>
        /\ settled' = IF wire[1].kind = "settle" THEN settled \cup {c.msg} ELSE settled
        /\ unacked' = [unacked EXCEPT ![c] = @ - 1] /\ ready' = ready
    BY HeadTaken, WireFrames DEF BrokerSettles, QueueTypeOK, Leaving, Removing, clientVars
  <1>2. /\ unacked \in [Copy -> 0..2] /\ unacked[c] \in 0..2 /\ ready[c] \in 0..2
        /\ unacked[c] > 0 /\ Count(c) <= 1 /\ (c \in dropped => Count(c) = 0)
    BY <1>1, Counts DEF Live, Places, OnePlace, Departures, Departed, QueueTypeOK, Bags
  <1> QED
    BY <1>1, <1>2 DEF Count

\* Of the message of a copy that leaves there is no older one.
LEMMA NothingOlder ==
  ASSUME QueueInv, channel # "dead", 1 \in DOMAIN wire, Leaving(1), NEW c, c = wire[1].copy,
         NEW e \in Copy, Exists(e)
  PROVE  ~ Later(c, e)
  <1> USE DEF QueueInv
  <1>1. /\ c \in Copy /\ ~ Arriving(1) /\ \A i \in DOMAIN wire : i = 1 \/ 1 < i
    BY WireFrames DEF QueueTypeOK
  <1>2. Departed(c) /\ Count(c) > 0 /\ Going(c)
    BY <1>1, Counts DEF Live, Departures, Departed, Count, Going
  <1> SUFFICES ASSUME Later(c, e)
               PROVE  FALSE
    OBVIOUS
  <1>3. Passed(e)
    BY <1>1, <1>2 DEF Live, InOrder, Exists, There
  <1>4. ~ Acknowledging(e)
    BY <1>1, <1>2 DEF Live, Halfway
  <1>5. PICK i \in DOMAIN wire : Acknowledges(i, e)
    BY <1>3, <1>4 DEF Passed, Replacing
  <1>6. i # 1
    BY <1>1, LaterOrder, <1>5 DEF Acknowledges
  <1> QED
    BY <1>1, <1>5, <1>6 DEF Live, Replaced, ReplacedAt

\* A copy that is settled for good is the only one of its message.
LEMMA SettledAlone ==
  ASSUME QueueInv, channel # "dead", wire # <<>>, wire[1].kind = "settle",
         NEW e \in Copy, Exists(e), e.msg = wire[1].copy.msg
  PROVE  e = wire[1].copy
  <1> USE DEF QueueInv
  <1> PICK c : c = wire[1].copy
    OBVIOUS
  <1>1. /\ 1 \in DOMAIN wire /\ wire \in Seq(Frames) /\ c \in Copy /\ Leaving(1) /\ ~ Arriving(1)
        /\ \A i \in DOMAIN wire : i = 1 \/ 1 < i
    <2>1. 1 \in DOMAIN wire /\ wire \in Seq(Frames) /\ \A i \in DOMAIN wire : i = 1 \/ 1 < i
      BY DEF QueueTypeOK
    <2> QED
      BY <2>1, WireFrames DEF Leaving, Arriving
  <1>2. Departed(c) /\ Count(c) > 0 /\ Going(c)
    BY <1>1, Counts DEF Live, Departures, Departed, Count, Going
  <1>3. ASSUME Later(e, c)
        PROVE  FALSE
    <2>1. Passed(c)
      BY <1>1, <1>2, <1>3 DEF Live, InOrder, Exists, There
    <2>2. ~ Acknowledging(c)
      BY <1>2 DEF Departed, Handling, Acknowledging
    <2>3. PICK i \in DOMAIN wire : wire[i].kind = "ackRequeued" /\ wire[i].copy = c
      BY <2>1, <2>2 DEF Passed, Replacing, Acknowledges
    <2>4. i # 1
      BY <2>3
    <2> QED
      BY <1>1, <2>3, <2>4 DEF Live, Distinct
  <1>4. ~ Later(c, e)
    BY <1>1, NothingOlder
  <1> QED
    BY <1>1, <1>3, <1>4, LaterOrder

\* The copy that is requeued is the newest that is there.
LEMMA SourceIsNewest ==
  ASSUME QueueInv, channel # "dead", NEW i \in DOMAIN wire, Arriving(i), NEW c \in Copy, NEW d \in Copy,
         d = wire[i].copy, Source(c, d), NEW e \in Copy, Count(e) > 0, e.msg = c.msg
  PROVE  e.retries <= c.retries
  <1> USE DEF QueueInv
  <1>1. Count(d) = 0 /\ Exists(d) /\ Exists(e) /\ Exists(c) /\ e # d /\ Later(d, c)
    <2>1. Count(d) = 0 /\ Coming(d)
      BY Counts DEF Live, Arrivals, There, Coming
    <2> QED
      BY <2>1, LaterOrder DEF Exists, There, Source
  <1>2. Passed(c)
    BY <1>1 DEF Live, InOrder
  <1>3. ASSUME Later(e, c)
        PROVE  FALSE
    <2>1. CASE Acknowledging(c)
      BY <1>1, <1>3, <2>1 DEF Live, Halfway, Source
    <2>2. CASE Replacing(c)
      BY <1>1, <1>3, <2>2 DEF Live, Replaced, Replacing, ReplacedAt, There, Source
    <2> QED
      BY <1>2, <2>1, <2>2 DEF Passed
  <1> QED
    BY <1>3, RetriedNext, QueueAssumption DEF Later

\* The calls that write a frame.
LEMMA PublishSources ==
  ASSUME MessageInv, NEW m \in Messages, Publish(m)
  PROVE  Sources' /\ SettledOnce' /\ OneByOne'
  <1> USE DEF MessageInv
  <1> DEFINE c == [msg |-> m, retries |-> 0]
  <1>1. c \in Copy /\ c.msg = m /\ c.retries = 0 /\ wire \in Seq(Frames) /\ Write("publish", c)
    BY QueueAssumption DEF Copy, QueueInv, QueueTypeOK, Publish
  <1> HIDE DEF c
  <1>2. PICK n : n = Len(wire) + 1
    OBVIOUS
  <1>3. /\ \A i \in DOMAIN wire' : i \in DOMAIN wire \/ i = n
        /\ \A i \in DOMAIN wire : wire'[i] = wire[i]
        /\ wire'[n].kind = "publish" /\ wire'[n].copy = c
    BY <1>1, <1>2, Written
  <1>4. /\ \A d : Count(d)' = Count(d) /\ There(d)' = There(d)
        /\ settled' = settled /\ sent' = sent \cup {m} /\ m \notin sent
        /\ consumer' = consumer /\ hand' = hand
    BY DEF Publish, brokerVars, clientVars, Count, There
  <1>5. Sources'
    BY <1>1, <1>3, <1>4 DEF Sources, Source
  <1>6. \A d : Exists(d)' <=> Exists(d) \/ d = c
    BY <1>1, <1>2, <1>4, FrameWritten DEF Exists
  <1>7. OneByOne'
    BY <1>1, <1>4, WrittenOneByOne
  <1> QED
    BY <1>1, <1>4, <1>5, <1>6, <1>7 DEF SettledOnce

LEMMA RequeueSources ==
  ASSUME MessageInv, RequeuePublishes
  PROVE  Sources' /\ SettledOnce' /\ OneByOne'
  <1> USE DEF MessageInv
  <1>1. /\ hand \in Copy /\ wire \in Seq(Frames) /\ hand.retries <= MaxRetryCount /\ Handling(hand)
        /\ channel # "dead" /\ Write("requeue", Retried(hand))
    BY DEF RequeuePublishes, Consumes, QueueInv, QueueTypeOK, Locals, Handling
  <1> PICK c : c = Retried(hand)
    OBVIOUS
  <1>2. c \in Copy /\ c.msg = hand.msg /\ Count(hand) > 0
    BY <1>1, RetriedNext, Counts DEF QueueInv, Live, Places, OnePlace, Count
  <1>3. PICK n : n = Len(wire) + 1
    OBVIOUS
  <1>4. /\ \A i \in DOMAIN wire' : i \in DOMAIN wire \/ i = n
        /\ \A i \in DOMAIN wire : wire'[i] = wire[i]
        /\ wire'[n].kind = "requeue" /\ wire'[n].copy = c
    BY <1>1, <1>2, <1>3, Written
  <1>5. (\A d : Count(d)' = Count(d) /\ There(d)' = There(d)) /\ settled' = settled /\ sent' = sent /\ hand' = hand
    BY DEF RequeuePublishes, Consumes, brokerVars, Count, There
  <1>6. Sources'
    <2>1. Source(hand, c)'
      BY <1>1, <1>2, <1>5 DEF Source
    <2> QED
      BY <1>1, <1>4, <1>5, <2>1 DEF Sources, Source
  <1>7. \A d : Exists(d)' <=> Exists(d) \/ d = c
    BY <1>1, <1>2, <1>3, <1>5, FrameWritten DEF Exists
  <1>8. hand.msg \notin settled
    BY <1>1, <1>2 DEF SettledOnce, Exists, There
  <1>9. OneByOne'
    BY <1>1, <1>2, <1>5, WrittenOneByOne
  <1> QED
    BY <1>2, <1>5, <1>6, <1>7, <1>8, <1>9 DEF SettledOnce

LEMMA SettleSources ==
  ASSUME MessageInv, channel = "open", Rejects \/ HandlerSettles \/ RequeueAcknowledges
  PROVE  Sources' /\ SettledOnce' /\ OneByOne'
  <1> USE DEF MessageInv
  <1>1. PICK kind \in {"settle", "ackRequeued"} : Write(kind, hand)
    BY DEF Rejects, HandlerSettles, RequeueAcknowledges, Writes
  <1>2. hand \in Copy /\ wire \in Seq(Frames)
    BY DEF Rejects, HandlerSettles, RequeueAcknowledges, Consumes, QueueInv, QueueTypeOK, Locals
  <1>3. PICK n : n = Len(wire) + 1
    OBVIOUS
  <1>4. /\ \A i \in DOMAIN wire' : i \in DOMAIN wire \/ i = n
        /\ \A i \in DOMAIN wire : wire'[i] = wire[i]
        /\ wire'[n].kind = kind
    BY <1>1, <1>2, <1>3, Written
  <1>5. (\A d : Count(d)' = Count(d) /\ There(d)' = There(d)) /\ settled' = settled /\ sent' = sent
    BY DEF Rejects, HandlerSettles, RequeueAcknowledges, Consumes, brokerVars, Count, There
  <1>6. Sources'
    BY <1>1, <1>4, <1>5 DEF Sources, Source
  <1>7. \A d : Exists(d)' <=> Exists(d)
    BY <1>1, <1>2, <1>3, <1>5, FrameWritten DEF Exists
  <1>8. OneByOne'
    <2>1. /\ consumer' # "acknowledge"
          /\ kind = "ackRequeued" => consumer = "acknowledge"
      BY <1>1, <1>4, <1>3 DEF Rejects, HandlerSettles, RequeueAcknowledges, Consumes, Writes, Write
    <2> QED
      BY <1>1, <1>2, <2>1, WrittenOneByOne
  <1> QED
    BY <1>5, <1>6, <1>7, <1>8 DEF SettledOnce

\* The broker takes a frame.
LEMMA StoresSources ==
  ASSUME MessageInv, channel # "dead", BrokerStores
  PROVE  Sources' /\ SettledOnce' /\ OneByOne'
  <1> USE DEF MessageInv
  <1> PICK c : c = wire[1].copy
    OBVIOUS
  <1>1. /\ c \in Copy /\ Arriving(1) /\ 1 \in DOMAIN wire /\ wire' = Tail(wire) /\ settled' = settled
        /\ UNCHANGED <<channel, dropped, consumer, hand>>
        /\ Count(c) = 0 /\ Count(c)' = 1 /\ \A d \in Copy : d # c => Count(d)' = Count(d)
    BY StoresEffect
  <1>2. /\ wire \in Seq(Frames) /\ wire # <<>> /\ Distinct /\ sent' = sent
        /\ \A d \in Copy : Count(d) > 0 => Count(d)' > 0
    BY <1>1 DEF QueueInv, QueueTypeOK, Live, BrokerStores
  <1>3. \A i \in DOMAIN wire' : i + 1 \in DOMAIN wire /\ wire'[i] = wire[i + 1]
    BY <1>1, <1>2, HeadTaken
  <1>4. Sources'
    BY <1>2, <1>3 DEF Sources, Source
  <1>5. \A d \in Copy : Exists(d)' => Exists(d)
    <2>1. \A d : Coming(d)' => Coming(d)
      BY <1>1, <1>2, FrameTaken
    <2> QED
      BY <1>1, <2>1 DEF Exists, There, Coming
  <1>6. OneByOne'
    BY <1>1, <1>2, TakenOneByOne
  <1> QED
    BY <1>1, <1>2, <1>4, <1>5, <1>6 DEF SettledOnce

LEMMA SettlesSources ==
  ASSUME MessageInv, channel # "dead", BrokerSettles
  PROVE  Sources' /\ SettledOnce' /\ OneByOne'
  <1> USE DEF MessageInv
  <1> PICK c : c = wire[1].copy
    OBVIOUS
  <1>1. /\ c \in Copy /\ Leaving(1) /\ 1 \in DOMAIN wire /\ wire' = Tail(wire)
        /\ UNCHANGED <<channel, dropped, consumer, hand>> /\ c \notin dropped
        /\ settled' = IF wire[1].kind = "settle" THEN settled \cup {c.msg} ELSE settled
        /\ Count(c) = 1 /\ Count(c)' = 0 /\ \A d \in Copy : d # c => Count(d)' = Count(d)
    BY SettlesEffect
  <1>2. /\ wire \in Seq(Frames) /\ wire # <<>> /\ Distinct /\ sent' = sent
        /\ \A i \in DOMAIN wire : ~ (i < 1)
    BY DEF QueueInv, QueueTypeOK, Live, BrokerSettles
  <1>3. \A i \in DOMAIN wire' : i + 1 \in DOMAIN wire /\ wire'[i] = wire[i + 1]
    BY <1>1, <1>2, HeadTaken
  <1>4. \A d \in Copy : Exists(d)' => Exists(d) /\ d # c
    <2>1. \A d : Coming(d)' => Coming(d) /\ d # c
      BY <1>1, <1>2, FrameTaken
    <2> QED
      BY <1>1, <2>1 DEF Exists, There
  <1>5. \A i \in DOMAIN wire, d \in Copy : wire[i].kind = "requeue" /\ Source(d, wire[i].copy) => d # c
    <2> SUFFICES ASSUME NEW i \in DOMAIN wire, wire[i].kind = "requeue", Source(c, wire[i].copy)
                 PROVE  FALSE
      OBVIOUS
    <2>1. /\ wire[i].copy = Retried(c) /\ c.retries <= MaxRetryCount /\ Arriving(i)
          /\ ~ There(wire[i].copy)
      BY DEF Source, Arriving, QueueInv, Live, Arrivals
    <2>2. CASE wire[1].kind = "settle"
      <3>1. Exists(Retried(c))
        BY <2>1 DEF Exists, Coming
      <3>2. Retried(c) \in Copy /\ Retried(c).msg = c.msg /\ Retried(c) # c
        BY <1>1, <2>1, RetriedNext, LaterOrder
      <3> QED
        BY <1>1, <1>2, <2>2, <3>1, <3>2, SettledAlone
    <2>3. CASE wire[1].kind = "ackRequeued"
      <3>1. ReplacedAt(1, c)
        BY <1>1, <2>3 DEF QueueInv, Live, Replaced, Acknowledges
      <3>2. There(Retried(c))
        BY <1>2, <3>1 DEF ReplacedAt, Ahead
      <3> QED
        BY <2>1, <3>2
    <2> QED
      BY <1>1, <2>2, <2>3 DEF Leaving
  <1>6. Sources'
    BY <1>1, <1>3, <1>5 DEF Sources, Source
  <1>7. settled' \subseteq sent'
    BY <1>1, <1>2 DEF SettledOnce, QueueInv, Live, Known, Exists, There
  <1>8. ASSUME NEW d \in Copy, Exists(d)'
        PROVE  d.msg \notin settled'
    <2>1. d.msg \notin settled
      BY <1>4, <1>8 DEF SettledOnce
    <2>2. wire[1].kind = "settle" => d.msg # c.msg
      BY <1>2, <1>4, <1>8, SettledAlone
    <2> QED
      BY <1>1, <2>1, <2>2
  <1>9. OneByOne'
    BY <1>1, <1>2, TakenOneByOne
  <1> QED
    BY <1>6, <1>7, <1>8, <1>9 DEF SettledOnce

LEMMA DropsEffect ==
  ASSUME QueueInv, BrokerDrops, NEW c, c = wire[1].copy
  PROVE  /\ c \in Copy /\ Arriving(1) /\ 1 \in DOMAIN wire /\ wire' = Tail(wire) /\ settled' = settled
         /\ wire # <<>> /\ wire[1].kind = "requeue" /\ wire \in Seq(Frames)
         /\ UNCHANGED <<channel, sent, consumer, hand>> /\ dropped' = dropped \cup {c}
         /\ \A d : Count(d)' = Count(d)
  BY HeadTaken, WireFrames DEF QueueInv, BrokerDrops, QueueTypeOK, Arriving, clientVars, Count

LEMMA DropsSources ==
  ASSUME MessageInv, channel # "dead", BrokerDrops
  PROVE  Sources' /\ SettledOnce' /\ OneByOne'
  <1> USE DEF MessageInv
  <1> PICK c : c = wire[1].copy
    OBVIOUS
  <1>1. /\ c \in Copy /\ Arriving(1) /\ 1 \in DOMAIN wire /\ wire' = Tail(wire) /\ settled' = settled
        /\ wire # <<>> /\ wire \in Seq(Frames)
        /\ UNCHANGED <<sent, consumer, hand>> /\ dropped' = dropped \cup {c}
        /\ \A d : Count(d)' = Count(d)
    BY DropsEffect
  <1>2. \A i \in DOMAIN wire' : i + 1 \in DOMAIN wire /\ wire'[i] = wire[i + 1]
    BY <1>1, HeadTaken
  <1>3. Sources'
    BY <1>1, <1>2 DEF Sources, Source
  <1>4. \A d \in Copy : Exists(d)' => Exists(d)
    <2>1. \A d : Coming(d)' => Coming(d)
      BY <1>1, FrameTaken DEF QueueInv, Live
    <2> QED
      BY <1>1, <2>1 DEF Exists, There, Coming
  <1>5. OneByOne'
    BY <1>1, TakenOneByOne
  <1> QED
    BY <1>1, <1>3, <1>4, <1>5 DEF SettledOnce

LEMMA MessageStep ==
  ASSUME MessageInv, [QueueNext]_queueVars
  PROVE  MessageInv'
  <1> USE DEF MessageInv
  <1>1. QueueInv'
    BY QueueStep
  <1>2. CASE BrokerStores \/ BrokerSettles \/ BrokerDrops
    <2>1. channel # "dead"
      BY <1>2 DEF QueueInv, Dead, BrokerStores, BrokerSettles, BrokerDrops
    <2> QED
      BY <1>1, <1>2, <2>1, StoresSources, SettlesSources, DropsSources
  <1>3. ASSUME NEW m \in Messages, Publish(m)
        PROVE  Sources' /\ SettledOnce' /\ OneByOne'
    BY <1>3, PublishSources
  <1>4. CASE RequeuePublishes
    BY <1>1, <1>4, RequeueSources
  <1>5. CASE channel = "open" /\ (Rejects \/ HandlerSettles \/ RequeueAcknowledges)
    BY <1>1, <1>5, SettleSources
  <1>6. ASSUME wire' \in {wire, <<>>}, sent' = sent,
               wire' = wire /\ consumer' = "acknowledge" => consumer = "acknowledge" /\ hand' = hand,
               ~ BrokerStores, ~ BrokerSettles, ~ BrokerDrops
        PROVE  Sources' /\ SettledOnce' /\ OneByOne'
    <2>1. \A c : Coming(c)' => Coming(c)
      BY <1>6 DEF Coming, Arriving
    <2>2. OneByOne'
      <3>1. CASE wire' = <<>>
        BY <3>1 DEF OneByOne
      <3>2. CASE wire' = wire
        <4>1. \A d : Acknowledging(d)' => Acknowledging(d)
          BY <1>6, <3>2 DEF Acknowledging
        <4>2. /\ \A i, d : After(i, d)' <=> After(i, d)
              /\ \A i, d : Acknowledges(i, d)' <=> Acknowledges(i, d)
          BY <3>2 DEF After, Arriving, Acknowledges
        <4> QED
          BY <3>2, <4>1, <4>2 DEF OneByOne
      <3> QED
        BY <1>6, <3>1, <3>2
    <2>3. CASE /\ settled' = settled /\ dropped' = dropped
               /\ \A c \in Copy : Count(c)' = Count(c)
      <3>1. Sources'
        BY <1>6, <2>3 DEF Sources, Source
      <3>2. SettledOnce'
        BY <1>6, <2>1, <2>3 DEF SettledOnce, Exists, There
      <3> QED
        BY <2>2, <3>1, <3>2
    <2>4. ASSUME NEW kept, Ending(kept)
          PROVE  Sources' /\ SettledOnce'
      <3>1. /\ wire' = <<>> /\ settled' = settled
            /\ \A c \in Copy : /\ Count(c)' = IF c \in kept THEN Count(c) ELSE 0
                               /\ Count(c) \in 0..1
                               /\ c \in dropped' <=> c \in dropped \/ (c \notin kept /\ Count(c) > 0)
        BY <2>4, Ended
      <3>2. Sources'
        BY <3>1 DEF Sources
      <3>3. \A c \in Copy : There(c)' => There(c)
        BY <3>1 DEF There
      <3>4. SettledOnce'
        BY <1>6, <2>1, <3>1, <3>3 DEF SettledOnce, Exists
      <3> QED
        BY <3>2, <3>4
    <2> QED
      BY <1>6, <2>2, <2>3, <2>4, CountsKept
  <1>7. CASE Connect \/ ConnectionLost \/ BrokerRestarts \/ Close \/ StartConsumer \/ Cancel \/ ConsumeReturns
             \/ BrokerRefuses \/ UNCHANGED queueVars
    <2>1. /\ wire' \in {wire, <<>>} /\ sent' = sent /\ hand' = hand
          /\ consumer' = "acknowledge" => consumer = "acknowledge"
      BY <1>7 DEF Connect, ConnectionLost, BrokerRestarts, Close, StartConsumer, Cancel, ConsumeReturns,
                  BrokerRefuses, Die, queueVars, clientVars
    <2> QED
      BY <1>1, <1>2, <1>6, <2>1
  <1>8. ASSUME NEW c \in Copy, BrokerDelivers(c)
        PROVE  wire' = wire /\ sent' = sent /\ consumer' = consumer /\ hand' = hand
    BY <1>8 DEF BrokerDelivers, clientVars
  <1>9. CASE Forwarder
    <2>1. /\ wire' = wire /\ sent' = sent
          /\ consumer' = "acknowledge" => consumer = "acknowledge" /\ hand' = hand
      BY <1>9 DEF Forwarder, ForwarderConsumes, ForwarderTakes, ForwarderSends, DeliveriesEnd,
                  ForwarderWakes, Forwards
    <2> QED
      BY <1>1, <1>2, <1>6, <2>1
  <1>10. CASE ConsumerStops \/ Decodes \/ HandlerFails \/
              (channel # "open" /\ (Rejects \/ HandlerSettles \/ RequeueAcknowledges))
    <2>1. wire' = wire /\ sent' = sent /\ consumer' # "acknowledge"
      BY <1>10 DEF ConsumerStops, Decodes, HandlerFails, Rejects, HandlerSettles, RequeueAcknowledges,
                   Consumes, Writes
    <2> QED
      BY <1>1, <1>2, <1>6, <2>1
  <1> QED
    BY <1>1, <1>2, <1>3, <1>4, <1>5, <1>6, <1>7, <1>8, <1>9, <1>10 DEF QueueNext, Broker, Consumer

LEMMA MessageInvariance == QueueSpec => []MessageInv
  <1>1. QueueInit => MessageInv
    <2>1. QueueInit => QueueInv
      BY QueueStart
    <2>2. QueueInit => Sources /\ SettledOnce /\ OneByOne
      BY DEF QueueInit, Sources, SettledOnce, OneByOne
    <2> QED
      BY <2>1, <2>2 DEF MessageInv
  <1>2. MessageInv /\ [QueueNext]_queueVars => MessageInv'
    BY MessageStep
  <1> QED
    BY <1>1, <1>2, PTL DEF QueueSpec

-----------------------------------------------------------------------------
(* What a step is for the messages                                         *)

At == [m \in Messages |-> Standing(m)]

LEMMA OneMoves ==
  ASSUME NEW m \in Messages, NEW s, Standing(m)' = s,
         \A n \in Messages : n # m => Standing(n)' = Standing(n)
  PROVE  At' = [At EXCEPT ![m] = s]
  BY DEF At

\* A message arrives with its publication, and is requeued with the arrival of its next copy.
LEMMA StoresMaps ==
  ASSUME MessageInv, Stands, Stands', channel # "dead", BrokerStores
  PROVE  \E m \in Messages : Lifecycle!Arrive(m) \/ Lifecycle!Requeue(m)
  <1> USE DEF MessageInv
  <1> PICK c : c = wire[1].copy
    OBVIOUS
  <1>1. /\ c \in Copy /\ Arriving(1) /\ 1 \in DOMAIN wire /\ settled' = settled
        /\ channel' = channel /\ dropped' = dropped /\ ~ There(c)
        /\ Count(c) = 0 /\ Count(c)' = 1 /\ \A d \in Copy : d # c => Count(d)' = Count(d)
    BY StoresEffect
  <1> PICK m : m = c.msg
    OBVIOUS
  <1>2. m \in Messages /\ m \notin settled /\ ~ Twice(m) /\ ~ Twice(m)'
    BY <1>1, RetriedNext, LiveIsNotTwice DEF SettledOnce, Exists, Coming, Twice
  <1>3. \A n \in Messages : n # m => Standing(n)' = Standing(n)
    BY <1>1, Undisturbed DEF Twice, Dropped
  <1>4. CASE wire[1].kind = "publish"
    <2>1. ASSUME NEW d \in Copy, d.msg = m, There(d)
          PROVE  FALSE
      <3>1. Exists(c) /\ Exists(d) /\ Later(d, c) /\ Count(c) = 0
        <4>1. c.retries = 0 /\ d # c /\ d.retries \in Nat
          BY <1>1, <1>4, <2>1, RetriedNext, QueueAssumption DEF Sources
        <4> QED
          BY <1>1, <2>1, <4>1, LaterOrder DEF Exists, Coming, Later
      <3>2. Passed(c)
        BY <1>1, <3>1 DEF QueueInv, Live, InOrder
      <3>3. CASE Acknowledging(c)
        BY <1>1, <3>3, Counts DEF QueueInv, Live, Places, OnePlace, Acknowledging, Handling, Count
      <3>4. CASE Replacing(c)
        <4>1. unacked[c] > 0
          BY <3>4 DEF QueueInv, Live, Departures, Departed, Replacing, Acknowledges, Leaving
        <4> QED
          BY <1>1, <4>1, Counts DEF QueueInv, Count
      <3> QED
        BY <3>2, <3>3, <3>4 DEF Passed
    <2>2. Standing(m) = Lifecycle!Outside
      <3>1. ~ Present(m) /\ ~ Dropped(m)
        BY <2>1 DEF Present, Dropped, There, QueueInv, QueueTypeOK
      <3> QED
        BY <1>2, <3>1 DEF Stands, StandsFor, Lifecycle!Outside
    <2>3. Newest(c)' /\ c.retries = 0
      BY <1>1, <1>4, <2>1 DEF Newest, Sources, There
    <2>4. Standing(m)' = Lifecycle!Queued(0)
      BY <1>1, <1>2, <2>3 DEF Stands, StandsFor, Lifecycle!Queued
    <2>5. Lifecycle!Arrive(m)
      BY <1>2, <1>3, <2>2, <2>4, OneMoves DEF Lifecycle!Arrive, At
    <2> QED
      BY <1>2, <2>5
  <1>5. CASE wire[1].kind = "requeue"
    <2>1. PICK d \in Copy : Source(d, c)
      BY <1>1, <1>5 DEF Sources
    <2>2. d.msg = m /\ c.retries = d.retries + 1 /\ d.retries \in 0..MaxRetryCount
      BY <2>1, RetriedNext, QueueAssumption DEF Source
    <2>3. \A e \in Copy : e.msg = m /\ Count(e) > 0 => e.retries <= d.retries
      BY <1>1, <2>1, <2>2, SourceIsNewest
    <2>4. Newest(d)
      BY <2>1, <2>2, <2>3 DEF Newest, Source
    <2>5. Newest(c)'
      BY <1>1, <2>2, <2>3, RetriedNext, QueueAssumption DEF Newest
    <2>6. Standing(m) = Lifecycle!Queued(d.retries)
      BY <1>2, <2>2, <2>4 DEF Stands, StandsFor, Lifecycle!Queued
    <2>7. Standing(m)' = Lifecycle!Queued(d.retries + 1)
      BY <1>1, <1>2, <2>2, <2>5 DEF Stands, StandsFor, Lifecycle!Queued
    <2>8. Lifecycle!Requeue(m)
      BY <1>2, <1>3, <2>2, <2>6, <2>7, OneMoves DEF Lifecycle!Requeue, At
    <2> QED
      BY <1>2, <2>8
  <1> QED
    BY <1>1, <1>4, <1>5 DEF Arriving

\* It is settled with the settlement of the only copy left, and lost with the acknowledgement of the
\* only copy left; while the next copy is there, the acknowledgement is not to be noticed.
LEMMA SettlesMaps ==
  ASSUME MessageInv, Stands, Stands', channel # "dead", BrokerSettles
  PROVE  At' = At \/ \E m \in Messages : Lifecycle!Settle(m) \/ Lifecycle!Drop(m)
  <1> USE DEF MessageInv
  <1> PICK c : c = wire[1].copy
    OBVIOUS
  <1>1. /\ c \in Copy /\ Leaving(1) /\ 1 \in DOMAIN wire /\ wire # <<>>
        /\ settled' = IF wire[1].kind = "settle" THEN settled \cup {c.msg} ELSE settled
        /\ channel' = channel /\ dropped' = dropped /\ c \notin dropped
        /\ Count(c) = 1 /\ Count(c)' = 0 /\ \A d \in Copy : d # c => Count(d)' = Count(d)
    BY SettlesEffect DEF BrokerSettles
  <1> PICK m : m = c.msg
    OBVIOUS
  <1>2. m \in Messages /\ m \notin settled /\ ~ Twice(m) /\ ~ Twice(m)'
    BY <1>1, RetriedNext, LiveIsNotTwice DEF SettledOnce, Exists, There, Twice
  <1>3. \A n \in Messages : n # m => Standing(n)' = Standing(n)
    BY <1>1, Undisturbed DEF Twice, Dropped
  <1>4. CASE wire[1].kind = "settle"
    <2>1. Newest(c)
      BY <1>1, <1>4, SettledAlone, RetriedNext, QueueAssumption DEF Newest, Exists, There
    <2>2. Standing(m).status = "queued"
      BY <1>1, <1>2, <2>1 DEF Stands, StandsFor
    <2>3. Standing(m)' = Lifecycle!Settled
      BY <1>1, <1>2, <1>4 DEF Stands, StandsFor, Lifecycle!Settled
    <2>4. Lifecycle!Settle(m)
      BY <1>2, <1>3, <2>2, <2>3, OneMoves DEF Lifecycle!Settle, At
    <2> QED
      BY <1>2, <2>4
  <1>5. CASE wire[1].kind = "ackRequeued"
    <2>1. ReplacedAt(1, c) /\ \A i \in DOMAIN wire : ~ (i < 1)
      BY <1>1, <1>5 DEF QueueInv, QueueTypeOK, Live, Replaced, Acknowledges
    <2> PICK d : d = Retried(c)
      OBVIOUS
    <2>2. /\ d \in Copy /\ d.msg = m /\ d # c /\ There(d) /\ Later(d, c)
          /\ \A e \in Copy : Later(e, c) /\ There(e) => e = d
      BY <1>1, <2>1, RetriedNext, LaterOrder DEF ReplacedAt, Ahead
    <2>3. \A e \in Copy : e.msg = m /\ Count(e) > 0 => e = c \/ e = d
      <3>1. \A e \in Copy : Count(e) > 0 => ~ Later(c, e)
        BY <1>1, NothingOlder DEF Exists, There
      <3> QED
        BY <1>1, <2>2, <3>1, LaterOrder DEF There
    <2>4. CASE Count(d) > 0
      <3>1. Newest(d)
        BY <1>1, <2>2, <2>3, <2>4, RetriedNext, QueueAssumption DEF Newest, Later
      <3>2. Newest(d)'
        BY <1>1, <2>2, <3>1 DEF Newest
      <3>3. Standing(m)' = Standing(m)
        BY <1>1, <1>2, <1>5, <2>2, <3>1, <3>2 DEF Stands, StandsFor
      <3> QED
        BY <1>3, <3>3 DEF At
    <2>5. CASE ~ (Count(d) > 0)
      <3>1. Newest(c)
        BY <1>1, <2>3, <2>5, RetriedNext, QueueAssumption DEF Newest
      <3>2. Standing(m) = Lifecycle!Queued(c.retries) /\ c.retries \in 0..MaxRetryCount
        BY <1>1, <1>2, <2>1, <3>1, RetriedNext, QueueAssumption
           DEF Stands, StandsFor, ReplacedAt, Lifecycle!Queued
      <3>3. ~ Present(m)' /\ Dropped(m)'
        <4>1. \A e \in Copy : e.msg = m => ~ (Count(e)' > 0)
          BY <1>1, <2>3, <2>5
        <4>2. d \in dropped'
          BY <1>1, <2>2, <2>5 DEF There
        <4> QED
          BY <2>2, <4>1, <4>2 DEF Present, Dropped
      <3>4. Standing(m)' = Lifecycle!Lost
        BY <1>1, <1>2, <1>5, <3>3 DEF Stands, StandsFor, Lifecycle!Lost
      <3>5. Lifecycle!Drop(m)
        BY <1>2, <1>3, <3>2, <3>4, OneMoves DEF Lifecycle!Drop, At
      <3> QED
        BY <1>2, <3>5
    <2> QED
      BY <2>4, <2>5
  <1> QED
    BY <1>1, <1>4, <1>5 DEF Leaving

\* A copy is thrown away while the one that it comes from is there: nothing to be noticed.
LEMMA DropsMaps ==
  ASSUME MessageInv, Stands, Stands', BrokerDrops
  PROVE  At' = At
  <1> USE DEF MessageInv
  <1> PICK c : c = wire[1].copy
    OBVIOUS
  <1>1. /\ c \in Copy /\ 1 \in DOMAIN wire /\ settled' = settled /\ wire[1].kind = "requeue"
        /\ channel' = channel /\ dropped' = dropped \cup {c} /\ \A d : Count(d)' = Count(d)
    BY DropsEffect
  <1>2. Present(c.msg)
    <2>1. PICK d \in Copy : Source(d, c)
      BY <1>1 DEF Sources
    <2> QED
      BY <2>1, RetriedNext DEF Source, Present
  <1>3. ASSUME NEW m \in Messages
        PROVE  Standing(m)' = Standing(m)
    <2>1. Present(m) \/ (Dropped(m)' <=> Dropped(m))
      BY <1>1, <1>2 DEF Dropped
    <2>2. Twice(m)' <=> Twice(m)
      BY <1>1 DEF Twice
    <2> QED
      BY <1>1, <2>1, <2>2, Undisturbed
  <1> QED
    BY <1>3 DEF At

\* When the connection ends, one message at most is left twice.
LEMMA EndsMaps ==
  ASSUME MessageInv, Stands, Stands', Ending(Copy)
  PROVE  At' = At \/ \E m \in Messages : Lifecycle!LeaveTwice(m)
  <1> USE DEF MessageInv
  <1>1. /\ channel # "dead" /\ channel' = "dead" /\ settled' = settled
        /\ \A c \in Copy : Count(c)' = Count(c)
    BY Ended DEF Ending
  <1>2. dropped' = dropped
    BY DEF Ending, Die
  <1>3. ASSUME NEW m \in Messages, ~ Twice(m)'
        PROVE  Standing(m)' = Standing(m)
    BY <1>1, <1>2, <1>3, LiveIsNotTwice, Undisturbed DEF Dropped
  <1>4. CASE \A m \in Messages : ~ Twice(m)'
    BY <1>3, <1>4 DEF At
  <1>5. ASSUME NEW m \in Messages, Twice(m)'
        PROVE  Lifecycle!LeaveTwice(m)
    <2>1. \A n \in Messages : Twice(n)' =>
             \E c, d \in Copy : c.msg = n /\ d.msg = n /\ Doubled(c, d)
      BY <1>1, LaterOrder DEF Twice, Doubled
    <2>2. PICK c, d \in Copy : c.msg = m /\ d.msg = m /\ Doubled(c, d)
      BY <1>5, <2>1
    <2>3. \A n \in Messages : n # m => ~ Twice(n)'
      BY <1>1, <2>1, <2>2, OneIsDoubled
    <2>4. m \notin settled /\ Present(m)
      BY <2>2 DEF SettledOnce, Exists, There, Doubled, Present
    <2>5. PICK n \in Copy : n.msg = m /\ Newest(n)
      BY <2>4 DEF Stands, StandsFor
    <2>6. \E r \in 0..MaxRetryCount : n.retries = r + 1
      <3>1. n.retries \in 0..MaxRetryCount + 1 /\ c.retries \in Nat /\ d.retries \in Nat
        BY RetriedNext, QueueAssumption
      <3>2. n.retries >= d.retries /\ d.retries > c.retries
        BY <2>2, <2>5, <3>1 DEF Newest, Doubled, Later
      <3>3. n.retries - 1 \in 0..MaxRetryCount /\ n.retries = (n.retries - 1) + 1
        BY <3>1, <3>2, QueueAssumption
      <3> QED
        BY <3>3
    <2>7. Standing(m) = Lifecycle!Queued(n.retries)
      BY <1>1, <2>4, <2>5, LiveIsNotTwice DEF Stands, StandsFor, Lifecycle!Queued
    <2>8. Standing(m)' = Lifecycle!Twice
      BY <1>1, <1>5, <2>4 DEF Stands, StandsFor, Lifecycle!Twice
    <2>9. \A k \in Messages : k # m => Standing(k)' = Standing(k)
      BY <1>3, <2>3
    <2> QED
      BY <2>6, <2>7, <2>8, <2>9, OneMoves DEF Lifecycle!LeaveTwice, At
  <1> QED
    BY <1>4, <1>5

\* When the broker restarts, only the first copies are left.
Spared(m) == \E c, d \in Copy : c.msg = m /\ d.msg = m /\ Doubled(c, d) /\ c.retries = 0

LEMMA RestartLeaves ==
  ASSUME MessageInv, Stands, Stands', Ending(Persistent), NEW m \in Messages
  PROVE  /\ Spared(m) => Standing(m) = Lifecycle!Queued(1) /\ Standing(m)' = Lifecycle!Queued(0)
         /\ ~ Spared(m) /\ (\E r \in 0..MaxRetryCount : Standing(m) = Lifecycle!Queued(r + 1)) =>
              Standing(m)' = Lifecycle!Lost
         /\ ~ Spared(m) /\ ~ (\E r \in 0..MaxRetryCount : Standing(m) = Lifecycle!Queued(r + 1)) =>
              Standing(m)' = Standing(m)
  <1> USE DEF MessageInv
  <1>1. /\ channel # "dead" /\ settled' = settled
        /\ \A c \in Copy : /\ Count(c)' = IF c \in Persistent THEN Count(c) ELSE 0
                           /\ Count(c) \in 0..1
                           /\ c \in dropped' <=> c \in dropped \/ (c \notin Persistent /\ Count(c) > 0)
    BY Ended DEF Ending
  <1>2. /\ \A c \in Copy : c.retries \in 0..MaxRetryCount + 1 /\ (c \in Persistent <=> c.retries = 0)
        /\ MaxRetryCount \in Nat
    BY RetriedNext, QueueAssumption DEF Persistent
  <1>3. \A c \in Copy : Count(c)' > 0 <=> Count(c) > 0 /\ c.retries = 0
    BY <1>1, <1>2
  <1>4. ~ Twice(m)' /\ ~ Twice(m)
    BY <1>1, <1>3, SameCopy DEF Twice
  <1>5. StandsFor(m) /\ StandsFor(m)'
    BY DEF Stands
  <1>6. Spared(m) => m \notin settled /\ Present(m)
    BY DEF Spared, Doubled, SettledOnce, Exists, There, Present
  <1>7. CASE m \in settled
    BY <1>1, <1>5, <1>6, <1>7 DEF StandsFor, Lifecycle!Queued
  <1>8. CASE m \notin settled /\ ~ Present(m)
    <2>1. ~ Present(m)'
      BY <1>3, <1>8 DEF Present
    <2>2. Dropped(m)' <=> Dropped(m)
      <3>1. dropped' = dropped \cup {c \in Copy \ Persistent : Count(c) > 0}
        BY DEF Ending, Die
      <3> QED
        BY <1>8, <3>1 DEF Dropped, Present
    <2>3. Standing(m)' = Standing(m) /\ Standing(m).status \in {"lost", "outside"}
      BY <1>1, <1>5, <1>8, <2>1, <2>2 DEF StandsFor
    <2> QED
      BY <1>6, <1>8, <2>3 DEF Lifecycle!Queued
  <1>9. CASE m \notin settled /\ Present(m)
    <2>1. PICK n \in Copy : n.msg = m /\ Newest(n)
      BY <1>5, <1>9 DEF StandsFor
    <2>2. Standing(m) = Lifecycle!Queued(n.retries)
      BY <1>4, <1>5, <1>9, <2>1 DEF StandsFor, Lifecycle!Queued
    <2>3. ASSUME NEW c \in Copy, c.msg = m, Count(c) > 0, c.retries = 0
          PROVE  Standing(m)' = Lifecycle!Queued(0)
      <3>1. Newest(c)'
        BY <1>2, <1>3, <2>3 DEF Newest
      <3> QED
        BY <1>1, <1>4, <1>5, <1>9, <2>3, <3>1 DEF StandsFor, Lifecycle!Queued
    <2>4. CASE n.retries = 0
      <3>1. ~ Spared(m)
        BY <1>2, <2>1, <2>4 DEF Spared, Doubled, Later, Newest
      <3>2. Standing(m)' = Standing(m)
        BY <2>1, <2>2, <2>3, <2>4 DEF Newest
      <3>3. ~ \E r \in 0..MaxRetryCount : Standing(m) = Lifecycle!Queued(r + 1)
        <4>1. \A r \in 0..MaxRetryCount : r + 1 # n.retries
          BY <1>2, <2>4
        <4>2. \A x, y : Lifecycle!Queued(x) = Lifecycle!Queued(y) => x = y
          BY DEF Lifecycle!Queued
        <4> QED
          BY <2>2, <4>1, <4>2
      <3> QED
        BY <3>1, <3>2, <3>3
    <2>5. CASE n.retries # 0 /\ \E c \in Copy : c.msg = m /\ Count(c) > 0 /\ c.retries = 0
      <3>1. PICK c \in Copy : c.msg = m /\ Count(c) > 0 /\ c.retries = 0
        BY <2>5
      <3>2. n.retries = 1
        <4>1. OneCopy
          BY <1>1, LiveOneCopy DEF QueueInv
        <4> QED
          BY <1>2, <2>1, <2>5, <3>1, <4>1 DEF OneCopy, Newest
      <3>3. Spared(m)
        BY <1>2, <2>1, <3>1, <3>2 DEF Spared, Doubled, Later, Newest
      <3> QED
        BY <2>2, <2>3, <3>1, <3>2, <3>3
    <2>6. CASE n.retries # 0 /\ ~ \E c \in Copy : c.msg = m /\ Count(c) > 0 /\ c.retries = 0
      <3>1. ~ Spared(m)
        BY <2>6 DEF Spared, Doubled
      <3>2. ~ Present(m)' /\ Dropped(m)'
        BY <1>1, <1>2, <1>3, <2>1, <2>6 DEF Present, Dropped, Newest
      <3>3. Standing(m)' = Lifecycle!Lost
        BY <1>1, <1>5, <1>9, <3>2 DEF StandsFor, Lifecycle!Lost
      <3>4. \E r \in 0..MaxRetryCount : Standing(m) = Lifecycle!Queued(r + 1)
        <4>1. n.retries - 1 \in 0..MaxRetryCount /\ n.retries = (n.retries - 1) + 1
          BY <1>2, <2>6
        <4> QED
          BY <2>2, <4>1
      <3> QED
        BY <3>1, <3>3, <3>4
    <2> QED
      BY <2>4, <2>5, <2>6
  <1> QED
    BY <1>7, <1>8, <1>9

LEMMA RestartMaps ==
  ASSUME MessageInv, Stands, Stands', Ending(Persistent)
  PROVE  Lifecycle!Restart
  <1> DEFINE spared == {m \in Messages : Spared(m)}
  <1>1. spared \in {{}} \cup {{m} : m \in Messages}
    <2>1. \A m, n \in spared : m = n
      BY OneIsDoubled DEF Spared, Ending
    <2> QED
      BY <2>1
  <1>2. \A m \in spared : At[m] = Lifecycle!Queued(1)
    BY RestartLeaves DEF At
  <1>3. \A m \in Messages : Lifecycle!Requeued(m) <=>
           \E r \in 0..MaxRetryCount : Standing(m) = Lifecycle!Queued(r + 1)
    BY DEF Lifecycle!Requeued
  <1>4. At' = [m \in Messages |-> IF m \in spared THEN Lifecycle!Queued(0)
                                  ELSE IF Lifecycle!Requeued(m) THEN Lifecycle!Lost ELSE At[m]]
    BY <1>3, RestartLeaves DEF At
  <1> QED
    BY <1>1, <1>2, <1>4 DEF Lifecycle!Restart, At

LEMMA MessageMaps ==
  ASSUME MessageInv, Stands, Stands', [QueueNext]_queueVars
  PROVE  [Lifecycle!MessagesNext]_At
  <1> USE DEF MessageInv
  <1> DEFINE Moves == \/ \E m \in Messages : \/ Lifecycle!Arrive(m) \/ Lifecycle!Requeue(m) \/ Lifecycle!Settle(m)
                                             \/ Lifecycle!Drop(m) \/ Lifecycle!LeaveTwice(m)
                      \/ Lifecycle!Restart
  <1>1. ASSUME At' = At \/ Moves
        PROVE  [Lifecycle!MessagesNext]_At
    BY <1>1 DEF Lifecycle!MessagesNext, At
  <1>2. CASE BrokerStores \/ BrokerSettles \/ BrokerDrops
    <2>1. channel # "dead"
      BY <1>2 DEF QueueInv, Dead, BrokerStores, BrokerSettles, BrokerDrops
    <2> QED
      BY <1>1, <1>2, <2>1, StoresMaps, SettlesMaps, DropsMaps
  <1>3. CASE ~ BrokerStores /\ ~ BrokerSettles /\ ~ BrokerDrops
    <2>1. CASE /\ settled' = settled /\ dropped' = dropped
               /\ channel' = "dead" <=> channel = "dead"
               /\ \A c \in Copy : Count(c)' = Count(c)
      <3>1. \A m \in Messages : Standing(m)' = Standing(m)
        BY <2>1, Undisturbed DEF Twice, Dropped
      <3> QED
        BY <1>1, <3>1 DEF At
    <2>2. CASE Ending(Copy)
      BY <1>1, <2>2, EndsMaps
    <2>3. CASE Ending(Persistent)
      BY <1>1, <2>3, RestartMaps
    <2> QED
      BY <1>3, <2>1, <2>2, <2>3, CountsKept
  <1> QED
    BY <1>2, <1>3

-----------------------------------------------------------------------------
(* Theorems                                                                *)

\* The queue, the channel and the wire hold what they may hold; no kind of copy is ever there more
\* than twice.
THEOREM QueueTypeCorrect == QueueSpec => []QueueTypeOK
  BY QueueInvariance, PTL DEF QueueInv

\* Between Publish and the settlement by a handler, through deliveries, Requeue, a refused Requeue and
\* the loss of the connection, what the broker has got is not lost, but for a copy that Requeue
\* published and the broker has thrown away: for want of a binding, or as it restarted.
THEOREM NothingIsLost == QueueSpec => []NeverLost
  BY QueueInvariance, PTL DEF QueueInv

\* Requeue makes at most one more copy of a message, and only until its acknowledgement is handled.
THEOREM OneCopyAtATime == QueueSpec => []OneCopy
  <1>1. QueueInv => OneCopy
    BY LiveOneCopy DEF QueueInv, Dead
  <1> QED
    BY <1>1, QueueInvariance, PTL

\* What the client of pkg/queue does to a message in two frames, over a connection that may end between
\* them, is one step of the message: it arrives once, is requeued up to the limit, and is settled; or it
\* is lost with an unrouted Requeue or a restart of the broker, or one is left twice as the connection
\* ends.
THEOREM QueueImplementsMessages == QueueSpec => ImplementsMessages
  <1>1. QueueInit => Lifecycle!MessagesInit
    <2>1. QueueInit => \A m \in Messages : m \notin settled /\ ~ Present(m) /\ ~ Dropped(m)
      BY DEF QueueInit, Present, Dropped, Count, Empty
    <2> QED
      BY <2>1 DEF Lifecycle!MessagesInit, Lifecycle!Outside, Standing
  <1>2. MessageInv /\ Stands /\ Stands' /\ [QueueNext]_queueVars
          => [Lifecycle!MessagesNext]_[m \in Messages |-> Standing(m)]
    BY MessageMaps DEF At
  <1>3. MessageInv => Stands
    BY NewestStands DEF MessageInv
  <1> QED
    BY <1>1, <1>2, <1>3, MessageInvariance, PTL DEF QueueSpec, ImplementsMessages, Lifecycle!MessagesSpec
=============================================================================
