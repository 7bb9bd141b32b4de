---------------------------- MODULE StreamProofs ----------------------------
(***************************************************************************)
(* Proofs about EventStream, for a channel of events of any capacity.      *)
(***************************************************************************)
EXTENDS EventStream, TLAPS, SequenceTheorems

StreamStep == Step \/ EventsTicks \/ FetchFails

Sent == {"heartbeat", "completed", "failed"}

\* What the goroutine is about to send is final.
StreamInv ==
  /\ StreamTypeOK
  /\ FinalIsLast
  /\ pc = "send" => Final(seen)

\* One more event is put behind those that are there, none of which is final.
LEMMA EventAdded ==
  ASSUME StreamInv, pc # "done", NEW e \in Sent, Final(e) => pc' = "done",
         Len(events) < EventsCap, events' = Append(events, e), UNCHANGED handlerVars
  PROVE  events' \in Seq(Sent) /\ Len(events') <= EventsCap /\ FinalIsLast'
  <1>1. events \in Seq(Sent) /\ Len(events) \in Nat
    BY DEF StreamInv, StreamTypeOK, Sent
  <1>2. /\ events' \in Seq(Sent) /\ Len(events') = Len(events) + 1
        /\ \A i \in 1..Len(events) : events'[i] = events[i]
        /\ events'[Len(events) + 1] = e
    BY <1>1, AppendProperties
  <1>3. /\ \A i \in 1..Len(events) : ~ Final(events[i])
        /\ ~ Final(writing) /\ ~ Final(got)
    BY DEF StreamInv, FinalIsLast
  <1>4. ASSUME NEW i \in 1..Len(events'), Final(events'[i])
        PROVE  i = Len(events') /\ pc' = "done"
    <2>1. i \notin 1..Len(events)
      BY <1>2, <1>3, <1>4
    <2>2. i = Len(events) + 1
      BY <1>1, <1>2, <2>1
    <2> QED
      BY <1>2, <1>4, <2>2
  <1>5. ~ Final(writing)' /\ ~ Final(got)'
    BY <1>3 DEF handlerVars, Final
  <1>6. FinalIsLast'
    BY <1>4, <1>5 DEF FinalIsLast, Final
  <1>7. Len(events') <= EventsCap
    BY <1>1, <1>2, EventsCapAssumption
  <1> QED
    BY <1>2, <1>6, <1>7

LEMMA StreamKeeps ==
  ASSUME StreamInv, StreamStep
  PROVE  StreamInv'
  <1> USE DEF StreamTypeOK, Statuses
  <1>1. CASE SendHeartbeat
    <2>1. /\ pc = "send_heartbeat" /\ pc' = "select" /\ events' = Append(events, "heartbeat")
          /\ Len(events) < EventsCap
          /\ UNCHANGED <<status, ctx, seen, check, eventsTick, heartbeatTick, handlerVars>>
      BY <1>1 DEF SendHeartbeat
    <2>2. "heartbeat" \in Sent /\ ~ Final("heartbeat")
      BY DEF Sent, Final
    <2>3. events' \in Seq(Sent) /\ Len(events') <= EventsCap /\ FinalIsLast'
      BY <2>1, <2>2, EventAdded
    <2> QED
      BY <2>1, <2>3 DEF StreamInv, Sent, handlerVars
  <1>2. CASE SendFinal
    <2>1. /\ pc = "send" /\ pc' = "done" /\ events' = Append(events, seen)
          /\ Len(events) < EventsCap
          /\ UNCHANGED <<status, ctx, seen, check, eventsTick, heartbeatTick, handlerVars>>
      BY <1>2 DEF SendFinal
    <2>2. seen \in Sent
      BY <2>1 DEF StreamInv, Sent, Final
    <2>3. events' \in Seq(Sent) /\ Len(events') <= EventsCap /\ FinalIsLast'
      BY <2>1, <2>2, EventAdded
    <2> QED
      BY <2>1, <2>3 DEF StreamInv, Sent, handlerVars
  <1>3. CASE TakeEvent
    <2>1. /\ events # <<>> /\ events' = Tail(events) /\ writing' = Head(events)
          /\ handler' \in {"returned", "write"}
          /\ UNCHANGED <<status, ctx, loopVars, got>>
      BY <1>3 DEF TakeEvent
    <2>a. events \in Seq(Sent)
      BY DEF StreamInv, Sent
    <2>2. /\ writing' \in Sent /\ events' \in Seq(Sent) /\ Len(events') = Len(events) - 1
          /\ \A i \in 1..Len(events') : events'[i] = events[i + 1]
      BY <2>a, <2>1, HeadTailProperties
    <2>3. Len(events) \in Nat \ {0} /\ Head(events) = events[1]
      BY <2>a, <2>1, EmptySeq
    <2>b. Len(events') \in Nat
      BY <2>2, <2>3
    <2>4. ASSUME NEW i \in 1..Len(events'), Final(events'[i])
          PROVE  i = Len(events') /\ pc' = "done"
      <3>1. i + 1 \in 1..Len(events) /\ Final(events[i + 1])
        <4>1. i \in 1..Len(events) - 1 /\ events'[i] = events[i + 1]
          BY <2>2
        <4>2. i + 1 \in 1..Len(events)
          BY <2>3, <4>1
        <4> QED
          BY <2>4, <4>1, <4>2
      <3>2. i + 1 = Len(events) /\ pc = "done"
        BY <3>1 DEF StreamInv, FinalIsLast
      <3> QED
        <4>1. i = Len(events')
          BY <2>2, <2>3, <3>2
        <4> QED
          BY <2>1, <3>2, <4>1 DEF loopVars
    <2>5. ASSUME Final(writing') \/ Final(got')
          PROVE  events' = <<>> /\ pc' = "done"
      <3>1. ~ Final(got)
        BY <2>1 DEF StreamInv, FinalIsLast
      <3>2. Final(events[1])
        BY <2>1, <2>3, <2>5, <3>1 DEF Final
      <3>3. 1 = Len(events) /\ pc = "done"
        <4>1. 1 \in 1..Len(events)
          BY <2>3
        <4> QED
          BY <3>2, <4>1 DEF StreamInv, FinalIsLast
      <3>4. Len(events') = 0
        <4>1. Len(events') = Len(events) - 1
          BY <2>2
        <4>2. Len(events) = 1
          BY <3>3
        <4> QED
          BY <4>1, <4>2
      <3> QED
        BY <2>1, <2>2, <3>3, <3>4, EmptySeq DEF loopVars
    <2>6. FinalIsLast'
      BY <2>4, <2>5 DEF FinalIsLast, Final
    <2>7. Len(events') <= EventsCap
      BY <2>2, <2>3, EventsCapAssumption DEF StreamInv
    <2> QED
      BY <2>1, <2>2, <2>6, <2>7 DEF StreamInv, Sent, loopVars, Final
  <1>4. CASE WriteEvent
    BY <1>4 DEF WriteEvent, StreamInv, FinalIsLast, Final, loopVars
  <1>5. CASE \/ SelectDone \/ SelectTick \/ SelectCheck \/ SelectHeartbeat \/ Signal
             \/ FetchStatus \/ FetchFails
    <2>1. /\ pc # "done" /\ pc' \in {"select", "send_heartbeat", "signal", "fetch", "send", "done"}
          /\ UNCHANGED <<status, ctx, events, handlerVars>>
      BY <1>5 DEF SelectDone, SelectTick, SelectCheck, SelectHeartbeat, Signal, FetchStatus,
                  FetchFails
    <2>2. /\ seen' \in Statuses /\ check' \in 0..1
          /\ pc' = "send" => Final(seen')
      BY <1>5 DEF SelectDone, SelectTick, SelectCheck, SelectHeartbeat, Signal, FetchStatus,
                  FetchFails, StreamInv
    <2>3. eventsTick' \in BOOLEAN /\ heartbeatTick' \in BOOLEAN
      BY <1>5 DEF SelectDone, SelectTick, SelectCheck, SelectHeartbeat, Signal, FetchStatus,
                  FetchFails, StreamInv
    <2>4. FinalIsLast'
      BY <2>1 DEF StreamInv, FinalIsLast, Final, handlerVars
    <2> QED
      BY <2>1, <2>2, <2>3, <2>4 DEF StreamInv, handlerVars, Final
  <1>6. CASE HandlerReturns \/ HeartbeatTicks \/ EventsTicks \/ ClientLeaves \/ AnalysisAdvances
    BY <1>6 DEF HandlerReturns, HeartbeatTicks, EventsTicks, ClientLeaves, AnalysisAdvances,
                StreamInv, FinalIsLast, Final, handlerVars, loopVars
  <1> QED
    BY <1>1, <1>2, <1>3, <1>4, <1>5, <1>6 DEF StreamStep, Step

LEMMA StreamInvariance == StreamSpec => []StreamInv
  <1>1. StreamInit => StreamInv
    <2> SUFFICES ASSUME StreamInit PROVE StreamInv
      OBVIOUS
    <2>1. events = <<>> /\ Len(events) = 0 /\ events \in Seq(Sent)
      BY EmptySeq DEF StreamInit
    <2>2. StreamTypeOK
      <3>1. eventsTick \in BOOLEAN /\ heartbeatTick \in BOOLEAN
        BY DEF StreamInit
      <3>2. check \in 0..1 /\ Len(events) <= EventsCap
        BY <2>1, EventsCapAssumption DEF StreamInit
      <3>3. /\ status \in Statuses /\ seen \in Statuses /\ ctx \in {"live", "done"}
            /\ pc \in {"select", "send_heartbeat", "signal", "fetch", "send", "done"}
            /\ handler \in {"range", "write", "returned"} /\ writing \in Sent
            /\ got \in {"none", "heartbeat", "completed", "failed"}
        BY DEF StreamInit, Statuses, Sent
      <3> QED
        BY <2>1, <3>1, <3>2, <3>3 DEF StreamTypeOK, Sent
    <2>3. FinalIsLast /\ pc # "send"
      BY <2>1 DEF StreamInit, FinalIsLast, Final
    <2> QED
      BY <2>2, <2>3 DEF StreamInv
  <1>2. StreamInv /\ [StreamStep]_streamVars => StreamInv'
    <2>1. ASSUME StreamInv, UNCHANGED streamVars PROVE StreamInv'
      BY <2>1 DEF streamVars, handlerVars, StreamInv, StreamTypeOK, FinalIsLast, Final
    <2> QED
      BY <2>1, StreamKeeps
  <1> QED
    BY <1>1, <1>2, PTL DEF StreamSpec, StreamStep

\* Types: the channel of events never holds more than its capacity.
THEOREM StreamTypeCorrect == StreamSpec => []StreamTypeOK
  <1>1. StreamInv => StreamTypeOK
    BY DEF StreamInv
  <1> QED
    BY <1>1, StreamInvariance, PTL

\* A client that got the final event has seen everything, whatever the capacity of the channel and
\* however heartbeats, ticks and slow writes interleave.
THEOREM FinalEventIsLast == StreamSpec => []FinalIsLast
  <1>1. StreamInv => FinalIsLast
    BY DEF StreamInv
  <1> QED
    BY <1>1, StreamInvariance, PTL
=============================================================================
