---------------------------- MODULE EventStream -----------------------------
(***************************************************************************)
(* One server-sent-event stream: the polling goroutine FetchAnalysisEvents *)
(* starts (internal/service/application_service.go), the request handler   *)
(* that writes its events out (internal/adapters/http/request_handler.go)  *)
(* and the client at the other end.                                        *)
(*                                                                         *)
(* The goroutine asks itself for a check through checkAnalysisChan, of     *)
(* capacity 1, and is that channel's only reader.  A ticker holds at most  *)
(* one tick that has not been taken.                                       *)
(***************************************************************************)
EXTENDS Naturals, Sequences

CONSTANT EventsCap    \* capacity of the events channel (10)

ASSUME EventsCapAssumption == EventsCap \in Nat \ {0}

VARIABLES status,         \* what FetchAnalysis answers now
          ctx,            \* the request's context: "live", or "done" once the client left
          pc,             \* the goroutine
          seen,           \* the status its last check read
          check,          \* checkAnalysisChan: the number of checks asked for
          eventsTick,     \* eventsTicker has a tick
          heartbeatTick,  \* keepAliveTicker has a tick
          events,         \* the events channel; closed when pc = "done"
          handler,        \* the handler: in its range loop, writing an event, or returned
          writing,        \* the event it took last
          got             \* the event the client got last

streamVars == <<status, ctx, pc, seen, check, eventsTick, heartbeatTick, events, handler,
                writing, got>>
loopVars == <<pc, seen, check, eventsTick, heartbeatTick>>
handlerVars == <<handler, writing, got>>

Statuses == {"requested", "in_progress", "completed", "failed"}

\* ~ shouldWait, of a status and of the event it is sent as.
Final(s) == s \in {"completed", "failed"}

-----------------------------------------------------------------------------
(* The goroutine                                                           *)

\* Mutant: the loop does not watch the context.
SelectDoneNever == FALSE /\ UNCHANGED streamVars

SelectDone ==
  /\ pc = "select" /\ ctx = "done"
  /\ pc' = "done"
  /\ UNCHANGED <<status, ctx, seen, check, eventsTick, heartbeatTick, events, handlerVars>>

SelectHeartbeat ==
  /\ pc = "select" /\ heartbeatTick
  /\ heartbeatTick' = FALSE
  /\ pc' = "send_heartbeat"
  /\ UNCHANGED <<status, ctx, seen, check, eventsTick, events, handlerVars>>

\* Blocks while the channel is full, whatever becomes of the context.
SendHeartbeat ==
  /\ pc = "send_heartbeat" /\ Len(events) < EventsCap
  /\ events' = Append(events, "heartbeat")
  /\ pc' = "select"
  /\ UNCHANGED <<status, ctx, seen, check, eventsTick, heartbeatTick, handlerVars>>

SelectTick ==
  /\ pc = "select" /\ eventsTick
  /\ eventsTick' = FALSE
  /\ pc' = "signal"
  /\ UNCHANGED <<status, ctx, seen, check, heartbeatTick, events, handlerVars>>

\* checkAnalysisChan <- struct{}{}: blocks while a check is asked for already.
Signal ==
  /\ pc = "signal" /\ check = 0
  /\ check' = 1
  /\ pc' = "select"
  /\ UNCHANGED <<status, ctx, seen, eventsTick, heartbeatTick, events, handlerVars>>

SelectCheck ==
  /\ pc = "select" /\ check = 1
  /\ check' = 0
  /\ pc' = "fetch"
  /\ UNCHANGED <<status, ctx, seen, eventsTick, heartbeatTick, events, handlerVars>>

\* Mutant: a failed analysis is waited for.
FetchStatusCompleted ==
  /\ pc = "fetch"
  /\ seen' = status
  /\ pc' = IF status = "completed" THEN "send" ELSE "select"
  /\ UNCHANGED <<status, ctx, check, eventsTick, heartbeatTick, events, handlerVars>>

\* A final status is sent after a pause that nothing interrupts; any other sends nothing.
FetchStatus ==
  /\ pc = "fetch"
  /\ seen' = status
  /\ pc' = IF Final(status) THEN "send" ELSE "select"
  /\ UNCHANGED <<status, ctx, check, eventsTick, heartbeatTick, events, handlerVars>>

\* The stream ends without an event.
FetchFails ==
  /\ pc = "fetch"
  /\ pc' = "done"
  /\ UNCHANGED <<status, ctx, seen, check, eventsTick, heartbeatTick, events, handlerVars>>

\* Mutant: the loop goes on after the final event.
SendFinalGoesOn ==
  /\ pc = "send" /\ Len(events) < EventsCap
  /\ events' = Append(events, seen)
  /\ pc' = "select"
  /\ UNCHANGED <<status, ctx, seen, check, eventsTick, heartbeatTick, handlerVars>>

SendFinal ==
  /\ pc = "send" /\ Len(events) < EventsCap
  /\ events' = Append(events, seen)
  /\ pc' = "done"
  /\ UNCHANGED <<status, ctx, seen, check, eventsTick, heartbeatTick, handlerVars>>

-----------------------------------------------------------------------------
(* Time                                                                    *)

EventsTicks ==
  /\ pc # "done" /\ ~ eventsTick
  /\ eventsTick' = TRUE
  /\ UNCHANGED <<status, ctx, pc, seen, check, heartbeatTick, events, handlerVars>>

HeartbeatTicks ==
  /\ pc # "done" /\ ~ heartbeatTick
  /\ heartbeatTick' = TRUE
  /\ UNCHANGED <<status, ctx, pc, seen, check, eventsTick, events, handlerVars>>

-----------------------------------------------------------------------------
(* The handler and the client                                              *)

\* Only when it has an event does the handler look at the context.
TakeEvent ==
  /\ handler = "range" /\ events # <<>>
  /\ events' = Tail(events)
  /\ writing' = Head(events)
  /\ handler' = IF ctx = "done" THEN "returned" ELSE "write"
  /\ UNCHANGED <<status, ctx, loopVars, got>>

\* A write to a client that has left returns an error, which is not looked at.
WriteEvent ==
  /\ handler = "write"
  /\ got' = IF ctx = "live" THEN writing ELSE got
  /\ handler' = "range"
  /\ UNCHANGED <<status, ctx, loopVars, events, writing>>

HandlerReturns ==
  /\ handler = "range" /\ events = <<>> /\ pc = "done"
  /\ handler' = "returned"
  /\ UNCHANGED <<status, ctx, loopVars, events, writing, got>>

ClientLeaves ==
  /\ ctx = "live"
  /\ ctx' = "done"
  /\ UNCHANGED <<status, loopVars, events, handlerVars>>

\* The analysis makes progress: requested, in progress, then final, and from there back again
\* when its message is delivered a second time (ReopenedOnlyByDuplicate of Pipeline).
AnalysisAdvances ==
  /\ status' \in CASE status = "requested" -> {"in_progress"}
                   [] status = "in_progress" -> {"completed", "failed"}
                   [] OTHER -> {"in_progress"}
  /\ UNCHANGED <<ctx, loopVars, events, handlerVars>>

-----------------------------------------------------------------------------
\* The first check is asked for before the loop starts.
StreamInit ==
  /\ status \in Statuses
  /\ ctx = "live"
  /\ pc = "select" /\ seen = "requested" /\ check = 1
  /\ eventsTick = FALSE /\ heartbeatTick = FALSE
  /\ events = <<>>
  /\ handler = "range" /\ writing = "heartbeat" /\ got = "none"

Step ==
  \/ SelectDone \/ SelectHeartbeat \/ SelectTick \/ SelectCheck
  \/ SendHeartbeat \/ Signal \/ FetchStatus \/ SendFinal
  \/ TakeEvent \/ WriteEvent \/ HandlerReturns
  \/ HeartbeatTicks \/ ClientLeaves \/ AnalysisAdvances

\* select chooses at random among the cases that are ready: a case that is ready again and
\* again is chosen.  Calls return, and the client reads what is written to it.
StreamFairness ==
  /\ SF_streamVars(SelectDone) /\ SF_streamVars(SelectHeartbeat)
  /\ SF_streamVars(SelectTick) /\ SF_streamVars(SelectCheck)
  /\ WF_streamVars(SendHeartbeat \/ Signal \/ FetchStatus \/ SendFinal)
  /\ WF_streamVars(TakeEvent \/ WriteEvent \/ HandlerReturns)

StreamSpec ==
  /\ StreamInit
  /\ [][Step \/ EventsTicks \/ FetchFails]_streamVars
  /\ StreamFairness
  /\ WF_streamVars(EventsTicks)

-----------------------------------------------------------------------------
(* Properties                                                              *)

StreamTypeOK ==
  /\ status \in Statuses /\ seen \in Statuses
  /\ ctx \in {"live", "done"}
  /\ pc \in {"select", "send_heartbeat", "signal", "fetch", "send", "done"}
  /\ check \in 0..1 /\ eventsTick \in BOOLEAN /\ heartbeatTick \in BOOLEAN
  /\ events \in Seq({"heartbeat", "completed", "failed"}) /\ Len(events) <= EventsCap
  /\ handler \in {"range", "write", "returned"}
  /\ writing \in {"heartbeat", "completed", "failed"}
  /\ got \in {"none", "heartbeat", "completed", "failed"}

\* The final event ends the stream: nothing is queued or written behind it, so a client that
\* got it has seen everything, however heartbeats, ticks and slow writes interleave.
FinalIsLast ==
  /\ \A i \in 1..Len(events) : Final(events[i]) => i = Len(events) /\ pc = "done"
  /\ Final(writing) \/ Final(got) => events = <<>> /\ pc = "done"

\* The goroutine waits to send to a channel that is full and that nobody reads any more.
Abandoned ==
  /\ handler = "returned" /\ Len(events) = EventsCap
  /\ pc \in {"send_heartbeat", "send"}

\* The goroutine has taken a tick while the check of an earlier one was waiting: it sends to a
\* full channel that only it reads, and stays there for ever.
SelfBlocked == pc = "signal" /\ check = 1

\* When the client leaves, the goroutine ends, unless it had turned to sending into a full
\* channel before it looked at the context, its own channel or that of the events.
LeaveEndsStream == ctx = "done" ~> pc = "done" \/ Abandoned \/ SelfBlocked

\* A client that stays and reads gets the final event once the status stays final, whatever the
\* order of ticks, checks and heartbeats, unless a lookup of its analysis failed before one read a
\* final status, or a tick overtook a check and the goroutine has blocked itself.
StreamDelivers ==
  <>[]Final(status) =>
    <>(Final(got) \/ ctx = "done" \/ (pc = "done" /\ ~ Final(seen)) \/ SelfBlocked)
=============================================================================
