----------------------------- MODULE Subscriber -----------------------------
(***************************************************************************)
(* The subscriber process: the consumer goroutine of pkg/queue, the        *)
(* worker's ProcessMessage (internal/adapters/queue/analysis_worker.go)    *)
(* and ProcessAnalysisRequest (internal/service/subscriber_service.go),    *)
(* one message at a time.  ProcessAnalysisRequest never returns a Go       *)
(* error: whatever goes wrong, its message is acknowledged.                *)
(*                                                                         *)
(* The reads whose result cannot change (the outbox row's id, the options) *)
(* and the two statements at the end that touch no modelled column are     *)
(* folded into the step that follows them.                                 *)
(***************************************************************************)
EXTENDS AnalysisStore, Broker

CONSTANT Subscribers   \* replicas of the subscriber process

VARIABLES subMode,     \* "up", "stopping" (context cancelled) or "down", per subscriber
          subConn,     \* its AMQP connection is open; nothing ever reopens it
          held,        \* the delivery waiting in ChannelWrapper.consume: a set of at most one
          job          \* the message being worked on and the progress made on it

subLocal == <<subMode, subConn, held, job>>
subVars == <<outbox, analysis, cache, queue, subMode, subConn, held, job>>

\* `content' is the fetched page, `seen' the row read back for the cache.
Idle == [pc |-> "idle"]
Working(pc, e, content, seen) == [pc |-> pc, event |-> e, content |-> content, seen |-> seen]
Steps == {"mark_processed", "set_in_progress", "invalidate_started", "fetch", "mark_failed",
          "invalidate_failed", "check_duplicate", "analyze", "update", "read_back",
          "refresh_cache", "mark_completed", "invalidate_completed", "ack"}
Job == {Idle} \cup [pc: Steps, event: Events, content: Contents \cup {NoResults}, seen: Analysis]

JobAt(s, pc) == job[s].pc = pc /\ subMode[s] # "down"
JobGoto(s, pc) == job' = [job EXCEPT ![s].pc = pc]
CtxUp(s) == subMode[s] = "up"

-----------------------------------------------------------------------------
(* Consuming                                                               *)

\* The forwarding goroutine has a delivery and waits for the consumer to take it.  What the
\* client library has read ahead (there is no Qos) counts as still in the queue.
Deliver(s) ==
  /\ subMode[s] # "down" /\ subConn[s]
  /\ held[s] = {}
  /\ \E e \in Events : Dequeue(e) /\ held' = [held EXCEPT ![s] = {e}]
  /\ UNCHANGED <<outbox, analysis, cache, subMode, subConn, job>>

\* The consumer takes it: also when the connection it came from is gone, and, as select may
\* choose either case, when the context is cancelled.
Receive(s) ==
  /\ subMode[s] # "down"
  /\ job[s] = Idle
  /\ \E e \in held[s] :
       job' = [job EXCEPT ![s] = Working("mark_processed", e, NoResults, NoAnalysis)]
  /\ held' = [held EXCEPT ![s] = {}]
  /\ UNCHANGED <<outbox, analysis, cache, queue, subMode, subConn>>

\* Mutant: the message is put back, as MsgController.Requeue would.
AckRequeues(s) ==
  /\ JobAt(s, "ack")
  /\ Enqueue(job[s].event)
  /\ job' = [job EXCEPT ![s] = Idle]
  /\ UNCHANGED <<outbox, analysis, cache, subMode, subConn, held>>

\* Acknowledging on a lost connection fails: the message went back to the queue long ago.
Ack(s) ==
  /\ JobAt(s, "ack")
  /\ job' = [job EXCEPT ![s] = Idle]
  /\ UNCHANGED <<outbox, analysis, cache, queue, subMode, subConn, held>>

-----------------------------------------------------------------------------
(* ProcessAnalysisRequest                                                  *)

SetProcessed(s) ==
  /\ JobAt(s, "mark_processed") /\ CtxUp(s)
  /\ outbox' = [outbox EXCEPT ![job[s].event] = MarkProcessed(@)]
  /\ JobGoto(s, "set_in_progress")
  /\ UNCHANGED <<analysis, cache, queue, subMode, subConn, held>>

SetInProgress(s) ==
  /\ JobAt(s, "set_in_progress") /\ CtxUp(s)
  /\ analysis' = [analysis EXCEPT ![job[s].event] = UpdateStatus(@, "in_progress")]
  /\ JobGoto(s, "invalidate_started")
  /\ UNCHANGED <<outbox, cache, queue, subMode, subConn, held>>

AfterInvalidate == [invalidate_started |-> "fetch",
                    invalidate_failed |-> "ack",
                    invalidate_completed |-> "ack"]

Invalidate(s) ==
  /\ job[s].pc \in DOMAIN AfterInvalidate /\ CtxUp(s)
  /\ CacheDelete(job[s].event)
  /\ JobGoto(s, AfterInvalidate[job[s].pc])
  /\ UNCHANGED <<outbox, analysis, queue, subMode, subConn, held>>

\* The page is fetched: its content is whatever the site serves now.
Fetch(s) ==
  /\ JobAt(s, "fetch") /\ CtxUp(s)
  /\ \E content \in Contents :
       job' = [job EXCEPT ![s].pc = "check_duplicate", ![s].content = content]
  /\ UNCHANGED <<outbox, analysis, cache, queue, subMode, subConn, held>>

\* Mutant: the failure is not recorded in the analysis.
FetchPageFailsUnrecorded(s) ==
  /\ JobAt(s, "fetch")
  /\ JobGoto(s, "ack")
  /\ UNCHANGED <<outbox, analysis, cache, queue, subMode, subConn, held>>

FetchPageFails(s) ==
  /\ JobAt(s, "fetch")
  /\ JobGoto(s, "mark_failed")
  /\ UNCHANGED <<outbox, analysis, cache, queue, subMode, subConn, held>>

SetFailed(s) ==
  /\ JobAt(s, "mark_failed") /\ CtxUp(s)
  /\ analysis' = [analysis EXCEPT ![job[s].event] = MarkAnalysisFailed(@)]
  /\ JobGoto(s, "invalidate_failed")
  /\ UNCHANGED <<outbox, cache, queue, subMode, subConn, held>>

\* Results of a completed analysis of the same content are copied instead of computed.
CheckDuplicate(s) ==
  /\ JobAt(s, "check_duplicate") /\ CtxUp(s)
  /\ JobGoto(s, IF FindByContentHash(job[s].content) # {} THEN "update" ELSE "analyze")
  /\ UNCHANGED <<outbox, analysis, cache, queue, subMode, subConn, held>>

Analyze(s) ==
  /\ JobAt(s, "analyze")
  /\ JobGoto(s, "update")
  /\ UNCHANGED <<outbox, analysis, cache, queue, subMode, subConn, held>>

SaveResults(s) ==
  /\ JobAt(s, "update") /\ CtxUp(s)
  /\ analysis' = [analysis EXCEPT ![job[s].event] = Update(@, job[s].content)]
  /\ JobGoto(s, "read_back")
  /\ UNCHANGED <<outbox, cache, queue, subMode, subConn, held>>

ReadBack(s) ==
  /\ JobAt(s, "read_back") /\ CtxUp(s)
  /\ job' = [job EXCEPT ![s].pc = "refresh_cache", ![s].seen = analysis[job[s].event]]
  /\ UNCHANGED <<outbox, analysis, cache, queue, subMode, subConn, held>>

RefreshCache(s) ==
  /\ JobAt(s, "refresh_cache") /\ CtxUp(s)
  /\ CacheSet(job[s].event, job[s].seen)
  /\ JobGoto(s, "mark_completed")
  /\ UNCHANGED <<outbox, analysis, queue, subMode, subConn, held>>

\* UpdateCompletionDuration, then MarkCompleted.
SetCompleted(s) ==
  /\ JobAt(s, "mark_completed") /\ CtxUp(s)
  /\ outbox' = [outbox EXCEPT ![job[s].event] = MarkCompleted(@)]
  /\ JobGoto(s, "invalidate_completed")
  /\ UNCHANGED <<analysis, cache, queue, subMode, subConn, held>>

\* A statement or the analyzer fails: an unsuccessful result, and the message is acknowledged.
StepFails(s) ==
  /\ \E pc \in {"mark_processed", "set_in_progress", "mark_failed", "check_duplicate",
                "analyze", "update", "mark_completed"} : JobAt(s, pc)
  /\ JobGoto(s, "ack")
  /\ UNCHANGED <<outbox, analysis, cache, queue, subMode, subConn, held>>

\* A cache operation, or the read that feeds it, fails: only logged.
AfterCacheError == [invalidate_started |-> "fetch",
                    read_back |-> "mark_completed",
                    refresh_cache |-> "mark_completed",
                    invalidate_failed |-> "ack",
                    invalidate_completed |-> "ack"]

CacheFails(s) ==
  /\ job[s].pc \in DOMAIN AfterCacheError /\ subMode[s] # "down"
  /\ JobGoto(s, AfterCacheError[job[s].pc])
  /\ UNCHANGED <<outbox, analysis, cache, queue, subMode, subConn, held>>

-----------------------------------------------------------------------------
(* The process                                                             *)

\* Mutant: the consumer acknowledges automatically.
UnacknowledgedNothing(s, e) == 0

\* The messages s has not acknowledged, if its connection is still that of their delivery.
\* (A message it received before it lost the connection is acknowledged in vain.)
Unacknowledged(s, e) ==
  IF ~ subConn[s] THEN 0
  ELSE (IF e \in held[s] THEN 1 ELSE 0) + (IF job[s] # Idle /\ job[s].event = e THEN 1 ELSE 0)

\* The broker takes back what a connection that ends had not acknowledged.
Redeliver(s) == queue' = [e \in Events |-> queue[e] + Unacknowledged(s, e)]

\* The worker goes on with its message; no one reconnects.
LoseSubConnection(s) ==
  /\ subMode[s] # "down" /\ subConn[s]
  /\ subConn' = [subConn EXCEPT ![s] = FALSE]
  /\ Redeliver(s)
  /\ UNCHANGED <<outbox, analysis, cache, subMode, held, job>>

\* SIGTERM: the context is cancelled; the worker is neither waited for nor disconnected.
SubShutdown(s) ==
  /\ subMode[s] = "up"
  /\ subMode' = [subMode EXCEPT ![s] = "stopping"]
  /\ UNCHANGED <<outbox, analysis, cache, queue, subConn, held, job>>

SubExit(s) ==
  /\ subMode[s] # "down"
  /\ Redeliver(s)
  /\ subMode' = [subMode EXCEPT ![s] = "down"]
  /\ subConn' = [subConn EXCEPT ![s] = FALSE]
  /\ held' = [held EXCEPT ![s] = {}]
  /\ job' = [job EXCEPT ![s] = Idle]
  /\ UNCHANGED <<outbox, analysis, cache>>

SubRestart(s) ==
  /\ subMode[s] = "down"
  /\ subMode' = [subMode EXCEPT ![s] = "up"]
  /\ subConn' = [subConn EXCEPT ![s] = TRUE]
  /\ UNCHANGED <<outbox, analysis, cache, queue, held, job>>

-----------------------------------------------------------------------------
SubLocalInit ==
  /\ subMode = [s \in Subscribers |-> "up"]
  /\ subConn = [s \in Subscribers |-> TRUE]
  /\ held = [s \in Subscribers |-> {}]
  /\ job = [s \in Subscribers |-> Idle]

\* What the worker does with a message when nothing fails but, perhaps, the fetch.
WorkStep(s) ==
  \/ SetProcessed(s) \/ SetInProgress(s) \/ Invalidate(s)
  \/ Fetch(s) \/ FetchPageFails(s) \/ SetFailed(s)
  \/ CheckDuplicate(s) \/ Analyze(s) \/ SaveResults(s)
  \/ ReadBack(s) \/ RefreshCache(s) \/ SetCompleted(s) \/ Ack(s)

SubReliable == \E s \in Subscribers : Deliver(s) \/ Receive(s) \/ WorkStep(s)
SubCrashes == \E s \in Subscribers : SubExit(s) \/ SubRestart(s)
SubFaults ==
  \E s \in Subscribers : \/ StepFails(s) \/ CacheFails(s)
                         \/ LoseSubConnection(s) \/ SubShutdown(s)

SubNext == SubReliable \/ SubCrashes \/ SubFaults

SubTypeOK ==
  /\ OutboxTypeOK /\ StoreTypeOK /\ BrokerTypeOK
  /\ subMode \in [Subscribers -> {"up", "stopping", "down"}]
  /\ subConn \in [Subscribers -> BOOLEAN]
  /\ held \in [Subscribers -> SUBSET Events]
  /\ job \in [Subscribers -> Job]
-----------------------------------------------------------------------------
(* The subscriber on its own: submitted and published analyses             *)

\* StartAnalysis has run and the publisher has sent every message, some more than once.
SubInit ==
  /\ outbox = [e \in Events |-> MarkPublished(ClaimForProcessing(SaveInTx(Absent)))]
  /\ analysis = [e \in Events |-> SaveAnalysisInTx(NoAnalysis)]
  /\ cache = analysis
  /\ queue \in [Events -> 1..MaxSends]
  /\ SubLocalInit

SubSpec == SubInit /\ [][SubNext]_subVars

\* Whatever crashes, fails or is delivered again: an analysis that reads completed has its
\* results, and an outbox event is stamped completed only for an analysis that has them.
CompletedHasResults ==
  \A e \in Events :
    /\ analysis[e].status = "completed" => analysis[e].results # NoResults
    /\ "completed_at" \in outbox[e].stamps => analysis[e].results # NoResults

\* The process may die, and lose its connection, at any point; nothing else fails.
SubCrashSpec ==
  /\ SubInit
  /\ [][SubReliable \/ SubCrashes \/ \E s \in Subscribers : LoseSubConnection(s)]_subVars
  /\ \A s \in Subscribers :
       WF_subVars(Deliver(s)) /\ WF_subVars(Receive(s)) /\ WF_subVars(WorkStep(s))
  /\ \A s \in Subscribers : WF_subVars(SubRestart(s))

\* e's message is in the queue, delivered or being worked on.
InHand(e) ==
  \/ queue[e] > 0
  \/ \E s \in Subscribers : e \in held[s] \/ (job[s] # Idle /\ job[s].event = e)

\* docs/architecture.md:215 "Message persistence and acknowledgment ensure no requests are
\* lost": an analysis that is not final has a message that will be worked off.  With one
\* subscriber this survives a crash, or a lost connection, at any step.
NoRequestLost == \A e \in Events : ~ Terminal(analysis[e]) => InHand(e)

\* With one subscriber, a stale cache entry has a message whose handling will remove it.
StaleCacheIsInHand ==
  \A e \in Events : cache[e] \notin {NoAnalysis, analysis[e]} => InHand(e)

\* Once the process and its connection stay up, every message is worked off and its
\* analysis final, however often the process had died half-way through it.
CrashRecovery ==
  <>[](\A s \in Subscribers : subMode[s] = "up" /\ subConn[s])
    => \A e \in Events : <>[](~ InHand(e) /\ Terminal(analysis[e]))

=============================================================================
