----------------------------- MODULE Publisher ------------------------------
(***************************************************************************)
(* The publisher process: the outbox processor's loop                      *)
(* (internal/adapters/outbox/processor.go), one goroutine per fetched      *)
(* event running PublishEvent (internal/service/publisher_service.go), and *)
(* the process's life (internal/runtime/publisher.go).                     *)
(*                                                                         *)
(* On a tick the loop starts two goroutines, one for pending and one for   *)
(* retryable rows; each fetches a batch and starts one goroutine per row;  *)
(* the loop waits for all of them before it selects again.  Every call to  *)
(* the database or the broker is a step of its own.                        *)
(***************************************************************************)
EXTENDS Broker, FiniteSets

CONSTANTS Publishers,   \* replicas of the publisher process
          BatchSize     \* outbox.BatchSize: rows fetched at once

ASSUME BatchSizeAssumption == BatchSize \in Nat \ {0}

VARIABLES pubMode,   \* "up", "stopping" (context cancelled) or "down", per publisher
          pubConn,   \* its AMQP connection is open; nothing ever reopens it
          unfetched, \* kinds of rows the current tick has still to fetch
          task       \* the goroutine of a worker: where it is, and the row it claimed

pubLocal == <<pubMode, pubConn, unfetched, task>>
pubVars == <<outbox, pubMode, pubConn, unfetched, task, queue>>

Kinds == {"pending", "retryable"}
Workers == Publishers \X Kinds \X Events

PubOf(w) == w[1]
EventOf(w) == w[3]

\* retryCount is that of the row ClaimForProcessing returned.
Task == [pc: {"none", "claim", "publish", "mark_published", "handle_failure"},
         retryCount: Nat]

NoTask == [pc |-> "none", retryCount |-> 0]

TaskAt(w, pc) == task[w].pc = pc /\ pubMode[PubOf(w)] # "down"

TaskGoto(w, pc) == task' = [task EXCEPT ![w].pc = pc]
TaskReturn(w) == task' = [task EXCEPT ![w] = NoTask]

\* The context a statement runs under is not cancelled.
DbUp(w) == pubMode[PubOf(w)] = "up"

-----------------------------------------------------------------------------
(* The processor's loop                                                    *)

Busy(p) == unfetched[p] # {} \/ \E w \in Workers : PubOf(w) = p /\ task[w].pc # "none"

Tick(p) ==
  /\ pubMode[p] # "down"
  /\ ~ Busy(p)
  /\ unfetched' = [unfetched EXCEPT ![p] = Kinds]
  /\ UNCHANGED <<outbox, pubMode, pubConn, task, queue>>

Find(kind) == IF kind = "pending" THEN FindPending ELSE FindRetryable

\* LIMIT: a full batch when enough rows qualify.  Which rows ORDER BY puts first is left open.
Batches(S) ==
  {B \in SUBSET S : Cardinality(B) = IF Cardinality(S) < BatchSize THEN Cardinality(S)
                                                                  ELSE BatchSize}

FetchEvents(p, kind) ==
  /\ pubMode[p] = "up"
  /\ kind \in unfetched[p]
  /\ unfetched' = [unfetched EXCEPT ![p] = @ \ {kind}]
  /\ \E batch \in Batches(Find(kind)) :
       task' = [w \in Workers |->
                  IF w[1] = p /\ w[2] = kind /\ w[3] \in batch
                  THEN [pc |-> "claim", retryCount |-> 0] ELSE task[w]]
  /\ UNCHANGED <<outbox, pubMode, pubConn, queue>>

\* The query fails: logged, and the kind is left for the next tick.
FetchFails(p, kind) ==
  /\ pubMode[p] # "down"
  /\ kind \in unfetched[p]
  /\ unfetched' = [unfetched EXCEPT ![p] = @ \ {kind}]
  /\ UNCHANGED <<outbox, pubMode, pubConn, task, queue>>

-----------------------------------------------------------------------------
(* PublishEvent, one goroutine                                             *)

Claim(w) ==
  /\ TaskAt(w, "claim") /\ DbUp(w)
  /\ LET r == outbox[EventOf(w)] IN
       \/ /\ Claimable(r)
          /\ outbox' = [outbox EXCEPT ![EventOf(w)] = ClaimForProcessing(r)]
          /\ task' = [task EXCEPT ![w] = [pc |-> "publish", retryCount |-> r.retryCount]]
       \/ /\ ~ Claimable(r)           \* no rows: "event not found or already claimed"
          /\ TaskReturn(w)
          /\ UNCHANGED outbox
  /\ UNCHANGED <<pubMode, pubConn, unfetched, queue>>

\* The claim commits but Commit reports an error (the connection breaks, or the context is
\* cancelled, before the answer): PublishEvent gives the event up.
ClaimAnswerLost(w) ==
  /\ TaskAt(w, "claim") /\ DbUp(w)
  /\ Claimable(outbox[EventOf(w)])
  /\ outbox' = [outbox EXCEPT ![EventOf(w)] = ClaimForProcessing(@)]
  /\ TaskReturn(w)
  /\ UNCHANGED <<pubMode, pubConn, unfetched, queue>>

\* The channel is not in confirm mode: nil means that the message was written.
Publish(w) ==
  /\ TaskAt(w, "publish")
  /\ pubConn[PubOf(w)]
  /\ Enqueue(EventOf(w))
  /\ TaskGoto(w, "mark_published")
  /\ UNCHANGED <<outbox, pubMode, pubConn, unfetched>>

\* Mutant: the error of the publish is dropped.
PublishFailsUnnoticed(w) ==
  /\ TaskAt(w, "publish")
  /\ TaskGoto(w, "mark_published")
  /\ UNCHANGED <<outbox, pubMode, pubConn, unfetched, queue>>

\* Not connected, or an error of the channel, possibly after the broker got the message.
PublishFails(w) ==
  /\ TaskAt(w, "publish")
  /\ \/ UNCHANGED queue
     \/ /\ pubConn[PubOf(w)]
        /\ Enqueue(EventOf(w))
  /\ TaskGoto(w, "handle_failure")
  /\ UNCHANGED <<outbox, pubMode, pubConn, unfetched>>

SetPublished(w) ==
  /\ TaskAt(w, "mark_published") /\ DbUp(w)
  /\ outbox' = [outbox EXCEPT ![EventOf(w)] = MarkPublished(@)]
  /\ TaskReturn(w)
  /\ UNCHANGED <<pubMode, pubConn, unfetched, queue>>

\* Mutants: every failure is retried; one more failure than max_retries is.
FailureRowRetries(r, retryCount) == MarkFailed(r)

\* handlePublishFailure decides on the retry count it claimed with.
FailureRow(r, retryCount) ==
  IF retryCount >= MaxRetries THEN MarkPermanentlyFailed(r) ELSE MarkFailed(r)

HandlePublishFailure(w) ==
  /\ TaskAt(w, "handle_failure") /\ DbUp(w)
  /\ outbox' = [outbox EXCEPT ![EventOf(w)] = FailureRow(@, task[w].retryCount)]
  /\ TaskReturn(w)
  /\ UNCHANGED <<pubMode, pubConn, unfetched, queue>>

\* The claim, MarkPublished, MarkFailed or MarkPermanentlyFailed fails without effect, as
\* every statement does under a cancelled context.  PublishEvent returns in each case.
DbFails(w) ==
  /\ \E pc \in {"claim", "mark_published", "handle_failure"} : TaskAt(w, pc)
  /\ TaskReturn(w)
  /\ UNCHANGED <<outbox, pubMode, pubConn, unfetched, queue>>

-----------------------------------------------------------------------------
(* The process                                                             *)

\* SIGTERM: shutdown cancels the context and does not wait for the goroutines.
Shutdown(p) ==
  /\ pubMode[p] = "up"
  /\ pubMode' = [pubMode EXCEPT ![p] = "stopping"]
  /\ UNCHANGED <<outbox, pubConn, unfetched, task, queue>>

\* The broker drops the connection, or cleanup closes it.
LoseConnection(p) ==
  /\ pubMode[p] # "down" /\ pubConn[p]
  /\ pubConn' = [pubConn EXCEPT ![p] = FALSE]
  /\ UNCHANGED <<outbox, pubMode, unfetched, task, queue>>

\* The process ends, after a shutdown or without one, and its goroutines with it.
Exit(p) ==
  /\ pubMode[p] # "down"
  /\ pubMode' = [pubMode EXCEPT ![p] = "down"]
  /\ pubConn' = [pubConn EXCEPT ![p] = FALSE]
  /\ unfetched' = [unfetched EXCEPT ![p] = {}]
  /\ task' = [w \in Workers |-> IF PubOf(w) = p THEN NoTask ELSE task[w]]
  /\ UNCHANGED <<outbox, queue>>

\* restart: unless-stopped; build connects to the broker before anything runs.
Restart(p) ==
  /\ pubMode[p] = "down"
  /\ pubMode' = [pubMode EXCEPT ![p] = "up"]
  /\ pubConn' = [pubConn EXCEPT ![p] = TRUE]
  /\ UNCHANGED <<outbox, unfetched, task, queue>>

-----------------------------------------------------------------------------
\* StartAnalysis commits a row.
Submit(e) ==
  /\ outbox[e].status = "absent"
  /\ outbox' = [outbox EXCEPT ![e] = SaveInTx(@)]
  /\ UNCHANGED <<pubMode, pubConn, unfetched, task, queue>>

BackoffElapses(e) ==
  RetryDue(e) /\ UNCHANGED <<pubMode, pubConn, unfetched, task, queue>>

PubInit ==
  /\ outbox = [e \in Events |-> Absent]
  /\ pubMode = [p \in Publishers |-> "up"]
  /\ pubConn = [p \in Publishers |-> TRUE]
  /\ unfetched = [p \in Publishers |-> {}]
  /\ task = [w \in Workers |-> NoTask]
  /\ BrokerInit

WorkerStep(w) ==
  \/ Claim(w) \/ Publish(w) \/ PublishFails(w)
  \/ SetPublished(w) \/ HandlePublishFailure(w)

\* Steps of a publisher whose database answers and whose process stays up.
PubReliable ==
  \/ \E e \in Events : BackoffElapses(e)
  \/ \E p \in Publishers : Tick(p)
  \/ \E p \in Publishers, kind \in Kinds : FetchEvents(p, kind)
  \/ \E w \in Workers : WorkerStep(w)
  \/ \E p \in Publishers : LoseConnection(p)

PubProcess == \E p \in Publishers : Shutdown(p) \/ Exit(p) \/ Restart(p)

PubDbFaults ==
  \/ \E p \in Publishers, kind \in Kinds : FetchFails(p, kind)
  \/ \E w \in Workers : ClaimAnswerLost(w) \/ DbFails(w)

PubNext == PubReliable \/ PubProcess \/ PubDbFaults

PubSpec == PubInit /\ [][PubNext \/ \E e \in Events : Submit(e)]_pubVars
-----------------------------------------------------------------------------
(* Properties                                                              *)

PubTypeOK ==
  /\ OutboxTypeOK
  /\ pubMode \in [Publishers -> {"up", "stopping", "down"}]
  /\ pubConn \in [Publishers -> BOOLEAN]
  /\ unfetched \in [Publishers -> SUBSET Kinds]
  /\ task \in [Workers -> Task]
  /\ BrokerTypeOK

\* The goroutine has claimed its row and not yet recorded an outcome.
Owns(w) == task[w].pc \in {"publish", "mark_published", "handle_failure"}

\* However many publishers run, and whatever crashes, fails or is fetched twice, at most one
\* goroutine works on a claimed row, and meanwhile the row is what its claim returned: the
\* unconditional updates that follow a claim never overwrite somebody else's outcome.
ExclusiveClaim ==
  \A w \in Workers : Owns(w) =>
    /\ outbox[EventOf(w)].status = "processing"
    /\ outbox[EventOf(w)].retryCount = task[w].retryCount
    /\ \A v \in Workers : Owns(v) /\ EventOf(v) = EventOf(w) => v = w

\* retry_count never passes max_retries, although the claim does not look at it and a
\* goroutine may hold a row that another publisher has since retried to exhaustion.
RetriesBounded == \A e \in Events : outbox[e].retryCount <= MaxRetries

\* A row is marked published only after the broker client took its message (nobody consumes
\* in this module, so queue[e] counts the messages written).
PublishedWasSent ==
  \A e \in Events : outbox[e].status = "published" => queue[e] > 0

\* One publisher writes a message at most max_retries times (once if that is 0), even if
\* every failed publish did reach the broker.
AttemptsBounded == \A e \in Events : queue[e] <= MaxSends

\* A failed row is taken up again only when its backoff has elapsed and a retry is left.
BackoffRespected ==
  [][\A e \in Events :
       outbox[e].status = "failed" /\ outbox'[e].status = "processing"
         => /\ outbox[e].nextRetryAt = "past"
            /\ outbox[e].retryCount < MaxRetries]_pubVars

\* A row as the lifecycle sees it.
LifecycleOf(r) ==
  [status |-> r.status, retryCount |-> r.retryCount,
   times |-> r.stamps \cap {"processed_at", "completed_at"}]

Lifecycle == INSTANCE OutboxLifecycle WITH
  event <- [e \in Events |-> LifecycleOf(outbox[e])]

\* The unconditional statements of the repository take rows only through the transitions of
\* OutboxLifecycle, whichever publishers hold stale batches and whatever fails: its guards, and
\* thus those domain.OutboxEvent states for publishing, failing and completing an event (not the
\* one for processing it), hold although no statement tests them.
ImplementsLifecycle == Lifecycle!LifecycleSpec

-----------------------------------------------------------------------------
(* Progress                                                                *)

\* The Go scheduler runs every goroutine, tickers fire and time passes.
PubFairness ==
  /\ \A e \in Events : WF_pubVars(BackoffElapses(e))
  /\ \A p \in Publishers : WF_pubVars(Tick(p))
  /\ \A p \in Publishers, kind \in Kinds : WF_pubVars(FetchEvents(p, kind))
  /\ \A w \in Workers : WF_pubVars(WorkerStep(w))

\* While the database answers and the process stays up, every submitted event is published
\* or has used up its retries, whatever the broker does.
EventSettles ==
  \A e \in Events :
    outbox[e].status = "pending"
      ~> outbox[e].status = "published" \/ Exhausted(outbox[e])

PubCrashSpec ==
  /\ PubInit
  /\ [][PubReliable \/ PubProcess \/ \E e \in Events : Submit(e)]_pubVars
  /\ PubFairness
  /\ \A p \in Publishers : WF_pubVars(Restart(p))

\* docs/CHANGELOG.md:44 "Transactional outbox for reliable event publishing and guaranteed
\* delivery": once the publishers stay up, every submitted event is sent or its retries are
\* used up.
GuaranteedDelivery ==
  <>[](\A p \in Publishers : pubMode[p] = "up")
    => \A e \in Events :
         outbox[e].status = "pending" ~> queue[e] > 0 \/ Exhausted(outbox[e])

=============================================================================
