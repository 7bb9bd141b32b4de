--------------------------- MODULE PipelineProofs ---------------------------
(***************************************************************************)
(* Proofs about Pipeline, for any numbers of events, publishers,           *)
(* subscribers and clients, any batch size and any page contents.  They    *)
(* rest on those about the publisher and the subscriber.                   *)
(***************************************************************************)
EXTENDS Pipeline, PublisherProofs, SubscriberProofs

-----------------------------------------------------------------------------
(* Types                                                                   *)

\* What the API does to the tables and the cache.
LEMMA ApiTypes ==
  ASSUME TypeOK, ApiDoes(ApiReliable \/ ApiFaults)
  PROVE  TypeOK'
  <1> USE DEF TypeOK, SubTypeOK, StoreTypeOK, ApiTypeOK, OutboxTypeOK
  <1>0. PICK c \in Clients :
          \/ \E e \in Events : StartAnalysis(c, e) \/ FetchAnalysis(c, e) \/ CacheFindFails(c, e)
          \/ FindAnalysis(c) \/ CacheAnalysis(c) \/ CallEnds(c)
    BY DEF ApiDoes, ApiReliable, ApiFaults, CallStep
  <1>1. UNCHANGED <<queue, pubLocal, subLocal>>
    BY DEF ApiDoes
  <1>2. /\ call \in [Clients -> Call] /\ NoCall \in Call /\ NoAnalysis \in Analysis
        /\ call[c] \in Call
        /\ call[c].pc \in {"find", "cache"} => call[c].event \in Events /\ call[c].seen \in Analysis
    BY DEF Call, NoCall, NoAnalysis, Analysis, AnalysisStatus
  <1>3. outbox' \in [Events -> Row] /\ analysis' \in [Events -> Analysis]
        /\ cache' \in [Events -> Analysis]
    <2>1. ASSUME NEW e \in Events, StartAnalysis(c, e)
          PROVE  outbox' \in [Events -> Row] /\ analysis' \in [Events -> Analysis] /\ cache' = cache
      <3>1. SaveInTx(outbox[e]) \in Row
        BY StatementTypes
      <3>3. analysis[e] \in Analysis
        OBVIOUS
      <3>2. SaveAnalysisInTx(analysis[e]) \in Analysis
        BY <3>3 DEF SaveAnalysisInTx, Analysis, AnalysisStatus
      <3> QED
        BY <2>1, <3>1, <3>2 DEF StartAnalysis
    <2>2. CASE CacheAnalysis(c)
      BY <1>2, <2>2 DEF CacheAnalysis, CacheSet
    <2>3. CASE UNCHANGED <<outbox, analysis, cache>>
      BY <2>3
    <2> QED
      BY <1>0, <2>1, <2>2, <2>3 DEF FetchAnalysis, CacheFindFails, FindAnalysis, CallEnds
  <1>4. call' \in [Clients -> Call]
    <2>1. ASSUME NEW e \in Events, StartAnalysis(c, e) \/ FetchAnalysis(c, e) \/ CacheFindFails(c, e)
          PROVE  call' \in [Clients -> Call]
      <3>1. SaveAnalysisInTx(NoAnalysis) \in Analysis
        BY <1>2 DEF SaveAnalysisInTx, Analysis, AnalysisStatus
      <3>2. /\ [pc |-> "cache", event |-> e, seen |-> SaveAnalysisInTx(NoAnalysis)] \in Call
            /\ [pc |-> "find", event |-> e, seen |-> NoAnalysis] \in Call
        BY <1>2, <3>1 DEF Call
      <3> QED
        BY <1>2, <2>1, <3>2 DEF StartAnalysis, FetchAnalysis, CacheFindFails
    <2>2. CASE FindAnalysis(c)
      <3>1. analysis[call[c].event] \in Analysis
        BY <1>2, <2>2 DEF FindAnalysis
      <3>2. call[c] \in [pc: {"find", "cache"}, event: Events, seen: Analysis]
        BY <1>2, <2>2 DEF FindAnalysis, Call, NoCall
      <3>3. \A a \in Analysis : [[call[c] EXCEPT !.pc = "cache"] EXCEPT !.seen = a] \in Call
        BY <3>2 DEF Call
      <3> QED
        BY <1>2, <2>2, <3>1, <3>3 DEF FindAnalysis
    <2>3. CASE CacheAnalysis(c) \/ CallEnds(c)
      BY <1>2, <2>3 DEF CacheAnalysis, CallEnds
    <2> QED
      BY <1>0, <2>1, <2>2, <2>3
  <1> QED
    BY <1>1, <1>3, <1>4 DEF PubTypeOK, BrokerTypeOK, pubLocal, subLocal

\* Every variable of the whole keeps its type, whatever fails.
LEMMA PipelineTypeStep ==
  ASSUME TypeOK, [Next]_vars
  PROVE  TypeOK'
  <1>1. ASSUME PubNext, UNCHANGED <<analysis, cache, subLocal, call>> PROVE TypeOK'
    <2>1. PubTypeOK'
      BY <1>1, TypeStep DEF TypeOK, PubStep
    <2> QED
      BY <1>1, <2>1 DEF TypeOK, PubTypeOK, SubTypeOK, StoreTypeOK, ApiTypeOK, subLocal
  <1>2. ASSUME SubNext, UNCHANGED <<pubLocal, call>> PROVE TypeOK'
    <2>1. SubTypeOK'
      BY <1>2, WorkTypes, ProcessEffects
         DEF TypeOK, SubNext, SubReliable, SubCrashes, SubFaults, ProcessStep
    <2> QED
      BY <1>2, <2>1 DEF TypeOK, PubTypeOK, SubTypeOK, ApiTypeOK, pubLocal
  <1>3. CASE CacheExpires
    BY <1>3 DEF CacheExpires, Expire, CacheDelete, TypeOK, PubTypeOK, SubTypeOK, StoreTypeOK,
                OutboxTypeOK, BrokerTypeOK, ApiTypeOK, pubLocal, subLocal, NoAnalysis, Analysis,
                AnalysisStatus
  <1>4. CASE UNCHANGED vars
    BY <1>4 DEF vars, TypeOK, PubTypeOK, SubTypeOK, StoreTypeOK, OutboxTypeOK, BrokerTypeOK,
                ApiTypeOK, pubLocal, subLocal
  <1> QED
    BY <1>1, <1>2, <1>3, <1>4, ApiTypes
       DEF Next, ReliableNext, Faults, PublisherDoes, SubscriberDoes, PubNext, SubNext

LEMMA PipelineTypeInit == Init => TypeOK
  <1> SUFFICES ASSUME Init PROVE TypeOK
    OBVIOUS
  <1>1. PubTypeOK
    BY TypeInit DEF Init
  <1>2. NoAnalysis \in Analysis
    BY DEF NoAnalysis, Analysis, AnalysisStatus
  <1>3. SubTypeOK
    BY <1>1, <1>2 DEF Init, StoreInit, SubLocalInit, SubTypeOK, PubTypeOK, StoreTypeOK, Job
  <1> QED
    BY <1>1, <1>3 DEF Init, ApiInit, TypeOK, ApiTypeOK, Call

\* Types, for any numbers of publishers, subscribers and clients and under all faults.
THEOREM PipelineTypeCorrect == Spec => []TypeOK
  BY PipelineTypeInit, PipelineTypeStep, PTL DEF Spec

-----------------------------------------------------------------------------
(* What the parts do to an event and its message                           *)

\* outbox.MaxRetries.Normal, the limit of every analysis, is 5 unless it is configured
\* otherwise; if it is 0 a publish that failed is given up with a retry count of 0.
RetriesLeft == MaxRetries > 0

Sends(e) == \E w \in Workers : EventOf(w) = e /\ task[w].pc = "publish"
Unsent(e) == outbox[e].status \in {"absent", "pending"} \/ Sends(e)

FailedWasRetried ==
  RetriesLeft => \A e \in Events : outbox[e].status = "failed" => outbox[e].retryCount > 0

\* An analysis and its event are submitted together.
SubmittedTogether == \A e \in Events : analysis[e] = NoAnalysis => outbox[e].status = "absent"

RowKept(e) ==
  /\ outbox'[e].retryCount = 0 => outbox[e].retryCount = 0
  /\ outbox'[e].status = "absent" <=> outbox[e].status = "absent"
  /\ RetriesLeft /\ outbox'[e].status = "failed" => outbox'[e].retryCount > 0
  /\ "processed_at" \in outbox'[e].stamps <=> "processed_at" \in outbox[e].stamps
  /\ "published_at" \in outbox[e].stamps => "published_at" \in outbox'[e].stamps

\* Only the goroutine that claimed the row sends its message, and it does not send it again.
SendKept(e) ==
  \/ /\ queue'[e] = queue[e]
     /\ RetriesLeft /\ outbox'[e].retryCount = 0 /\ Unsent(e)' => Unsent(e)
  \/ queue'[e] = queue[e] + 1 /\ Sends(e) /\ ~ Unsent(e)' /\ Marking(e)'

\* The time stamps that the statements leave.
LEMMA StatementStamps ==
  ASSUME NEW r \in Row
  PROVE  /\ ClaimForProcessing(r).stamps = r.stamps \cup {"started_at"}
         /\ MarkPublished(r).stamps = r.stamps \cup {"published_at"}
         /\ MarkFailed(r).stamps = r.stamps
         /\ MarkPermanentlyFailed(r).stamps = r.stamps
         /\ SaveInTx(r).stamps = r.stamps
         /\ MarkProcessed(r).stamps = r.stamps \cup {"processed_at"}
         /\ MarkCompleted(r).stamps = r.stamps \cup {"completed_at"}
         /\ MarkProcessed(r).status = r.status /\ MarkProcessed(r).retryCount = r.retryCount
         /\ MarkCompleted(r).status = r.status /\ MarkCompleted(r).retryCount = r.retryCount
  BY DEF Row, ClaimForProcessing, MarkPublished, MarkFailed, MarkPermanentlyFailed, SaveInTx,
         MarkProcessed, MarkCompleted

\* A statement on one row leaves the others alone.
LEMMA OneRowWritten ==
  ASSUME OutboxTypeOK, NEW e \in Events, NEW r, outbox' = [outbox EXCEPT ![e] = r]
  PROVE  outbox'[e] = r /\ \A f \in Events : f # e => outbox'[f] = outbox[f]
  BY DEF OutboxTypeOK

LEMMA PublisherEffects ==
  ASSUME PubTypeOK, Claims, FailedWasRetried, PubNext, NEW e \in Events
  PROVE  RowKept(e) /\ SendKept(e)
  <1>0. /\ OutboxTypeOK /\ task \in [Workers -> Task] /\ queue \in [Events -> Nat]
        /\ \A f \in Events : outbox[f] \in Row /\ outbox[f].retryCount \in Nat /\ queue[f] \in Nat
        /\ \A w \in Workers : task[w] \in Task /\ task[w].retryCount \in Nat
    BY DEF PubTypeOK, OutboxTypeOK, BrokerTypeOK, Row, Task
  <1>f. RetriesLeft /\ outbox[e].status = "failed" => outbox[e].retryCount > 0
    BY DEF FailedWasRetried
  <1>q. ASSUME UNCHANGED queue,
               \/ outbox'[e] = outbox[e]
               \/ outbox'[e] = [outbox[e] EXCEPT !.nextRetryAt = "past"],
               \A w \in Workers : task'[w] = task[w] \/ task'[w].pc \in {"none", "claim"}
        PROVE  RowKept(e) /\ SendKept(e)
    <2>1. /\ outbox'[e].status = outbox[e].status /\ outbox'[e].retryCount = outbox[e].retryCount
          /\ outbox'[e].stamps = outbox[e].stamps
      BY <1>0, <1>q DEF Row
    <2>2. Sends(e)' => Sends(e)
      BY <1>q DEF Sends
    <2> QED
      BY <1>f, <1>q, <2>1, <2>2 DEF RowKept, SendKept, Unsent
  <1>1. ASSUME NEW p \in Publishers,
               \/ Tick(p) \/ LoseConnection(p) \/ Shutdown(p) \/ Exit(p) \/ Restart(p)
               \/ \E kind \in Kinds : FetchEvents(p, kind) \/ FetchFails(p, kind)
        PROVE  RowKept(e) /\ SendKept(e)
    <2>1. UNCHANGED <<outbox, queue>>
      BY <1>1 DEF Tick, LoseConnection, Shutdown, Exit, Restart, FetchEvents, FetchFails
    <2>2. \A w \in Workers : task'[w] = task[w] \/ task'[w].pc \in {"none", "claim"}
      BY <1>1 DEF Tick, LoseConnection, Shutdown, Exit, Restart, FetchEvents, FetchFails, NoTask
    <2> QED
      BY <1>q, <2>1, <2>2
  <1>2. ASSUME NEW f \in Events, BackoffElapses(f)
        PROVE  RowKept(e) /\ SendKept(e)
    BY <1>0, <1>q, <1>2 DEF BackoffElapses, RetryDue, OutboxTypeOK
  <1>3. ASSUME NEW w \in Workers, DbFails(w)
        PROVE  RowKept(e) /\ SendKept(e)
    BY <1>0, <1>q, <1>3 DEF DbFails, TaskReturn, NoTask
  \* The row of the goroutine that claims is pending or failed, and in nobody's hands.
  <1>4. ASSUME NEW w \in Workers, Claim(w) \/ ClaimAnswerLost(w)
        PROVE  RowKept(e) /\ SendKept(e)
    <2>1. CASE e = EventOf(w) /\ Claimable(outbox[e])
      <3>1. /\ queue' = queue /\ outbox'[e] = ClaimForProcessing(outbox[e])
            /\ outbox'[e].status = "processing" /\ outbox'[e].retryCount = outbox[e].retryCount
            /\ outbox'[e].stamps = outbox[e].stamps \cup {"started_at"}
        <4>1. /\ queue' = queue
              /\ outbox' = [outbox EXCEPT ![e] = ClaimForProcessing(outbox[e])]
          BY <1>4, <2>1 DEF Claim, ClaimAnswerLost
        <4>2. outbox'[e] = ClaimForProcessing(outbox[e]) /\ outbox[e] \in Row
          BY <1>0, <4>1, OneRowWritten
        <4> QED
          BY <4>1, <4>2, StatementEffects, StatementStamps
      <3>2. RetriesLeft /\ outbox[e].retryCount = 0 => Unsent(e)
        BY <1>f, <2>1 DEF Claimable, Unsent
      <3> QED
        BY <2>1, <3>1, <3>2 DEF RowKept, SendKept, Claimable
    <2>2. CASE ~ (e = EventOf(w) /\ Claimable(outbox[e]))
      <3>1. queue' = queue /\ outbox'[e] = outbox[e]
        BY <1>0, <1>4, <2>2, WorkerParts, OneRowWritten DEF Claim, ClaimAnswerLost
      <3>2. /\ \A v \in Workers : v # w => task'[v] = task[v]
            /\ e = EventOf(w) => task'[w].pc = "none"
        BY <1>0, <1>4, <2>2 DEF Claim, ClaimAnswerLost, TaskReturn, NoTask
      <3>3. Sends(e)' => Sends(e)
        BY <3>2 DEF Sends
      <3> QED
        BY <1>f, <3>1, <3>3 DEF RowKept, SendKept, Unsent
    <2> QED
      BY <2>1, <2>2
  <1>5. ASSUME NEW w \in Workers, Publish(w) \/ PublishFails(w)
        PROVE  RowKept(e) /\ SendKept(e)
    <2>1. /\ outbox' = outbox /\ task[w].pc = "publish" /\ EventOf(w) \in Events
          /\ task'[w].pc \in {"mark_published", "handle_failure"}
          /\ \A v \in Workers : v # w => task'[v] = task[v]
          /\ queue' = queue \/ queue' = [queue EXCEPT ![EventOf(w)] = queue[EventOf(w)] + 1]
      BY <1>0, <1>5, WorkerParts DEF Publish, PublishFails, TaskAt, TaskGoto, Enqueue, Task
    <2>2. RowKept(e)
      BY <1>f, <2>1 DEF RowKept
    <2>3. CASE e = EventOf(w)
      <3>1. /\ outbox[e].status = "processing"
            /\ \A v \in Workers : v # w /\ EventOf(v) = e => task[v].pc # "publish"
        BY <2>1, <2>3 DEF Claims, ExclusiveClaim, Owns
      <3>2. ~ Unsent(e)' /\ Marking(e)' /\ Sends(e)
        BY <2>1, <2>3, <3>1 DEF Unsent, Sends, Marking
      <3>3. queue'[e] = queue[e] \/ queue'[e] = queue[e] + 1
        BY <1>0, <2>1, <2>3
      <3> QED
        BY <2>2, <3>2, <3>3 DEF SendKept
    <2>4. CASE e # EventOf(w)
      <3>1. queue'[e] = queue[e]
        BY <1>0, <2>1, <2>4
      <3>2. Unsent(e)' => Unsent(e)
        BY <2>1, <2>4 DEF Unsent, Sends
      <3> QED
        BY <2>2, <3>1, <3>2 DEF SendKept
    <2> QED
      BY <2>3, <2>4
  <1>6. ASSUME NEW w \in Workers, SetPublished(w) \/ HandlePublishFailure(w)
        PROVE  RowKept(e) /\ SendKept(e)
    <2>1. /\ queue' = queue /\ EventOf(w) \in Events /\ Owns(w)
          /\ \A v \in Workers : v # w => task'[v] = task[v]
          /\ task'[w].pc = "none"
      BY <1>0, <1>6, WorkerParts
         DEF SetPublished, HandlePublishFailure, TaskAt, TaskReturn, NoTask, Owns
    <2>2. Sends(e)' => Sends(e)
      BY <2>1 DEF Sends
    <2>3. CASE e # EventOf(w)
      <3>1. outbox'[e] = outbox[e]
        BY <1>0, <1>6, <2>1, <2>3, OneRowWritten DEF SetPublished, HandlePublishFailure
      <3> QED
        BY <1>f, <2>1, <2>2, <3>1 DEF RowKept, SendKept, Unsent
    <2>4. CASE e = EventOf(w)
      <3>1. /\ outbox[e].status = "processing" /\ outbox[e].retryCount = task[w].retryCount
            /\ outbox[e].retryCount <= MaxRetries
        BY <2>1, <2>4 DEF Claims, ExclusiveClaim, RetriesBounded
      <3>2. CASE SetPublished(w)
        <4>1. outbox'[e] = MarkPublished(outbox[e])
          BY <1>0, <2>1, <2>4, <3>2, OneRowWritten DEF SetPublished
        <4>2. /\ outbox'[e].status = "published" /\ outbox'[e].retryCount = outbox[e].retryCount
              /\ outbox'[e].stamps = outbox[e].stamps \cup {"published_at"}
          BY <1>0, <4>1, StatementEffects, StatementStamps
        <4> QED
          BY <2>1, <2>2, <3>1, <4>2 DEF RowKept, SendKept, Unsent
      <3>3. CASE HandlePublishFailure(w)
        <4>1. outbox'[e] = FailureRow(outbox[e], outbox[e].retryCount)
          BY <1>0, <2>1, <2>4, <3>1, <3>3, OneRowWritten DEF HandlePublishFailure
        <4>2. /\ outbox'[e].status = "failed"
              /\ outbox'[e].retryCount = IF outbox[e].retryCount >= MaxRetries
                                           THEN outbox[e].retryCount ELSE outbox[e].retryCount + 1
          BY <1>0, <3>1, <4>1, FailureRowEffects
        <4>3. outbox'[e].stamps = outbox[e].stamps
          BY <1>0, <4>1, StatementStamps DEF FailureRow
        <4>4. RetriesLeft => outbox'[e].retryCount > 0
          BY <1>0, <4>2, MaxRetriesAssumption DEF RetriesLeft
        <4>5. RowKept(e)
          <5>1. outbox'[e].retryCount = 0 => outbox[e].retryCount = 0
            BY <1>0, <4>2
          <5> QED
            BY <3>1, <4>2, <4>3, <4>4, <5>1 DEF RowKept
        <4> QED
          BY <2>1, <2>2, <4>2, <4>5 DEF SendKept, Unsent
      <3> QED
        BY <1>6, <3>2, <3>3
    <2> QED
      BY <2>3, <2>4
  <1> QED
    BY <1>1, <1>2, <1>3, <1>4, <1>5, <1>6
       DEF PubNext, PubReliable, PubProcess, PubDbFaults, WorkerStep

Works(s, e) == job[s].pc # "idle" /\ job[s].event = e
Begins(s, e) == job[s].pc \in {"mark_processed", "set_in_progress"} /\ job[s].event = e

\* The subscribers write the time stamps of a row, and nothing else.
StampsWritten(e) ==
  /\ outbox'[e].status = outbox[e].status /\ outbox'[e].retryCount = outbox[e].retryCount
  /\ "published_at" \in outbox'[e].stamps <=> "published_at" \in outbox[e].stamps
  /\ "processed_at" \in outbox'[e].stamps =>
       "processed_at" \in outbox[e].stamps \/ \E s \in Subscribers : Works(s, e)

\* A worker reopens its analysis at the start of its work and ends it later.
AnalysisWritten(s, e) ==
  /\ analysis'[e] = NoAnalysis => analysis[e] = NoAnalysis
  /\ Terminal(analysis[e]) /\ ~ Terminal(analysis'[e]) => Begins(s, e)
  /\ Terminal(analysis'[e]) /\ ~ Terminal(analysis[e]) => Works(s, e) /\ ~ Begins(s, e)'

\* A worker keeps to its message, and never comes back to the start of the work.
JobKept(s) ==
  \A e \in Events : (Works(s, e)' => Works(s, e)) /\ (Begins(s, e)' => Begins(s, e))

\* What a worker does to the tables while it handles its message, and what it leaves alone.
LEMMA WorkEffects ==
  ASSUME SubTypeOK, NEW s \in Subscribers, WorkStep(s) \/ StepFails(s) \/ CacheFails(s)
  PROVE  /\ UNCHANGED <<queue, held, subConn>>
         /\ \A t \in Subscribers \ {s} : job'[t] = job[t]
         /\ JobKept(s)
         /\ \A e \in Events : StampsWritten(e) /\ AnalysisWritten(s, e)
  <1> USE DEF JobAt
  <1>0. /\ OutboxTypeOK /\ job \in [Subscribers -> Job] /\ analysis \in [Events -> Analysis]
        /\ \A e \in Events : outbox[e] \in Row /\ analysis[e] \in Analysis
    BY DEF SubTypeOK, OutboxTypeOK, StoreTypeOK
  <1>1. UNCHANGED <<queue, held, subConn>> /\ job[s].pc # "idle"
    <2>1. CASE WorkStep(s)
      BY <2>1 DEF WorkStep, SetProcessed, SetInProgress, Invalidate, AfterInvalidate, Fetch,
                  FetchPageFails, SetFailed, CheckDuplicate, Analyze, SaveResults, ReadBack,
                  RefreshCache, SetCompleted, Ack
    <2>2. CASE StepFails(s) \/ CacheFails(s)
      BY <2>2 DEF StepFails, CacheFails, AfterCacheError
    <2> QED
      BY <2>1, <2>2
  <1>2. /\ job[s] \in [pc: Steps, event: Events, content: Contents \cup {NoResults}, seen: Analysis]
        /\ Idle.pc = "idle"
    BY <1>1, HasMessage DEF Idle
  \* Where the worker goes next.
  <1>3. /\ \A t \in Subscribers \ {s} : job'[t] = job[t]
        /\ \/ job'[s].pc = "idle"
           \/ job'[s].event = job[s].event
        /\ \/ job'[s].pc \notin {"mark_processed", "set_in_progress"}
           \/ SetProcessed(s) /\ job'[s].pc = "set_in_progress"
    <2>1. CASE Fetch(s) \/ ReadBack(s)
      <3>1. \E c, a : \/ job' = [job EXCEPT ![s] = [[@ EXCEPT !.pc = "check_duplicate"]
                                                      EXCEPT !.content = c]]
                      \/ job' = [job EXCEPT ![s] = [[@ EXCEPT !.pc = "refresh_cache"]
                                                      EXCEPT !.seen = a]]
        BY <2>1 DEF Fetch, ReadBack
      <3> QED
        BY <1>0, <1>2, <3>1
    <2>2. CASE Ack(s)
      BY <1>0, <1>2, <2>2 DEF Ack
    <2>3. CASE SetProcessed(s)
      <3>1. JobGoto(s, "set_in_progress")
        BY <2>3 DEF SetProcessed
      <3> QED
        BY <1>1, <2>3, <3>1, Goto DEF Steps
    <2>4. CASE \E pc \in Steps \ {"mark_processed", "set_in_progress"} : JobGoto(s, pc)
      BY <1>1, <2>4, Goto
    <2>5. \/ Invalidate(s) \/ CacheFails(s) =>
             \E pc \in Steps \ {"mark_processed", "set_in_progress"} : JobGoto(s, pc)
      BY Goes DEF Steps
    <2>6. CASE \/ SetInProgress(s) \/ FetchPageFails(s) \/ SetFailed(s) \/ CheckDuplicate(s)
               \/ Analyze(s) \/ SaveResults(s) \/ RefreshCache(s) \/ SetCompleted(s)
               \/ StepFails(s)
      <3>1. \E pc \in Steps \ {"mark_processed", "set_in_progress"} : JobGoto(s, pc)
        BY <2>6 DEF SetInProgress, FetchPageFails, SetFailed, CheckDuplicate, Analyze, SaveResults,
                    RefreshCache, SetCompleted, StepFails, Steps
      <3> QED
        BY <2>4, <3>1
    <2> QED
      BY <2>1, <2>2, <2>3, <2>4, <2>5, <2>6 DEF WorkStep
  <1>4. JobKept(s)
    <2>1. SetProcessed(s) => job[s].pc = "mark_processed"
      BY DEF SetProcessed
    <2> QED
      BY <1>1, <1>3, <2>1 DEF JobKept, Works, Begins
  <1>5. ASSUME NEW e \in Events PROVE StampsWritten(e)
    <2>1. CASE UNCHANGED outbox
      BY <2>1 DEF StampsWritten
    <2>2. CASE SetProcessed(s) \/ SetCompleted(s)
      <3>1. \/ /\ SetProcessed(s)
               /\ outbox' = [outbox EXCEPT ![job[s].event] = MarkProcessed(outbox[job[s].event])]
            \/ outbox' = [outbox EXCEPT ![job[s].event] = MarkCompleted(outbox[job[s].event])]
        BY <2>2 DEF SetProcessed, SetCompleted
      <3>2. CASE e = job[s].event
        <4>1. outbox'[e] = MarkProcessed(outbox[e]) \/ outbox'[e] = MarkCompleted(outbox[e])
          BY <1>0, <3>1, <3>2, OneRowWritten
        <4>2. Works(s, e)
          BY <1>1, <3>2 DEF Works
        <4> QED
          BY <1>0, <4>1, <4>2, StatementStamps DEF StampsWritten
      <3>3. CASE e # job[s].event
        <4>1. outbox'[e] = outbox[e]
          BY <1>0, <1>2, <3>1, <3>3, OneRowWritten
        <4> QED
          BY <4>1 DEF StampsWritten
      <3> QED
        BY <3>2, <3>3
    <2> QED
      BY <2>1, <2>2 DEF WorkStep, SetInProgress, Invalidate, Fetch, FetchPageFails, SetFailed,
           CheckDuplicate, Analyze, SaveResults, ReadBack, RefreshCache, Ack, StepFails, CacheFails
  <1>6. ASSUME NEW e \in Events PROVE AnalysisWritten(s, e)
    <2>1. CASE UNCHANGED analysis
      BY <2>1 DEF AnalysisWritten
    <2>2. CASE SetInProgress(s) \/ SetFailed(s) \/ SaveResults(s)
      <3>1. CASE e # job[s].event
        <4>1. analysis'[e] = analysis[e]
          BY <1>0, <1>2, <2>2, <3>1 DEF SetInProgress, SetFailed, SaveResults
        <4> QED
          BY <4>1 DEF AnalysisWritten
      <3>2. CASE e = job[s].event /\ SetInProgress(s)
        <4>1. analysis'[e] = UpdateStatus(analysis[e], "in_progress")
          BY <1>0, <3>2 DEF SetInProgress
        <4>2. analysis'[e].status = "in_progress" /\ Begins(s, e)
          BY <1>0, <3>2, <4>1 DEF UpdateStatus, Analysis, Begins, SetInProgress
        <4> QED
          BY <4>2 DEF AnalysisWritten, Terminal, NoAnalysis
      <3>3. CASE e = job[s].event /\ (SetFailed(s) \/ SaveResults(s))
        <4>1. \/ analysis'[e] = MarkAnalysisFailed(analysis[e])
              \/ analysis'[e] = Update(analysis[e], job[s].content)
          BY <1>0, <3>3 DEF SetFailed, SaveResults
        <4>2. analysis'[e].status \in {"completed", "failed"}
          BY <1>0, <4>1 DEF MarkAnalysisFailed, Update, Analysis
        <4>3. Works(s, e) /\ ~ Begins(s, e)'
          <5>1. job[s].pc \in {"mark_failed", "update"}
            BY <3>3 DEF SetFailed, SaveResults
          <5> QED
            BY <1>4, <3>3, <5>1 DEF Works, JobKept, Begins
        <4> QED
          BY <4>2, <4>3 DEF AnalysisWritten, Terminal, NoAnalysis
      <3> QED
        BY <2>2, <3>1, <3>2, <3>3
    <2> QED
      BY <2>1, <2>2 DEF WorkStep, SetProcessed, Invalidate, Fetch, FetchPageFails, SetCompleted,
           CheckDuplicate, Analyze, ReadBack, RefreshCache, Ack, StepFails, CacheFails
  <1> QED
    BY <1>1, <1>3, <1>4, <1>5, <1>6

\* The subscribers never touch what the publishers' claims are about.
LEMMA SubscriberEffects ==
  ASSUME SubTypeOK, SubNext
  PROVE  \A e \in Events : /\ StampsWritten(e)
                           /\ analysis'[e] = NoAnalysis => analysis[e] = NoAnalysis
  <1>1. ASSUME NEW s \in Subscribers, WorkStep(s) \/ StepFails(s) \/ CacheFails(s)
        PROVE  \A e \in Events : /\ StampsWritten(e)
                                 /\ analysis'[e] = NoAnalysis => analysis[e] = NoAnalysis
    BY <1>1, WorkEffects DEF AnalysisWritten
  <1>2. ASSUME NEW s \in Subscribers, ProcessStep(s)
        PROVE  \A e \in Events : /\ StampsWritten(e)
                                 /\ analysis'[e] = NoAnalysis => analysis[e] = NoAnalysis
    BY <1>2, ProcessEffects DEF StampsWritten
  <1> QED
    BY <1>1, <1>2 DEF SubNext, SubReliable, SubCrashes, SubFaults, ProcessStep

\* The API's one transaction is the publisher module's Submit: whoever has no analysis has no row.
LEMMA ApiSubmits ==
  ASSUME TypeOK, SubmittedTogether, ApiDoes(ApiReliable \/ ApiFaults)
  PROVE  \/ UNCHANGED <<outbox, analysis>>
         \/ \E e \in Events :
              /\ Submit(e)
              /\ analysis[e] = NoAnalysis
              /\ analysis' = [analysis EXCEPT ![e] = SaveAnalysisInTx(NoAnalysis)]
  <1>1. PICK c \in Clients :
          \/ \E e \in Events : StartAnalysis(c, e) \/ FetchAnalysis(c, e) \/ CacheFindFails(c, e)
          \/ FindAnalysis(c) \/ CacheAnalysis(c) \/ CallEnds(c)
    BY DEF ApiDoes, ApiReliable, ApiFaults, CallStep
  <1>2. UNCHANGED <<queue, pubLocal>>
    BY DEF ApiDoes
  <1>3. ASSUME NEW e \in Events, StartAnalysis(c, e)
        PROVE  /\ Submit(e)
               /\ analysis[e] = NoAnalysis
               /\ analysis' = [analysis EXCEPT ![e] = SaveAnalysisInTx(NoAnalysis)]
    BY <1>2, <1>3 DEF StartAnalysis, SubmittedTogether, Submit, pubLocal
  <1> QED
    BY <1>1, <1>3 DEF FetchAnalysis, CacheFindFails, FindAnalysis, CacheAnalysis, CallEnds

-----------------------------------------------------------------------------
(* The publishers' claims among everything else                            *)

\* What the rest rests on, and every step of the whole keeps.
Base == TypeOK /\ Claims /\ FailedWasRetried /\ SubmittedTogether

LEMMA BaseInit == Init => Base
  <1> SUFFICES ASSUME Init PROVE Base
    OBVIOUS
  <1>1. PubInit
    BY DEF Init
  <1>2. Claims
    BY <1>1, InvInit DEF PubInv, Claims
  <1>3. \A e \in Events : outbox[e].status = "absent"
    BY <1>1 DEF PubInit, Absent
  <1> QED
    BY <1>2, <1>3, PipelineTypeInit DEF Base, FailedWasRetried, SubmittedTogether

LEMMA BaseStep ==
  ASSUME Base, [Next]_vars
  PROVE  Base'
  <1>0. /\ TypeOK /\ TypeOK' /\ PubTypeOK /\ SubTypeOK /\ Claims
        /\ FailedWasRetried /\ SubmittedTogether
    BY PipelineTypeStep DEF Base, TypeOK
  <1>1. CASE PubNext /\ UNCHANGED <<analysis, cache, subLocal, call>>
    <2>1. Claims'
      BY <1>0, <1>1, ClaimsStep DEF PubStep
    <2>2. \A e \in Events : RowKept(e)
      BY <1>0, <1>1, PublisherEffects
    <2> QED
      BY <1>0, <1>1, <2>1, <2>2 DEF Base, RowKept, FailedWasRetried, SubmittedTogether
  <1>2. CASE SubNext /\ UNCHANGED <<pubLocal, call>>
    <2>1. \A e \in Events : /\ outbox'[e].status = outbox[e].status
                            /\ outbox'[e].retryCount = outbox[e].retryCount
                            /\ analysis'[e] = NoAnalysis => analysis[e] = NoAnalysis
      BY <1>0, <1>2, SubscriberEffects DEF StampsWritten
    <2>2. UNCHANGED task
      BY <1>2 DEF pubLocal
    <2>3. Claims'
      BY <1>0, <2>1, <2>2, WorkerParts DEF Claims, ExclusiveClaim, RetriesBounded, Owns
    <2> QED
      BY <1>0, <2>1, <2>3 DEF Base, FailedWasRetried, SubmittedTogether
  <1>3. CASE ApiDoes(ApiReliable \/ ApiFaults)
    <2>1. UNCHANGED <<queue, pubLocal>>
      BY <1>3 DEF ApiDoes
    <2>2. CASE UNCHANGED <<outbox, analysis>>
      BY <1>0, <2>1, <2>2, ClaimsStep DEF Base, FailedWasRetried, SubmittedTogether, pubVars, pubLocal
    <2>3. ASSUME NEW e \in Events, Submit(e),
                 analysis' = [analysis EXCEPT ![e] = SaveAnalysisInTx(NoAnalysis)]
          PROVE  Base'
      <3>1. Claims'
        BY <1>0, <2>3, ClaimsStep DEF PubStep
      <3>2. outbox[e] \in Row /\ outbox' = [outbox EXCEPT ![e] = SaveInTx(outbox[e])]
        BY <1>0, <2>3 DEF Submit, PubTypeOK, OutboxTypeOK
      <3>3. /\ outbox'[e].status = "pending"
            /\ \A f \in Events : f # e => outbox'[f] = outbox[f]
        <4>1. /\ outbox'[e] = SaveInTx(outbox[e])
              /\ \A f \in Events : f # e => outbox'[f] = outbox[f]
          BY <1>0, <3>2, OneRowWritten DEF PubTypeOK
        <4> QED
          BY <3>2, <4>1, StatementEffects
      <3>4. /\ analysis'[e] # NoAnalysis
            /\ \A f \in Events : f # e => analysis'[f] = analysis[f]
        BY <1>0, <2>3 DEF SubTypeOK, StoreTypeOK, SaveAnalysisInTx, NoAnalysis
      <3> QED
        BY <1>0, <3>1, <3>3, <3>4 DEF Base, FailedWasRetried, SubmittedTogether
    <2> QED
      BY <1>0, <1>3, <2>2, <2>3, ApiSubmits
  <1>4. CASE CacheExpires \/ UNCHANGED vars
    <2>1. UNCHANGED pubVars /\ UNCHANGED analysis
      BY <1>4 DEF CacheExpires, Expire, CacheDelete, vars, pubVars, pubLocal
    <2> QED
      BY <1>0, <2>1, ClaimsStep DEF Base, FailedWasRetried, SubmittedTogether, pubVars
  <1> QED
    BY <1>1, <1>2, <1>3, <1>4
       DEF Next, ReliableNext, Faults, PublisherDoes, SubscriberDoes, PubNext, SubNext

LEMMA BaseInvariance == Spec => []Base
  BY BaseInit, BaseStep, PTL DEF Spec

\* The publishers' guarantees hold of the whole service: neither the subscribers' stamps on the
\* same rows nor the API's inserts break a claim or the retry limit.
THEOREM ClaimsInTheWhole == Spec => [](ExclusiveClaim /\ RetriesBounded)
  <1>1. Base => ExclusiveClaim /\ RetriesBounded
    BY DEF Base, Claims
  <1> QED
    BY <1>1, BaseInvariance, PTL

-----------------------------------------------------------------------------
(* The results and the publishers' times among everything else             *)

\* What a publisher may write of a row's times, and when.
LEMMA PublisherStamps ==
  ASSUME PubTypeOK, Claims, PubNext, NEW e \in Events
  PROVE  \/ /\ outbox'[e].stamps = outbox[e].stamps
            /\ outbox'[e].status = outbox[e].status \/ outbox[e].status = "processing"
         \/ /\ outbox'[e].stamps = outbox[e].stamps \cup {"started_at"}
            /\ outbox'[e].status = "processing"
         \/ /\ outbox'[e].stamps = outbox[e].stamps \cup {"published_at"}
            /\ outbox[e].status = "processing"
  <1>0. OutboxTypeOK /\ \A f \in Events : outbox[f] \in Row
    BY DEF PubTypeOK, OutboxTypeOK
  <1>1. ASSUME NEW w \in Workers, NEW r, EventOf(w) # e, outbox' = [outbox EXCEPT ![EventOf(w)] = r]
        PROVE  outbox'[e] = outbox[e]
    BY <1>0, <1>1, WorkerParts, OneRowWritten
  <1>2. ASSUME NEW w \in Workers, Claim(w) \/ ClaimAnswerLost(w)
        PROVE  \/ outbox'[e] = outbox[e]
               \/ /\ outbox'[e].stamps = outbox[e].stamps \cup {"started_at"}
                  /\ outbox'[e].status = "processing"
    <2>1. \/ UNCHANGED outbox
          \/ outbox' = [outbox EXCEPT ![EventOf(w)] = ClaimForProcessing(outbox[EventOf(w)])]
      BY <1>2 DEF Claim, ClaimAnswerLost
    <2>2. EventOf(w) = e => outbox'[e] = outbox[e] \/ outbox'[e] = ClaimForProcessing(outbox[e])
      BY <1>0, <2>1, OneRowWritten
    <2>3. EventOf(w) # e => outbox'[e] = outbox[e]
      BY <1>1, <2>1
    <2> QED
      BY <1>0, <2>2, <2>3, StatementStamps, StatementEffects
  <1>3. ASSUME NEW w \in Workers, SetPublished(w) \/ HandlePublishFailure(w)
        PROVE  \/ outbox'[e] = outbox[e]
               \/ /\ outbox'[e].stamps \in {outbox[e].stamps,
                                            outbox[e].stamps \cup {"published_at"}}
                  /\ outbox[e].status = "processing"
    <2>1. /\ outbox[EventOf(w)].status = "processing"
          /\ \/ outbox' = [outbox EXCEPT ![EventOf(w)] = MarkPublished(outbox[EventOf(w)])]
             \/ outbox' = [outbox EXCEPT ![EventOf(w)] = MarkFailed(outbox[EventOf(w)])]
             \/ outbox' = [outbox EXCEPT ![EventOf(w)] = MarkPermanentlyFailed(outbox[EventOf(w)])]
      BY <1>3 DEF SetPublished, HandlePublishFailure, FailureRow, TaskAt, Claims, ExclusiveClaim, Owns
    <2>2. EventOf(w) = e => \/ outbox'[e] = MarkPublished(outbox[e])
                           \/ outbox'[e] = MarkFailed(outbox[e])
                           \/ outbox'[e] = MarkPermanentlyFailed(outbox[e])
      BY <1>0, <2>1, OneRowWritten
    <2>3. EventOf(w) # e => outbox'[e] = outbox[e]
      BY <1>1, <2>1
    <2> QED
      BY <1>0, <2>1, <2>2, <2>3, StatementStamps
  <1>4. ASSUME NEW f \in Events, BackoffElapses(f)
        PROVE  outbox'[e].stamps = outbox[e].stamps /\ outbox'[e].status = outbox[e].status
    BY <1>0, <1>4 DEF BackoffElapses, RetryDue, OutboxTypeOK, Row
  <1>5. \/ UNCHANGED outbox
        \/ \E f \in Events : BackoffElapses(f)
        \/ \E w \in Workers : \/ Claim(w) \/ ClaimAnswerLost(w)
                              \/ SetPublished(w) \/ HandlePublishFailure(w)
    BY DEF PubNext, PubReliable, PubProcess, PubDbFaults, WorkerStep, Tick, FetchEvents, FetchFails,
           Publish, PublishFails, DbFails, Shutdown, LoseConnection, Exit, Restart
  <1> QED
    BY <1>2, <1>3, <1>4, <1>5

WholeInv == Base /\ SubInv

LEMMA WholeInit == Init => WholeInv
  <1> SUFFICES ASSUME Init PROVE WholeInv
    OBVIOUS
  <1>1. Base /\ SubTypeOK
    BY BaseInit DEF Base, TypeOK
  <1>2. Progress /\ CompletedHasResults
    BY DEF Init, PubInit, StoreInit, SubLocalInit, Absent, NoAnalysis, Idle, Progress,
           CompletedHasResults
  <1> QED
    BY <1>1, <1>2 DEF WholeInv, SubInv

LEMMA WholeStep ==
  ASSUME WholeInv, [Next]_vars
  PROVE  WholeInv'
  <1>0. /\ Base /\ SubInv /\ TypeOK /\ PubTypeOK /\ SubTypeOK /\ Claims /\ SubmittedTogether
        /\ Progress /\ CompletedHasResults
    BY DEF WholeInv, SubInv, Base, TypeOK
  <1>1. Base' /\ SubTypeOK'
    BY <1>0, BaseStep DEF Base, TypeOK
  <1>2. CASE SubNext
    BY <1>0, <1>1, <1>2, SubInvKept DEF WholeInv
  <1>3. CASE PubNext /\ UNCHANGED <<analysis, cache, subLocal, call>>
    <2>1. ASSUME NEW e \in Events, "completed_at" \in outbox'[e].stamps
          PROVE  "completed_at" \in outbox[e].stamps
      BY <1>0, <1>3, <2>1, PublisherStamps
    <2> QED
      BY <1>0, <1>1, <1>3, <2>1 DEF WholeInv, SubInv, Progress, CompletedHasResults, subLocal
  <1>4. CASE ApiDoes(ApiReliable \/ ApiFaults)
    <2>1. UNCHANGED job
      BY <1>4 DEF ApiDoes, subLocal
    <2>2. CASE UNCHANGED <<outbox, analysis>>
      BY <1>0, <1>1, <2>1, <2>2 DEF WholeInv, SubInv, Progress, CompletedHasResults
    <2>3. ASSUME NEW e \in Events, Submit(e), analysis[e] = NoAnalysis,
                 analysis' = [analysis EXCEPT ![e] = SaveAnalysisInTx(NoAnalysis)]
          PROVE  WholeInv'
      <3>1. /\ analysis[e].results = NoResults
            /\ analysis'[e].status = "requested"
            /\ \A f \in Events : f # e => analysis'[f] = analysis[f]
        BY <1>0, <2>3 DEF SubTypeOK, StoreTypeOK, SaveAnalysisInTx, NoAnalysis
      <3>2. \A f \in Events : outbox'[f].stamps = outbox[f].stamps
        <4>1. outbox[e] \in Row /\ outbox' = [outbox EXCEPT ![e] = SaveInTx(outbox[e])]
          BY <1>0, <2>3 DEF Submit, PubTypeOK, OutboxTypeOK
        <4> QED
          BY <1>0, <4>1, OneRowWritten, StatementStamps DEF PubTypeOK
      <3>3. CompletedHasResults'
        BY <1>0, <3>1, <3>2 DEF CompletedHasResults
      <3>4. Progress'
        <4>1. \A s \in Subscribers : job[s].pc # "idle" => job[s].event \in Events
          BY <1>0, HasMessage
        <4> QED
          BY <1>0, <2>1, <3>1, <4>1 DEF Progress
      <3> QED
        BY <1>1, <3>3, <3>4 DEF WholeInv, SubInv
    <2> QED
      BY <1>0, <1>4, <2>2, <2>3, ApiSubmits
  <1>5. CASE CacheExpires \/ UNCHANGED vars
    <2>1. UNCHANGED <<outbox, analysis, job>>
      BY <1>5 DEF CacheExpires, vars, subLocal
    <2> QED
      BY <1>0, <1>1, <2>1 DEF WholeInv, SubInv, Progress, CompletedHasResults
  <1> QED
    BY <1>2, <1>3, <1>4, <1>5
       DEF Next, ReliableNext, Faults, PublisherDoes, SubscriberDoes, PubNext, SubNext

LEMMA WholeInvariance == Spec => []WholeInv
  BY WholeInit, WholeStep, PTL DEF Spec

\* Completed means results in the whole service too: neither a publisher nor a submission says of
\* an analysis that it is done.
THEOREM CompletedInTheWhole == Spec => []CompletedHasResults
  <1>1. WholeInv => CompletedHasResults
    BY DEF WholeInv, SubInv
  <1> QED
    BY <1>1, WholeInvariance, PTL

-----------------------------------------------------------------------------
(* A final status is left only for a duplicate                             *)

\* The subscribers neither die nor lose their connection; the statements of the publishers and of
\* the workers may fail, an answer may get lost, and publishers may come and go.
SteadyStep ==
  \/ ReliableNext
  \/ PublisherDoes(PubProcess \/ PubDbFaults)
  \/ SubscriberDoes(\E s \in Subscribers : StepFails(s) \/ CacheFails(s) \/ SubShutdown(s))

SteadySpec == Init /\ [][SteadyStep]_vars

Holds(s, e) == e \in held[s]

\* There is one message at most: in the queue, delivered, or in the hands of a worker.
OneMessage(e) ==
  /\ queue[e] <= 1
  /\ queue[e] > 0 => \A s \in Subscribers : ~ Holds(s, e) /\ ~ Works(s, e)
  /\ \A s, t \in Subscribers :
       /\ ~ (Holds(s, e) /\ Works(t, e))
       /\ Holds(s, e) /\ Holds(t, e) => s = t
       /\ Works(s, e) /\ Works(t, e) => s = t

\* It has not been sent: nobody has it and nothing has come of it.
NotBegun(e) ==
  /\ queue[e] = 0
  /\ \A s \in Subscribers : ~ Holds(s, e) /\ ~ Works(s, e)
  /\ ~ Terminal(analysis[e])

\* Its handling is past the point where the status is reset.
PastReset(e) ==
  /\ queue[e] = 0
  /\ \A s \in Subscribers : ~ Holds(s, e) /\ ~ Begins(s, e)

\* As long as no publish of e was reported as failed.
Once(e) ==
  outbox[e].retryCount = 0 =>
    /\ OneMessage(e)
    /\ Unsent(e) => NotBegun(e)
    /\ Terminal(analysis[e]) => PastReset(e)

SteadyInv == Base /\ \A e \in Events : Once(e)

LEMMA OncePublisher ==
  ASSUME RetriesLeft, SteadyInv, PubNext, UNCHANGED <<analysis, subLocal>>, NEW e \in Events
  PROVE  Once(e)'
  <1>0. /\ Once(e) /\ RowKept(e) /\ SendKept(e) /\ queue[e] \in Nat
    BY PublisherEffects DEF SteadyInv, Base, TypeOK, PubTypeOK, BrokerTypeOK
  <1>1. SUFFICES ASSUME outbox'[e].retryCount = 0
                 PROVE  /\ OneMessage(e)'
                        /\ Unsent(e)' => NotBegun(e)'
                        /\ Terminal(analysis'[e]) => PastReset(e)'
    BY DEF Once
  <1>2. /\ outbox[e].retryCount = 0
        /\ OneMessage(e)
        /\ Unsent(e) => NotBegun(e)
        /\ Terminal(analysis[e]) => PastReset(e)
        /\ UNCHANGED <<analysis, held, job>>
    BY <1>0, <1>1 DEF RowKept, Once, subLocal
  <1>3. CASE queue'[e] = queue[e]
    <2>1. Unsent(e)' => Unsent(e)
      BY <1>0, <1>1, <1>3 DEF SendKept
    <2> QED
      BY <1>2, <1>3, <2>1 DEF OneMessage, NotBegun, PastReset, Holds, Works, Begins, Terminal
  <1>4. CASE queue'[e] = queue[e] + 1 /\ Sends(e) /\ ~ Unsent(e)'
    <2>1. NotBegun(e)
      BY <1>2, <1>4 DEF Unsent
    <2> QED
      BY <1>2, <1>4, <2>1 DEF OneMessage, NotBegun, Holds, Works, Terminal
  <1> QED
    BY <1>0, <1>3, <1>4 DEF SendKept

\* A worker that handles the message, whatever fails in it.
LEMMA OnceWork ==
  ASSUME SteadyInv, NEW s \in Subscribers, WorkStep(s) \/ StepFails(s) \/ CacheFails(s),
         UNCHANGED pubLocal, NEW e \in Events
  PROVE  Once(e)'
  <1>0. /\ SubTypeOK /\ Once(e)
        /\ UNCHANGED <<queue, held>> /\ \A t \in Subscribers \ {s} : job'[t] = job[t]
        /\ JobKept(s) /\ StampsWritten(e) /\ AnalysisWritten(s, e)
    BY WorkEffects DEF SteadyInv, Base, TypeOK
  <1>1. SUFFICES ASSUME outbox'[e].retryCount = 0
                 PROVE  /\ OneMessage(e)'
                        /\ Unsent(e)' => NotBegun(e)'
                        /\ Terminal(analysis'[e]) => PastReset(e)'
    BY DEF Once
  <1>2. /\ OneMessage(e)
        /\ Unsent(e) => NotBegun(e)
        /\ Terminal(analysis[e]) => PastReset(e)
        /\ Unsent(e)' => Unsent(e)
    BY <1>0, <1>1 DEF StampsWritten, Once, Unsent, Sends, pubLocal
  <1>3. \A t \in Subscribers : /\ Works(t, e)' => Works(t, e)
                               /\ Begins(t, e)' => Begins(t, e)
                               /\ Holds(t, e)' <=> Holds(t, e)
    BY <1>0 DEF JobKept, Works, Begins, Holds
  <1>4. OneMessage(e)'
    BY <1>0, <1>2, <1>3 DEF OneMessage
  <1>5. Unsent(e)' => NotBegun(e)'
    BY <1>0, <1>2, <1>3 DEF NotBegun, AnalysisWritten
  <1>6. ASSUME Terminal(analysis'[e]) PROVE PastReset(e)'
    <2>1. CASE Terminal(analysis[e])
      BY <1>0, <1>2, <1>3, <2>1 DEF PastReset
    <2>2. CASE ~ Terminal(analysis[e])
      <3>1. Works(s, e) /\ ~ Begins(s, e)'
        BY <1>0, <1>6, <2>2 DEF AnalysisWritten
      <3>2. /\ ~ queue[e] > 0
            /\ \A t \in Subscribers : ~ Holds(t, e) /\ (Works(t, e) => t = s)
        BY <1>2, <3>1 DEF OneMessage
      <3>3. \A t \in Subscribers : Begins(t, e) => Works(t, e)
        BY DEF Begins, Works
      <3>4. queue'[e] = 0
        BY <1>0, <3>2 DEF SubTypeOK, BrokerTypeOK
      <3> QED
        BY <1>3, <3>1, <3>2, <3>3, <3>4 DEF PastReset
    <2> QED
      BY <2>1, <2>2
  <1> QED
    BY <1>4, <1>5, <1>6

\* The message on its way from the queue to a worker.
LEMMA OnceDelivery ==
  ASSUME SteadyInv, NEW s \in Subscribers, Deliver(s) \/ Receive(s) \/ SubShutdown(s),
         UNCHANGED pubLocal, NEW e \in Events
  PROVE  Once(e)'
  <1>0. /\ Once(e) /\ queue \in [Events -> Nat] /\ held \in [Subscribers -> SUBSET Events]
        /\ job \in [Subscribers -> Job]
    BY DEF SteadyInv, Base, TypeOK, SubTypeOK, BrokerTypeOK
  <1>1. UNCHANGED <<outbox, analysis>>
    BY DEF Deliver, Receive, SubShutdown
  <1>2. SUFFICES ASSUME outbox[e].retryCount = 0
                 PROVE  /\ OneMessage(e)'
                        /\ Unsent(e) => NotBegun(e)'
                        /\ Terminal(analysis[e]) => PastReset(e)'
    BY <1>1 DEF Once, Unsent, Sends, pubLocal, Terminal
  <1>3. /\ OneMessage(e)
        /\ Unsent(e) => NotBegun(e)
        /\ Terminal(analysis[e]) => PastReset(e)
    BY <1>0, <1>2 DEF Once
  <1>4. CASE SubShutdown(s)
    BY <1>1, <1>3, <1>4
       DEF SubShutdown, OneMessage, NotBegun, PastReset, Holds, Works, Begins, Terminal
  <1>5. CASE Deliver(s)
    <2>1. PICK f \in Events : /\ queue[f] > 0 /\ queue' = [queue EXCEPT ![f] = @ - 1]
                             /\ held' = [held EXCEPT ![s] = {f}]
      BY <1>5 DEF Deliver, Dequeue
    <2>2. UNCHANGED job /\ held[s] = {} /\ held'[s] = {f}
          /\ \A t \in Subscribers \ {s} : held'[t] = held[t]
      BY <1>0, <1>5, <2>1 DEF Deliver
    <2>3. CASE e # f
      <3>1. queue'[e] = queue[e] /\ \A t \in Subscribers : Holds(t, e)' <=> Holds(t, e)
        BY <1>0, <2>1, <2>2, <2>3 DEF Holds
      <3> QED
        BY <1>1, <1>3, <2>2, <3>1 DEF OneMessage, NotBegun, PastReset, Works, Begins, Terminal
    <2>4. CASE e = f
      <3>1. /\ queue'[e] = 0
            /\ \A t \in Subscribers : ~ Works(t, e) /\ ~ Holds(t, e)
        BY <1>0, <1>3, <2>1, <2>4 DEF OneMessage
      <3>2. \A t \in Subscribers : ~ Works(t, e)' /\ (Holds(t, e)' => t = s)
        BY <2>2, <3>1 DEF Works, Holds
      <3>3. ~ Unsent(e) /\ ~ Terminal(analysis[e])
        BY <1>0, <1>3, <2>1, <2>4 DEF NotBegun, PastReset
      <3> QED
        BY <3>1, <3>2, <3>3 DEF OneMessage
    <2> QED
      BY <2>3, <2>4
  <1>6. CASE Receive(s)
    <2>1. PICK f \in held[s] :
            job' = [job EXCEPT ![s] = Working("mark_processed", f, NoResults, NoAnalysis)]
      BY <1>6 DEF Receive
    <2>2. /\ UNCHANGED queue /\ held'[s] = {}
          /\ \A t \in Subscribers \ {s} : held'[t] = held[t] /\ job'[t] = job[t]
          /\ job'[s].event = f
      BY <1>0, <1>6, <2>1 DEF Receive, Working
    <2>3. CASE e # f
      <3>1. \A t \in Subscribers : /\ Holds(t, e)' => Holds(t, e)
                                   /\ Works(t, e)' => Works(t, e)
                                   /\ Begins(t, e)' => Begins(t, e)
        BY <2>2, <2>3 DEF Holds, Works, Begins
      <3> QED
        BY <1>1, <1>3, <2>2, <3>1 DEF OneMessage, NotBegun, PastReset
    <2>4. CASE e = f
      <3>1. Holds(s, e)
        BY <2>1, <2>4 DEF Holds
      <3>2. /\ ~ queue[e] > 0
            /\ \A t \in Subscribers : ~ Works(t, e) /\ (Holds(t, e) => t = s)
        BY <1>3, <3>1 DEF OneMessage
      <3>3. \A t \in Subscribers : ~ Holds(t, e)' /\ (Works(t, e)' => t = s)
        BY <2>2, <3>2 DEF Holds, Works
      <3>4. queue'[e] = 0
        BY <1>0, <2>2, <3>2
      <3>5. ~ Unsent(e) /\ ~ Terminal(analysis[e])
        BY <1>3, <3>1 DEF NotBegun, PastReset
      <3> QED
        BY <3>3, <3>4, <3>5 DEF OneMessage
    <2> QED
      BY <2>3, <2>4
  <1> QED
    BY <1>4, <1>5, <1>6

\* A new row is pending: nobody has sent its message.
LEMMA OnceSubmit ==
  ASSUME SteadyInv, ApiDoes(ApiReliable \/ ApiFaults), NEW e \in Events
  PROVE  Once(e)'
  <1>0. /\ Once(e) /\ TypeOK /\ SubmittedTogether /\ UNCHANGED <<queue, held, job, task>>
        /\ OutboxTypeOK /\ analysis \in [Events -> Analysis]
    BY DEF SteadyInv, Base, ApiDoes, pubLocal, subLocal, TypeOK, SubTypeOK, StoreTypeOK
  <1>1. /\ Unsent(e)' => Unsent(e)
        /\ outbox'[e].retryCount = outbox[e].retryCount
        /\ Terminal(analysis'[e]) <=> Terminal(analysis[e])
    <2>1. CASE UNCHANGED <<outbox, analysis>>
      BY <1>0, <2>1 DEF Unsent, Sends, Terminal
    <2>2. ASSUME NEW f \in Events, Submit(f), analysis[f] = NoAnalysis,
                 analysis' = [analysis EXCEPT ![f] = SaveAnalysisInTx(NoAnalysis)]
          PROVE  /\ Unsent(e)' => Unsent(e)
                 /\ outbox'[e].retryCount = outbox[e].retryCount
                 /\ Terminal(analysis'[e]) <=> Terminal(analysis[e])
      <3>1. outbox[f].status = "absent" /\ outbox' = [outbox EXCEPT ![f] = SaveInTx(outbox[f])]
        BY <2>2 DEF Submit
      <3>2. CASE e # f
        <4>1. outbox'[e] = outbox[e] /\ analysis'[e] = analysis[e]
          BY <1>0, <2>2, <3>1, <3>2, OneRowWritten
        <4> QED
          BY <1>0, <4>1 DEF Unsent, Sends, Terminal
      <3>3. CASE e = f
        <4>1. outbox'[e] = SaveInTx(outbox[e]) /\ outbox[e] \in Row
          BY <1>0, <3>1, <3>3, OneRowWritten DEF OutboxTypeOK
        <4>2. analysis'[e].status = "requested" /\ analysis[e].status = "absent"
          BY <1>0, <2>2, <3>3 DEF SaveAnalysisInTx, NoAnalysis
        <4> QED
          BY <3>1, <3>3, <4>1, <4>2, StatementEffects DEF Unsent, Terminal
      <3> QED
        BY <3>2, <3>3
    <2> QED
      BY <1>0, <2>1, <2>2, ApiSubmits
  <1> QED
    BY <1>0, <1>1 DEF Once, OneMessage, NotBegun, PastReset, Holds, Works, Begins

LEMMA SteadyInit == Init => SteadyInv
  <1> SUFFICES ASSUME Init PROVE SteadyInv
    OBVIOUS
  <1>1. ASSUME NEW e \in Events PROVE Once(e)
    <2>1. /\ queue[e] = 0 /\ ~ Terminal(analysis[e])
          /\ \A s \in Subscribers : held[s] = {} /\ job[s].pc = "idle"
      BY DEF Init, PubInit, BrokerInit, StoreInit, SubLocalInit, Terminal, NoAnalysis, Idle
    <2>2. NotBegun(e)
      BY <2>1 DEF NotBegun, Holds, Works
    <2> QED
      BY <2>1, <2>2 DEF Once, OneMessage, NotBegun
  <1> QED
    BY <1>1, BaseInit DEF SteadyInv

LEMMA SteadyInvKept ==
  ASSUME RetriesLeft, SteadyInv, [SteadyStep]_vars
  PROVE  SteadyInv'
  <1>1. Base'
    <2>1. [Next]_vars
      BY DEF SteadyStep, Next, Faults, PublisherDoes, SubscriberDoes, SubFaults
    <2> QED
      BY <2>1, BaseStep DEF SteadyInv
  <1>2. ASSUME NEW e \in Events PROVE Once(e)'
    <2>1. CASE PubNext /\ UNCHANGED <<analysis, cache, subLocal, call>>
      BY <2>1, OncePublisher
    <2>2. CASE /\ \E s \in Subscribers : WorkStep(s) \/ StepFails(s) \/ CacheFails(s)
               /\ UNCHANGED <<pubLocal, call>>
      BY <2>2, OnceWork
    <2>3. CASE /\ \E s \in Subscribers : Deliver(s) \/ Receive(s) \/ SubShutdown(s)
               /\ UNCHANGED <<pubLocal, call>>
      BY <2>3, OnceDelivery
    <2>4. CASE ApiDoes(ApiReliable \/ ApiFaults)
      BY <2>4, OnceSubmit
    <2>5. CASE CacheExpires \/ UNCHANGED vars
      <3>1. UNCHANGED <<outbox, analysis, queue, held, job, task>>
        BY <2>5 DEF CacheExpires, vars, pubLocal, subLocal
      <3> QED
        BY <3>1 DEF SteadyInv, Once, OneMessage, NotBegun, PastReset, Unsent, Sends, Holds, Works,
                    Begins, Terminal
    <2> QED
      BY <2>1, <2>2, <2>3, <2>4, <2>5
         DEF SteadyStep, ReliableNext, PublisherDoes, SubscriberDoes, PubNext, SubReliable
  <1> QED
    BY <1>1, <1>2 DEF SteadyInv

\* Whoever resets a final status works on a message that was sent before, as only a publish that
\* failed, or seemed to, is repeated.
LEMMA ReopeningTakesDuplicate ==
  ASSUME SteadyInv, [SteadyStep]_vars, NEW e \in Events,
         Terminal(analysis[e]), ~ Terminal(analysis'[e])
  PROVE  outbox[e].retryCount > 0
  <1>0. TypeOK /\ SubmittedTogether /\ Once(e) /\ outbox[e].retryCount \in Nat
    BY DEF SteadyInv, Base, TypeOK, PubTypeOK, OutboxTypeOK, Row
  <1>1. \E s \in Subscribers : WorkStep(s) \/ StepFails(s) \/ CacheFails(s)
    <2>1. ~ UNCHANGED analysis
      OBVIOUS
    <2>2. ~ ApiDoes(ApiReliable \/ ApiFaults)
      <3>1. SUFFICES ASSUME ApiDoes(ApiReliable \/ ApiFaults) PROVE FALSE
        OBVIOUS
      <3>2. PICK f \in Events : /\ analysis[f] = NoAnalysis
                               /\ analysis' = [analysis EXCEPT ![f] = SaveAnalysisInTx(NoAnalysis)]
        BY <1>0, <2>1, <3>1, ApiSubmits
      <3>3. e # f /\ analysis'[e] = analysis[e]
        BY <1>0, <3>2 DEF Terminal, NoAnalysis, TypeOK, SubTypeOK, StoreTypeOK
      <3> QED
        BY <3>3 DEF Terminal
    <2> QED
      BY <2>1, <2>2 DEF SteadyStep, ReliableNext, PublisherDoes, SubscriberDoes, SubReliable,
                        CacheExpires, Deliver, Receive, SubShutdown, vars
  <1>2. \E s \in Subscribers : Begins(s, e)
    BY <1>0, <1>1, WorkEffects DEF TypeOK, AnalysisWritten
  <1> QED
    BY <1>0, <1>2 DEF Once, PastReset

\* While no subscriber dies or loses its connection, an analysis that is completed or failed
\* stays so unless its message went out twice.
THEOREM FinalUnlessDuplicate == ASSUME RetriesLeft PROVE SteadySpec => ReopenedOnlyByDuplicate
  <1>1. SteadyInv /\ [SteadyStep]_vars =>
          [\A e \in Events :
             Terminal(analysis[e]) /\ ~ Terminal(analysis'[e]) => outbox[e].retryCount > 0]_vars
    BY ReopeningTakesDuplicate
  <1> QED
    BY <1>1, SteadyInit, SteadyInvKept, PTL DEF SteadySpec, ReopenedOnlyByDuplicate

-----------------------------------------------------------------------------
(* Processed ahead of published, but not for good                          *)

\* The subscribers may fail, die and come back as they like; the publishers' statements succeed
\* and their processes do not die, but may be told to stop, and their queries may fail.
MarkedStep ==
  \/ ReliableNext
  \/ SubscriberDoes(SubCrashes \/ SubFaults)
  \/ PublisherDoes(\E p \in Publishers : \/ Shutdown(p) \/ Restart(p)
                                         \/ \E kind \in Kinds : FetchFails(p, kind))

MarkedSpec == Init /\ [][MarkedStep]_vars

\* The event's message has left the publisher, and perhaps been worked on.
Out(e) ==
  \/ queue[e] > 0
  \/ \E s \in Subscribers : Holds(s, e) \/ Works(s, e)
  \/ "processed_at" \in outbox[e].stamps

Marked(e) ==
  Out(e) /\ "published_at" \notin outbox[e].stamps => Marking(e) \/ outbox[e].retryCount > 0

MarkedInv == Base /\ \A e \in Events : Marked(e)

\* Nothing the subscribers do takes a message out of nowhere: a connection that ends gives back
\* what it had.
LEMMA OutOnlyPassedOn ==
  ASSUME SubTypeOK, SubNext, NEW e \in Events, Out(e)'
  PROVE  Out(e)
  <1>0. /\ queue \in [Events -> Nat] /\ held \in [Subscribers -> SUBSET Events]
        /\ job \in [Subscribers -> Job]
    BY DEF SubTypeOK, BrokerTypeOK
  <1>1. ASSUME NEW s \in Subscribers, WorkStep(s) \/ StepFails(s) \/ CacheFails(s)
        PROVE  Out(e)
    <2>1. /\ UNCHANGED <<queue, held>> /\ \A t \in Subscribers \ {s} : job'[t] = job[t]
          /\ JobKept(s) /\ StampsWritten(e)
      BY <1>1, WorkEffects
    <2>2. \A t \in Subscribers : /\ Works(t, e)' => Works(t, e)
                                 /\ Holds(t, e)' <=> Holds(t, e)
      BY <2>1 DEF JobKept, Works, Holds
    <2> QED
      BY <2>1, <2>2 DEF Out, StampsWritten
  <1>2. ASSUME NEW s \in Subscribers, ProcessStep(s) PROVE Out(e)
    <2>0. UNCHANGED outbox
      BY <1>2, ProcessEffects
    <2>1. CASE Deliver(s)
      <3>1. PICK f \in Events : /\ queue[f] > 0 /\ queue' = [queue EXCEPT ![f] = @ - 1]
                               /\ held' = [held EXCEPT ![s] = {f}] /\ UNCHANGED job
        BY <2>1 DEF Deliver, Dequeue
      <3>2. CASE e = f
        BY <3>1, <3>2 DEF Out
      <3>3. CASE e # f
        <4>1. queue'[e] = queue[e] /\ \A t \in Subscribers : Holds(t, e)' => Holds(t, e)
          BY <1>0, <3>1, <3>3 DEF Holds
        <4> QED
          BY <2>0, <3>1, <4>1 DEF Out, Works
      <3> QED
        BY <3>2, <3>3
    <2>2. CASE Receive(s)
      <3>1. PICK f \in held[s] :
              job' = [job EXCEPT ![s] = Working("mark_processed", f, NoResults, NoAnalysis)]
        BY <2>2 DEF Receive
      <3>2. /\ UNCHANGED queue
            /\ \A t \in Subscribers : Holds(t, e)' => Holds(t, e)
            /\ \A t \in Subscribers : Works(t, e)' => Works(t, e) \/ Holds(s, e)
        BY <1>0, <2>2, <3>1 DEF Receive, Working, Works, Holds
      <3> QED
        BY <2>0, <3>2 DEF Out
    <2>3. CASE LoseSubConnection(s) \/ SubExit(s)
      <3>1. /\ \A t \in Subscribers : Holds(t, e)' => Holds(t, e)
            /\ \A t \in Subscribers : Works(t, e)' => Works(t, e)
        BY <1>0, <2>3 DEF LoseSubConnection, SubExit, Holds, Works, Idle
      <3>2. queue'[e] = queue[e] + Unacknowledged(s, e)
        BY <2>3 DEF LoseSubConnection, SubExit, Redeliver
      <3>3. Unacknowledged(s, e) = 0 \/ Holds(s, e) \/ Works(s, e)
        <4>1. job[s] # Idle => job[s].pc # "idle"
          BY <1>0 DEF Job, Steps
        <4> QED
          BY <4>1 DEF Unacknowledged, Holds, Works
      <3> QED
        BY <1>0, <2>0, <3>1, <3>2, <3>3 DEF Out
    <2>4. CASE SubShutdown(s) \/ SubRestart(s)
      BY <2>0, <2>4 DEF SubShutdown, SubRestart, Out, Holds, Works
    <2> QED
      BY <1>2, <2>1, <2>2, <2>3, <2>4 DEF ProcessStep
  <1> QED
    BY <1>1, <1>2 DEF SubNext, SubReliable, SubCrashes, SubFaults, ProcessStep

\* A goroutine that is about to mark its row does it, or records a failure: its claim keeps the
\* row out of every batch meanwhile, so that no query's result replaces it.
LEMMA MarkingEnds ==
  ASSUME RetriesLeft, Base, Base', NEW e \in Events, Marking(e),
         \/ PubReliable
         \/ \E p \in Publishers : \/ Shutdown(p) \/ Restart(p)
                                  \/ \E kind \in Kinds : FetchFails(p, kind)
  PROVE  Marking(e)' \/ "published_at" \in outbox'[e].stamps \/ outbox'[e].retryCount > 0
  <1>0. /\ PubTypeOK /\ OutboxTypeOK /\ task \in [Workers -> Task] /\ Claims /\ FailedWasRetried'
    BY DEF Base, TypeOK, PubTypeOK
  <1>1. PICK w \in Workers : EventOf(w) = e /\ task[w].pc \in {"mark_published", "handle_failure"}
    BY DEF Marking
  <1>2. outbox[e].status = "processing"
    BY <1>0, <1>1 DEF Claims, ExclusiveClaim, Owns
  <1>3. SUFFICES ASSUME task'[w] # task[w]
                 PROVE  "published_at" \in outbox'[e].stamps \/ outbox'[e].retryCount > 0
    BY <1>1 DEF Marking
  <1>4. ASSUME NEW p \in Publishers, NEW kind \in Kinds, FetchEvents(p, kind) PROVE FALSE
    <2>1. PICK batch \in Batches(Find(kind)) :
            task' = [v \in Workers |->
                       IF v[1] = p /\ v[2] = kind /\ v[3] \in batch
                       THEN [pc |-> "claim", retryCount |-> 0] ELSE task[v]]
      BY <1>4 DEF FetchEvents
    <2>2. batch \subseteq Find(kind)
      BY DEF Batches
    <2>3. e \notin Find(kind)
      BY <1>2 DEF Find, FindPending, FindRetryable
    <2> QED
      BY <1>1, <1>3, <2>1, <2>2, <2>3 DEF EventOf
  <1>5. ASSUME NEW v \in Workers, WorkerStep(v)
        PROVE  v = w /\ (SetPublished(w) \/ HandlePublishFailure(w))
    <2>1. \A u \in Workers \ {v} : task'[u] = task[u]
      BY <1>0, <1>5 DEF WorkerStep, Claim, Publish, PublishFails, SetPublished, HandlePublishFailure,
                        TaskReturn, TaskGoto
    <2> QED
      BY <1>1, <1>3, <1>5, <2>1 DEF WorkerStep, Claim, Publish, PublishFails, TaskAt
  <1>6. CASE SetPublished(w)
    <2>1. outbox'[e] = MarkPublished(outbox[e]) /\ outbox[e] \in Row
      BY <1>0, <1>1, <1>6, OneRowWritten DEF SetPublished, OutboxTypeOK
    <2> QED
      BY <2>1, StatementStamps
  <1>7. CASE HandlePublishFailure(w)
    <2>1. /\ outbox[e] \in Row /\ outbox[e].retryCount <= MaxRetries
          /\ task[w].retryCount = outbox[e].retryCount
      BY <1>0, <1>1 DEF Claims, ExclusiveClaim, RetriesBounded, Owns, OutboxTypeOK
    <2>2. outbox'[e] = FailureRow(outbox[e], outbox[e].retryCount)
      BY <1>0, <1>1, <1>7, <2>1, OneRowWritten DEF HandlePublishFailure
    <2>3. outbox'[e].status = "failed"
      BY <2>1, <2>2, FailureRowEffects
    <2> QED
      BY <1>0, <2>3 DEF FailedWasRetried
  <1>8. CASE \E v \in Workers : WorkerStep(v)
    BY <1>5, <1>6, <1>7, <1>8
  <1>9. UNCHANGED task => FALSE
    BY <1>3
  <1> QED
    BY <1>4, <1>8, <1>9
       DEF PubReliable, BackoffElapses, Tick, LoseConnection, Shutdown, Restart, FetchFails

LEMMA MarkedInit == Init => MarkedInv
  <1> SUFFICES ASSUME Init PROVE MarkedInv
    OBVIOUS
  <1>1. ASSUME NEW e \in Events PROVE ~ Out(e)
    BY DEF Init, PubInit, BrokerInit, SubLocalInit, Absent, Idle, Out, Holds, Works
  <1> QED
    BY <1>1, BaseInit DEF MarkedInv, Marked

LEMMA MarkedInvKept ==
  ASSUME RetriesLeft, MarkedInv, [MarkedStep]_vars
  PROVE  MarkedInv'
  <1>0. Base /\ Base'
    <2>1. [Next]_vars
      BY DEF MarkedStep, Next, Faults, PublisherDoes, SubscriberDoes, PubProcess, PubDbFaults
    <2> QED
      BY <2>1, BaseStep DEF MarkedInv
  <1>1. TypeOK /\ Claims /\ FailedWasRetried /\ SubmittedTogether
        /\ \A e \in Events : outbox[e].retryCount \in Nat /\ outbox'[e].retryCount \in Nat
    BY <1>0 DEF Base, TypeOK, PubTypeOK, OutboxTypeOK, Row
  <1>2. ASSUME NEW e \in Events PROVE Marked(e)'
    <2>1. SUFFICES ASSUME Out(e)', "published_at" \notin outbox'[e].stamps,
                          outbox'[e].retryCount = 0
                   PROVE  Marking(e)'
      BY <1>1 DEF Marked
    <2>2. Marked(e)
      BY DEF MarkedInv
    <2>3. CASE /\ \/ PubReliable
                  \/ \E p \in Publishers : \/ Shutdown(p) \/ Restart(p)
                                           \/ \E kind \in Kinds : FetchFails(p, kind)
               /\ UNCHANGED <<analysis, cache, subLocal, call>>
      <3>1. RowKept(e) /\ SendKept(e)
        BY <1>1, <2>3, PublisherEffects DEF TypeOK, PubNext, PubProcess, PubDbFaults
      <3>2. CASE queue'[e] = queue[e]
        <4>1. Out(e) /\ "published_at" \notin outbox[e].stamps /\ ~ outbox[e].retryCount > 0
          BY <1>1, <2>1, <2>3, <3>1, <3>2 DEF RowKept, Out, Holds, Works, subLocal
        <4>2. Marking(e)
          BY <2>2, <4>1 DEF Marked
        <4> QED
          BY <1>0, <1>1, <2>1, <2>3, <4>2, MarkingEnds
      <3> QED
        BY <3>1, <3>2 DEF SendKept
    <2>4. CASE SubNext /\ UNCHANGED <<pubLocal, call>>
      <3>1. /\ Out(e) /\ "published_at" \notin outbox[e].stamps /\ ~ outbox[e].retryCount > 0
        BY <1>1, <2>1, <2>4, OutOnlyPassedOn, SubscriberEffects DEF TypeOK, StampsWritten
      <3> QED
        BY <2>2, <2>4, <3>1 DEF Marked, Marking, pubLocal
    <2>5. CASE ApiDoes(ApiReliable \/ ApiFaults)
      <3>1. UNCHANGED <<queue, held, job, task>>
        BY <2>5 DEF ApiDoes, pubLocal, subLocal
      <3>2. outbox'[e].stamps = outbox[e].stamps /\ outbox'[e].retryCount = outbox[e].retryCount
        <4>1. ASSUME NEW f \in Events, Submit(f)
              PROVE  outbox'[e] = outbox[e] \/ outbox'[e] = SaveInTx(outbox[e])
          BY <1>1, <4>1, OneRowWritten DEF Submit, TypeOK, PubTypeOK
        <4>2. outbox[e] \in Row
          BY <1>1 DEF TypeOK, PubTypeOK, OutboxTypeOK
        <4> QED
          BY <1>1, <2>5, <4>1, <4>2, ApiSubmits, StatementEffects, StatementStamps
      <3> QED
        BY <1>1, <2>1, <2>2, <3>1, <3>2 DEF Marked, Marking, Out, Holds, Works
    <2>6. CASE CacheExpires \/ UNCHANGED vars
      <3>1. UNCHANGED <<outbox, queue, held, job, task>>
        BY <2>6 DEF CacheExpires, vars, pubLocal, subLocal
      <3> QED
        BY <1>1, <2>1, <2>2, <3>1 DEF Marked, Marking, Out, Holds, Works
    <2> QED
      BY <2>3, <2>4, <2>5, <2>6
         DEF MarkedStep, ReliableNext, PublisherDoes, SubscriberDoes, SubNext
  <1> QED
    BY <1>0, <1>2 DEF MarkedInv

\* While the publishers' statements succeed and their processes live, an event that is processed
\* and not yet marked published is one whose goroutine has still to mark it, or one whose
\* sending was reported as failed.
THEOREM ProcessedEarlyIsMarked == ASSUME RetriesLeft PROVE MarkedSpec => []ProcessedAheadOfMark
  <1>1. MarkedInv => ProcessedAheadOfMark
    BY DEF MarkedInv, Marked, Out, ProcessedAheadOfMark
  <1> QED
    BY <1>1, MarkedInit, MarkedInvKept, PTL DEF MarkedSpec

\* Both cover the runs, in which only the broker and the fetched sites fail.
LEMMA ReliableIsSteadyAndMarked == ReliableSpec => SteadySpec /\ MarkedSpec
  BY PTL DEF ReliableSpec, SteadySpec, MarkedSpec, SteadyStep, MarkedStep
-----------------------------------------------------------------------------
(* The timeline                                                            *)

\* A worker past its first call, MarkProcessed, with the rest of its work before it.
Underway == Steps \ {"mark_processed", "ack"}

\* Whoever has the message of an event has it from a publisher that claimed its row, and a worker
\* past its first call has written processed_at.
TimelineInv ==
  /\ Base
  /\ StampsInOrder
  /\ \A e \in Events : Out(e) \/ outbox[e].status \in {"processing", "published", "failed"} =>
       "started_at" \in outbox[e].stamps
  /\ \A s \in Subscribers : job[s].pc \in Underway =>
       "processed_at" \in outbox[job[s].event].stamps

\* A worker writes a time, or its analysis, only of its own event, and all but processed_at only
\* when it is past its first call.
LEMMA WorkTimes ==
  ASSUME SubTypeOK, NEW s \in Subscribers, WorkStep(s) \/ StepFails(s) \/ CacheFails(s)
  PROVE  /\ \A e \in Events :
              \/ outbox'[e].stamps = outbox[e].stamps
              \/ /\ Works(s, e)
                 /\ outbox'[e].stamps = outbox[e].stamps \cup {"processed_at"}
              \/ /\ Works(s, e) /\ job[s].pc \in Underway
                 /\ outbox'[e].stamps = outbox[e].stamps \cup {"completed_at"}
         /\ \A e \in Events :
              analysis'[e] = analysis[e] \/ (Works(s, e) /\ job[s].pc \in Underway)
         /\ job'[s].pc \in Underway =>
              /\ job'[s].event = job[s].event
              /\ \/ job[s].pc \in Underway
                 \/ "processed_at" \in outbox'[job[s].event].stamps
  <1> USE DEF JobAt
  <1>0. /\ OutboxTypeOK /\ job \in [Subscribers -> Job] /\ analysis \in [Events -> Analysis]
        /\ \A e \in Events : outbox[e] \in Row
        /\ "idle" \notin Underway /\ "ack" \notin Underway /\ "mark_processed" \notin Underway
    BY DEF SubTypeOK, OutboxTypeOK, StoreTypeOK, Underway, Steps
  <1>1. CASE SetProcessed(s) \/ SetCompleted(s)
    <2>1. /\ job[s].pc # "idle" /\ UNCHANGED analysis /\ \E pc \in Steps : JobGoto(s, pc)
          /\ \/ /\ job[s].pc = "mark_processed"
                /\ outbox' = [outbox EXCEPT ![job[s].event] = MarkProcessed(outbox[job[s].event])]
             \/ /\ job[s].pc = "mark_completed"
                /\ outbox' = [outbox EXCEPT ![job[s].event] = MarkCompleted(outbox[job[s].event])]
      BY <1>1 DEF SetProcessed, SetCompleted, Steps
    <2>2. job'[s].event = job[s].event /\ job[s].event \in Events
      BY <1>0, <2>1, Goto, HasMessage
    <2>3. /\ job[s].pc = "mark_processed" =>
               outbox'[job[s].event].stamps = outbox[job[s].event].stamps \cup {"processed_at"}
          /\ job[s].pc = "mark_completed" =>
               outbox'[job[s].event].stamps = outbox[job[s].event].stamps \cup {"completed_at"}
      <3>1. \/ /\ job[s].pc = "mark_processed"
               /\ outbox'[job[s].event] = MarkProcessed(outbox[job[s].event])
            \/ /\ job[s].pc = "mark_completed"
               /\ outbox'[job[s].event] = MarkCompleted(outbox[job[s].event])
        BY <1>0, <2>1, <2>2, OneRowWritten
      <3>2. outbox[job[s].event] \in Row
        BY <1>0, <2>2
      <3> QED
        BY <3>1, <3>2, StatementStamps
    <2>4. \A e \in Events : e # job[s].event => outbox'[e] = outbox[e]
      BY <1>0, <2>1, <2>2, OneRowWritten
    <2>5. "mark_completed" \in Underway
      BY DEF Underway, Steps
    <2> QED
      BY <2>1, <2>2, <2>3, <2>4, <2>5 DEF Works
  <1>2. CASE SetInProgress(s) \/ SetFailed(s) \/ SaveResults(s)
    <2>1. /\ job[s].pc \in {"set_in_progress", "mark_failed", "update"} /\ UNCHANGED outbox
          /\ \E a : analysis' = [analysis EXCEPT ![job[s].event] = a]
          /\ \E pc \in Steps : JobGoto(s, pc)
      BY <1>2 DEF SetInProgress, SetFailed, SaveResults, Steps
    <2>2. job[s].pc \in Underway /\ job[s].pc # "idle"
      BY <2>1 DEF Underway, Steps
    <2>3. job'[s].event = job[s].event
      BY <1>0, <2>1, <2>2, Goto
    <2>4. \A e \in Events : e # job[s].event => analysis'[e] = analysis[e]
      BY <1>0, <2>1
    <2> QED
      BY <2>1, <2>2, <2>3, <2>4 DEF Works
  <1>3. CASE Fetch(s) \/ ReadBack(s)
    <2>1. job[s].pc \in {"fetch", "read_back"} /\ UNCHANGED <<outbox, analysis>>
      BY <1>3 DEF Fetch, ReadBack
    <2>2. \E c, a : \/ job' = [job EXCEPT ![s] = [[@ EXCEPT !.pc = "check_duplicate"]
                                                    EXCEPT !.content = c]]
                    \/ job' = [job EXCEPT ![s] = [[@ EXCEPT !.pc = "refresh_cache"]
                                                    EXCEPT !.seen = a]]
      BY <1>3 DEF Fetch, ReadBack
    <2>3. /\ job[s] \in [pc: Steps, event: Events, content: Contents \cup {NoResults},
                         seen: Analysis]
          /\ job[s].pc \in Underway
      BY <2>1, HasMessage DEF Underway, Steps
    <2>4. job'[s].event = job[s].event
      BY <1>0, <2>2, <2>3
    <2> QED
      BY <2>1, <2>3, <2>4
  <1>4. CASE Ack(s)
    <2>1. job'[s].pc = "idle" /\ UNCHANGED <<outbox, analysis>>
      BY <1>0, <1>4 DEF Ack, Idle
    <2> QED
      BY <1>0, <2>1
  <1>5. CASE StepFails(s)
    <2>1. job[s].pc # "idle" /\ JobGoto(s, "ack") /\ UNCHANGED <<outbox, analysis>>
      BY <1>5 DEF StepFails
    <2>2. job'[s].pc = "ack"
      BY <2>1, Goto DEF Steps
    <2> QED
      BY <1>0, <2>1, <2>2
  <1>6. CASE \/ Invalidate(s) \/ FetchPageFails(s) \/ CheckDuplicate(s) \/ Analyze(s)
             \/ RefreshCache(s) \/ CacheFails(s)
    <2>1. /\ job[s].pc \notin {"idle", "mark_processed", "ack"} /\ UNCHANGED <<outbox, analysis>>
          /\ \E pc \in Steps : JobGoto(s, pc)
      BY <1>6, Goes DEF Invalidate, FetchPageFails, CheckDuplicate, Analyze, RefreshCache,
                        CacheFails, Steps
    <2>2. job'[s].event = job[s].event /\ job[s].pc \in Underway
      BY <2>1, Goto, HasMessage DEF Underway
    <2> QED
      BY <2>1, <2>2
  <1> QED
    BY <1>1, <1>2, <1>3, <1>4, <1>5, <1>6 DEF WorkStep

LEMMA TimelineInit == Init => TimelineInv
  <1> SUFFICES ASSUME Init PROVE TimelineInv
    OBVIOUS
  <1>1. /\ \A e \in Events : /\ outbox[e].stamps = {} /\ outbox[e].status = "absent"
                             /\ queue[e] = 0 /\ analysis[e].status = "absent"
        /\ \A s \in Subscribers : held[s] = {} /\ job[s].pc = "idle"
    BY DEF Init, PubInit, BrokerInit, StoreInit, SubLocalInit, Absent, NoAnalysis, Idle
  <1> QED
    BY <1>1, BaseInit DEF TimelineInv, StampsInOrder, Out, Holds, Works, Underway, Steps

LEMMA TimelineStep ==
  ASSUME TimelineInv, [Next]_vars
  PROVE  TimelineInv'
  <1>0. /\ Base /\ TypeOK /\ PubTypeOK /\ SubTypeOK /\ Claims /\ FailedWasRetried
        /\ SubmittedTogether /\ StampsInOrder
    BY DEF TimelineInv, Base, TypeOK
  <1>1. Base' /\ SubTypeOK'
    BY <1>0, BaseStep DEF Base, TypeOK
  <1>2. \A s \in Subscribers : job[s].pc \in Underway => job[s].event \in Events /\ Works(s, job[s].event)
    BY <1>0, HasMessage DEF Underway, Steps, Works
  \* Whatever writes no time.
  <1>3. ASSUME \A e \in Events : /\ outbox'[e].stamps = outbox[e].stamps
                                 /\ Out(e)' => Out(e)
                                 /\ \/ outbox'[e].status = outbox[e].status
                                    \/ outbox'[e].status \in {"absent", "pending"},
               \A e \in Events : analysis'[e] = analysis[e] \/ analysis'[e].status = "requested",
               \A s \in Subscribers : job'[s] = job[s] \/ job'[s].pc \in {"idle", "mark_processed"}
        PROVE  TimelineInv'
    <2>1. StampsInOrder'
      BY <1>0, <1>3 DEF StampsInOrder
    <2>2. \A s \in Subscribers : job'[s].pc \in Underway =>
            "processed_at" \in outbox'[job'[s].event].stamps
      BY <1>2, <1>3 DEF TimelineInv, Underway, Steps
    <2> QED
      BY <1>1, <1>3, <2>1, <2>2 DEF TimelineInv
  <1>4. CASE PubNext /\ UNCHANGED <<analysis, cache, subLocal, call>>
    <2>0. UNCHANGED <<analysis, held, job>>
      BY <1>4 DEF subLocal
    <2>1. ASSUME NEW e \in Events
          PROVE  /\ \/ outbox'[e].stamps = outbox[e].stamps
                    \/ /\ outbox[e].stamps \subseteq outbox'[e].stamps
                       /\ outbox'[e].stamps \subseteq
                            outbox[e].stamps \cup {"started_at", "published_at"}
                       /\ "started_at" \in outbox'[e].stamps
                 /\ outbox'[e].status \in {"processing", "published", "failed"} =>
                      "started_at" \in outbox'[e].stamps
      BY <1>0, <1>4, PublisherStamps DEF TimelineInv
    <2>2. ASSUME NEW e \in Events, Out(e)' PROVE "started_at" \in outbox'[e].stamps
      <3>1. CASE Out(e)
        BY <2>1, <3>1 DEF TimelineInv
      <3>2. CASE ~ Out(e)
        <4>1. queue'[e] # queue[e]
          BY <2>0, <2>1, <2>2, <3>2 DEF Out, Holds, Works
        <4>2. PICK w \in Workers : EventOf(w) = e /\ task[w].pc = "publish"
          BY <1>0, <1>4, <4>1, PublisherEffects DEF SendKept, Sends
        <4>3. outbox[e].status = "processing"
          BY <1>0, <4>2 DEF Claims, ExclusiveClaim, Owns
        <4> QED
          BY <2>1, <4>3 DEF TimelineInv
      <3> QED
        BY <3>1, <3>2
    <2>3. StampsInOrder'
      BY <1>0, <2>0, <2>1 DEF StampsInOrder
    <2>4. \A s \in Subscribers : job'[s].pc \in Underway =>
            "processed_at" \in outbox'[job'[s].event].stamps
      BY <1>2, <2>0, <2>1 DEF TimelineInv
    <2> QED
      BY <1>1, <2>1, <2>2, <2>3, <2>4 DEF TimelineInv
  <1>5. ASSUME NEW s \in Subscribers, WorkStep(s) \/ StepFails(s) \/ CacheFails(s)
        PROVE  TimelineInv'
    <2>1. /\ UNCHANGED <<queue, held>> /\ \A t \in Subscribers \ {s} : job'[t] = job[t]
          /\ \A e \in Events : StampsWritten(e)
      BY <1>0, <1>5, WorkEffects
    <2>2. /\ \A e \in Events :
               \/ outbox'[e].stamps = outbox[e].stamps
               \/ /\ Works(s, e)
                  /\ outbox'[e].stamps = outbox[e].stamps \cup {"processed_at"}
               \/ /\ Works(s, e) /\ job[s].pc \in Underway
                  /\ outbox'[e].stamps = outbox[e].stamps \cup {"completed_at"}
          /\ \A e \in Events :
               analysis'[e] = analysis[e] \/ (Works(s, e) /\ job[s].pc \in Underway)
          /\ job'[s].pc \in Underway =>
               /\ job'[s].event = job[s].event
               /\ \/ job[s].pc \in Underway
                  \/ "processed_at" \in outbox'[job[s].event].stamps
      BY <1>0, <1>5, WorkTimes
    <2>3. /\ \A e \in Events : Out(e)' => Out(e)
          /\ \A e \in Events : Works(s, e) => Out(e)
      BY <1>0, <1>5, OutOnlyPassedOn DEF SubNext, SubReliable, SubFaults, Out
    <2>4. \A e \in Events : /\ outbox[e].stamps \subseteq outbox'[e].stamps
                            /\ Works(s, e) => "started_at" \in outbox[e].stamps
                            /\ Works(s, e) /\ job[s].pc \in Underway =>
                                 "processed_at" \in outbox[e].stamps
      BY <2>2, <2>3 DEF TimelineInv, Works
    <2>5. StampsInOrder'
      BY <1>0, <2>2, <2>4 DEF StampsInOrder
    <2>6. \A t \in Subscribers : job'[t].pc \in Underway =>
            "processed_at" \in outbox'[job'[t].event].stamps
      BY <1>2, <2>1, <2>2, <2>4 DEF TimelineInv
    <2>7. \A e \in Events :
            Out(e)' \/ outbox'[e].status \in {"processing", "published", "failed"} =>
              "started_at" \in outbox'[e].stamps
      BY <2>1, <2>3, <2>4 DEF TimelineInv, StampsWritten
    <2> QED
      BY <1>1, <2>5, <2>6, <2>7 DEF TimelineInv
  <1>6. ASSUME NEW s \in Subscribers, ProcessStep(s) PROVE TimelineInv'
    <2>1. /\ UNCHANGED <<outbox, analysis, cache>>
          /\ \A t \in Subscribers : job'[t] = job[t] \/ job'[t].pc \in {"idle", "mark_processed"}
      BY <1>0, <1>6, ProcessEffects
    <2>2. \A e \in Events : Out(e)' => Out(e)
      BY <1>0, <1>6, OutOnlyPassedOn DEF SubNext, SubReliable, SubCrashes, SubFaults, ProcessStep
    <2> QED
      BY <1>3, <2>1, <2>2
  <1>7. CASE ApiDoes(ApiReliable \/ ApiFaults)
    <2>0. UNCHANGED <<queue, held, job>>
      BY <1>7 DEF ApiDoes, subLocal
    <2>1. CASE UNCHANGED <<outbox, analysis>>
      BY <1>3, <2>0, <2>1 DEF Out, Holds, Works
    <2>2. ASSUME NEW e \in Events, Submit(e),
                 analysis' = [analysis EXCEPT ![e] = SaveAnalysisInTx(NoAnalysis)]
          PROVE  TimelineInv'
      <3>1. outbox[e] \in Row /\ outbox' = [outbox EXCEPT ![e] = SaveInTx(outbox[e])]
        BY <1>0, <2>2 DEF Submit, PubTypeOK, OutboxTypeOK
      <3>2. \A f \in Events : outbox'[f] = outbox[f] \/ outbox'[f] = SaveInTx(outbox[f])
        BY <1>0, <3>1, OneRowWritten DEF PubTypeOK
      <3>3. \A f \in Events : outbox[f] \in Row
        BY <1>0 DEF PubTypeOK, OutboxTypeOK
      <3>4. \A f \in Events : /\ outbox'[f].stamps = outbox[f].stamps
                              /\ \/ outbox'[f].status = outbox[f].status
                                 \/ outbox'[f].status = "pending"
        BY <3>2, <3>3, StatementEffects, StatementStamps
      <3>5. \A f \in Events : analysis'[f] = analysis[f] \/ analysis'[f].status = "requested"
        BY <1>0, <2>2 DEF SubTypeOK, StoreTypeOK, SaveAnalysisInTx, NoAnalysis
      <3>6. \A f \in Events : Out(f)' => Out(f)
        BY <2>0, <3>4 DEF Out, Holds, Works
      <3> QED
        BY <1>3, <2>0, <3>4, <3>5, <3>6
    <2> QED
      BY <1>0, <1>7, <2>1, <2>2, ApiSubmits
  <1>8. CASE CacheExpires \/ UNCHANGED vars
    <2>1. UNCHANGED <<outbox, analysis, queue, held, job>>
      BY <1>8 DEF CacheExpires, vars, subLocal
    <2> QED
      BY <1>3, <2>1 DEF Out, Holds, Works
  <1> QED
    BY <1>4, <1>5, <1>6, <1>7, <1>8
       DEF Next, ReliableNext, Faults, PublisherDoes, SubscriberDoes, PubNext, SubNext, SubReliable,
           SubCrashes, SubFaults, ProcessStep

LEMMA TimelineInvariance == Spec => []TimelineInv
  BY TimelineInit, TimelineStep, PTL DEF Spec

\* The times of an outbox row are first written in the order of the documented timeline, but for
\* published_at, for any numbers of replicas and whatever fails or dies.
THEOREM TimelineIsKept == Spec => []StampsInOrder
  <1>1. TimelineInv => StampsInOrder
    BY DEF TimelineInv
  <1> QED
    BY <1>1, TimelineInvariance, PTL

-----------------------------------------------------------------------------
(* The life of an event in the whole                                       *)

Claimed(e) == outbox[e].status \in {"processing", "published", "failed"}

\* A row that says started has been claimed, and is never again anything else.
StartedIsClaimed == \A e \in Events : "started_at" \in outbox[e].stamps => Claimed(e)

\* The subscribers' writes are the marks of an event that was claimed, in their order.
LEMMA SubscriberLifecycle ==
  ASSUME TimelineInv, StartedIsClaimed, SubNext
  PROVE  Lifecycle!LifecycleNext \/ UNCHANGED outbox
  <1> USE DEF JobAt
  <1>0. /\ SubTypeOK /\ \A e \in Events : outbox[e] \in Row
        /\ outbox \in [Events -> Row]
    BY DEF TimelineInv, Base, TypeOK, SubTypeOK, OutboxTypeOK
  <1> DEFINE ev == [f \in Events |-> LifecycleOf(outbox[f])]
  <1>1. ASSUME NEW s \in Subscribers, SetProcessed(s) PROVE Lifecycle!MarkProcessed(job[s].event)
    <2> DEFINE e == job[s].event
    <2>1. e \in Events /\ Works(s, e)
      BY <1>0, <1>1, HasMessage DEF SetProcessed, Works
    <2>2. Claimed(e)
      BY <2>1 DEF TimelineInv, StartedIsClaimed, Out
    <2>3. outbox' = [outbox EXCEPT ![e] = MarkProcessed(outbox[e])]
      BY <1>1 DEF SetProcessed
    <2>4. LifecycleOf(MarkProcessed(outbox[e]))
            = [LifecycleOf(outbox[e]) EXCEPT !.times = @ \cup {"processed_at"}]
      BY <1>0, <2>1, LifecycleEffects
    <2>5. ev' = [ev EXCEPT ![e] = [LifecycleOf(outbox[e]) EXCEPT !.times = @ \cup {"processed_at"}]]
      BY <1>0, <2>1, <2>3, <2>4, OneRow
    <2> QED
      BY <2>1, <2>2, <2>5 DEF Lifecycle!MarkProcessed, Claimed, LifecycleOf
  <1>2. ASSUME NEW s \in Subscribers, SetCompleted(s) PROVE Lifecycle!MarkCompleted(job[s].event)
    <2> DEFINE e == job[s].event
    <2>1. e \in Events /\ "processed_at" \in outbox[e].stamps
      BY <1>0, <1>2, HasMessage DEF SetCompleted, TimelineInv, Underway, Steps
    <2>2. outbox' = [outbox EXCEPT ![e] = MarkCompleted(outbox[e])]
      BY <1>2 DEF SetCompleted
    <2>3. LifecycleOf(MarkCompleted(outbox[e]))
            = [LifecycleOf(outbox[e]) EXCEPT !.times = @ \cup {"completed_at"}]
      BY <1>0, <2>1, LifecycleEffects
    <2>4. ev' = [ev EXCEPT ![e] = [LifecycleOf(outbox[e]) EXCEPT !.times = @ \cup {"completed_at"}]]
      BY <1>0, <2>1, <2>2, <2>3, OneRow
    <2> QED
      BY <2>1, <2>4 DEF Lifecycle!MarkCompleted, LifecycleOf
  <1>3. ASSUME NEW s \in Subscribers, ProcessStep(s) PROVE UNCHANGED outbox
    BY <1>0, <1>3, ProcessEffects
  <1>4. ASSUME NEW s \in Subscribers, WorkStep(s) \/ StepFails(s) \/ CacheFails(s)
        PROVE  SetProcessed(s) \/ SetCompleted(s) \/ UNCHANGED outbox
    BY <1>4 DEF WorkStep, SetInProgress, Invalidate, Fetch, FetchPageFails, SetFailed,
                CheckDuplicate, Analyze, SaveResults, ReadBack, RefreshCache, Ack, StepFails, CacheFails
  <1>5. ASSUME NEW s \in Subscribers, SetProcessed(s) \/ SetCompleted(s)
        PROVE  job[s].event \in Events
    BY <1>0, <1>5, HasMessage DEF SetProcessed, SetCompleted
  <1> QED
    BY <1>1, <1>2, <1>3, <1>4, <1>5
       DEF SubNext, SubReliable, SubCrashes, SubFaults, ProcessStep, Lifecycle!LifecycleNext

\* No step of the whole takes a row through anything but a transition of OutboxLifecycle.
LEMMA WholeLifecycleStep ==
  ASSUME TimelineInv, StartedIsClaimed, [Next]_vars
  PROVE  [Lifecycle!LifecycleNext]_([e \in Events |-> LifecycleOf(outbox[e])])
  <1>0. PubTypeOK /\ SubTypeOK /\ TypeOK /\ Claims /\ SubmittedTogether
    BY DEF TimelineInv, Base, TypeOK
  <1>1. CASE PubNext \/ (\E e \in Events : Submit(e)) \/ UNCHANGED pubVars
    BY <1>0, <1>1, LifecycleStep DEF PubStep
  <1>2. CASE SubNext
    BY <1>2, SubscriberLifecycle
  <1>3. CASE ApiDoes(ApiReliable \/ ApiFaults)
    <2>1. UNCHANGED <<outbox, analysis>> \/ \E e \in Events : Submit(e)
      BY <1>0, <1>3, ApiSubmits
    <2> QED
      BY <1>1, <1>3, <2>1 DEF ApiDoes, pubVars, pubLocal
  <1>4. CASE CacheExpires \/ UNCHANGED vars
    BY <1>1, <1>4 DEF CacheExpires, vars, pubVars, pubLocal
  <1> QED
    BY <1>1, <1>2, <1>3, <1>4
       DEF Next, ReliableNext, Faults, PublisherDoes, SubscriberDoes, PubNext, SubNext

\* A claimed row stays one.
LEMMA ClaimedStays ==
  ASSUME [Lifecycle!LifecycleNext]_([e \in Events |-> LifecycleOf(outbox[e])]),
         NEW e \in Events, Claimed(e)
  PROVE  Claimed(e)'
  <1> DEFINE ev == [f \in Events |-> LifecycleOf(outbox[f])]
  <1>1. ev[e].status = outbox[e].status /\ ev'[e].status = outbox'[e].status
    BY DEF LifecycleOf
  <1>2. ev[e].status \in {"processing", "published", "failed"}
    BY <1>1 DEF Claimed
  <1>3. ev'[e].status \in {"processing", "published", "failed"}
    <2>1. CASE UNCHANGED ev
      BY <1>2, <2>1
    <2>2. ASSUME NEW f \in Events, Lifecycle!Save(f) \/ Lifecycle!StartProcessing(f)
          PROVE  ev'[e].status \in {"processing", "published", "failed"}
      BY <1>2, <2>2 DEF Lifecycle!Save, Lifecycle!StartProcessing, LifecycleOf
    <2>3. ASSUME NEW f \in Events, NEW x \in {"published", "failed"},
                 ev' = [ev EXCEPT ![f].status = x]
          PROVE  ev'[e].status \in {"processing", "published", "failed"}
      <3>1. ev'[e] = IF e = f THEN [ev[f] EXCEPT !.status = x] ELSE ev[e]
        BY <2>3
      <3>2. ev[f] = [status |-> outbox[f].status, retryCount |-> outbox[f].retryCount,
                     times |-> outbox[f].stamps \cap {"processed_at", "completed_at"}]
        BY DEF LifecycleOf
      <3>3. [ev[f] EXCEPT !.status = x].status = x
        BY <3>2
      <3> QED
        BY <1>2, <3>1, <3>3
    <2>4. ASSUME NEW f \in Events, Lifecycle!MarkFailed(f)
          PROVE  ev'[e].status \in {"processing", "published", "failed"}
      <3>1. ev' = [ev EXCEPT ![f] = [status |-> "failed", retryCount |-> @.retryCount + 1,
                                     times |-> @.times]]
        BY <2>4 DEF Lifecycle!MarkFailed
      <3>2. ev'[e] = IF e = f THEN [status |-> "failed", retryCount |-> ev[f].retryCount + 1,
                                    times |-> ev[f].times]
                     ELSE ev[e]
        BY <3>1
      <3> QED
        BY <1>2, <3>2
    <2>5. ASSUME NEW f \in Events, NEW x, ev' = [ev EXCEPT ![f].times = @ \cup {x}]
          PROVE  ev'[e].status \in {"processing", "published", "failed"}
      <3>1. ev'[e] = IF e = f THEN [ev[f] EXCEPT !.times = ev[f].times \cup {x}] ELSE ev[e]
        BY <2>5
      <3>2. ev[f] = [status |-> outbox[f].status, retryCount |-> outbox[f].retryCount,
                     times |-> outbox[f].stamps \cap {"processed_at", "completed_at"}]
        BY DEF LifecycleOf
      <3>3. [ev[f] EXCEPT !.times = ev[f].times \cup {x}].status = ev[f].status
        BY <3>2
      <3> QED
        BY <1>2, <3>1, <3>3
    <2>6. ASSUME NEW f \in Events, Lifecycle!MarkPublished(f) \/ Lifecycle!FailPermanently(f)
          PROVE  ev'[e].status \in {"processing", "published", "failed"}
      BY <2>3, <2>6 DEF Lifecycle!MarkPublished, Lifecycle!FailPermanently
    <2>7. ASSUME NEW f \in Events, Lifecycle!MarkProcessed(f) \/ Lifecycle!MarkCompleted(f)
          PROVE  ev'[e].status \in {"processing", "published", "failed"}
      BY <2>5, <2>7 DEF Lifecycle!MarkProcessed, Lifecycle!MarkCompleted
    <2> QED
      BY <2>1, <2>2, <2>4, <2>6, <2>7 DEF Lifecycle!LifecycleNext
  <1> QED
    BY <1>1, <1>3 DEF Claimed

LEMMA StartedStep ==
  ASSUME TimelineInv, StartedIsClaimed, [Next]_vars
  PROVE  StartedIsClaimed'
  <1>0. PubTypeOK /\ SubTypeOK /\ TypeOK /\ Claims /\ SubmittedTogether
    BY DEF TimelineInv, Base, TypeOK
  <1>1. \A e \in Events : Claimed(e) => Claimed(e)'
    BY WholeLifecycleStep, ClaimedStays
  <1>2. ASSUME NEW e \in Events, "started_at" \in outbox'[e].stamps
        PROVE  "started_at" \in outbox[e].stamps \/ Claimed(e) \/ Claimed(e)'
    <2>1. CASE PubNext
      BY <1>0, <1>2, <2>1, PublisherStamps DEF Claimed
    <2>2. ASSUME NEW s \in Subscribers, WorkStep(s) \/ StepFails(s) \/ CacheFails(s)
          PROVE  "started_at" \in outbox[e].stamps
      BY <1>0, <1>2, <2>2, WorkTimes
    <2>3. ASSUME NEW s \in Subscribers, ProcessStep(s)
          PROVE  "started_at" \in outbox[e].stamps
      BY <1>0, <1>2, <2>3, ProcessEffects
    <2>4. ASSUME NEW f \in Events, Submit(f) PROVE "started_at" \in outbox[e].stamps
      <3>1. \A g \in Events : outbox[g] \in Row
        BY <1>0 DEF PubTypeOK, OutboxTypeOK
      <3>2. outbox'[e] = outbox[e] \/ outbox'[e] = SaveInTx(outbox[e])
        BY <1>0, <2>4, <3>1, OneRowWritten DEF Submit, PubTypeOK
      <3> QED
        BY <1>2, <3>1, <3>2, StatementStamps
    <2>5. CASE ApiDoes(ApiReliable \/ ApiFaults)
      BY <1>0, <1>2, <2>4, <2>5, ApiSubmits
    <2>6. CASE CacheExpires \/ UNCHANGED vars
      BY <1>2, <2>6 DEF CacheExpires, vars
    <2> QED
      BY <2>1, <2>2, <2>3, <2>5, <2>6
         DEF Next, ReliableNext, Faults, PublisherDoes, SubscriberDoes, PubNext, SubNext,
             SubReliable, SubCrashes, SubFaults, ProcessStep
  <1> QED
    BY <1>1, <1>2 DEF StartedIsClaimed

\* The whole service, whatever fails or dies, takes an event's row only through the transitions of
\* OutboxLifecycle: the subscribers process only what a publisher has claimed and complete only
\* what they have processed, and no mark of theirs disturbs the publishers' statuses and counts.
THEOREM ServiceImplementsLifecycle == Spec => ImplementsLifecycle
  <1>1. Init => Lifecycle!LifecycleInit /\ StartedIsClaimed
    <2> SUFFICES ASSUME Init PROVE Lifecycle!LifecycleInit /\ StartedIsClaimed
      OBVIOUS
    <2>1. outbox = [e \in Events |-> Absent]
      BY DEF Init, PubInit
    <2> QED
      BY <2>1 DEF Absent, LifecycleOf, Lifecycle!LifecycleInit, StartedIsClaimed
  <1>2. TimelineInv /\ StartedIsClaimed /\ [Next]_vars => StartedIsClaimed'
    BY StartedStep
  <1>3. TimelineInv /\ StartedIsClaimed /\ [Next]_vars
          => [Lifecycle!LifecycleNext]_([e \in Events |-> LifecycleOf(outbox[e])])
    BY WholeLifecycleStep
  <1> QED
    BY <1>1, <1>2, <1>3, TimelineInvariance, PTL
       DEF Spec, ImplementsLifecycle, Lifecycle!LifecycleSpec

-----------------------------------------------------------------------------
(* Marked published, and not lost on the way                               *)

\* Anything may befall the API and the publishers, statements that fail and answers that get lost
\* included; the one subscriber may die or lose its connection at any step and its cache
\* operations may fail, but its statements succeed (StepFails is what loses a request).
RecoveringStep ==
  \/ ApiDoes(ApiReliable \/ ApiFaults)
  \/ PublisherDoes(PubNext)
  \/ SubscriberDoes(SubReliable \/ SubCrashes)
  \/ SubscriberDoes(\E s \in Subscribers : LoseSubConnection(s) \/ CacheFails(s))
  \/ CacheExpires

RecoveringSpec == Init /\ [][RecoveringStep]_vars

\* An event that the outbox says is published has a final analysis, or its message is in the queue
\* or with the subscriber: no state in which nobody will ever come back to it.
PublishedNotLost == \A e \in Events : outbox[e].status = "published" => Delivered(e)

\* The same of what a publisher has sent and is about to mark.
SentNotLost == \A w \in Workers : task[w].pc = "mark_published" => Delivered(EventOf(w))

DeliveryInv ==
  /\ Base
  /\ \A s \in Subscribers : OwesAnalysis(s)
  /\ SentNotLost
  /\ PublishedNotLost

LEMMA DeliveryInit == Init => DeliveryInv
  <1> SUFFICES ASSUME Init PROVE DeliveryInv
    OBVIOUS
  <1>1. /\ \A s \in Subscribers : held[s] = {} /\ job[s].pc = "idle"
        /\ \A w \in Workers : task[w].pc = "none"
        /\ \A e \in Events : outbox[e].status = "absent"
    BY DEF Init, PubInit, SubLocalInit, Idle, NoTask, Absent
  <1> QED
    BY <1>1, BaseInit DEF DeliveryInv, OwesAnalysis, PastLastWrite, SentNotLost, PublishedNotLost

\* The subscriber passes a message on until its analysis is final, and does not lose it when it
\* dies or is disconnected.
LEMMA SubscriberDelivers ==
  ASSUME SubTypeOK, NEW s \in Subscribers, Subscribers = {s}, OwesAnalysis(s),
         SubReliable \/ SubCrashes \/ LoseSubConnection(s) \/ CacheFails(s)
  PROVE  /\ OwesAnalysis(s)'
         /\ \A e \in Events : Delivered(e) => Delivered(e)'
  <1>1. CASE (WorkStep(s) /\ job[s].pc # "ack") \/ CacheFails(s)
    <2>1. /\ job[s].pc # "idle" /\ job'[s] # Idle /\ job'[s].event = job[s].event
          /\ UNCHANGED <<queue, held, subConn>>
          /\ \A e \in Events \ {job[s].event} : analysis'[e] = analysis[e]
          /\ job'[s].pc \in PastLastWrite => Terminal(analysis'[job[s].event])
      BY <1>1, WorkGoesOn
    <2>2. OwesAnalysis(s)'
      BY <2>1 DEF OwesAnalysis, Terminal
    <2>3. ASSUME NEW e \in Events, Delivered(e) PROVE Delivered(e)'
      <3>1. CASE e = job[s].event
        BY <2>1, <3>1, InItsHands DEF Delivered
      <3>2. CASE e # job[s].event
        <4>1. InHand(e) => InHand(e)'
          BY <2>1, <3>2, InItsHands
        <4> QED
          BY <2>1, <2>3, <3>2, <4>1 DEF Delivered, Terminal
      <3> QED
        BY <3>1, <3>2
    <2> QED
      BY <2>2, <2>3
  \* It lets go of a message only when it acknowledges it, and the analysis is final by then.
  <1>2. CASE WorkStep(s) /\ job[s].pc = "ack"
    <2>1. job' = [job EXCEPT ![s] = Idle] /\ UNCHANGED <<analysis, queue, held, subConn>>
      BY <1>2 DEF WorkStep, Ack, SetProcessed, SetInProgress, Invalidate, AfterInvalidate, Fetch,
                  FetchPageFails, SetFailed, CheckDuplicate, Analyze, SaveResults, ReadBack,
                  RefreshCache, SetCompleted, JobAt
    <2>2. job'[s].pc = "idle"
      BY <2>1 DEF SubTypeOK, Idle
    <2>3. Terminal(analysis[job[s].event])
      BY <1>2 DEF OwesAnalysis, PastLastWrite
    <2>4. \A e : InHand(e) => InHand(e)' \/ e = job[s].event
      BY <2>1, InItsHands
    <2>5. OwesAnalysis(s)'
      BY <2>1, <2>2 DEF OwesAnalysis, PastLastWrite
    <2>6. \A e \in Events : Delivered(e) => Delivered(e)'
      BY <2>1, <2>3, <2>4 DEF Delivered, Terminal
    <2> QED
      BY <2>5, <2>6
  <1>3. CASE Deliver(s) \/ Receive(s) \/ LoseSubConnection(s) \/ SubExit(s) \/ SubRestart(s)
    <2>1. (\A e \in Events : InHand(e) => InHand(e)') /\ OwesAnalysis(s)'
      BY <1>3, ProcessKeepsHand
    <2>2. UNCHANGED analysis
      BY <1>3, ProcessEffects DEF ProcessStep
    <2> QED
      BY <2>1, <2>2 DEF Delivered, Terminal
  <1> QED
    BY <1>1, <1>2, <1>3 DEF SubReliable, SubCrashes

LEMMA DeliveryInvKept ==
  ASSUME OneSubscriber, DeliveryInv, [RecoveringStep]_vars
  PROVE  DeliveryInv'
  <1>1. PICK s : Subscribers = {s}
    BY DEF OneSubscriber
  <1>2. /\ s \in Subscribers /\ (\A t \in Subscribers : t = s)
        /\ Base /\ TypeOK /\ PubTypeOK /\ SubTypeOK /\ Claims /\ FailedWasRetried
        /\ SubmittedTogether /\ OwesAnalysis(s)
    BY <1>1 DEF DeliveryInv, Base, TypeOK
  <1>3. Base'
    <2>1. [Next]_vars
      BY DEF RecoveringStep, Next, ReliableNext, Faults, PublisherDoes, SubscriberDoes, SubFaults,
             PubNext
    <2> QED
      BY <1>2, <2>1, BaseStep
  <1>4. \A w \in Workers : EventOf(w) \in Events
    BY WorkerParts
  \* Whatever leaves the messages in hand and the marks alone.
  <1>5. ASSUME OwesAnalysis(s)', \A e \in Events : Delivered(e) => Delivered(e)',
               UNCHANGED task,
               \A e \in Events : outbox'[e].status = "published" => outbox[e].status = "published"
        PROVE  DeliveryInv'
    BY <1>2, <1>3, <1>4, <1>5 DEF DeliveryInv, SentNotLost, PublishedNotLost
  <1>6. CASE PubNext /\ UNCHANGED <<analysis, cache, subLocal, call>>
    <2>0. UNCHANGED <<analysis, held, job, subConn>> /\ [PubStep]_pubVars
      BY <1>6 DEF subLocal, PubStep
    <2>1. \A e \in Events : queue[e] > 0 => queue'[e] > 0
      BY <1>2, <2>0, SentEffects
    <2>2. \A e \in Events : Delivered(e) => Delivered(e)'
      BY <1>1, <2>0, <2>1, InItsHands DEF Delivered, Terminal
    <2>3. \A e \in Events : queue'[e] > 0 => Delivered(e)'
      BY <1>1, InItsHands DEF Delivered
    <2>4. SentNotLost'
      BY <1>2, <1>4, <2>0, <2>2, <2>3, SentEffects DEF DeliveryInv, SentNotLost
    <2>5. PublishedNotLost'
      BY <1>2, <2>0, <2>2, SentEffects DEF DeliveryInv, SentNotLost, PublishedNotLost
    <2>6. OwesAnalysis(s)'
      <3>1. held[s] \subseteq Events /\ (job[s].pc # "idle" => job[s].event \in Events)
        BY <1>2, HasMessage DEF SubTypeOK
      <3> QED
        BY <1>2, <2>0, <2>1, <3>1 DEF OwesAnalysis, Terminal
    <2> QED
      BY <1>2, <1>3, <2>4, <2>5, <2>6 DEF DeliveryInv
  <1>7. CASE /\ SubReliable \/ SubCrashes \/ LoseSubConnection(s) \/ CacheFails(s)
             /\ UNCHANGED <<pubLocal, call>>
    <2>1. OwesAnalysis(s)' /\ \A e \in Events : Delivered(e) => Delivered(e)'
      BY <1>1, <1>2, <1>7, SubscriberDelivers
    <2>2. \A e \in Events : outbox'[e].status = outbox[e].status
      BY <1>2, <1>7, SubscriberEffects DEF SubNext, SubFaults, StampsWritten
    <2> QED
      BY <1>5, <1>7, <2>1, <2>2 DEF pubLocal
  <1>8. CASE ApiDoes(ApiReliable \/ ApiFaults)
    <2>0. UNCHANGED <<queue, held, job, subConn, task>>
      BY <1>8 DEF ApiDoes, pubLocal, subLocal
    <2>1. CASE UNCHANGED <<outbox, analysis>>
      BY <1>2, <1>5, <2>0, <2>1 DEF OwesAnalysis, Delivered, InHand, Terminal
    <2>2. ASSUME NEW e \in Events, Submit(e), analysis[e] = NoAnalysis,
                 analysis' = [analysis EXCEPT ![e] = SaveAnalysisInTx(NoAnalysis)]
          PROVE  DeliveryInv'
      <3>1. /\ \A f \in Events : f # e => analysis'[f] = analysis[f]
            /\ ~ Terminal(analysis[e])
        BY <1>2, <2>2 DEF SubTypeOK, StoreTypeOK, Terminal, NoAnalysis
      <3>2. \A f \in Events : Terminal(analysis[f]) => Terminal(analysis'[f])
        BY <3>1 DEF Terminal
      <3>3. \A f \in Events : Delivered(f) => Delivered(f)'
        BY <2>0, <3>2 DEF Delivered, InHand, Terminal
      <3>4. \A f \in Events : outbox'[f].status = "published" => outbox[f].status = "published"
        <4>1. outbox[e] \in Row /\ outbox' = [outbox EXCEPT ![e] = SaveInTx(outbox[e])]
          BY <1>2, <2>2 DEF Submit, PubTypeOK, OutboxTypeOK
        <4> QED
          BY <1>2, <4>1, OneRowWritten, StatementEffects DEF PubTypeOK
      <3>5. OwesAnalysis(s)'
        <4>1. job[s].pc # "idle" => job[s].event \in Events
          BY <1>2, HasMessage
        <4>2. "idle" \notin PastLastWrite
          BY DEF PastLastWrite
        <4> QED
          BY <1>2, <2>0, <3>2, <4>1, <4>2 DEF OwesAnalysis, Terminal
      <3> QED
        BY <1>5, <2>0, <3>3, <3>4, <3>5
    <2> QED
      BY <1>2, <1>8, <2>1, <2>2, ApiSubmits
  <1>9. CASE CacheExpires \/ UNCHANGED vars
    <2>1. UNCHANGED <<outbox, analysis, queue, held, job, subConn, task>>
      BY <1>9 DEF CacheExpires, vars, pubLocal, subLocal
    <2> QED
      BY <1>2, <1>5, <2>1 DEF OwesAnalysis, Delivered, InHand, Terminal
  <1> QED
    BY <1>2, <1>6, <1>7, <1>8, <1>9 DEF RecoveringStep, PublisherDoes, SubscriberDoes

\* With one subscriber whose statements succeed, published means delivered: whoever crashes, is
\* disconnected or gets no answer, an event that is marked published is finished or its message
\* is still going to be worked off.
THEOREM PublishedIsDelivered == ASSUME OneSubscriber PROVE RecoveringSpec => []PublishedNotLost
  <1>1. DeliveryInv => PublishedNotLost
    BY DEF DeliveryInv
  <1>2. DeliveryInv /\ [RecoveringStep]_vars => DeliveryInv'
    BY DeliveryInvKept
  <1> QED
    BY <1>1, <1>2, DeliveryInit, PTL DEF RecoveringSpec
=============================================================================
