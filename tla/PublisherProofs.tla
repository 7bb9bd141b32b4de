-------------------------- MODULE PublisherProofs ---------------------------
(***************************************************************************)
(* Proofs about Publisher, for any sets of events and publishers, any      *)
(* batch size and any retry limit: type correctness, the exclusive claim,  *)
(* the retry bound, that nothing is marked published unsent, and that the  *)
(* publisher implements the lifecycle of domain.OutboxEvent.               *)
(***************************************************************************)
EXTENDS Publisher, TLAPS

PubStep == PubNext \/ \E e \in Events : Submit(e)

\* What ties a goroutine that is about to mark its row published to the broker.
SentBeforeMark ==
  \A w \in Workers : task[w].pc = "mark_published" => queue[EventOf(w)] > 0

\* The inductive invariant.  ExclusiveClaim is what makes RetriesBounded inductive: the
\* count handlePublishFailure compares with the limit is still the row's.
Claims == ExclusiveClaim /\ RetriesBounded

PubInv ==
  /\ PubTypeOK
  /\ ExclusiveClaim
  /\ RetriesBounded
  /\ PublishedWasSent
  /\ SentBeforeMark

-----------------------------------------------------------------------------
(* The statements of the repository                                        *)

\* A statement turns a row into a row.
LEMMA StatementTypes ==
  ASSUME NEW r \in Row
  PROVE  /\ SaveInTx(r) \in Row
         /\ ClaimForProcessing(r) \in Row
         /\ MarkPublished(r) \in Row
         /\ MarkFailed(r) \in Row
         /\ MarkPermanentlyFailed(r) \in Row
         /\ [r EXCEPT !.nextRetryAt = "past"] \in Row
  <1> USE DEF Row, Status, RetryTime, Stamp
  <1>1. SaveInTx(r) \in Row
    BY DEF SaveInTx
  <1>2. ClaimForProcessing(r) \in Row
    BY DEF ClaimForProcessing
  <1>3. MarkPublished(r) \in Row
    BY DEF MarkPublished
  <1>4. MarkFailed(r) \in Row
    <2>1. r.retryCount + 1 \in Nat
      OBVIOUS
    <2> QED
      BY <2>1 DEF MarkFailed
  <1>5. MarkPermanentlyFailed(r) \in Row
    BY DEF MarkPermanentlyFailed
  <1>6. [r EXCEPT !.nextRetryAt = "past"] \in Row
    OBVIOUS
  <1> QED
    BY <1>1, <1>2, <1>3, <1>4, <1>5, <1>6

\* What each statement does to the two columns the lifecycle is about.
LEMMA StatementEffects ==
  ASSUME NEW r \in Row
  PROVE  /\ SaveInTx(r).status = "pending" /\ SaveInTx(r).retryCount = r.retryCount
         /\ ClaimForProcessing(r).status = "processing"
         /\ ClaimForProcessing(r).retryCount = r.retryCount
         /\ MarkPublished(r).status = "published"
         /\ MarkPublished(r).retryCount = r.retryCount
         /\ MarkFailed(r).status = "failed"
         /\ MarkFailed(r).retryCount = r.retryCount + 1
         /\ MarkPermanentlyFailed(r).status = "failed"
         /\ MarkPermanentlyFailed(r).retryCount = r.retryCount
         /\ [r EXCEPT !.nextRetryAt = "past"].status = r.status
         /\ [r EXCEPT !.nextRetryAt = "past"].retryCount = r.retryCount
  BY DEF Row, SaveInTx, ClaimForProcessing, MarkPublished, MarkFailed, MarkPermanentlyFailed

\* Handling a failure keeps a row a row, fails it, and never passes the limit.
LEMMA FailureRowEffects ==
  ASSUME NEW r \in Row, r.retryCount <= MaxRetries
  PROVE  /\ FailureRow(r, r.retryCount) \in Row
         /\ FailureRow(r, r.retryCount).status = "failed"
         /\ FailureRow(r, r.retryCount).retryCount
              = IF r.retryCount >= MaxRetries THEN r.retryCount ELSE r.retryCount + 1
         /\ FailureRow(r, r.retryCount).retryCount <= MaxRetries
  <1>1. r.retryCount \in Nat
    BY DEF Row
  <1>2. CASE r.retryCount >= MaxRetries
    BY <1>1, <1>2, StatementTypes, StatementEffects DEF FailureRow
  <1>3. CASE ~ (r.retryCount >= MaxRetries)
    <2>1. FailureRow(r, r.retryCount) = MarkFailed(r)
      BY <1>3 DEF FailureRow
    <2>2. r.retryCount + 1 <= MaxRetries
      BY <1>1, <1>3, MaxRetriesAssumption
    <2>3. /\ MarkFailed(r) \in Row
          /\ MarkFailed(r).status = "failed"
          /\ MarkFailed(r).retryCount = r.retryCount + 1
      BY StatementTypes, StatementEffects
    <2> QED
      BY <1>3, <2>1, <2>2, <2>3
  <1> QED
    BY <1>2, <1>3

\* A worker is a publisher, a kind and an event.
LEMMA WorkerParts ==
  ASSUME NEW w \in Workers
  PROVE  PubOf(w) \in Publishers /\ EventOf(w) \in Events
  BY DEF Workers, PubOf, EventOf

-----------------------------------------------------------------------------
(* Type correctness                                                        *)

\* The publisher starts well typed.
LEMMA TypeInit == PubInit => PubTypeOK
  BY DEF PubInit, BrokerInit, BrokerTypeOK, PubTypeOK, OutboxTypeOK, Absent, Row, Status, RetryTime, NoTask, Task

\* Every step of PublishEvent, of the loop and of the process keeps the types.
LEMMA TypeStep == PubTypeOK /\ [PubStep]_pubVars => PubTypeOK'
  <1> SUFFICES ASSUME PubTypeOK, [PubStep]_pubVars PROVE PubTypeOK'
    OBVIOUS
  <1> USE DEF PubTypeOK, OutboxTypeOK, BrokerTypeOK
  <1>1. ASSUME NEW e \in Events, BackoffElapses(e) PROVE PubTypeOK'
    BY <1>1, StatementTypes DEF BackoffElapses, RetryDue
  <1>2. ASSUME NEW p \in Publishers, Tick(p) PROVE PubTypeOK'
    BY <1>2 DEF Tick
  <1>3. ASSUME NEW p \in Publishers, NEW kind \in Kinds, FetchEvents(p, kind)
        PROVE PubTypeOK'
    <2>1. PICK batch \in Batches(Find(kind)) :
            task' = [w \in Workers |->
                       IF w[1] = p /\ w[2] = kind /\ w[3] \in batch
                       THEN [pc |-> "claim", retryCount |-> 0] ELSE task[w]]
      BY <1>3 DEF FetchEvents
    <2>2. task' \in [Workers -> Task]
      BY <2>1 DEF Task
    <2> QED
      BY <1>3, <2>2 DEF FetchEvents
  <1>4. ASSUME NEW p \in Publishers, NEW kind \in Kinds, FetchFails(p, kind)
        PROVE PubTypeOK'
    BY <1>4 DEF FetchFails
  <1>5. ASSUME NEW w \in Workers, Claim(w) PROVE PubTypeOK'
    <2> DEFINE r == outbox[EventOf(w)]
    <2>1. r \in Row /\ r.retryCount \in Nat
      BY WorkerParts DEF Row
    <2>2. outbox' \in [Events -> Row]
      BY <1>5, <2>1, StatementTypes, WorkerParts DEF Claim
    <2>3. task' \in [Workers -> Task]
      BY <1>5, <2>1 DEF Claim, TaskReturn, NoTask, Task
    <2> QED
      BY <1>5, <2>2, <2>3 DEF Claim
  <1>6. ASSUME NEW w \in Workers, ClaimAnswerLost(w) PROVE PubTypeOK'
    BY <1>6, StatementTypes, WorkerParts DEF ClaimAnswerLost, TaskReturn, NoTask, Task
  <1>7. ASSUME NEW w \in Workers, Publish(w) PROVE PubTypeOK'
    BY <1>7, WorkerParts DEF Publish, Enqueue, TaskGoto, Task
  <1>8. ASSUME NEW w \in Workers, PublishFails(w) PROVE PubTypeOK'
    BY <1>8, WorkerParts DEF PublishFails, Enqueue, TaskGoto, Task
  <1>9. ASSUME NEW w \in Workers, SetPublished(w) PROVE PubTypeOK'
    BY <1>9, StatementTypes, WorkerParts DEF SetPublished, TaskReturn, NoTask, Task
  <1>10. ASSUME NEW w \in Workers, HandlePublishFailure(w) PROVE PubTypeOK'
    BY <1>10, StatementTypes, WorkerParts
       DEF HandlePublishFailure, FailureRow, TaskReturn, NoTask, Task
  <1>11. ASSUME NEW w \in Workers, DbFails(w) PROVE PubTypeOK'
    BY <1>11 DEF DbFails, TaskReturn, NoTask, Task
  <1>12. ASSUME NEW p \in Publishers, Shutdown(p) \/ LoseConnection(p) \/ Restart(p)
         PROVE PubTypeOK'
    BY <1>12 DEF Shutdown, LoseConnection, Restart
  <1>13. ASSUME NEW p \in Publishers, Exit(p) PROVE PubTypeOK'
    BY <1>13 DEF Exit, NoTask, Task
  <1>14. ASSUME NEW e \in Events, Submit(e) PROVE PubTypeOK'
    BY <1>14, StatementTypes DEF Submit
  <1>15. CASE UNCHANGED pubVars
    BY <1>15 DEF pubVars
  <1> QED
    BY <1>1, <1>2, <1>3, <1>4, <1>5, <1>6, <1>7, <1>8, <1>9, <1>10, <1>11, <1>12, <1>13,
       <1>14, <1>15
       DEF PubStep, PubNext, PubReliable, PubProcess, PubDbFaults, WorkerStep

\* Every variable of the publisher keeps its type, whatever fails.
THEOREM TypeCorrect == PubSpec => []PubTypeOK
  BY TypeInit, TypeStep, PTL DEF PubSpec, PubStep

-----------------------------------------------------------------------------
(* The exclusive claim and the bounds                                      *)

\* Before anything is submitted nobody owns a row and nothing is published.
LEMMA InvInit == PubInit => PubInv
  <1> SUFFICES ASSUME PubInit PROVE PubInv
    OBVIOUS
  <1>1. PubTypeOK
    BY TypeInit
  <1>2. \A w \in Workers : task[w].pc = "none"
    BY DEF PubInit, NoTask
  <1>3. \A e \in Events : outbox[e].status = "absent" /\ outbox[e].retryCount = 0
    BY DEF PubInit, Absent
  <1> QED
    BY <1>1, <1>2, <1>3, MaxRetriesAssumption
       DEF PubInv, ExclusiveClaim, RetriesBounded, PublishedWasSent, SentBeforeMark, Owns

\* Every step keeps the claims and the counts, whatever becomes of the messages: one case per
\* action.
LEMMA ClaimsStep ==
  ASSUME PubTypeOK, Claims, [PubStep]_pubVars
  PROVE  Claims'
  <1>0. PubTypeOK /\ PubTypeOK'
    BY TypeStep
  <1>r. \A e \in Events : outbox[e] \in Row /\ outbox[e].retryCount \in Nat
    BY <1>0 DEF PubTypeOK, OutboxTypeOK, Row
  <1>t. \A w \in Workers : task[w] \in Task
    BY <1>0 DEF PubTypeOK
  <1> USE DEF Claims, ExclusiveClaim, RetriesBounded, Owns
  <1>1. ASSUME NEW e \in Events, BackoffElapses(e) PROVE Claims'
    <2>1. \A f \in Events : /\ outbox'[f].status = outbox[f].status
                            /\ outbox'[f].retryCount = outbox[f].retryCount
      BY <1>1, <1>r, <1>0, StatementEffects DEF BackoffElapses, RetryDue, PubTypeOK, OutboxTypeOK
    <2> QED
      BY <1>1, <2>1, WorkerParts DEF BackoffElapses
  <1>2. ASSUME NEW p \in Publishers, Tick(p) PROVE Claims'
    BY <1>2 DEF Tick
  <1>3. ASSUME NEW p \in Publishers, NEW kind \in Kinds, FetchEvents(p, kind) PROVE Claims'
    <2>1. \A w \in Workers : task'[w] = task[w] \/ task'[w].pc = "claim"
      BY <1>3 DEF FetchEvents
    <2> QED
      BY <1>3, <2>1 DEF FetchEvents
  <1>4. ASSUME NEW p \in Publishers, NEW kind \in Kinds, FetchFails(p, kind) PROVE Claims'
    BY <1>4 DEF FetchFails
  <1>5. ASSUME NEW w \in Workers, Claim(w) PROVE Claims'
    <2> DEFINE e == EventOf(w)
    <2>1. e \in Events /\ outbox[e] \in Row
      BY <1>r, WorkerParts
    <2>2. CASE Claimable(outbox[e])
      <3>1. /\ outbox' = [outbox EXCEPT ![e] = ClaimForProcessing(outbox[e])]
            /\ task' = [task EXCEPT ![w] = [pc |-> "publish",
                                            retryCount |-> outbox[e].retryCount]]
        BY <1>5, <2>2 DEF Claim
      <3>2. \A v \in Workers : Owns(v) => EventOf(v) # e
        BY <2>2, WorkerParts DEF Claimable
      <3>3. /\ outbox'[e].status = "processing"
            /\ outbox'[e].retryCount = outbox[e].retryCount
            /\ \A f \in Events : f # e => outbox'[f] = outbox[f]
        BY <1>0, <2>1, <3>1, StatementEffects DEF PubTypeOK, OutboxTypeOK
      <3>4. /\ task'[w].pc = "publish" /\ task'[w].retryCount = outbox[e].retryCount
            /\ \A v \in Workers : v # w => task'[v] = task[v]
        BY <1>0, <3>1 DEF PubTypeOK
      <3>5. ExclusiveClaim'
        BY <3>2, <3>3, <3>4, WorkerParts
      <3> QED
        BY <3>1, <3>3, <3>4, <3>5, WorkerParts
    <2>3. CASE ~ Claimable(outbox[e])
      <3>1. outbox' = outbox /\ task' = [task EXCEPT ![w] = NoTask]
        BY <1>5, <2>3 DEF Claim, TaskReturn
      <3>2. /\ task'[w].pc = "none"
            /\ \A v \in Workers : v # w => task'[v] = task[v]
        BY <1>0, <3>1 DEF PubTypeOK, NoTask
      <3> QED
        BY <3>1, <3>2
    <2> QED
      BY <2>2, <2>3
  <1>6. ASSUME NEW w \in Workers, ClaimAnswerLost(w) PROVE Claims'
    <2> DEFINE e == EventOf(w)
    <2>1. e \in Events /\ outbox[e] \in Row
      BY <1>r, WorkerParts
    <2>2. \A v \in Workers : Owns(v) => EventOf(v) # e
      BY <1>6, WorkerParts DEF Claimable, ClaimAnswerLost
    <2>3. /\ outbox'[e].status = "processing"
          /\ outbox'[e].retryCount = outbox[e].retryCount
          /\ \A f \in Events : f # e => outbox'[f] = outbox[f]
      BY <1>0, <1>6, <2>1, StatementEffects DEF ClaimAnswerLost, PubTypeOK, OutboxTypeOK
    <2>4. /\ task'[w].pc = "none" /\ \A v \in Workers : v # w => task'[v] = task[v]
      BY <1>0, <1>6 DEF ClaimAnswerLost, TaskReturn, PubTypeOK, NoTask
    <2> QED
      BY <2>2, <2>3, <2>4, WorkerParts
  <1>7. ASSUME NEW w \in Workers, Publish(w) PROVE Claims'
    <2>1. /\ task'[w].pc = "mark_published" /\ task'[w].retryCount = task[w].retryCount
          /\ \A v \in Workers : v # w => task'[v] = task[v]
          /\ Owns(w)
      BY <1>0, <1>t, <1>7 DEF Publish, Enqueue, TaskGoto, TaskAt, PubTypeOK, Task
    <2>2. outbox' = outbox
      BY <1>7 DEF Publish
    <2> QED
      BY <2>1, <2>2, WorkerParts
  <1>8. ASSUME NEW w \in Workers, PublishFails(w) PROVE Claims'
    <2>1. /\ task'[w].pc = "handle_failure" /\ task'[w].retryCount = task[w].retryCount
          /\ \A v \in Workers : v # w => task'[v] = task[v]
          /\ Owns(w)
      BY <1>0, <1>t, <1>8 DEF PublishFails, Enqueue, TaskGoto, TaskAt, PubTypeOK, Task
    <2>2. outbox' = outbox
      BY <1>8 DEF PublishFails
    <2> QED
      BY <2>1, <2>2, WorkerParts
  <1>9. ASSUME NEW w \in Workers, SetPublished(w) PROVE Claims'
    <2> DEFINE e == EventOf(w)
    <2>1. e \in Events /\ outbox[e] \in Row
      BY <1>r, WorkerParts
    <2>2. task[w].pc = "mark_published"
      BY <1>9 DEF SetPublished, TaskAt
    <2>3. /\ outbox'[e].status = "published"
          /\ outbox'[e].retryCount = outbox[e].retryCount
          /\ \A f \in Events : f # e => outbox'[f] = outbox[f]
      BY <1>0, <1>9, <2>1, StatementEffects DEF SetPublished, PubTypeOK, OutboxTypeOK
    <2>4. /\ task'[w].pc = "none" /\ \A v \in Workers : v # w => task'[v] = task[v]
      BY <1>0, <1>9 DEF SetPublished, TaskReturn, PubTypeOK, NoTask
    <2>5. \A v \in Workers : v # w /\ Owns(v) => EventOf(v) # e
      BY <2>2
    <2> QED
      BY <2>1, <2>3, <2>4, <2>5, WorkerParts
  <1>10. ASSUME NEW w \in Workers, HandlePublishFailure(w) PROVE Claims'
    <2> DEFINE e == EventOf(w)
    <2>1. e \in Events /\ outbox[e] \in Row /\ outbox[e].retryCount <= MaxRetries
      BY <1>r, WorkerParts
    <2>2. task[w].pc = "handle_failure" /\ task[w].retryCount = outbox[e].retryCount
      BY <1>10 DEF HandlePublishFailure, TaskAt
    <2>3. outbox' = [outbox EXCEPT ![e] = FailureRow(outbox[e], outbox[e].retryCount)]
      BY <1>10, <2>2 DEF HandlePublishFailure
    <2>4. /\ outbox'[e].status = "failed"
          /\ outbox'[e].retryCount <= MaxRetries
          /\ \A f \in Events : f # e => outbox'[f] = outbox[f]
      BY <1>0, <2>1, <2>3, FailureRowEffects DEF PubTypeOK, OutboxTypeOK
    <2>5. /\ task'[w].pc = "none" /\ \A v \in Workers : v # w => task'[v] = task[v]
      BY <1>0, <1>10 DEF HandlePublishFailure, TaskReturn, PubTypeOK, NoTask
    <2>6. \A v \in Workers : v # w /\ Owns(v) => EventOf(v) # e
      BY <2>2
    <2> QED
      BY <2>1, <2>4, <2>5, <2>6, WorkerParts
  <1>11. ASSUME NEW w \in Workers, DbFails(w) PROVE Claims'
    <2>1. /\ task'[w].pc = "none" /\ \A v \in Workers : v # w => task'[v] = task[v]
          /\ outbox' = outbox
      BY <1>0, <1>11 DEF DbFails, TaskReturn, PubTypeOK, NoTask
    <2> QED
      BY <2>1
  <1>12. ASSUME NEW p \in Publishers, Shutdown(p) \/ LoseConnection(p) \/ Restart(p)
         PROVE Claims'
    BY <1>12 DEF Shutdown, LoseConnection, Restart
  <1>13. ASSUME NEW p \in Publishers, Exit(p) PROVE Claims'
    <2>1. \A v \in Workers : task'[v] = task[v] \/ task'[v].pc = "none"
      BY <1>13 DEF Exit, NoTask
    <2> QED
      BY <1>13, <2>1 DEF Exit
  <1>14. ASSUME NEW e \in Events, Submit(e) PROVE Claims'
    <2>1. /\ outbox[e].status = "absent" /\ outbox'[e].status = "pending"
          /\ outbox'[e].retryCount = outbox[e].retryCount
          /\ \A f \in Events : f # e => outbox'[f] = outbox[f]
      BY <1>0, <1>r, <1>14, StatementEffects DEF Submit, PubTypeOK, OutboxTypeOK
    <2>2. \A v \in Workers : Owns(v) => EventOf(v) # e
      BY <2>1, WorkerParts
    <2> QED
      BY <1>14, <2>1, <2>2, WorkerParts DEF Submit
  <1>15. CASE UNCHANGED pubVars
    BY <1>15 DEF pubVars
  <1> QED
    BY <1>1, <1>2, <1>3, <1>4, <1>5, <1>6, <1>7, <1>8, <1>9, <1>10, <1>11, <1>12, <1>13,
       <1>14, <1>15
       DEF PubStep, PubNext, PubReliable, PubProcess, PubDbFaults, WorkerStep

\* A message that was written stays written, a goroutine goes on to mark only what it has sent, and
\* nobody else marks a row published.
LEMMA SentEffects ==
  ASSUME PubTypeOK, [PubStep]_pubVars
  PROVE  /\ \A e \in Events : queue[e] > 0 => queue'[e] > 0
         /\ \A w \in Workers : task'[w].pc = "mark_published" =>
              task[w].pc = "mark_published" \/ queue'[EventOf(w)] > 0
         /\ \A e \in Events : outbox'[e].status = "published" =>
              \/ outbox[e].status = "published"
              \/ \E w \in Workers : EventOf(w) = e /\ task[w].pc = "mark_published"
  <1>0. PubTypeOK /\ \A e \in Events : outbox[e] \in Row /\ queue[e] \in Nat
    BY DEF PubTypeOK, OutboxTypeOK, BrokerTypeOK
  <1>1. /\ \A e \in Events : queue[e] > 0 => queue'[e] > 0
        /\ \A w \in Workers : task'[w].pc = "mark_published" =>
             task[w].pc = "mark_published" \/ queue'[EventOf(w)] > 0
    <2> DEFINE Goal == /\ \A e \in Events : queue[e] > 0 => queue'[e] > 0
                       /\ \A w \in Workers : task'[w].pc = "mark_published" =>
                            task[w].pc = "mark_published" \/ queue'[EventOf(w)] > 0
    <2>1. ASSUME NEW w \in Workers, Publish(w) \/ PublishFails(w) PROVE Goal
      <3>1. /\ EventOf(w) \in Events
            /\ queue' = queue \/ queue' = [queue EXCEPT ![EventOf(w)] = queue[EventOf(w)] + 1]
            /\ Publish(w) => queue' = [queue EXCEPT ![EventOf(w)] = queue[EventOf(w)] + 1]
        BY <2>1, WorkerParts DEF Publish, PublishFails, Enqueue
      <3>2. /\ \A e \in Events : queue[e] > 0 => queue'[e] > 0
            /\ Publish(w) => queue'[EventOf(w)] > 0
        BY <1>0, <3>1 DEF PubTypeOK, BrokerTypeOK
      <3>3. /\ \A v \in Workers : v # w => task'[v] = task[v]
            /\ PublishFails(w) => task'[w].pc = "handle_failure"
        BY <1>0, <2>1 DEF Publish, PublishFails, TaskGoto, PubTypeOK, Task
      <3> QED
        BY <2>1, <3>2, <3>3
    <2>3. ASSUME NEW w \in Workers,
                 Claim(w) \/ ClaimAnswerLost(w) \/ SetPublished(w) \/ HandlePublishFailure(w) \/ DbFails(w)
          PROVE  Goal
      BY <1>0, <2>3 DEF Claim, ClaimAnswerLost, SetPublished, HandlePublishFailure, DbFails, TaskReturn,
                        NoTask, PubTypeOK, Task
    <2>4. ASSUME NEW p \in Publishers,
                 \/ Tick(p) \/ LoseConnection(p) \/ Shutdown(p) \/ Exit(p) \/ Restart(p)
                 \/ \E kind \in Kinds : FetchEvents(p, kind) \/ FetchFails(p, kind)
          PROVE  Goal
      BY <2>4 DEF Tick, LoseConnection, Shutdown, Exit, Restart, FetchEvents, FetchFails, NoTask
    <2>5. ASSUME NEW e \in Events, BackoffElapses(e) \/ Submit(e) PROVE Goal
      BY <2>5 DEF BackoffElapses, Submit
    <2>6. CASE UNCHANGED pubVars
      BY <2>6 DEF pubVars
    <2> QED
      BY <2>1, <2>3, <2>4, <2>5, <2>6
         DEF PubStep, PubNext, PubReliable, PubProcess, PubDbFaults, WorkerStep
  <1>2. \A e \in Events : outbox'[e].status = "published" =>
          \/ outbox[e].status = "published"
          \/ \E w \in Workers : EventOf(w) = e /\ task[w].pc = "mark_published"
    <2> DEFINE Goal == \A e \in Events : outbox'[e].status = "published" =>
                         \/ outbox[e].status = "published"
                         \/ \E w \in Workers : EventOf(w) = e /\ task[w].pc = "mark_published"
    <2>1. ASSUME NEW w \in Workers, SetPublished(w) PROVE Goal
      <3>1. task[w].pc = "mark_published"
        BY <2>1 DEF SetPublished, TaskAt
      <3>2. \A e \in Events : e # EventOf(w) => outbox'[e] = outbox[e]
        BY <1>0, <2>1 DEF SetPublished, PubTypeOK, OutboxTypeOK
      <3> QED
        BY <3>1, <3>2
    <2>2. ASSUME NEW w \in Workers, Claim(w) \/ ClaimAnswerLost(w) PROVE Goal
      BY <1>0, <2>2, WorkerParts, StatementEffects
         DEF Claim, ClaimAnswerLost, PubTypeOK, OutboxTypeOK
    <2>3. ASSUME NEW w \in Workers, HandlePublishFailure(w) PROVE Goal
      BY <1>0, <2>3, WorkerParts, StatementEffects
         DEF HandlePublishFailure, FailureRow, PubTypeOK, OutboxTypeOK
    <2>4. ASSUME NEW e \in Events, BackoffElapses(e) \/ Submit(e) PROVE Goal
      <3>1. CASE BackoffElapses(e)
        BY <1>0, <3>1 DEF BackoffElapses, RetryDue, PubTypeOK, OutboxTypeOK
      <3>2. CASE Submit(e)
        BY <1>0, <3>2, StatementEffects DEF Submit, PubTypeOK, OutboxTypeOK
      <3> QED
        BY <2>4, <3>1, <3>2
    <2>5. ASSUME NEW w \in Workers, Publish(w) \/ PublishFails(w) \/ DbFails(w) PROVE Goal
      BY <2>5 DEF Publish, PublishFails, DbFails
    <2>6. ASSUME NEW p \in Publishers,
                 \/ Tick(p) \/ LoseConnection(p) \/ Shutdown(p) \/ Exit(p) \/ Restart(p)
                 \/ \E kind \in Kinds : FetchEvents(p, kind) \/ FetchFails(p, kind)
          PROVE  Goal
      BY <2>6 DEF Tick, LoseConnection, Shutdown, Exit, Restart, FetchEvents, FetchFails
    <2>7. CASE UNCHANGED pubVars
      BY <2>7 DEF pubVars
    <2> QED
      BY <2>1, <2>2, <2>3, <2>4, <2>5, <2>6, <2>7
         DEF PubStep, PubNext, PubReliable, PubProcess, PubDbFaults, WorkerStep
  <1> QED
    BY <1>1, <1>2

\* What was marked was sent.
LEMMA SentStep ==
  ASSUME PubInv, [PubStep]_pubVars
  PROVE  PublishedWasSent' /\ SentBeforeMark'
  BY SentEffects, WorkerParts DEF PubInv, PublishedWasSent, SentBeforeMark

\* Every step keeps the inductive invariant.
LEMMA InvStep == PubInv /\ [PubStep]_pubVars => PubInv'
  BY TypeStep, ClaimsStep, SentStep DEF PubInv, Claims

\* The inductive invariant of the publisher: its claims, counts and marks stay consistent.
THEOREM Invariance == PubSpec => []PubInv
  BY InvInit, InvStep, PTL DEF PubSpec, PubStep

\* A claimed row belongs to one goroutine, for any number of publishers and any faults.
THEOREM ClaimIsExclusive == PubSpec => []ExclusiveClaim
  BY Invariance, PTL DEF PubInv

\* No row is retried beyond its limit, for any number of publishers and any faults.
THEOREM RetriesAreBounded == PubSpec => []RetriesBounded
  BY Invariance, PTL DEF PubInv

\* No row says published unless its message was handed to the broker.
THEOREM PublishedMeansSent == PubSpec => []PublishedWasSent
  BY Invariance, PTL DEF PubInv

-----------------------------------------------------------------------------
(* Refinement of the event's lifecycle                                     *)

\* What each statement does to a row as the lifecycle sees it.
LEMMA LifecycleEffects ==
  ASSUME NEW r \in Row
  PROVE  /\ LifecycleOf(SaveInTx(r)) = [LifecycleOf(r) EXCEPT !.status = "pending"]
         /\ LifecycleOf(ClaimForProcessing(r)) = [LifecycleOf(r) EXCEPT !.status = "processing"]
         /\ LifecycleOf(MarkPublished(r)) = [LifecycleOf(r) EXCEPT !.status = "published"]
         /\ LifecycleOf(MarkFailed(r))
              = [status |-> "failed", retryCount |-> r.retryCount + 1,
                 times |-> LifecycleOf(r).times]
         /\ LifecycleOf(MarkPermanentlyFailed(r)) = [LifecycleOf(r) EXCEPT !.status = "failed"]
         /\ LifecycleOf(MarkProcessed(r)) = [LifecycleOf(r) EXCEPT !.times = @ \cup {"processed_at"}]
         /\ LifecycleOf(MarkCompleted(r)) = [LifecycleOf(r) EXCEPT !.times = @ \cup {"completed_at"}]
         /\ LifecycleOf([r EXCEPT !.nextRetryAt = "past"]) = LifecycleOf(r)
  <1> USE DEF Row, LifecycleOf
  <1> DEFINE T == {"processed_at", "completed_at"}
  <1>0. ASSUME NEW x PROVE /\ x \notin T => (r.stamps \cup {x}) \cap T = r.stamps \cap T
                           /\ x \in T => (r.stamps \cup {x}) \cap T = (r.stamps \cap T) \cup {x}
    OBVIOUS
  <1>1. /\ LifecycleOf(SaveInTx(r)) = [LifecycleOf(r) EXCEPT !.status = "pending"]
        /\ LifecycleOf(MarkPermanentlyFailed(r)) = [LifecycleOf(r) EXCEPT !.status = "failed"]
        /\ LifecycleOf([r EXCEPT !.nextRetryAt = "past"]) = LifecycleOf(r)
    BY DEF SaveInTx, MarkPermanentlyFailed
  <1>2. LifecycleOf(MarkFailed(r))
          = [status |-> "failed", retryCount |-> r.retryCount + 1, times |-> LifecycleOf(r).times]
    <2>1. /\ MarkFailed(r).status = "failed" /\ MarkFailed(r).retryCount = r.retryCount + 1
          /\ MarkFailed(r).stamps = r.stamps
      BY StatementEffects DEF MarkFailed
    <2> QED
      BY <2>1
  <1>3. LifecycleOf(ClaimForProcessing(r)) = [LifecycleOf(r) EXCEPT !.status = "processing"]
    <2>1. (r.stamps \cup {"started_at"}) \cap T = r.stamps \cap T
      BY <1>0
    <2>2. /\ ClaimForProcessing(r).status = "processing" /\ ClaimForProcessing(r).retryCount = r.retryCount
          /\ ClaimForProcessing(r).stamps = r.stamps \cup {"started_at"}
      BY DEF ClaimForProcessing
    <2> QED
      BY <2>1, <2>2
  <1>4. LifecycleOf(MarkPublished(r)) = [LifecycleOf(r) EXCEPT !.status = "published"]
    <2>1. (r.stamps \cup {"published_at"}) \cap T = r.stamps \cap T
      BY <1>0
    <2>2. /\ MarkPublished(r).status = "published" /\ MarkPublished(r).retryCount = r.retryCount
          /\ MarkPublished(r).stamps = r.stamps \cup {"published_at"}
      BY DEF MarkPublished
    <2> QED
      BY <2>1, <2>2
  <1>5. LifecycleOf(MarkProcessed(r)) = [LifecycleOf(r) EXCEPT !.times = @ \cup {"processed_at"}]
    BY <1>0 DEF MarkProcessed
  <1>6. LifecycleOf(MarkCompleted(r)) = [LifecycleOf(r) EXCEPT !.times = @ \cup {"completed_at"}]
    BY <1>0 DEF MarkCompleted
  <1> QED
    BY <1>1, <1>2, <1>3, <1>4, <1>5, <1>6

\* A step that changes one row maps to the abstract step of that row.
LEMMA OneRow ==
  ASSUME NEW e \in Events, NEW r, outbox \in [Events -> Row],
         outbox' = [outbox EXCEPT ![e] = r]
  PROVE  [f \in Events |-> LifecycleOf(outbox[f])]'
           = [[f \in Events |-> LifecycleOf(outbox[f])] EXCEPT ![e] = LifecycleOf(r)]
  BY DEF LifecycleOf

\* Under the claims, every step of the publisher is a transition of OutboxLifecycle, or none.
LEMMA LifecycleStep ==
  PubTypeOK /\ Claims /\ [PubStep]_pubVars
    => [Lifecycle!LifecycleNext]_([e \in Events |-> LifecycleOf(outbox[e])])
  <1> SUFFICES ASSUME PubTypeOK, Claims, [PubStep]_pubVars, outbox' # outbox
               PROVE  Lifecycle!LifecycleNext
                        \/ UNCHANGED [e \in Events |-> LifecycleOf(outbox[e])]
    OBVIOUS
  <1> DEFINE ev == [f \in Events |-> LifecycleOf(outbox[f])]
  <1>0. outbox \in [Events -> Row]
    BY DEF PubTypeOK, OutboxTypeOK
  <1>1. ASSUME NEW e \in Events, BackoffElapses(e) PROVE UNCHANGED ev
    <2>1. \A f \in Events : LifecycleOf(outbox'[f]) = LifecycleOf(outbox[f])
      BY <1>0, <1>1, LifecycleEffects DEF BackoffElapses, RetryDue
    <2> QED
      BY <2>1
  <1>2. ASSUME NEW w \in Workers, Claim(w) \/ ClaimAnswerLost(w)
        PROVE  Lifecycle!StartProcessing(EventOf(w))
    <2> DEFINE e == EventOf(w)
    <2>1. e \in Events /\ outbox[e] \in Row /\ Claimable(outbox[e])
      BY <1>0, <1>2, WorkerParts DEF Claim, ClaimAnswerLost
    <2>2. outbox' = [outbox EXCEPT ![e] = ClaimForProcessing(outbox[e])]
      BY <1>2, <2>1 DEF Claim, ClaimAnswerLost
    <2>3. LifecycleOf(ClaimForProcessing(outbox[e])) = [LifecycleOf(outbox[e]) EXCEPT !.status = "processing"]
      BY <2>1, LifecycleEffects
    <2>4. ev' = [ev EXCEPT ![e] = [LifecycleOf(outbox[e]) EXCEPT !.status = "processing"]]
      BY <1>0, <2>1, <2>2, <2>3, OneRow
    <2> QED
      BY <2>1, <2>4 DEF Lifecycle!StartProcessing, Claimable, LifecycleOf
  <1>3. ASSUME NEW w \in Workers, SetPublished(w) PROVE Lifecycle!MarkPublished(EventOf(w))
    <2> DEFINE e == EventOf(w)
    <2>1. e \in Events /\ outbox[e] \in Row /\ outbox[e].status = "processing"
      BY <1>0, <1>3, WorkerParts DEF SetPublished, TaskAt, Claims, ExclusiveClaim, Owns
    <2>2. outbox' = [outbox EXCEPT ![e] = MarkPublished(outbox[e])]
      BY <1>3 DEF SetPublished
    <2>3. LifecycleOf(MarkPublished(outbox[e])) = [LifecycleOf(outbox[e]) EXCEPT !.status = "published"]
      BY <2>1, LifecycleEffects
    <2>4. ev' = [ev EXCEPT ![e] = [LifecycleOf(outbox[e]) EXCEPT !.status = "published"]]
      BY <1>0, <2>1, <2>2, <2>3, OneRow
    <2> QED
      BY <2>1, <2>4 DEF Lifecycle!MarkPublished, LifecycleOf
  <1>4. ASSUME NEW w \in Workers, HandlePublishFailure(w)
        PROVE  Lifecycle!MarkFailed(EventOf(w)) \/ Lifecycle!FailPermanently(EventOf(w))
    <2> DEFINE e == EventOf(w)
    <2>1. /\ e \in Events /\ outbox[e] \in Row
          /\ outbox[e].status = "processing"
          /\ outbox[e].retryCount = task[w].retryCount
          /\ outbox[e].retryCount \in Nat
      BY <1>0, <1>4, WorkerParts
         DEF HandlePublishFailure, TaskAt, Claims, ExclusiveClaim, Owns, Row
    <2>2. outbox' = [outbox EXCEPT ![e] = FailureRow(outbox[e], outbox[e].retryCount)]
      BY <1>4, <2>1 DEF HandlePublishFailure
    <2>3. CASE outbox[e].retryCount >= MaxRetries
      <3>1. outbox' = [outbox EXCEPT ![e] = MarkPermanentlyFailed(outbox[e])]
        BY <2>2, <2>3 DEF FailureRow
      <3>2. LifecycleOf(MarkPermanentlyFailed(outbox[e])) = [LifecycleOf(outbox[e]) EXCEPT !.status = "failed"]
        BY <2>1, LifecycleEffects
      <3>3. ev' = [ev EXCEPT ![e] = [LifecycleOf(outbox[e]) EXCEPT !.status = "failed"]]
        BY <1>0, <2>1, <3>1, <3>2, OneRow
      <3>4. ~ (outbox[e].retryCount < MaxRetries)
        BY <2>1, <2>3, MaxRetriesAssumption
      <3> QED
        BY <2>1, <3>3, <3>4 DEF Lifecycle!FailPermanently, Lifecycle!CanRetry, LifecycleOf
    <2>4. CASE ~ (outbox[e].retryCount >= MaxRetries)
      <3>1. outbox' = [outbox EXCEPT ![e] = MarkFailed(outbox[e])]
        BY <2>2, <2>4 DEF FailureRow
      <3>2. LifecycleOf(MarkFailed(outbox[e]))
              = [status |-> "failed", retryCount |-> outbox[e].retryCount + 1,
                 times |-> LifecycleOf(outbox[e]).times]
        BY <2>1, LifecycleEffects
      <3>3. ev' = [ev EXCEPT ![e] =
                     [status |-> "failed", retryCount |-> outbox[e].retryCount + 1,
                      times |-> LifecycleOf(outbox[e]).times]]
        BY <1>0, <2>1, <3>1, <3>2, OneRow
      <3>4. outbox[e].retryCount < MaxRetries
        BY <2>1, <2>4, MaxRetriesAssumption
      <3> QED
        BY <2>1, <3>3, <3>4 DEF Lifecycle!MarkFailed, Lifecycle!CanRetry, LifecycleOf
    <2> QED
      BY <2>3, <2>4
  <1>5. ASSUME NEW e \in Events, Submit(e) PROVE Lifecycle!Save(e)
    <2>1. LifecycleOf(SaveInTx(outbox[e])) = [LifecycleOf(outbox[e]) EXCEPT !.status = "pending"]
      BY <1>0, LifecycleEffects
    <2>2. outbox' = [outbox EXCEPT ![e] = SaveInTx(outbox[e])]
      BY <1>5 DEF Submit
    <2>3. ev' = [ev EXCEPT ![e] = [LifecycleOf(outbox[e]) EXCEPT !.status = "pending"]]
      BY <1>0, <2>1, <2>2, OneRow
    <2> QED
      BY <1>5, <2>3 DEF Submit, Lifecycle!Save, LifecycleOf
  <1>6. \/ \E e \in Events : BackoffElapses(e) \/ Submit(e)
        \/ \E w \in Workers : \/ Claim(w) \/ ClaimAnswerLost(w)
                              \/ SetPublished(w) \/ HandlePublishFailure(w)
    BY DEF PubStep, PubNext, PubReliable, PubProcess, PubDbFaults, WorkerStep, pubVars,
           Tick, FetchEvents, FetchFails, Publish, PublishFails, DbFails, Shutdown,
           LoseConnection, Exit, Restart
  <1> QED
    BY <1>1, <1>2, <1>3, <1>4, <1>5, <1>6, WorkerParts DEF Lifecycle!LifecycleNext

\* Any number of publishers, under any faults, moves outbox rows only through the transitions of
\* OutboxLifecycle: a row is marked published or failed only while it is claimed, and its count
\* rises only where a retry is left, although the statements select a row by its id alone.
THEOREM PublisherImplementsLifecycle == PubSpec => ImplementsLifecycle
  <1>1. PubInit => Lifecycle!LifecycleInit
    BY DEF PubInit, Absent, LifecycleOf, Lifecycle!LifecycleInit
  <1>2. PubInv /\ [PubStep]_pubVars
          => [Lifecycle!LifecycleNext]_([e \in Events |-> LifecycleOf(outbox[e])])
    BY LifecycleStep DEF PubInv, Claims
  <1> QED
    BY <1>1, <1>2, Invariance, PTL DEF PubSpec, PubStep, ImplementsLifecycle,
       Lifecycle!LifecycleSpec

-----------------------------------------------------------------------------
(* One publisher                                                           *)

OnePublisher == \E p : Publishers = {p}

\* A row is still what its fetch found when the one publisher's goroutine comes to claim it: both
\* batches of a tick are worked off before the next, and no row qualifies for both.
AsFetched(w) ==
  LET r == outbox[EventOf(w)]
  IN  IF w[2] = "pending"
      THEN r.status = "pending"
      ELSE r.status = "failed" /\ r.nextRetryAt = "past" /\ r.retryCount < MaxRetries

\* The messages written never outnumber the attempts the row counts; the last attempt, after which
\* nothing is counted, is made of a row that cannot be taken up again.
AttemptsCounted(e) ==
  /\ queue[e] <= MaxSends
  /\ outbox[e].status \in {"absent", "pending"} => queue[e] = 0 /\ outbox[e].retryCount = 0
  /\ outbox[e].status = "failed" /\ outbox[e].retryCount < MaxRetries =>
       queue[e] <= outbox[e].retryCount

\* A goroutine's own attempt is one more than its row counts, and within the limit.
AttemptAllowed(w) ==
  /\ task[w].pc = "publish" =>
       queue[EventOf(w)] <= task[w].retryCount /\ task[w].retryCount < MaxSends
  /\ task[w].pc \in {"mark_published", "handle_failure"} =>
       queue[EventOf(w)] <= task[w].retryCount + 1

AttemptsInv ==
  /\ PubInv
  /\ \A w \in Workers : task[w].pc = "claim" => AsFetched(w)
  /\ \A w \in Workers : AttemptAllowed(w)
  /\ \A e \in Events : AttemptsCounted(e)

\* At most one goroutine is busy with an event.
LEMMA Alone ==
  ASSUME OnePublisher, AttemptsInv, NEW v \in Workers, NEW w \in Workers,
         task[v].pc # "none", task[w].pc # "none", EventOf(v) = EventOf(w)
  PROVE  v = w
  <1>1. task[v].pc \in {"claim", "publish", "mark_published", "handle_failure"}
        /\ task[w].pc \in {"claim", "publish", "mark_published", "handle_failure"}
    BY DEF AttemptsInv, PubInv, PubTypeOK, Task
  <1>2. CASE v[2] = w[2]
    BY <1>2 DEF OnePublisher, Workers, EventOf
  <1>3. CASE v[2] # w[2]
    <2>1. v[2] \in {"pending", "retryable"} /\ w[2] \in {"pending", "retryable"}
      BY DEF Workers, Kinds
    <2>2. CASE task[v].pc = "claim" /\ task[w].pc = "claim"
      BY <1>3, <2>1, <2>2 DEF AttemptsInv, AsFetched
    <2>3. CASE task[v].pc = "claim" /\ task[w].pc # "claim"
      BY <1>1, <2>3 DEF AttemptsInv, PubInv, ExclusiveClaim, Owns, AsFetched
    <2>4. CASE task[v].pc # "claim" /\ task[w].pc = "claim"
      BY <1>1, <2>4 DEF AttemptsInv, PubInv, ExclusiveClaim, Owns, AsFetched
    <2>5. CASE task[v].pc # "claim" /\ task[w].pc # "claim"
      BY <1>1, <2>5 DEF AttemptsInv, PubInv, ExclusiveClaim, Owns
    <2> QED
      BY <2>2, <2>3, <2>4, <2>5
  <1> QED
    BY <1>2, <1>3

AttemptsRest ==
  /\ \A w \in Workers : task[w].pc = "claim" => AsFetched(w)
  /\ \A w \in Workers : AttemptAllowed(w)
  /\ \A e \in Events : AttemptsCounted(e)

\* A goroutine changes its own row and its own message alone.
LEMMA GoroutineStep ==
  ASSUME OnePublisher, AttemptsInv, NEW w \in Workers, task[w].pc # "none",
         \A f \in Events : f # EventOf(w) => outbox'[f] = outbox[f] /\ queue'[f] = queue[f],
         \A v \in Workers : v # w => task'[v] = task[v],
         task'[w].pc # "claim", AttemptAllowed(w)', AttemptsCounted(EventOf(w))'
  PROVE  AttemptsRest'
  <1>1. ASSUME NEW e \in Events PROVE AttemptsCounted(e)'
    BY DEF AttemptsInv, AttemptsCounted
  <1>2. ASSUME NEW v \in Workers, v # w, task'[v].pc # "none"
        PROVE  (task'[v].pc = "claim" => AsFetched(v)') /\ AttemptAllowed(v)'
    <2>1. EventOf(v) # EventOf(w) /\ EventOf(v) \in Events /\ task'[v] = task[v]
      BY <1>2, Alone, WorkerParts
    <2>2. outbox'[EventOf(v)] = outbox[EventOf(v)] /\ queue'[EventOf(v)] = queue[EventOf(v)]
      BY <2>1
    <2> QED
      BY <2>1, <2>2 DEF AttemptsInv, AsFetched, AttemptAllowed
  <1>3. ASSUME NEW v \in Workers, v # w
        PROVE  (task'[v].pc = "claim" => AsFetched(v)') /\ AttemptAllowed(v)'
    <2>1. CASE task'[v].pc = "none"
      BY <2>1 DEF AttemptAllowed
    <2> QED
      BY <1>2, <1>3, <2>1
  <1> QED
    BY <1>1, <1>3 DEF AttemptsRest

LEMMA MaxSendsBound ==
  ASSUME NEW n \in Nat
  PROVE  /\ MaxSends \in Nat /\ 0 < MaxSends
         /\ n < MaxRetries => n < MaxSends
         /\ n < MaxSends => n + 1 <= MaxSends
         /\ n < MaxRetries /\ n + 1 < MaxRetries => n + 1 <= MaxSends
  BY MaxRetriesAssumption DEF MaxSends

LEMMA AttemptsStep ==
  ASSUME OnePublisher, AttemptsInv, [PubStep]_pubVars
  PROVE  AttemptsRest'
  <1>0. /\ task \in [Workers -> Task] /\ outbox \in [Events -> Row] /\ queue \in [Events -> Nat]
        /\ \A e \in Events : outbox[e] \in Row /\ queue[e] \in Nat /\ outbox[e].retryCount \in Nat
    BY DEF AttemptsInv, PubInv, PubTypeOK, OutboxTypeOK, BrokerTypeOK, Row
  <1>1. ASSUME NEW e \in Events, BackoffElapses(e) PROVE AttemptsRest'
    <2>1. /\ \A f \in Events : /\ outbox'[f].status = outbox[f].status
                              /\ outbox'[f].retryCount = outbox[f].retryCount
          /\ \A f \in Events : outbox[f].nextRetryAt = "past" => outbox'[f].nextRetryAt = "past"
          /\ UNCHANGED <<task, queue>>
      BY <1>0, <1>1 DEF BackoffElapses, RetryDue, Row
    <2> QED
      BY <2>1, WorkerParts DEF AttemptsInv, AttemptsRest, AsFetched, AttemptAllowed, AttemptsCounted
  <1>2. ASSUME UNCHANGED <<outbox, queue>>,
               \A v \in Workers : task'[v] = task[v] \/ task'[v].pc = "none"
        PROVE  AttemptsRest'
    BY <1>2 DEF AttemptsInv, AttemptsRest, AsFetched, AttemptAllowed, AttemptsCounted
  <1>3. ASSUME NEW p \in Publishers, NEW kind \in Kinds, FetchEvents(p, kind) PROVE AttemptsRest'
    <2>1. PICK batch \in SUBSET Find(kind) :
            task' = [w \in Workers |->
                       IF w[1] = p /\ w[2] = kind /\ w[3] \in batch
                       THEN [pc |-> "claim", retryCount |-> 0] ELSE task[w]]
      BY <1>3 DEF FetchEvents, Batches
    <2>2. UNCHANGED <<outbox, queue>>
      BY <1>3 DEF FetchEvents
    <2>3. ASSUME NEW w \in Workers
          PROVE  (task'[w].pc = "claim" => AsFetched(w)') /\ AttemptAllowed(w)'
      <3>1. CASE w[2] = kind /\ w[3] \in batch /\ task'[w].pc = "claim"
        BY <2>1, <2>2, <3>1 DEF Find, FindPending, FindRetryable, AsFetched, AttemptAllowed, EventOf
      <3>2. CASE task'[w] = task[w]
        BY <2>2, <3>2 DEF AttemptsInv, AsFetched, AttemptAllowed
      <3> QED
        BY <2>1, <3>1, <3>2
    <2> QED
      BY <2>2, <2>3 DEF AttemptsInv, AttemptsRest, AttemptsCounted
  <1>4. ASSUME NEW w \in Workers, Claim(w) \/ ClaimAnswerLost(w) PROVE AttemptsRest'
    <2> DEFINE e == EventOf(w)
    <2>1. e \in Events /\ outbox[e] \in Row /\ task[w].pc = "claim" /\ AsFetched(w)
      BY <1>0, <1>4, WorkerParts DEF Claim, ClaimAnswerLost, TaskAt, AttemptsInv
    <2>2. /\ outbox' = [outbox EXCEPT ![e] = ClaimForProcessing(outbox[e])] /\ queue' = queue
          /\ \/ task' = [task EXCEPT ![w] = [pc |-> "publish",
                                            retryCount |-> outbox[e].retryCount]]
             \/ task' = [task EXCEPT ![w] = NoTask]
      BY <1>4, <2>1 DEF Claim, ClaimAnswerLost, TaskReturn, Claimable, AsFetched
    <2>3. /\ outbox'[e].status = "processing"
          /\ \A f \in Events : f # e => outbox'[f] = outbox[f] /\ queue'[f] = queue[f]
      BY <1>0, <2>1, <2>2, StatementEffects
    <2>4. /\ \A v \in Workers : v # w => task'[v] = task[v]
          /\ \/ task'[w].pc = "publish" /\ task'[w].retryCount = outbox[e].retryCount
             \/ task'[w].pc = "none"
      BY <1>0, <2>2 DEF NoTask
    <2>5. queue[e] <= outbox[e].retryCount /\ outbox[e].retryCount < MaxSends
      <3>1. AttemptsCounted(e)
        BY <2>1 DEF AttemptsInv
      <3>2. outbox[e].retryCount \in Nat /\ queue[e] \in Nat
        BY <1>0, <2>1
      <3> QED
        BY <2>1, <3>1, <3>2, MaxSendsBound DEF AsFetched, AttemptsCounted
    <2>6. AttemptAllowed(w)'
      BY <2>2, <2>4, <2>5 DEF AttemptAllowed
    <2>7. AttemptsCounted(e)'
      BY <2>1, <2>2, <2>3 DEF AttemptsInv, AttemptsCounted
    <2> QED
      BY <2>1, <2>3, <2>4, <2>6, <2>7, GoroutineStep
  <1>5. ASSUME NEW w \in Workers, Publish(w) \/ PublishFails(w) PROVE AttemptsRest'
    <2> DEFINE e == EventOf(w)
    <2>1. /\ e \in Events /\ task[w].pc = "publish" /\ outbox' = outbox
          /\ queue' = queue \/ queue' = [queue EXCEPT ![e] = @ + 1]
          /\ \E pc \in {"mark_published", "handle_failure"} : task' = [task EXCEPT ![w].pc = pc]
      BY <1>5, WorkerParts DEF Publish, PublishFails, TaskAt, TaskGoto, Enqueue
    <2>2. /\ task[w].retryCount \in Nat /\ queue[e] \in Nat
          /\ queue[e] <= task[w].retryCount /\ task[w].retryCount < MaxSends
      BY <1>0, <2>1 DEF AttemptsInv, AttemptAllowed, Task
    <2>3. /\ queue'[e] \in {queue[e], queue[e] + 1}
          /\ \A f \in Events : f # e => outbox'[f] = outbox[f] /\ queue'[f] = queue[f]
      BY <1>0, <2>1
    <2>4. queue'[e] <= task[w].retryCount + 1 /\ queue'[e] <= MaxSends
      <3>1. MaxSends \in Nat /\ task[w].retryCount + 1 <= MaxSends
        BY <2>2, MaxSendsBound
      <3> QED
        BY <2>2, <2>3, <3>1
    <2>5. /\ task'[w].pc \in {"mark_published", "handle_failure"}
          /\ task'[w].retryCount = task[w].retryCount
          /\ \A v \in Workers : v # w => task'[v] = task[v]
      BY <1>0, <2>1 DEF Task
    <2>6. outbox[e].status = "processing"
      BY <2>1 DEF AttemptsInv, PubInv, ExclusiveClaim, Owns
    <2>7. AttemptAllowed(w)'
      BY <2>4, <2>5 DEF AttemptAllowed
    <2>8. AttemptsCounted(e)'
      BY <2>1, <2>4, <2>6 DEF AttemptsCounted
    <2> QED
      BY <2>1, <2>3, <2>5, <2>7, <2>8, GoroutineStep
  <1>6. ASSUME NEW w \in Workers, SetPublished(w) PROVE AttemptsRest'
    <2> DEFINE e == EventOf(w)
    <2>1. /\ e \in Events /\ outbox[e] \in Row /\ task[w].pc # "none" /\ queue' = queue
          /\ outbox' = [outbox EXCEPT ![e] = MarkPublished(outbox[e])]
          /\ task' = [task EXCEPT ![w] = NoTask]
      BY <1>0, <1>6, WorkerParts DEF SetPublished, TaskAt, TaskReturn
    <2>2. /\ outbox'[e].status = "published"
          /\ \A f \in Events : f # e => outbox'[f] = outbox[f] /\ queue'[f] = queue[f]
      BY <1>0, <2>1, StatementEffects
    <2>3. task'[w].pc = "none" /\ \A v \in Workers : v # w => task'[v] = task[v]
      BY <1>0, <2>1 DEF NoTask
    <2>4. AttemptAllowed(w)' /\ AttemptsCounted(e)'
      BY <2>1, <2>2, <2>3 DEF AttemptsInv, AttemptAllowed, AttemptsCounted
    <2> QED
      BY <2>1, <2>2, <2>3, <2>4, GoroutineStep
  <1>7. ASSUME NEW w \in Workers, HandlePublishFailure(w) PROVE AttemptsRest'
    <2> DEFINE e == EventOf(w)
               r == outbox[e]
    <2>1. /\ e \in Events /\ r \in Row /\ task[w].pc = "handle_failure" /\ queue' = queue
          /\ outbox' = [outbox EXCEPT ![e] = FailureRow(r, task[w].retryCount)]
          /\ task' = [task EXCEPT ![w] = NoTask]
      BY <1>0, <1>7, WorkerParts DEF HandlePublishFailure, TaskAt, TaskReturn
    <2>2. /\ r.retryCount = task[w].retryCount /\ r.retryCount <= MaxRetries
          /\ queue[e] <= r.retryCount + 1 /\ r.retryCount \in Nat /\ queue[e] <= MaxSends
      BY <1>0, <2>1 DEF AttemptsInv, AttemptAllowed, AttemptsCounted, PubInv, ExclusiveClaim, Owns, RetriesBounded
    <2>3. /\ outbox'[e].status = "failed"
          /\ outbox'[e].retryCount = IF r.retryCount >= MaxRetries THEN r.retryCount
                                                                  ELSE r.retryCount + 1
          /\ \A f \in Events : f # e => outbox'[f] = outbox[f] /\ queue'[f] = queue[f]
      BY <1>0, <2>1, <2>2, FailureRowEffects
    <2>4. task'[w].pc = "none" /\ \A v \in Workers : v # w => task'[v] = task[v]
      BY <1>0, <2>1 DEF NoTask
    <2>5. AttemptsCounted(e)'
      BY <2>1, <2>2, <2>3, MaxRetriesAssumption DEF AttemptsCounted
    <2>6. AttemptAllowed(w)'
      BY <2>4 DEF AttemptAllowed
    <2> QED
      BY <2>1, <2>3, <2>4, <2>5, <2>6, GoroutineStep
  <1>8. ASSUME NEW e \in Events, Submit(e) PROVE AttemptsRest'
    <2>1. /\ outbox[e].status = "absent" /\ outbox'[e].status = "pending"
          /\ outbox'[e].retryCount = outbox[e].retryCount
          /\ \A f \in Events : f # e => outbox'[f] = outbox[f]
          /\ UNCHANGED <<task, queue>>
      BY <1>0, <1>8, StatementEffects DEF Submit
    <2>2. ASSUME NEW w \in Workers, task[w].pc = "claim" PROVE AsFetched(w)'
      <3>1. EventOf(w) \in Events /\ AsFetched(w)
        BY <2>2, WorkerParts DEF AttemptsInv
      <3>2. EventOf(w) # e
        BY <2>1, <3>1 DEF AsFetched
      <3> QED
        BY <2>1, <3>1, <3>2 DEF AsFetched
    <2> QED
      BY <2>1, <2>2 DEF AttemptsInv, AttemptsRest, AttemptAllowed, AttemptsCounted
  <1>9. ASSUME NEW w \in Workers, DbFails(w) PROVE AttemptsRest'
    <2>1. /\ UNCHANGED <<outbox, queue>>
          /\ \A v \in Workers : task'[v] = task[v] \/ task'[v].pc = "none"
      BY <1>0, <1>9 DEF DbFails, TaskReturn, NoTask
    <2> QED
      BY <2>1, <1>2
  <1>10. ASSUME NEW p \in Publishers, Exit(p) PROVE AttemptsRest'
    <2>1. /\ UNCHANGED <<outbox, queue>>
          /\ \A v \in Workers : task'[v] = task[v] \/ task'[v].pc = "none"
      BY <1>10 DEF Exit, NoTask
    <2> QED
      BY <2>1, <1>2
  <1>11. CASE \/ UNCHANGED pubVars
              \/ \E p \in Publishers : \/ Tick(p) \/ Shutdown(p) \/ LoseConnection(p) \/ Restart(p)
                                       \/ \E kind \in Kinds : FetchFails(p, kind)
    <2>1. UNCHANGED <<outbox, queue, task>>
      BY <1>11 DEF pubVars, Tick, Shutdown, LoseConnection, Restart, FetchFails
    <2> QED
      BY <2>1, <1>2
  <1> QED
    BY <1>1, <1>3, <1>4, <1>5, <1>6, <1>7, <1>8, <1>9, <1>10, <1>11
       DEF PubStep, PubNext, PubReliable, PubProcess, PubDbFaults, WorkerStep

LEMMA AttemptsStart == PubInit => AttemptsInv
  <1> SUFFICES ASSUME PubInit PROVE AttemptsInv
    OBVIOUS
  <1>1. PubInv
    BY InvInit
  <1>2. \A w \in Workers : task[w].pc = "none"
    BY DEF PubInit, NoTask
  <1>3. \A e \in Events : AttemptsCounted(e)
    <2>1. 0 <= MaxSends
      BY MaxSendsBound
    <2> QED
      BY <2>1 DEF PubInit, BrokerInit, Absent, AttemptsCounted
  <1> QED
    BY <1>1, <1>2, <1>3 DEF AttemptsInv, AttemptAllowed

LEMMA AttemptsInvariance == ASSUME OnePublisher PROVE PubSpec => []AttemptsInv
  <1>1. AttemptsInv /\ [PubStep]_pubVars => AttemptsInv'
    <2>1. AttemptsInv /\ [PubStep]_pubVars => PubInv'
      BY InvStep DEF AttemptsInv
    <2> QED
      BY <2>1, AttemptsStep DEF AttemptsInv, AttemptsRest
  <1> QED
    BY <1>1, AttemptsStart, PTL DEF PubSpec, PubStep

\* One publisher, under all faults, writes a message at most max_retries times, once if that is 0,
\* even when every publish it takes for failed did reach the broker.
THEOREM AttemptsAreBounded == ASSUME OnePublisher PROVE PubSpec => []AttemptsBounded
  <1>1. AttemptsInv => AttemptsBounded
    BY DEF AttemptsInv, AttemptsCounted, AttemptsBounded
  <1> QED
    BY <1>1, AttemptsInvariance, PTL

\* One publisher, under all faults, takes a failed row up again only after its backoff and with a
\* retry left, although the claim looks at neither.
THEOREM BackoffIsRespected == ASSUME OnePublisher PROVE PubSpec => BackoffRespected
  <1>1. AttemptsInv /\ [PubStep]_pubVars
          => [\A e \in Events :
                outbox[e].status = "failed" /\ outbox'[e].status = "processing"
                  => /\ outbox[e].nextRetryAt = "past"
                     /\ outbox[e].retryCount < MaxRetries]_pubVars
    <2> SUFFICES ASSUME AttemptsInv, PubStep, NEW e \in Events,
                        outbox[e].status = "failed", outbox'[e].status = "processing"
                 PROVE  outbox[e].nextRetryAt = "past" /\ outbox[e].retryCount < MaxRetries
      OBVIOUS
    <2>0. outbox \in [Events -> Row] /\ outbox[e] \in Row
      BY DEF AttemptsInv, PubInv, PubTypeOK, OutboxTypeOK
    <2>1. ASSUME NEW f \in Events, BackoffElapses(f) PROVE FALSE
      BY <2>0, <2>1, StatementEffects DEF BackoffElapses, RetryDue
    <2>2. ASSUME NEW f \in Events, Submit(f) PROVE FALSE
      BY <2>0, <2>2, StatementEffects DEF Submit
    <2>3. ASSUME NEW w \in Workers, SetPublished(w) \/ HandlePublishFailure(w) PROVE FALSE
      <3>1. EventOf(w) \in Events /\ outbox[EventOf(w)].status = "processing"
        BY <2>3, WorkerParts
           DEF SetPublished, HandlePublishFailure, TaskAt, AttemptsInv, PubInv, ExclusiveClaim, Owns
      <3>2. EventOf(w) # e
        BY <3>1
      <3>3. outbox'[e] = outbox[e]
        BY <2>0, <2>3, <3>2 DEF SetPublished, HandlePublishFailure
      <3> QED
        BY <3>3
    <2>4. ASSUME NEW w \in Workers, Claim(w) \/ ClaimAnswerLost(w)
          PROVE  outbox[e].nextRetryAt = "past" /\ outbox[e].retryCount < MaxRetries
      <3>1. task[w].pc = "claim" /\ AsFetched(w)
        BY <2>4 DEF Claim, ClaimAnswerLost, TaskAt, AttemptsInv
      <3>2. e = EventOf(w)
        BY <2>0, <2>4 DEF Claim, ClaimAnswerLost
      <3> QED
        BY <3>1, <3>2 DEF AsFetched
    <2>5. \/ \E f \in Events : BackoffElapses(f) \/ Submit(f)
          \/ \E w \in Workers : \/ Claim(w) \/ ClaimAnswerLost(w)
                                \/ SetPublished(w) \/ HandlePublishFailure(w)
          \/ UNCHANGED outbox
      BY DEF PubStep, PubNext, PubReliable, PubProcess, PubDbFaults, WorkerStep, pubVars,
             Tick, FetchEvents, FetchFails, Publish, PublishFails, DbFails, Shutdown,
             LoseConnection, Exit, Restart
    <2> QED
      BY <2>1, <2>2, <2>3, <2>4, <2>5
  <1> QED
    BY <1>1, AttemptsInvariance, PTL DEF PubSpec, PubStep, BackoffRespected

=============================================================================
