-------------------------- MODULE SubscriberProofs --------------------------
(***************************************************************************)
(* Proofs about Subscriber, for any events, page contents and retry limit: *)
(* with any number of subscribers and under all faults, types and that a   *)
(* completed analysis has its results; with one subscriber that may die or *)
(* lose its connection at any step, that no request is lost and that a     *)
(* stale cache entry is still going to be removed.                         *)
(***************************************************************************)
EXTENDS Subscriber, TLAPS

-----------------------------------------------------------------------------
(* The statements and the progress of a job                                *)

\* A statement turns a row into a row.
LEMMA OutboxStatements ==
  ASSUME NEW r \in Row
  PROVE  /\ SaveInTx(r) \in Row /\ ClaimForProcessing(r) \in Row /\ MarkPublished(r) \in Row
         /\ MarkProcessed(r) \in Row /\ MarkCompleted(r) \in Row
  <1> USE DEF Row, Status, RetryTime, Stamp
  <1>1. SaveInTx(r) \in Row /\ ClaimForProcessing(r) \in Row
    BY DEF SaveInTx, ClaimForProcessing
  <1>2. MarkPublished(r) \in Row
    BY DEF MarkPublished
  <1>3. MarkProcessed(r) \in Row /\ MarkCompleted(r) \in Row
    BY DEF MarkProcessed, MarkCompleted
  <1> QED
    BY <1>1, <1>2, <1>3

\* A statement turns an analysis into an analysis, and none takes results away.
LEMMA AnalysisStatements ==
  ASSUME NEW a \in Analysis, NEW c \in Contents
  PROVE  /\ SaveAnalysisInTx(a) \in Analysis
         /\ UpdateStatus(a, "in_progress") \in Analysis
         /\ UpdateStatus(a, "in_progress").status = "in_progress"
         /\ UpdateStatus(a, "in_progress").results = a.results
         /\ MarkAnalysisFailed(a) \in Analysis
         /\ MarkAnalysisFailed(a).status = "failed"
         /\ MarkAnalysisFailed(a).results = a.results
         /\ Update(a, c) \in Analysis
         /\ Update(a, c).status = "completed"
         /\ Update(a, c).results = c
  BY DEF Analysis, AnalysisStatus, SaveAnalysisInTx, UpdateStatus, MarkAnalysisFailed, Update

\* A worker that is not idle has a message.
LEMMA HasMessage ==
  ASSUME SubTypeOK, NEW s \in Subscribers, job[s].pc # "idle"
  PROVE  /\ job[s] # Idle
         /\ job[s] \in [pc: Steps, event: Events, content: Contents \cup {NoResults},
                        seen: Analysis]
  BY DEF SubTypeOK, Job, Idle

\* Going on to the next call leaves the rest of the job, and the other workers, alone.
LEMMA Goto ==
  ASSUME SubTypeOK, NEW s \in Subscribers, job[s].pc # "idle", NEW pc \in Steps, JobGoto(s, pc)
  PROVE  /\ job' \in [Subscribers -> Job]
         /\ job'[s].pc = pc /\ job'[s] # Idle
         /\ job'[s].event = job[s].event /\ job'[s].content = job[s].content
         /\ \A t \in Subscribers \ {s} : job'[t] = job[t]
  <1>1. job[s] \in [pc: Steps, event: Events, content: Contents \cup {NoResults},
                    seen: Analysis]
    BY HasMessage
  <1>2. job \in [Subscribers -> Job]
    BY DEF SubTypeOK
  <1>3. job' = [job EXCEPT ![s] = [@ EXCEPT !.pc = pc]]
    BY DEF JobGoto
  <1>4. [job[s] EXCEPT !.pc = pc] \in [pc: Steps, event: Events,
                                       content: Contents \cup {NoResults}, seen: Analysis]
    BY <1>1
  <1>5. "idle" \notin Steps
    BY DEF Steps
  <1> QED
    BY <1>1, <1>2, <1>3, <1>4, <1>5 DEF Job, Idle

\* What the call after a cache operation is, whether the operation works or not.
LEMMA Goes ==
  ASSUME NEW s \in Subscribers
  PROVE  /\ Invalidate(s) =>
              \/ job[s].pc = "invalidate_started" /\ JobGoto(s, "fetch")
              \/ job[s].pc = "invalidate_failed" /\ JobGoto(s, "ack")
              \/ job[s].pc = "invalidate_completed" /\ JobGoto(s, "ack")
         /\ CacheFails(s) =>
              \/ job[s].pc = "invalidate_started" /\ JobGoto(s, "fetch")
              \/ job[s].pc \in {"read_back", "refresh_cache"} /\ JobGoto(s, "mark_completed")
              \/ job[s].pc \in {"invalidate_failed", "invalidate_completed"} /\ JobGoto(s, "ack")
  BY DEF Invalidate, CacheFails, AfterInvalidate, AfterCacheError

-----------------------------------------------------------------------------
(* Types                                                                   *)

\* The variables that a step of one worker on its message, or an error in it, changes.
LEMMA WorkTypes ==
  ASSUME SubTypeOK, NEW s \in Subscribers, WorkStep(s) \/ StepFails(s) \/ CacheFails(s)
  PROVE  SubTypeOK'
  <1> USE DEF JobAt
  <1>1. CASE SetProcessed(s)
    <2>1. /\ job[s].pc = "mark_processed" /\ JobGoto(s, "set_in_progress")
          /\ outbox' = [outbox EXCEPT ![job[s].event] = MarkProcessed(@)]
          /\ UNCHANGED <<analysis, cache, queue, subMode, subConn, held>>
      BY <1>1 DEF SetProcessed
    <2>2. job' \in [Subscribers -> Job]
      BY <2>1, Goto DEF Steps
    <2>3. outbox' \in [Events -> Row]
      BY <2>1, OutboxStatements DEF SubTypeOK, OutboxTypeOK
    <2> QED
      BY <2>1, <2>2, <2>3 DEF SubTypeOK, OutboxTypeOK, StoreTypeOK, BrokerTypeOK
  <1>2. CASE SetCompleted(s)
    <2>1. /\ job[s].pc = "mark_completed" /\ JobGoto(s, "invalidate_completed")
          /\ outbox' = [outbox EXCEPT ![job[s].event] = MarkCompleted(@)]
          /\ UNCHANGED <<analysis, cache, queue, subMode, subConn, held>>
      BY <1>2 DEF SetCompleted
    <2>2. job' \in [Subscribers -> Job]
      BY <2>1, Goto DEF Steps
    <2>3. outbox' \in [Events -> Row]
      BY <2>1, OutboxStatements DEF SubTypeOK, OutboxTypeOK
    <2> QED
      BY <2>1, <2>2, <2>3 DEF SubTypeOK, OutboxTypeOK, StoreTypeOK, BrokerTypeOK
  <1>3. CASE SetInProgress(s) \/ SetFailed(s) \/ SaveResults(s)
    <2>1. /\ job[s].pc \in {"set_in_progress", "mark_failed", "update"}
          /\ \E pc \in {"invalidate_started", "invalidate_failed", "read_back"} : JobGoto(s, pc)
          /\ \E a : analysis' = [analysis EXCEPT ![job[s].event] = a]
          /\ UNCHANGED <<outbox, cache, queue, subMode, subConn, held>>
      BY <1>3 DEF SetInProgress, SetFailed, SaveResults
    <2>2. job' \in [Subscribers -> Job]
      BY <2>1, Goto DEF Steps
    <2>3. analysis' \in [Events -> Analysis]
      <3>1. analysis \in [Events -> Analysis] /\ job[s].event \in Events
            /\ job[s].content \in Contents \cup {NoResults}
        BY <2>1, HasMessage DEF SubTypeOK, StoreTypeOK
      <3>2. analysis[job[s].event] \in Analysis
        BY <3>1
      <3>3. UpdateStatus(analysis[job[s].event], "in_progress") \in Analysis
            /\ MarkAnalysisFailed(analysis[job[s].event]) \in Analysis
            /\ Update(analysis[job[s].event], job[s].content) \in Analysis
        BY <3>1, <3>2 DEF Analysis, AnalysisStatus, UpdateStatus, MarkAnalysisFailed, Update
      <3> QED
        BY <1>3, <3>1, <3>3 DEF SetInProgress, SetFailed, SaveResults
    <2> QED
      BY <2>1, <2>2, <2>3 DEF SubTypeOK, OutboxTypeOK, StoreTypeOK, BrokerTypeOK
  <1>4. CASE Invalidate(s)
    <2>1. /\ job[s].pc # "idle" /\ \E pc \in {"fetch", "ack"} : JobGoto(s, pc)
          /\ CacheDelete(job[s].event)
          /\ UNCHANGED <<outbox, analysis, queue, subMode, subConn, held>>
      BY <1>4, Goes DEF Invalidate
    <2>2. job' \in [Subscribers -> Job]
      BY <2>1, Goto DEF Steps
    <2>3. cache' \in [Events -> Analysis]
      BY <2>1 DEF CacheDelete, SubTypeOK, StoreTypeOK, Analysis, AnalysisStatus, NoAnalysis
    <2> QED
      BY <2>1, <2>2, <2>3 DEF SubTypeOK, OutboxTypeOK, StoreTypeOK, BrokerTypeOK
  <1>5. CASE RefreshCache(s)
    <2>1. /\ job[s].pc = "refresh_cache" /\ JobGoto(s, "mark_completed")
          /\ CacheSet(job[s].event, job[s].seen)
          /\ UNCHANGED <<outbox, analysis, queue, subMode, subConn, held>>
      BY <1>5 DEF RefreshCache
    <2>2. job' \in [Subscribers -> Job]
      BY <2>1, Goto DEF Steps
    <2>3. cache' \in [Events -> Analysis]
      BY <2>1, HasMessage DEF CacheSet, SubTypeOK, StoreTypeOK
    <2> QED
      BY <2>1, <2>2, <2>3 DEF SubTypeOK, OutboxTypeOK, StoreTypeOK, BrokerTypeOK
  <1>6. CASE Fetch(s) \/ ReadBack(s) \/ Ack(s)
    <2>1. /\ job[s].pc # "idle"
          /\ UNCHANGED <<outbox, analysis, cache, queue, subMode, subConn, held>>
      BY <1>6 DEF Fetch, ReadBack, Ack
    <2>2. job' \in [Subscribers -> Job]
      <3>1. job \in [Subscribers -> Job] /\ Idle \in Job
        BY DEF SubTypeOK, Job
      <3>2. job[s] \in [pc: Steps, event: Events, content: Contents \cup {NoResults},
                        seen: Analysis]
        BY <2>1, HasMessage
      <3>3. \A c \in Contents : [[job[s] EXCEPT !.pc = "check_duplicate"] EXCEPT !.content = c] \in Job
        BY <3>2 DEF Job, Steps
      <3>4. [[job[s] EXCEPT !.pc = "refresh_cache"] EXCEPT !.seen = analysis[job[s].event]] \in Job
        BY <3>2 DEF Job, Steps, SubTypeOK, StoreTypeOK
      <3>5. CASE Fetch(s)
        BY <3>1, <3>3, <3>5 DEF Fetch
      <3>6. CASE ReadBack(s)
        BY <3>1, <3>4, <3>6 DEF ReadBack
      <3>7. CASE Ack(s)
        BY <3>1, <3>7 DEF Ack
      <3> QED
        BY <1>6, <3>5, <3>6, <3>7
    <2> QED
      BY <2>1, <2>2 DEF SubTypeOK, OutboxTypeOK, StoreTypeOK, BrokerTypeOK
  <1>7. CASE \/ FetchPageFails(s) \/ CheckDuplicate(s) \/ Analyze(s)
             \/ StepFails(s) \/ CacheFails(s)
    <2>1. /\ job[s].pc # "idle"
          /\ \E pc \in {"mark_failed", "update", "analyze", "ack", "fetch", "mark_completed"} :
               JobGoto(s, pc)
          /\ UNCHANGED <<outbox, analysis, cache, queue, subMode, subConn, held>>
      BY <1>7, Goes DEF FetchPageFails, CheckDuplicate, Analyze, StepFails, CacheFails
    <2>2. job' \in [Subscribers -> Job]
      BY <2>1, Goto DEF Steps
    <2> QED
      BY <2>1, <2>2 DEF SubTypeOK, OutboxTypeOK, StoreTypeOK, BrokerTypeOK
  <1> QED
    BY <1>1, <1>2, <1>3, <1>4, <1>5, <1>6, <1>7 DEF WorkStep

ProcessStep(s) ==
  \/ Deliver(s) \/ Receive(s) \/ LoseSubConnection(s)
  \/ SubShutdown(s) \/ SubExit(s) \/ SubRestart(s)

\* A delivery, and what befalls the process, leave the tables and the other workers alone.
LEMMA ProcessEffects ==
  ASSUME SubTypeOK, NEW s \in Subscribers, ProcessStep(s)
  PROVE  /\ UNCHANGED <<outbox, analysis, cache>>
         /\ SubTypeOK'
         /\ \A t \in Subscribers : job'[t] = job[t] \/ job'[t].pc \in {"idle", "mark_processed"}
  <1>0. /\ subMode \in [Subscribers -> {"up", "stopping", "down"}]
        /\ subConn \in [Subscribers -> BOOLEAN] /\ held \in [Subscribers -> SUBSET Events]
        /\ job \in [Subscribers -> Job] /\ queue \in [Events -> Nat]
    BY DEF SubTypeOK, BrokerTypeOK
  <1>1. UNCHANGED <<outbox, analysis, cache>>
    BY DEF ProcessStep, Deliver, Receive, LoseSubConnection, SubShutdown, SubExit, SubRestart
  <1>2. subMode' \in [Subscribers -> {"up", "stopping", "down"}]
    BY <1>0 DEF ProcessStep, Deliver, Receive, LoseSubConnection, SubShutdown, SubExit, SubRestart
  <1>3. subConn' \in [Subscribers -> BOOLEAN]
    <2>1. \/ subConn' = subConn
          \/ subConn' = [subConn EXCEPT ![s] = FALSE]
          \/ subConn' = [subConn EXCEPT ![s] = TRUE]
      BY DEF ProcessStep, Deliver, Receive, LoseSubConnection, SubShutdown, SubExit, SubRestart
    <2> QED
      BY <1>0, <2>1
  <1>4. held' \in [Subscribers -> SUBSET Events]
    BY <1>0 DEF ProcessStep, Deliver, Receive, LoseSubConnection, SubShutdown, SubExit, SubRestart
  <1>5. /\ job' \in [Subscribers -> Job]
        /\ \A t \in Subscribers : job'[t] = job[t] \/ job'[t].pc \in {"idle", "mark_processed"}
    <2>1. \/ job' = job
          \/ job' = [job EXCEPT ![s] = Idle]
          \/ \E e \in held[s] :
               job' = [job EXCEPT ![s] = Working("mark_processed", e, NoResults, NoAnalysis)]
      BY DEF ProcessStep, Deliver, Receive, LoseSubConnection, SubShutdown, SubExit, SubRestart
    <2>2. \A e \in held[s] :
            /\ Working("mark_processed", e, NoResults, NoAnalysis) \in Job
            /\ Working("mark_processed", e, NoResults, NoAnalysis).pc = "mark_processed"
      BY <1>0 DEF Working, Job, Steps, NoAnalysis, Analysis, AnalysisStatus
    <2>3. Idle \in Job /\ Idle.pc = "idle"
      BY DEF Idle, Job
    <2> QED
      BY <1>0, <2>1, <2>2, <2>3
  <1>6. queue' \in [Events -> Nat]
    <2>1. \A e \in Events : Unacknowledged(s, e) \in Nat
      BY DEF Unacknowledged
    <2>2. CASE Deliver(s)
      <3>1. PICK e \in Events : queue[e] > 0 /\ queue' = [queue EXCEPT ![e] = @ - 1]
        BY <2>2 DEF Deliver, Dequeue
      <3>2. queue[e] - 1 \in Nat
        BY <1>0, <3>1
      <3> QED
        BY <1>0, <3>1, <3>2
    <2>3. CASE LoseSubConnection(s) \/ SubExit(s)
      <3>1. queue' = [e \in Events |-> queue[e] + Unacknowledged(s, e)]
        BY <2>3 DEF LoseSubConnection, SubExit, Redeliver
      <3>2. ASSUME NEW e \in Events PROVE queue[e] + Unacknowledged(s, e) \in Nat
        <4>1. queue[e] \in Nat /\ Unacknowledged(s, e) \in Nat
          BY <1>0, <2>1
        <4> QED
          BY <4>1
      <3> QED
        BY <3>1, <3>2
    <2>4. CASE Receive(s) \/ SubShutdown(s) \/ SubRestart(s)
      BY <1>0, <2>4 DEF Receive, SubShutdown, SubRestart
    <2> QED
      BY <2>2, <2>3, <2>4 DEF ProcessStep
  <1> QED
    BY <1>1, <1>2, <1>3, <1>4, <1>5, <1>6
    DEF SubTypeOK, OutboxTypeOK, StoreTypeOK, BrokerTypeOK

-----------------------------------------------------------------------------
(* Completed means results                                                 *)

\* A worker past the fetch knows the content; one past the update has stored its results.
Progress ==
  \A s \in Subscribers :
    /\ job[s].pc \in {"check_duplicate", "analyze", "update"} => job[s].content \in Contents
    /\ job[s].pc \in {"read_back", "refresh_cache", "mark_completed"} =>
         analysis[job[s].event].results # NoResults

\* The inductive invariant: CompletedHasResults needs to know what a worker that is about to
\* save or to stamp has.
SubInv == SubTypeOK /\ Progress /\ CompletedHasResults

\* No statement takes results away, and none writes the status without them.
LEMMA ResultsStay ==
  ASSUME SubInv, NEW s \in Subscribers, WorkStep(s) \/ StepFails(s) \/ CacheFails(s)
  PROVE  /\ \A e \in Events : analysis[e].results # NoResults => analysis'[e].results # NoResults
         /\ \A e \in Events : analysis'[e].status = "completed" =>
                              analysis'[e].results # NoResults
         /\ SaveResults(s) => analysis'[job[s].event].results # NoResults
  <1> USE DEF JobAt
  <1>1. CASE UNCHANGED analysis /\ ~ SaveResults(s)
    BY <1>1 DEF SubInv, CompletedHasResults
  <1>2. CASE SetInProgress(s) \/ SetFailed(s) \/ SaveResults(s)
    <2>1. job[s].pc \in {"set_in_progress", "mark_failed", "update"}
      BY <1>2 DEF SetInProgress, SetFailed, SaveResults
    <2>2. /\ analysis \in [Events -> Analysis] /\ job[s].event \in Events
          /\ analysis[job[s].event] \in Analysis
      BY <2>1, HasMessage DEF SubInv, SubTypeOK, StoreTypeOK
    <2> DEFINE a == analysis[job[s].event]
    <2>3. CASE SetInProgress(s)
      <3>1. analysis' = [analysis EXCEPT ![job[s].event] = UpdateStatus(a, "in_progress")]
        BY <2>3 DEF SetInProgress
      <3>2. /\ UpdateStatus(a, "in_progress").status = "in_progress"
            /\ UpdateStatus(a, "in_progress").results = a.results
        BY <2>2 DEF UpdateStatus, Analysis
      <3>3. ~ SaveResults(s)
        BY <2>3 DEF SetInProgress, SaveResults
      <3> QED
        BY <2>2, <3>1, <3>2, <3>3 DEF SubInv, CompletedHasResults
    <2>4. CASE SetFailed(s)
      <3>1. analysis' = [analysis EXCEPT ![job[s].event] = MarkAnalysisFailed(a)]
        BY <2>4 DEF SetFailed
      <3>2. /\ MarkAnalysisFailed(a).status = "failed"
            /\ MarkAnalysisFailed(a).results = a.results
        BY <2>2 DEF MarkAnalysisFailed, Analysis
      <3>3. ~ SaveResults(s)
        BY <2>4 DEF SetFailed, SaveResults
      <3> QED
        BY <2>2, <3>1, <3>2, <3>3 DEF SubInv, CompletedHasResults
    <2>5. CASE SaveResults(s)
      <3>1. /\ analysis' = [analysis EXCEPT ![job[s].event] = Update(a, job[s].content)]
            /\ job[s].pc = "update"
        BY <2>5 DEF SaveResults
      <3>2. job[s].content \in Contents
        BY <3>1 DEF SubInv, Progress
      <3>3. Update(a, job[s].content).results # NoResults
        BY <2>2, <3>2, ResultsAssumption DEF Update, Analysis
      <3> QED
        BY <2>2, <3>1, <3>3 DEF SubInv, CompletedHasResults
    <2> QED
      BY <1>2, <2>3, <2>4, <2>5
  <1> QED
    BY <1>1, <1>2 DEF WorkStep, StepFails, CacheFails, SetProcessed, Invalidate, Fetch,
                     FetchPageFails, CheckDuplicate, Analyze, ReadBack, RefreshCache,
                     SetCompleted, Ack

\* The step of a worker leaves every worker with what its next call needs.
LEMMA WorkProgress ==
  ASSUME SubInv, NEW s \in Subscribers, WorkStep(s) \/ StepFails(s) \/ CacheFails(s)
  PROVE  Progress'
  <1> USE DEF JobAt
  <1> DEFINE Needs(j) ==
        /\ j.pc \in {"check_duplicate", "analyze", "update"} => j.content \in Contents
        /\ j.pc \in {"read_back", "refresh_cache", "mark_completed"} =>
             analysis'[j.event].results # NoResults
  <1>0. job \in [Subscribers -> Job] /\ Idle.pc = "idle"
    BY DEF SubInv, SubTypeOK, Idle
  <1>1. ASSUME NEW t \in Subscribers PROVE Needs(job[t])
    <2>1. CASE job[t].pc \in {"read_back", "refresh_cache", "mark_completed"}
      <3>1. job[t].event \in Events /\ analysis[job[t].event].results # NoResults
        BY <2>1, HasMessage DEF SubInv, Progress
      <3> QED
        BY <2>1, <3>1, ResultsStay
    <2>2. CASE job[t].pc \notin {"read_back", "refresh_cache", "mark_completed"}
      BY <2>2 DEF SubInv, Progress
    <2> QED
      BY <2>1, <2>2
  <1>2. /\ Needs(job'[s])
        /\ \A t \in Subscribers \ {s} : job'[t] = job[t]
    <2>1. CASE Fetch(s)
      <3>1. PICK c \in Contents :
              job' = [job EXCEPT ![s] = [[@ EXCEPT !.pc = "check_duplicate"] EXCEPT !.content = c]]
        BY <2>1 DEF Fetch
      <3>2. job[s] \in [pc: Steps, event: Events, content: Contents \cup {NoResults},
                        seen: Analysis]
        BY <2>1, HasMessage DEF Fetch, SubInv
      <3>3. job'[s].pc = "check_duplicate" /\ job'[s].content = c
        BY <1>0, <3>1, <3>2
      <3> QED
        BY <1>0, <3>1, <3>3
    <2>2. CASE ReadBack(s)
      <3>1. /\ job' = [job EXCEPT ![s] = [[@ EXCEPT !.pc = "refresh_cache"]
                                              EXCEPT !.seen = analysis[job[s].event]]]
            /\ job[s].pc = "read_back" /\ UNCHANGED analysis
        BY <2>2 DEF ReadBack
      <3>2. job[s] \in [pc: Steps, event: Events, content: Contents \cup {NoResults},
                        seen: Analysis]
        BY <3>1, HasMessage DEF SubInv
      <3>3. job'[s].pc = "refresh_cache" /\ job'[s].event = job[s].event
        BY <1>0, <3>1, <3>2
      <3> QED
        BY <1>0, <1>1, <3>1, <3>3
    <2>3. CASE Ack(s)
      BY <1>0, <2>3 DEF Ack
    <2>4. CASE SaveResults(s)
      <3>1. job[s].pc = "update" /\ JobGoto(s, "read_back")
        BY <2>4 DEF SaveResults
      <3>2. /\ job'[s].pc = "read_back" /\ job'[s].event = job[s].event
            /\ \A t \in Subscribers \ {s} : job'[t] = job[t]
        BY <3>1, Goto DEF Steps, SubInv
      <3> QED
        BY <2>4, <3>2, ResultsStay
    <2>5. CASE CheckDuplicate(s) \/ Analyze(s)
      <3>1. /\ job[s].pc \in {"check_duplicate", "analyze"}
            /\ \E pc \in {"analyze", "update"} : JobGoto(s, pc)
        BY <2>5 DEF CheckDuplicate, Analyze
      <3>2. /\ job'[s].pc \in {"analyze", "update"} /\ job'[s].content = job[s].content
            /\ \A t \in Subscribers \ {s} : job'[t] = job[t]
        BY <3>1, Goto DEF Steps, SubInv
      <3> QED
        BY <1>1, <3>1, <3>2
    <2>6. CASE RefreshCache(s)
      <3>1. job[s].pc = "refresh_cache" /\ JobGoto(s, "mark_completed")
        BY <2>6 DEF RefreshCache
      <3>2. /\ job'[s].pc = "mark_completed" /\ job'[s].event = job[s].event
            /\ \A t \in Subscribers \ {s} : job'[t] = job[t]
        BY <3>1, Goto DEF Steps, SubInv
      <3> QED
        BY <1>1, <3>1, <3>2
    <2>7. CASE CacheFails(s) /\ job[s].pc \in {"read_back", "refresh_cache"}
      <3>1. JobGoto(s, "mark_completed")
        BY <2>7, Goes
      <3>2. /\ job'[s].pc = "mark_completed" /\ job'[s].event = job[s].event
            /\ \A t \in Subscribers \ {s} : job'[t] = job[t]
        BY <2>7, <3>1, Goto DEF Steps, SubInv
      <3> QED
        BY <1>1, <2>7, <3>2
    <2>8. CASE \/ SetProcessed(s) \/ SetInProgress(s) \/ Invalidate(s) \/ FetchPageFails(s)
               \/ SetFailed(s) \/ SetCompleted(s) \/ StepFails(s)
               \/ CacheFails(s) /\ job[s].pc \notin {"read_back", "refresh_cache"}
      <3>1. /\ job[s].pc # "idle"
            /\ \E pc \in {"set_in_progress", "invalidate_started", "fetch", "ack", "mark_failed",
                          "invalidate_failed", "invalidate_completed"} : JobGoto(s, pc)
        BY <2>8, Goes DEF SetProcessed, SetInProgress, FetchPageFails, SetFailed, SetCompleted,
                          StepFails
      <3>2. /\ job'[s].pc \in {"set_in_progress", "invalidate_started", "fetch", "ack",
                               "mark_failed", "invalidate_failed", "invalidate_completed"}
            /\ \A t \in Subscribers \ {s} : job'[t] = job[t]
        BY <3>1, Goto DEF Steps, SubInv
      <3> QED
        BY <3>2
    <2> QED
      BY <2>1, <2>2, <2>3, <2>4, <2>5, <2>6, <2>7, <2>8 DEF WorkStep
  <1>3. ASSUME NEW t \in Subscribers PROVE Needs(job'[t])
    BY <1>1, <1>2
  <1> QED
    BY <1>3 DEF Progress

\* A row is stamped completed only for the message of a worker that has stored its results.
LEMMA WorkCompletes ==
  ASSUME SubInv, NEW s \in Subscribers, WorkStep(s) \/ StepFails(s) \/ CacheFails(s)
  PROVE  CompletedHasResults'
  <1> USE DEF JobAt
  <1>1. ASSUME NEW e \in Events, "completed_at" \in outbox'[e].stamps
        PROVE  analysis[e].results # NoResults
    <2>1. CASE "completed_at" \in outbox[e].stamps
      BY <2>1 DEF SubInv, CompletedHasResults
    <2>2. CASE "completed_at" \notin outbox[e].stamps
      <3>0. outbox \in [Events -> Row]
        BY DEF SubInv, SubTypeOK, OutboxTypeOK
      <3>1. ~ UNCHANGED outbox
        BY <1>1, <2>2
      <3>2. SetProcessed(s) \/ SetCompleted(s)
        BY <3>1 DEF WorkStep, StepFails, CacheFails, SetProcessed, SetInProgress, Invalidate, Fetch,
                    FetchPageFails, SetFailed, CheckDuplicate, Analyze, SaveResults, ReadBack,
                    RefreshCache, SetCompleted, Ack
      <3>3. MarkProcessed(outbox[e]).stamps = outbox[e].stamps \cup {"processed_at"}
        BY <3>0 DEF MarkProcessed, Row
      <3>4. ~ SetProcessed(s)
        BY <1>1, <2>2, <3>0, <3>3 DEF SetProcessed
      <3>5. job[s].pc = "mark_completed" /\ e = job[s].event
        BY <1>1, <2>2, <3>0, <3>2, <3>4 DEF SetCompleted
      <3> QED
        BY <3>5 DEF SubInv, Progress
    <2> QED
      BY <2>1, <2>2
  <1> QED
    BY <1>1, ResultsStay DEF CompletedHasResults

LEMMA SubInvKept == SubInv /\ [SubNext]_subVars => SubInv'
  <1> SUFFICES ASSUME SubInv, [SubNext]_subVars PROVE SubInv'
    OBVIOUS
  <1>1. CASE UNCHANGED subVars
    BY <1>1 DEF SubInv, SubTypeOK, OutboxTypeOK, StoreTypeOK, BrokerTypeOK, Progress,
                CompletedHasResults, subVars
  <1>2. ASSUME NEW s \in Subscribers, WorkStep(s) \/ StepFails(s) \/ CacheFails(s) PROVE SubInv'
    BY <1>2, WorkTypes, WorkProgress, WorkCompletes DEF SubInv
  <1>3. ASSUME NEW s \in Subscribers, ProcessStep(s) PROVE SubInv'
    <2>1. /\ UNCHANGED <<outbox, analysis, cache>> /\ SubTypeOK'
          /\ \A t \in Subscribers : job'[t] = job[t] \/ job'[t].pc \in {"idle", "mark_processed"}
      BY <1>3, ProcessEffects DEF SubInv
    <2>2. Progress'
      BY <2>1 DEF SubInv, Progress
    <2> QED
      BY <2>1, <2>2 DEF SubInv, CompletedHasResults
  <1> QED
    BY <1>1, <1>2, <1>3 DEF SubNext, SubReliable, SubCrashes, SubFaults, ProcessStep

LEMMA SubStarts == SubInit => SubInv
  <1> SUFFICES ASSUME SubInit PROVE SubInv
    OBVIOUS
  <1>1. Absent \in Row /\ NoAnalysis \in Analysis
    BY DEF Absent, Row, Status, RetryTime, Stamp, NoAnalysis, Analysis, AnalysisStatus
  <1> DEFINE r == MarkPublished(ClaimForProcessing(SaveInTx(Absent)))
             a == SaveAnalysisInTx(NoAnalysis)
  <1>2. r \in Row /\ "completed_at" \notin r.stamps
    <2>1. r \in Row
      BY <1>1, OutboxStatements
    <2>2. r.stamps = {"started_at", "published_at"}
      BY DEF Absent, SaveInTx, ClaimForProcessing, MarkPublished
    <2> QED
      BY <2>1, <2>2
  <1>3. a \in Analysis /\ a.status = "requested"
    BY <1>1 DEF SaveAnalysisInTx, Analysis, AnalysisStatus
  <1>4. queue \in [Events -> Nat]
    <2>1. MaxSends \in Nat
      BY MaxRetriesAssumption DEF MaxSends
    <2> QED
      BY <2>1 DEF SubInit
  <1>5. outbox = [e \in Events |-> r] /\ analysis = [e \in Events |-> a] /\ cache = analysis
    BY DEF SubInit
  <1>6. /\ job = [s \in Subscribers |-> Idle] /\ held = [s \in Subscribers |-> {}]
        /\ subMode = [s \in Subscribers |-> "up"]
    BY DEF SubInit, SubLocalInit
  <1>7. subConn \in [Subscribers -> BOOLEAN]
    BY DEF SubInit, SubLocalInit
  <1> HIDE DEF r, a
  <1>8. SubTypeOK
    BY <1>2, <1>3, <1>4, <1>5, <1>6, <1>7
    DEF SubTypeOK, OutboxTypeOK, StoreTypeOK, BrokerTypeOK, Job
  <1>9. Progress
    BY <1>6 DEF Progress, Idle
  <1>10. CompletedHasResults
    BY <1>2, <1>3, <1>5 DEF CompletedHasResults
  <1> QED
    BY <1>8, <1>9, <1>10 DEF SubInv

\* Types, for any number of subscribers and under all faults.
THEOREM SubTypeCorrect == SubSpec => []SubTypeOK
  <1>1. SubInv => SubTypeOK
    BY DEF SubInv
  <1> QED
    BY <1>1, SubStarts, SubInvKept, PTL DEF SubSpec

\* Whatever crashes, fails or is delivered again, a client never reads a completed analysis
\* without results, and the outbox never says completed of one.
THEOREM CompletedMeansResults == SubSpec => []CompletedHasResults
  <1>1. SubInv => CompletedHasResults
    BY DEF SubInv
  <1> QED
    BY <1>1, SubStarts, SubInvKept, PTL DEF SubSpec

-----------------------------------------------------------------------------
(* One subscriber                                                          *)

CrashStep ==
  \/ SubReliable
  \/ SubCrashes
  \/ \E s \in Subscribers : LoseSubConnection(s)

Crashing(s) ==
  \/ Deliver(s) \/ Receive(s) \/ WorkStep(s)
  \/ LoseSubConnection(s) \/ SubExit(s) \/ SubRestart(s)

\* From here on a worker writes to its analysis no more.
PastLastWrite == {"invalidate_failed", "read_back", "refresh_cache", "mark_completed",
                  "invalidate_completed", "ack"}

\* What the one subscriber owes the broker, the table and the cache at each point: a message that
\* it has without a connection is in the queue as well; past its last write the analysis is
\* final; and once it has nothing left to do but acknowledge, the cache entry is gone.
OwesAnalysis(s) ==
  /\ \A e, f \in held[s] : e = f
  /\ ~ subConn[s] =>
       /\ \A e \in held[s] : queue[e] > 0
       /\ job[s].pc # "idle" => queue[job[s].event] > 0
  /\ job[s].pc \in PastLastWrite => Terminal(analysis[job[s].event])

Owes(s) == OwesAnalysis(s) /\ (job[s].pc = "ack" => cache[job[s].event] = NoAnalysis)

CrashInv == SubTypeOK /\ NoRequestLost /\ StaleCacheIsInHand /\ \A s \in Subscribers : Owes(s)

OneSubscriber == \E s : Subscribers = {s}

\* With one subscriber, a message is in the queue, held or worked on: by that one.
LEMMA InItsHands ==
  ASSUME NEW s, Subscribers = {s}, NEW e
  PROVE  /\ InHand(e) <=> \/ queue[e] > 0 \/ e \in held[s]
                          \/ (job[s] # Idle /\ job[s].event = e)
         /\ InHand(e)' <=> \/ queue'[e] > 0 \/ e \in held'[s]
                           \/ (job'[s] # Idle /\ job'[s].event = e)
  BY DEF InHand

\* A message that is in hand stays there until its analysis is final.
Delivered(e) == Terminal(analysis[e]) \/ InHand(e)

\* Until it acknowledges, a worker keeps its message; it changes the row of its own analysis alone,
\* and makes it final with its last write.
LEMMA WorkGoesOn ==
  ASSUME SubTypeOK, NEW s \in Subscribers, OwesAnalysis(s),
         (WorkStep(s) /\ job[s].pc # "ack") \/ CacheFails(s)
  PROVE  /\ job[s].pc # "idle" /\ job'[s] # Idle /\ job'[s].event = job[s].event
         /\ UNCHANGED <<queue, held, subConn>>
         /\ \A e \in Events \ {job[s].event} : analysis'[e] = analysis[e]
         /\ job'[s].pc \in PastLastWrite => Terminal(analysis'[job[s].event])
  <1> USE DEF JobAt
  <1>0. /\ analysis \in [Events -> Analysis] /\ job \in [Subscribers -> Job]
        /\ job[s].pc \in PastLastWrite => Terminal(analysis[job[s].event])
    BY DEF SubTypeOK, StoreTypeOK, OwesAnalysis
  <1>1. CASE \/ SetProcessed(s) \/ FetchPageFails(s) \/ CheckDuplicate(s) \/ Analyze(s)
             \/ SetInProgress(s) \/ Invalidate(s) \/ RefreshCache(s) \/ SetCompleted(s)
             \/ CacheFails(s)
    <2>1. /\ job[s].pc # "idle"
          /\ \/ \E pc \in Steps \ PastLastWrite : JobGoto(s, pc)
             \/ /\ job[s].pc \in PastLastWrite /\ UNCHANGED analysis
                /\ \E pc \in PastLastWrite : JobGoto(s, pc)
          /\ UNCHANGED <<queue, held, subConn>>
      BY <1>1, Goes DEF SetProcessed, FetchPageFails, CheckDuplicate, Analyze, SetInProgress,
                        Invalidate, RefreshCache, SetCompleted, CacheFails, Steps, PastLastWrite
    <2>2. PastLastWrite \subseteq Steps
      BY DEF Steps, PastLastWrite
    <2>3. /\ job'[s] # Idle /\ job'[s].event = job[s].event
          /\ job'[s].pc \in PastLastWrite => job[s].pc \in PastLastWrite /\ UNCHANGED analysis
      BY <2>1, <2>2, Goto
    <2>4. \A e \in Events \ {job[s].event} : analysis'[e] = analysis[e]
      BY <1>0, <1>1 DEF SetProcessed, FetchPageFails, CheckDuplicate, Analyze, SetInProgress,
                        Invalidate, RefreshCache, SetCompleted, CacheFails
    <2> QED
      BY <1>0, <2>1, <2>3, <2>4
  <1>2. CASE SetFailed(s) \/ SaveResults(s)
    <2>1. /\ job[s].pc \in {"mark_failed", "update"}
          /\ \E pc \in {"invalidate_failed", "read_back"} : JobGoto(s, pc)
          /\ \/ analysis' = [analysis EXCEPT ![job[s].event] = MarkAnalysisFailed(@)]
             \/ analysis' = [analysis EXCEPT ![job[s].event] = Update(@, job[s].content)]
          /\ UNCHANGED <<queue, held, subConn>>
      BY <1>2 DEF SetFailed, SaveResults
    <2>2. job'[s] # Idle /\ job'[s].event = job[s].event
      BY <2>1, Goto DEF Steps
    <2>3. job[s].event \in Events
      BY <2>1, HasMessage
    <2>4. analysis[job[s].event] \in Analysis
      BY <1>0, <2>3
    <2>5. Terminal(analysis'[job[s].event])
      <3>1. /\ Terminal(MarkAnalysisFailed(analysis[job[s].event]))
            /\ Terminal(Update(analysis[job[s].event], job[s].content))
        BY <2>4 DEF MarkAnalysisFailed, Update, Analysis, Terminal
      <3> QED
        BY <1>0, <2>1, <2>3, <3>1
    <2>6. \A e \in Events \ {job[s].event} : analysis'[e] = analysis[e]
      BY <1>0, <2>1
    <2> QED
      BY <2>1, <2>2, <2>5, <2>6
  <1>3. CASE Fetch(s) \/ ReadBack(s)
    <2>1. job[s].pc # "idle" /\ UNCHANGED <<analysis, queue, held, subConn>>
      BY <1>3 DEF Fetch, ReadBack
    <2>2. job[s] \in [pc: Steps, event: Events, content: Contents \cup {NoResults}, seen: Analysis]
      BY <2>1, HasMessage
    <2>3. /\ job'[s].event = job[s].event
          /\ \/ job'[s].pc = "check_duplicate"
             \/ job'[s].pc = "refresh_cache" /\ job[s].pc = "read_back"
      <3>1. CASE Fetch(s)
        <4>1. PICK c \in Contents :
                job' = [job EXCEPT ![s] = [[@ EXCEPT !.pc = "check_duplicate"] EXCEPT !.content = c]]
          BY <3>1 DEF Fetch
        <4> QED
          BY <1>0, <2>2, <4>1
      <3>2. CASE ReadBack(s)
        <4>1. /\ job' = [job EXCEPT ![s] = [[@ EXCEPT !.pc = "refresh_cache"]
                                                EXCEPT !.seen = analysis[job[s].event]]]
              /\ job[s].pc = "read_back"
          BY <3>2 DEF ReadBack
        <4> QED
          BY <1>0, <2>2, <4>1
      <3> QED
        BY <1>3, <3>1, <3>2
    <2>4. job'[s] # Idle
      BY <2>3 DEF Idle
    <2>5. job'[s].pc \in PastLastWrite => Terminal(analysis'[job[s].event])
      BY <1>0, <2>1, <2>3 DEF PastLastWrite
    <2> QED
      BY <2>1, <2>3, <2>4, <2>5
  <1>4. ~ Ack(s) \/ CacheFails(s)
    BY DEF Ack
  <1> QED
    BY <1>1, <1>2, <1>3, <1>4 DEF WorkStep

\* A call that does what its successor owes, and changes the row and the entry of the worker's
\* own message alone, keeps what is claimed of the others.
LEMMA CallKeeps ==
  ASSUME CrashInv, NEW s \in Subscribers, Subscribers = {s},
         job[s].pc # "idle", job'[s] # Idle, job'[s].event = job[s].event,
         UNCHANGED <<queue, held, subConn>>,
         \A e \in Events \ {job[s].event} : analysis'[e] = analysis[e] /\ cache'[e] = cache[e],
         job'[s].pc \in PastLastWrite => Terminal(analysis'[job[s].event]),
         job'[s].pc = "ack" => cache'[job[s].event] = NoAnalysis
  PROVE  NoRequestLost' /\ StaleCacheIsInHand' /\ Owes(s)'
  <1>1. InHand(job[s].event)' /\ \A e : InHand(e) => InHand(e)'
    BY InItsHands
  <1>2. NoRequestLost'
    <2>1. ASSUME NEW e \in Events, ~ Terminal(analysis'[e]) PROVE InHand(e)'
      <3>1. CASE e = job[s].event
        BY <1>1, <3>1
      <3>2. CASE e # job[s].event
        <4>1. ~ Terminal(analysis[e])
          BY <2>1, <3>2
        <4> QED
          BY <1>1, <4>1 DEF CrashInv, NoRequestLost
      <3> QED
        BY <3>1, <3>2
    <2> QED
      BY <2>1 DEF NoRequestLost, Terminal
  <1>3. StaleCacheIsInHand'
    <2>1. ASSUME NEW e \in Events, cache'[e] \notin {NoAnalysis, analysis'[e]} PROVE InHand(e)'
      <3>1. CASE e = job[s].event
        BY <1>1, <3>1
      <3>2. CASE e # job[s].event
        <4>1. cache[e] \notin {NoAnalysis, analysis[e]}
          BY <2>1, <3>2
        <4> QED
          BY <1>1, <4>1 DEF CrashInv, StaleCacheIsInHand
      <3> QED
        BY <3>1, <3>2
    <2> QED
      BY <2>1 DEF StaleCacheIsInHand
  <1>4. Owes(s)'
    <2>1. Owes(s)
      BY DEF CrashInv
    <2> QED
      BY <2>1 DEF Owes, OwesAnalysis, Terminal
  <1> QED
    BY <1>2, <1>3, <1>4

LEMMA WorkKeepsPromises ==
  ASSUME CrashInv, NEW s \in Subscribers, Subscribers = {s}, WorkStep(s)
  PROVE  NoRequestLost' /\ StaleCacheIsInHand' /\ Owes(s)'
  <1> USE DEF JobAt
  <1>0. /\ SubTypeOK /\ Owes(s) /\ OwesAnalysis(s) /\ cache \in [Events -> Analysis]
        /\ job \in [Subscribers -> Job]
    BY DEF CrashInv, SubTypeOK, StoreTypeOK, Owes
  <1>1. CASE job[s].pc # "ack"
    <2>1. /\ job[s].pc # "idle" /\ job'[s] # Idle /\ job'[s].event = job[s].event
          /\ UNCHANGED <<queue, held, subConn>>
          /\ \A e \in Events \ {job[s].event} : analysis'[e] = analysis[e]
          /\ job'[s].pc \in PastLastWrite => Terminal(analysis'[job[s].event])
      BY <1>0, <1>1, WorkGoesOn
    <2>2. job[s].event \in Events
      BY <1>0, <2>1, HasMessage
    <2>3. /\ \A e \in Events \ {job[s].event} : cache'[e] = cache[e]
          /\ job'[s].pc = "ack" => cache'[job[s].event] = NoAnalysis
      <3>1. CASE Invalidate(s)
        <4>1. cache' = [cache EXCEPT ![job[s].event] = NoAnalysis]
          BY <3>1 DEF Invalidate, CacheDelete
        <4> QED
          BY <1>0, <2>2, <4>1
      <3>2. CASE RefreshCache(s)
        <4>1. /\ cache' = [cache EXCEPT ![job[s].event] = job[s].seen]
              /\ JobGoto(s, "mark_completed")
          BY <3>2 DEF RefreshCache, CacheSet
        <4>2. job'[s].pc = "mark_completed"
          BY <1>0, <2>1, <4>1, Goto DEF Steps
        <4> QED
          BY <1>0, <4>1, <4>2
      <3>3. CASE \/ SetProcessed(s) \/ SetInProgress(s) \/ FetchPageFails(s) \/ SetFailed(s)
                 \/ CheckDuplicate(s) \/ Analyze(s) \/ SaveResults(s) \/ SetCompleted(s)
        <4>1. UNCHANGED cache /\ \E pc \in Steps \ {"ack"} : JobGoto(s, pc)
          BY <3>3 DEF SetProcessed, SetInProgress, FetchPageFails, SetFailed, CheckDuplicate,
                      Analyze, SaveResults, SetCompleted, Steps
        <4>2. job'[s].pc # "ack"
          BY <1>0, <2>1, <4>1, Goto
        <4> QED
          BY <4>1, <4>2
      <3>4. CASE Fetch(s) \/ ReadBack(s)
        <4>1. UNCHANGED cache /\ job[s] \in [pc: Steps, event: Events,
                                             content: Contents \cup {NoResults}, seen: Analysis]
          BY <1>0, <2>1, <3>4, HasMessage DEF Fetch, ReadBack
        <4>2. job'[s].pc # "ack"
          BY <1>0, <3>4, <4>1 DEF Fetch, ReadBack
        <4> QED
          BY <4>1, <4>2
      <3> QED
        BY <1>1, <3>1, <3>2, <3>3, <3>4 DEF WorkStep, Ack
    <2> QED
      BY <2>1, <2>3, CallKeeps
  <1>2. CASE job[s].pc = "ack"
    <2>1. /\ job' = [job EXCEPT ![s] = Idle]
          /\ UNCHANGED <<analysis, cache, queue, held, subConn>>
      BY <1>2 DEF WorkStep, Ack, SetProcessed, SetInProgress, Invalidate, AfterInvalidate, Fetch,
                  FetchPageFails, SetFailed, CheckDuplicate, Analyze, SaveResults, ReadBack,
                  RefreshCache, SetCompleted
    <2>2. Terminal(analysis[job[s].event]) /\ cache[job[s].event] = NoAnalysis
      BY <1>0, <1>2 DEF Owes, OwesAnalysis, PastLastWrite
    <2>3. \A e : InHand(e) => InHand(e)' \/ e = job[s].event
      BY <2>1, InItsHands
    <2>4. NoRequestLost'
      BY <2>1, <2>2, <2>3 DEF CrashInv, NoRequestLost, Terminal
    <2>5. StaleCacheIsInHand'
      BY <2>1, <2>2, <2>3 DEF CrashInv, StaleCacheIsInHand
    <2>6. job'[s].pc = "idle"
      BY <1>0, <2>1 DEF Idle
    <2>7. Owes(s)'
      BY <1>0, <2>1, <2>6 DEF Owes, OwesAnalysis, PastLastWrite
    <2> QED
      BY <2>4, <2>5, <2>7
  <1> QED
    BY <1>1, <1>2

\* Deliveries, lost connections and deaths pass the message on and lose none.
LEMMA ProcessKeepsHand ==
  ASSUME SubTypeOK, NEW s \in Subscribers, Subscribers = {s}, OwesAnalysis(s),
         Deliver(s) \/ Receive(s) \/ LoseSubConnection(s) \/ SubExit(s) \/ SubRestart(s)
  PROVE  /\ \A e \in Events : InHand(e) => InHand(e)'
         /\ OwesAnalysis(s)'
  <1>0. /\ SubTypeOK /\ OwesAnalysis(s) /\ job \in [Subscribers -> Job] /\ queue \in [Events -> Nat]
        /\ held \in [Subscribers -> SUBSET Events] /\ subConn \in [Subscribers -> BOOLEAN]
        /\ Idle.pc = "idle"
    BY DEF SubTypeOK, BrokerTypeOK, Idle
  <1>1. UNCHANGED <<outbox, analysis, cache>>
    BY <1>0, ProcessEffects DEF ProcessStep
  <1>2. CASE Deliver(s)
    <2>1. PICK e \in Events : /\ queue[e] > 0 /\ queue' = [queue EXCEPT ![e] = @ - 1]
                             /\ held' = [held EXCEPT ![s] = {e}]
      BY <1>2 DEF Deliver, Dequeue
    <2>2. /\ held[s] = {} /\ subConn[s] /\ UNCHANGED <<subConn, job>>
      BY <1>2 DEF Deliver
    <2>3. held'[s] = {e} /\ \A f \in Events \ {e} : queue'[f] = queue[f]
      BY <1>0, <2>1
    <2>4. \A f \in Events : InHand(f) => InHand(f)'
      BY <2>2, <2>3, InItsHands
    <2>5. OwesAnalysis(s)'
      BY <1>0, <1>1, <2>2, <2>3 DEF OwesAnalysis, PastLastWrite, Terminal
    <2> QED
      BY <2>4, <2>5
  <1>3. CASE Receive(s)
    <2>1. PICK e \in held[s] :
            job' = [job EXCEPT ![s] = Working("mark_processed", e, NoResults, NoAnalysis)]
      BY <1>3 DEF Receive
    <2>2. /\ job[s] = Idle /\ held' = [held EXCEPT ![s] = {}] /\ UNCHANGED <<queue, subConn>>
      BY <1>3 DEF Receive
    <2>3. job'[s].pc = "mark_processed" /\ job'[s].event = e /\ job'[s] # Idle
      BY <1>0, <2>1 DEF Working, Idle
    <2>4. held'[s] = {} /\ \A f \in held[s] : f = e
      BY <1>0, <2>2 DEF OwesAnalysis, PastLastWrite
    <2>5. \A f \in Events : InHand(f) => InHand(f)'
      BY <2>2, <2>3, <2>4, InItsHands
    <2>6. OwesAnalysis(s)'
      BY <1>0, <2>2, <2>3, <2>4 DEF OwesAnalysis, PastLastWrite
    <2> QED
      BY <2>5, <2>6
  <1>4. CASE LoseSubConnection(s) \/ SubExit(s)
    <2>1. \A e \in Events : queue'[e] = queue[e] + Unacknowledged(s, e)
      BY <1>4 DEF LoseSubConnection, SubExit, Redeliver
    <2>2. ASSUME NEW e \in Events, InHand(e) PROVE queue'[e] > 0
      <3>1. CASE queue[e] > 0
        <4>1. queue[e] \in Nat /\ Unacknowledged(s, e) \in Nat
          BY <1>0 DEF Unacknowledged
        <4> QED
          BY <2>1, <3>1, <4>1
      <3>2. CASE ~ queue[e] > 0
        <4>1. e \in held[s] \/ (job[s] # Idle /\ job[s].event = e)
          BY <2>2, <3>2, InItsHands
        <4>2. job[s] # Idle => job[s].pc # "idle"
          BY <1>0 DEF Job, Steps
        <4>3. subConn[s]
          BY <1>0, <3>2, <4>1, <4>2 DEF OwesAnalysis, PastLastWrite
        <4>4. Unacknowledged(s, e) \in {1, 2}
          BY <4>1, <4>3 DEF Unacknowledged
        <4>5. queue[e] \in Nat
          BY <1>0
        <4> QED
          BY <2>1, <4>4, <4>5
      <3> QED
        BY <3>1, <3>2
    <2>3. \A e \in Events : InHand(e) => InHand(e)'
      BY <2>2, InItsHands
    <2>4. CASE LoseSubConnection(s)
      <3>1. subConn' = [subConn EXCEPT ![s] = FALSE] /\ UNCHANGED <<held, job>>
        BY <2>4 DEF LoseSubConnection
      <3>2. \A e \in held[s] : queue'[e] > 0
        <4>1. held[s] \subseteq Events
          BY <1>0
        <4> QED
          BY <2>2, <4>1, InItsHands
      <3>3. job[s].pc # "idle" => queue'[job[s].event] > 0
        <4>1. job[s].pc # "idle" => job[s] # Idle /\ job[s].event \in Events
          BY <1>0, HasMessage
        <4> QED
          BY <2>2, <4>1, InItsHands
      <3>4. OwesAnalysis(s)'
        BY <1>0, <1>1, <3>1, <3>2, <3>3 DEF OwesAnalysis, PastLastWrite, Terminal
      <3> QED
        BY <2>3, <3>4
    <2>5. CASE SubExit(s)
      <3>1. held' = [held EXCEPT ![s] = {}] /\ job' = [job EXCEPT ![s] = Idle]
        BY <2>5 DEF SubExit
      <3>2. held'[s] = {} /\ job'[s].pc = "idle"
        BY <1>0, <3>1
      <3>3. OwesAnalysis(s)'
        BY <3>2 DEF OwesAnalysis, PastLastWrite
      <3> QED
        BY <2>3, <3>3
    <2> QED
      BY <1>4, <2>4, <2>5
  <1>5. CASE SubRestart(s)
    <2>1. subConn' = [subConn EXCEPT ![s] = TRUE] /\ UNCHANGED <<queue, held, job>>
      BY <1>5 DEF SubRestart
    <2>2. subConn'[s]
      BY <1>0, <2>1
    <2>3. \A e \in Events : InHand(e) => InHand(e)'
      BY <2>1, InItsHands
    <2>4. OwesAnalysis(s)'
      BY <1>0, <1>1, <2>1, <2>2 DEF OwesAnalysis, PastLastWrite, Terminal
    <2> QED
      BY <2>3, <2>4
  <1> QED
    BY <1>2, <1>3, <1>4, <1>5

LEMMA CrashInvKept == ASSUME OneSubscriber PROVE CrashInv /\ [CrashStep]_subVars => CrashInv'
  <1> SUFFICES ASSUME CrashInv, [CrashStep]_subVars PROVE CrashInv'
    OBVIOUS
  <1>1. PICK s : Subscribers = {s}
    BY DEF OneSubscriber
  <1>2. s \in Subscribers /\ \A t \in Subscribers : t = s
    BY <1>1
  <1>3. CASE WorkStep(s)
    <2>1. SubTypeOK'
      BY <1>2, <1>3, WorkTypes DEF CrashInv
    <2>2. NoRequestLost' /\ StaleCacheIsInHand' /\ Owes(s)'
      BY <1>1, <1>2, <1>3, WorkKeepsPromises
    <2> QED
      BY <1>2, <2>1, <2>2 DEF CrashInv
  <1>4. CASE Deliver(s) \/ Receive(s) \/ LoseSubConnection(s) \/ SubExit(s) \/ SubRestart(s)
    <2>1. SubTypeOK' /\ UNCHANGED <<outbox, analysis, cache>>
      BY <1>2, <1>4, ProcessEffects DEF CrashInv, ProcessStep
    <2>2. (\A e \in Events : InHand(e) => InHand(e)') /\ OwesAnalysis(s)'
      BY <1>1, <1>2, <1>4, ProcessKeepsHand DEF CrashInv, Owes
    <2>3. Owes(s)'
      <3>1. job'[s] = job[s] \/ job'[s].pc # "ack"
        BY <1>2, <1>4, ProcessEffects DEF CrashInv, ProcessStep
      <3> QED
        BY <1>2, <2>1, <2>2, <3>1 DEF CrashInv, Owes
    <2>4. NoRequestLost' /\ StaleCacheIsInHand'
      BY <2>1, <2>2 DEF CrashInv, NoRequestLost, StaleCacheIsInHand, Terminal
    <2> QED
      BY <1>2, <2>1, <2>3, <2>4 DEF CrashInv
  <1>5. CASE UNCHANGED subVars
    <2>1. SubTypeOK'
      BY <1>5 DEF CrashInv, SubTypeOK, OutboxTypeOK, StoreTypeOK, BrokerTypeOK, subVars
    <2>2. \A e : InHand(e) <=> InHand(e)'
      BY <1>5 DEF InHand, subVars
    <2>3. NoRequestLost' /\ StaleCacheIsInHand'
      BY <1>5, <2>2 DEF CrashInv, NoRequestLost, StaleCacheIsInHand, Terminal, subVars
    <2>4. \A t \in Subscribers : Owes(t)'
      BY <1>5 DEF CrashInv, Owes, OwesAnalysis, Terminal, subVars
    <2> QED
      BY <2>1, <2>3, <2>4 DEF CrashInv
  <1> QED
    BY <1>2, <1>3, <1>4, <1>5 DEF CrashStep, SubReliable, SubCrashes

LEMMA CrashStarts == SubInit => CrashInv
  <1> SUFFICES ASSUME SubInit PROVE CrashInv
    OBVIOUS
  <1>1. SubTypeOK
    BY SubStarts DEF SubInv
  <1>2. \A e \in Events : queue[e] > 0
    <2>1. MaxSends \in Nat
      BY MaxRetriesAssumption DEF MaxSends
    <2>2. queue \in [Events -> 1..MaxSends]
      BY DEF SubInit
    <2>3. \A n \in 1..MaxSends : n > 0
      BY <2>1
    <2> QED
      BY <2>2, <2>3
  <1>3. NoRequestLost /\ StaleCacheIsInHand
    BY <1>2 DEF NoRequestLost, StaleCacheIsInHand, InHand
  <1>4. ASSUME NEW s \in Subscribers PROVE Owes(s)
    <2>1. held[s] = {} /\ job[s].pc = "idle"
      BY DEF SubInit, SubLocalInit, Idle
    <2> QED
      BY <2>1 DEF Owes, OwesAnalysis, PastLastWrite
  <1> QED
    BY <1>1, <1>3, <1>4 DEF CrashInv

LEMMA CrashInvariance == ASSUME OneSubscriber PROVE SubCrashSpec => []CrashInv
  <1>1. SubCrashSpec => SubInit /\ [][CrashStep]_subVars
    BY PTL DEF SubCrashSpec, CrashStep
  <1> QED
    BY <1>1, CrashStarts, CrashInvKept, PTL

\* One subscriber that may die, or lose its connection, at any step: an analysis that is not final
\* has a message that will be worked off.
THEOREM NothingLost == ASSUME OneSubscriber PROVE SubCrashSpec => []NoRequestLost
  <1>1. CrashInv => NoRequestLost
    BY DEF CrashInv
  <1> QED
    BY <1>1, CrashInvariance, PTL

\* And a cache entry that differs from the row has a message whose handling will delete it.
THEOREM StaleCacheGoes == ASSUME OneSubscriber PROVE SubCrashSpec => []StaleCacheIsInHand
  <1>1. CrashInv => StaleCacheIsInHand
    BY DEF CrashInv
  <1> QED
    BY <1>1, CrashInvariance, PTL

=============================================================================
