-------------------------------- MODULE Api ---------------------------------
(***************************************************************************)
(* The HTTP API's use of the tables: StartAnalysis and FetchAnalysis of    *)
(* internal/service/application_service.go, one call per client at a time. *)
(* FetchAnalysis is also what the event stream polls with.  A call that    *)
(* finds its analysis in the cache changes nothing and is not a step.      *)
(***************************************************************************)
EXTENDS AnalysisStore

CONSTANT Clients    \* concurrent HTTP requests

VARIABLE call       \* the progress of a client's request

NoCall == [pc |-> "none"]
Call == {NoCall} \cup [pc: {"find", "cache"}, event: Events, seen: Analysis]

\* One transaction inserts the analysis and its outbox event; the cache is written after it.
StartAnalysis(c, e) ==
  /\ call[c] = NoCall
  /\ analysis[e] = NoAnalysis
  /\ analysis' = [analysis EXCEPT ![e] = SaveAnalysisInTx(@)]
  /\ outbox' = [outbox EXCEPT ![e] = SaveInTx(@)]
  /\ call' = [call EXCEPT ![c] = [pc |-> "cache", event |-> e, seen |-> SaveAnalysisInTx(NoAnalysis)]]
  /\ UNCHANGED cache

\* cacheRepo.Find misses.
FetchAnalysis(c, e) ==
  /\ call[c] = NoCall
  /\ cache[e] = NoAnalysis
  /\ call' = [call EXCEPT ![c] = [pc |-> "find", event |-> e, seen |-> NoAnalysis]]
  /\ UNCHANGED <<outbox, analysis, cache>>

\* analysisRepo.Find: an error if there is no such analysis.
FindAnalysis(c) ==
  /\ call[c].pc = "find"
  /\ LET a == analysis[call[c].event] IN
       call' = [call EXCEPT ![c] = IF a = NoAnalysis THEN NoCall
                                   ELSE [@ EXCEPT !.pc = "cache", !.seen = a]]
  /\ UNCHANGED <<outbox, analysis, cache>>

\* cacheRepo.Set, the last thing either call does.
CacheAnalysis(c) ==
  /\ call[c].pc = "cache"
  /\ CacheSet(call[c].event, call[c].seen)
  /\ call' = [call EXCEPT ![c] = NoCall]
  /\ UNCHANGED <<outbox, analysis>>

\* cacheRepo.Find fails, which is treated as a miss.
CacheFindFails(c, e) ==
  /\ call[c] = NoCall
  /\ cache[e] # NoAnalysis
  /\ call' = [call EXCEPT ![c] = [pc |-> "find", event |-> e, seen |-> NoAnalysis]]
  /\ UNCHANGED <<outbox, analysis, cache>>

\* The query or the cache write fails, the request is cancelled, or the API process ends.
CallEnds(c) ==
  /\ call[c] # NoCall
  /\ call' = [call EXCEPT ![c] = NoCall]
  /\ UNCHANGED <<outbox, analysis, cache>>

ApiInit == call = [c \in Clients |-> NoCall]

CallStep(c) == FindAnalysis(c) \/ CacheAnalysis(c)

ApiReliable ==
  \E c \in Clients : \/ \E e \in Events : StartAnalysis(c, e) \/ FetchAnalysis(c, e)
                     \/ CallStep(c)

ApiFaults ==
  \E c \in Clients : (\E e \in Events : CacheFindFails(c, e)) \/ CallEnds(c)

ApiTypeOK == call \in [Clients -> Call]
=============================================================================
