------------------------------ MODULE Pipeline ------------------------------
(***************************************************************************)
(* The whole service: clients submit and read analyses through the API,    *)
(* publishers move outbox events to the broker, subscribers work them off. *)
(* The parts meet in the outbox table, the queue, the analysis table and   *)
(* the cache, and nowhere else.                                            *)
(***************************************************************************)
EXTENDS Publisher, Subscriber, Api

vars == <<outbox, queue, analysis, cache, pubLocal, subLocal, call>>

Init ==
  /\ PubInit
  /\ StoreInit
  /\ SubLocalInit
  /\ ApiInit

PublisherDoes(A) == A /\ UNCHANGED <<analysis, cache, subLocal, call>>
SubscriberDoes(A) == A /\ UNCHANGED <<pubLocal, call>>
ApiDoes(A) == A /\ UNCHANGED <<queue, pubLocal, subLocal>>

CacheExpires ==
  (\E e \in Events : Expire(e)) /\ UNCHANGED <<outbox, analysis, queue, pubLocal, subLocal, call>>

ReliableNext ==
  \/ ApiDoes(ApiReliable \/ ApiFaults)
  \/ PublisherDoes(PubReliable)
  \/ SubscriberDoes(SubReliable)
  \/ CacheExpires

Faults ==
  \/ PublisherDoes(PubProcess \/ PubDbFaults)
  \/ SubscriberDoes(SubCrashes \/ SubFaults)

Next == ReliableNext \/ Faults

Spec == Init /\ [][Next]_vars

TypeOK == PubTypeOK /\ SubTypeOK /\ ApiTypeOK
-----------------------------------------------------------------------------
(* Progress when nothing fails but the broker and the fetched sites        *)

Fairness ==
  /\ \A e \in Events : WF_vars(PublisherDoes(BackoffElapses(e)))
  /\ \A p \in Publishers : WF_vars(PublisherDoes(Tick(p)))
  /\ \A p \in Publishers, kind \in Kinds : WF_vars(PublisherDoes(FetchEvents(p, kind)))
  /\ \A w \in Workers : WF_vars(PublisherDoes(WorkerStep(w)))
  /\ \A s \in Subscribers : WF_vars(SubscriberDoes(Deliver(s)))
  /\ \A s \in Subscribers : WF_vars(SubscriberDoes(Receive(s)))
  /\ \A s \in Subscribers : WF_vars(SubscriberDoes(WorkStep(s)))

ReliableSpec == Init /\ [][ReliableNext]_vars /\ Fairness

\* An accepted analysis reaches a final status, unless its event cannot be published.
AnalysisFinishes ==
  \A e \in Events :
    analysis[e].status = "requested" ~> Terminal(analysis[e]) \/ Exhausted(outbox[e])

\* A final status is left again only for a message that was sent twice, which takes a
\* publish that failed after the broker had the message.
ReopenedOnlyByDuplicate ==
  [][\A e \in Events :
       Terminal(analysis[e]) /\ ~ Terminal(analysis'[e]) => outbox[e].retryCount > 0]_vars

Marking(e) ==
  \E w \in Workers : EventOf(w) = e /\ task[w].pc \in {"mark_published", "handle_failure"}

\* domain.OutboxEvent.MarkProcessed (internal/domain/analysis.go:246-252) refuses an event that is
\* not published, and migrations/20250928100000_create_outbox_events_table.up.sql:57 puts
\* published_at ahead of processed_at.  The service, which calls no method of the domain, does
\* otherwise when the subscriber is fast, but not for good: an event that is processed and not
\* published is one that a publisher has still to mark, or whose sending was reported as failed.
ProcessedAheadOfMark ==
  \A e \in Events :
    "processed_at" \in outbox[e].stamps /\ "published_at" \notin outbox[e].stamps =>
      Marking(e) \/ outbox[e].retryCount > 0

\* The rest of that timeline holds: no time is written before started_at, none says completed before
\* one says processed, and an analysis leaves "requested" only after its event says processed,
\* whichever replica of whichever process has crashed in between.
StampsInOrder ==
  \A e \in Events :
    LET stamps == outbox[e].stamps
    IN  /\ stamps # {} => "started_at" \in stamps
        /\ "completed_at" \in stamps => "processed_at" \in stamps
        /\ analysis[e].status \in {"in_progress", "completed", "failed"} =>
             "processed_at" \in stamps
=============================================================================
