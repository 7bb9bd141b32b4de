-------------------------- MODULE OutboxLifecycle ---------------------------
(***************************************************************************)
(* The life of an outbox event, one transition at a time.  The methods of  *)
(* domain.OutboxEvent (internal/domain/analysis.go:230-292) refuse a wrong *)
(* transition with an error, but nobody calls them: the repository updates *)
(* rows by id, unconditionally, so that any guard holds of the running     *)
(* system is something to be shown.  Two guards are not the domain's:      *)
(*   - MarkProcessed: the domain wants the event published, the service    *)
(*     only keeps to "claimed" (the subscriber may be faster than the      *)
(*     publisher's own mark);                                              *)
(*   - FailPermanently: the domain refuses a failure once the retries are  *)
(*     used up, the publisher records it with the count left alone.        *)
(***************************************************************************)
EXTENDS Naturals

CONSTANTS Events, MaxRetries

VARIABLE event   \* [Events -> [status, retryCount, times]]

\* StartAnalysis creates the event pending, with no retries.
Save(e) ==
  /\ event[e].status = "absent"
  /\ event' = [event EXCEPT ![e].status = "pending"]

\* No method of its own: the claim is atomic in the database.
StartProcessing(e) ==
  /\ event[e].status \in {"pending", "failed"}
  /\ event' = [event EXCEPT ![e].status = "processing"]

MarkPublished(e) ==
  /\ event[e].status = "processing"
  /\ event' = [event EXCEPT ![e].status = "published"]

CanRetry(e) == event[e].retryCount < MaxRetries

\* A publishing attempt failed; MaxRetriesExceededError if no retry is left.  That only an
\* event being published can fail is more than the method checks.
MarkFailed(e) ==
  /\ event[e].status = "processing"
  /\ CanRetry(e)
  /\ event' = [event EXCEPT ![e] = [status |-> "failed", retryCount |-> @.retryCount + 1,
                                    times |-> @.times]]

\* handlePublishFailure, where MarkFailed would refuse.
FailPermanently(e) ==
  /\ event[e].status = "processing"
  /\ ~ CanRetry(e)
  /\ event' = [event EXCEPT ![e].status = "failed"]

\* The subscriber takes the event up: it was claimed, whatever has been recorded since.  The
\* method would refuse "processing" and "failed".
MarkProcessed(e) ==
  /\ event[e].status \in {"processing", "published", "failed"}
  /\ event' = [event EXCEPT ![e].times = @ \cup {"processed_at"}]

MarkCompleted(e) ==
  /\ "processed_at" \in event[e].times
  /\ event' = [event EXCEPT ![e].times = @ \cup {"completed_at"}]

LifecycleInit == event = [e \in Events |-> [status |-> "absent", retryCount |-> 0, times |-> {}]]

LifecycleNext ==
  \E e \in Events : \/ Save(e)
                    \/ StartProcessing(e)
                    \/ MarkPublished(e)
                    \/ MarkFailed(e)
                    \/ FailPermanently(e)
                    \/ MarkProcessed(e)
                    \/ MarkCompleted(e)

LifecycleSpec == LifecycleInit /\ [][LifecycleNext]_event
=============================================================================
