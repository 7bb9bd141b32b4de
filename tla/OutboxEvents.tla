---------------------------- MODULE OutboxEvents ----------------------------
(***************************************************************************)
(* The outbox_events table and the statements OutboxRepository runs on it  *)
(* (internal/adapters/repos/outbox_repository.go).  A statement is given   *)
(* as the row it leaves behind; whoever runs it decides when it takes      *)
(* effect and what an error means.  There is no clock: a timestamp column  *)
(* is a member of `stamps' once it has been written, and next_retry_at is  *)
(* only compared with NOW().                                               *)
(***************************************************************************)
EXTENDS Naturals

CONSTANTS Events,      \* the outbox rows that may be created, one per analysis
          MaxRetries   \* max_retries of a row: GetMaxRetriesForPriority("normal")

ASSUME MaxRetriesAssumption == MaxRetries \in Nat

VARIABLE outbox        \* the table: one row per event, "absent" until inserted

Status == {"absent", "pending", "processing", "published", "failed"}
RetryTime == {"null", "future", "past"}
Stamp == {"started_at", "published_at", "processed_at", "completed_at"}

Row == [status: Status, retryCount: Nat, nextRetryAt: RetryTime, stamps: SUBSET Stamp]

Absent == [status |-> "absent", retryCount |-> 0, nextRetryAt |-> "null", stamps |-> {}]

-----------------------------------------------------------------------------
(* Statements                                                              *)

\* INSERT by the transaction of StartAnalysis.
SaveInTx(r) == [r EXCEPT !.status = "pending"]

FindPending == {e \in Events : outbox[e].status = "pending"}

\* Mutants: the last retry is not the last; the backoff is not waited for.
FindRetryableOnceMore ==
  {e \in Events : /\ outbox[e].status = "failed"
                  /\ outbox[e].nextRetryAt = "past"
                  /\ outbox[e].retryCount <= MaxRetries}
FindRetryableAtOnce ==
  {e \in Events : outbox[e].status = "failed" /\ outbox[e].retryCount < MaxRetries}

FindRetryable ==
  {e \in Events : /\ outbox[e].status = "failed"
                  /\ outbox[e].nextRetryAt = "past"
                  /\ outbox[e].retryCount < MaxRetries}

\* Mutant: the claim does not look at the status.
ClaimableAlways(r) == r.status # "absent"

\* WHERE clause of the claiming UPDATE: neither next_retry_at nor retry_count is looked at.
Claimable(r) == r.status \in {"pending", "failed"}

\* Mutant: the time is left out.
ClaimUntimed(r) == [r EXCEPT !.status = "processing"]

ClaimForProcessing(r) ==
  [r EXCEPT !.status = "processing", !.stamps = @ \cup {"started_at"}]

\* Mutant: the time is left out.
MarkPublishedUntimed(r) == [r EXCEPT !.status = "published"]

\* The statements from here on select the row by its id alone.
MarkPublished(r) ==
  [r EXCEPT !.status = "published", !.stamps = @ \cup {"published_at"}]

\* Mutant: what is being processed must have been published.
MarkProcessedPublished(r) ==
  [r EXCEPT !.status = "published", !.stamps = @ \cup {"processed_at"}]

MarkProcessed(r) == [r EXCEPT !.stamps = @ \cup {"processed_at"}]

MarkCompleted(r) == [r EXCEPT !.stamps = @ \cup {"completed_at"}]

\* Mutant: a failed row gets no time to retry at.
MarkFailedForGood(r) ==
  [r EXCEPT !.status = "failed", !.retryCount = @ + 1, !.nextRetryAt = "null"]

MarkFailed(r) ==
  [r EXCEPT !.status = "failed", !.retryCount = @ + 1, !.nextRetryAt = "future"]

MarkPermanentlyFailed(r) ==
  [r EXCEPT !.status = "failed", !.nextRetryAt = "null"]

-----------------------------------------------------------------------------
\* The backoff delay of a row runs out.
RetryDue(e) ==
  /\ outbox[e].nextRetryAt = "future"
  /\ outbox' = [outbox EXCEPT ![e].nextRetryAt = "past"]

\* A row the publisher will never pick up again: its retries are used up.
Exhausted(r) == r.status = "failed" /\ r.retryCount >= MaxRetries

OutboxTypeOK == outbox \in [Events -> Row]
=============================================================================
