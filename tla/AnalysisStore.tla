--------------------------- MODULE AnalysisStore ----------------------------
(***************************************************************************)
(* The analysis table and its cache: the statements of AnalysisRepository  *)
(* (internal/adapters/repos/analysis_repository.go) as the row they leave  *)
(* behind, and the entries of CacheRepository (cache_repository.go).  An   *)
(* analysis is identified with its outbox event (aggregate_id).            *)
(*                                                                         *)
(* `results' stands for the results and the content_hash, which are always *)
(* written together: the content they were computed from.                  *)
(***************************************************************************)
EXTENDS OutboxEvents

CONSTANTS Contents,    \* what a page may contain when it is fetched
          NoResults    \* results IS NULL

ASSUME ResultsAssumption == NoResults \notin Contents

VARIABLES analysis,    \* the table
          cache        \* the cached copies; NoAnalysis where there is none

AnalysisStatus == {"absent", "requested", "in_progress", "completed", "failed"}

Analysis == [status: AnalysisStatus, results: Contents \cup {NoResults}, error: BOOLEAN]

NoAnalysis == [status |-> "absent", results |-> NoResults, error |-> FALSE]

Terminal(a) == a.status \in {"completed", "failed"}

-----------------------------------------------------------------------------
SaveAnalysisInTx(a) == [a EXCEPT !.status = "requested"]

UpdateStatus(a, status) == [a EXCEPT !.status = status]

\* Mutant: the results are left out.
UpdateStatusAlone(a, content) == [a EXCEPT !.status = "completed"]

\* Leaves error_code of an earlier failure in place.
Update(a, content) == [a EXCEPT !.status = "completed", !.results = content]

\* Leaves the results of an earlier completion in place.
MarkAnalysisFailed(a) == [a EXCEPT !.status = "failed", !.error = TRUE]

FindByContentHash(content) ==
  {e \in Events : analysis[e].status = "completed" /\ analysis[e].results = content}

CacheSet(e, a) == cache' = [cache EXCEPT ![e] = a]

\* Mutant: the key that is deleted is not the one that was set.
CacheDeleteOther(e) == UNCHANGED cache

CacheDelete(e) == cache' = [cache EXCEPT ![e] = NoAnalysis]

\* The entry's time to live runs out.
Expire(e) == cache[e] # NoAnalysis /\ CacheDelete(e)

StoreInit ==
  /\ analysis = [e \in Events |-> NoAnalysis]
  /\ cache = [e \in Events |-> NoAnalysis]

StoreTypeOK ==
  /\ analysis \in [Events -> Analysis]
  /\ cache \in [Events -> Analysis]
=============================================================================
