------------------------------ MODULE Requests ------------------------------
(***************************************************************************)
(* The HTTP server: what a request goes through, from the generated route  *)
(* (internal/adapters/http/handlers) and the middlewares of                *)
(* internal/runtime/deps.go to the handler (internal/adapters/http/        *)
(* request_handler.go) and its answer.  The generated wrapper wraps the    *)
(* handler in one middleware after the other, so the last of the list is   *)
(* the outermost: rate limiting first, then logging, metrics, tracing,     *)
(* headers, validation with authentication, and the timeout last.          *)
(***************************************************************************)
EXTENDS KeyService, Submission

CONSTANT MaxBurst    \* the requests the rate limiter lets through at once

ASSUME MaxBurstAssumption == MaxBurst \in Nat \ {0}

VARIABLES authEnabled,   \* Auth.Enabled
          quota          \* what is left of the rate limiter's burst

requestVars == <<authEnabled, request, stage, accepted, quota>>
reqVars == <<keyVars, submissionVars, requestVars>>

\* What a client may ask for.  Its token, the ids and the rest of the body are chosen where they are
\* looked at: a client may send anything.
\* HealthCheck stands for LivenessCheck and ReadinessCheck too.
Operations == {"GetAnalysis", "GetAnalysisEvents", "HealthCheck"}
RequestKinds == [op : {"AnalyzeURL"}, url : Urls] \cup [op : Operations]

-----------------------------------------------------------------------------
(* The route and the middlewares                                           *)

\* The generated wrapper binds the parameters before any middleware runs: a malformed id or
\* version header, and an event stream without a token in its query, are answered at once.
BindParameters(r) ==
  /\ stage[r] = "route"
  /\ Advance(r, "limit") \/ (request[r].op # "HealthCheck" /\ Answer(r, 400))
  /\ UNCHANGED <<keyVars, submissionVars, authEnabled, quota>>

\* A limit for each address of a client; the requests here come from one.  No route begins with the
\* path that is to be skipped.
RateLimit(r) ==
  /\ stage[r] = "limit"
  /\ IF quota > 0 THEN Advance(r, "validate") /\ quota' = quota - 1
                  ELSE Answer(r, 429) /\ UNCHANGED quota
  /\ UNCHANGED <<keyVars, submissionVars, authEnabled>>

Replenish ==
  /\ quota < MaxBurst
  /\ quota' = quota + 1
  /\ UNCHANGED <<keyVars, submissionVars, authEnabled, request, stage, accepted>>

\* The health operations need no token: they are on the skip list, or require no security.
SkipsAuth(r) == ~ authEnabled \/ request[r].op = "HealthCheck"

\* ValidateRequest looks at the security requirements first: a v4.public token goes on to the key.
Validate(r) ==
  /\ stage[r] = "validate"
  /\ \/ SkipsAuth(r) /\ Advance(r, "validated")
     \/ ~ SkipsAuth(r) /\ (Answer(r, 401) \/ Advance(r, "key"))
  /\ UNCHANGED <<keyVars, submissionVars, authEnabled, quota>>

\* GetPublicKey.
FindKey(r) ==
  /\ stage[r] = "key" /\ KeyStep(r)
  /\ UNCHANGED <<submissionVars, requestVars>>

\* ParseV4Public and the claims, which are good or refused.  A token of another key is refused,
\* unless its claims can be taken as they are (the demonstration path); a missing claim ends in a
\* panic, outside of Recoverer, and the connection is closed.
CheckToken(r) ==
  /\ stage[r] = "key" /\ keyStage[r] = "given"
  /\ Advance(r, "validated") \/ Answer(r, 401) \/ Answer(r, 0)
  /\ Forget(r)
  /\ UNCHANGED <<submissionVars, authEnabled, quota>>

\* The parameters and the body, which may not be what the API description asks for.
ValidateRest(r) ==
  /\ stage[r] = "validated"
  /\ Advance(r, "handle") \/ (request[r].op # "HealthCheck" /\ Answer(r, 400))
  /\ UNCHANGED <<keyVars, submissionVars, authEnabled, quota>>

-----------------------------------------------------------------------------
(* The handlers                                                            *)

Handles(r, op) == stage[r] = "handle" /\ request[r].op = op

\* Storage, cache and queue are checked in this order.  A check fails only when the request's context
\* has ended: before the check with the number ended, or, when that is 4, after all of them.
Unhealthy(dependency, ended) == ended <= dependency
Storage == 1
Cache == 2
Queue == 3

Dead(ended) == Unhealthy(Storage, ended)

CalculateOverall(ended) ==
  IF Unhealthy(Storage, ended) THEN "unhealthy"
  ELSE IF Unhealthy(Cache, ended) /\ Unhealthy(Queue, ended) THEN "degraded"
  ELSE "healthy"

\* HealthCheck, LivenessCheck and ReadinessCheck.
HealthCheck(r) ==
  /\ Handles(r, "HealthCheck")
  /\ \E ended \in 1..4 :
       \E down \in {CalculateOverall(ended) = "unhealthy", Dead(ended)} :
         Answer(r, IF down THEN 503 ELSE 200)
  /\ UNCHANGED <<keyVars, submissionVars, authEnabled, quota>>

\* Any error is a 404.
GetAnalysis(r) ==
  /\ Handles(r, "GetAnalysis")
  /\ \/ rows # {} /\ Answer(r, 200)
     \/ Answer(r, 404)
  /\ UNCHANGED <<keyVars, submissionVars, authEnabled, quota>>

\* The status is written before anything is looked up.
GetAnalysisEvents(r) ==
  /\ Handles(r, "GetAnalysisEvents")
  /\ Answer(r, 200)
  /\ UNCHANGED <<keyVars, submissionVars, authEnabled, quota>>

\* StartAnalysis, statement by statement.  A URL that cannot be parsed is an error of SaveInTx.
BeginAnalysis(r) ==
  /\ Handles(r, "AnalyzeURL")
  /\ Advance(r, "version")
  /\ UNCHANGED <<keyVars, submissionVars, authEnabled, quota>>

Submits(r, s) == stage[r] = s /\ UNCHANGED <<keyVars, authEnabled, quota>>

ReadNextVersion(r) ==
  Submits(r, "version") /\ ReadVersion(r, request[r].url) /\ Advance(r, "insert")

SaveAnalysis(r) ==
  Submits(r, "insert") /\ InsertAnalysis(r, request[r].url) /\ Advance(r, "event")

SaveAnalysisCollides(r) ==
  Submits(r, "insert") /\ MustFail(r, request[r].url) /\ Rollback(r) /\ Answer(r, 500)

SaveEvent(r) ==
  Submits(r, "event") /\ InsertEvent(r) /\ Advance(r, "commit")

CommitAnalysis(r) == Submits(r, "commit") /\ Commit(r) /\ Answer(r, 202)

\* The commit took place but the answer to it was lost.
CommitUnknown(r) == Submits(r, "commit") /\ Commit(r) /\ Answer(r, 500)

\* A statement fails, or the timeout or the client has ended the context.
SubmissionFails(r) ==
  /\ \E s \in {"version", "insert", "event", "commit"} : Submits(r, s)
  /\ Rollback(r) /\ Answer(r, 500)

-----------------------------------------------------------------------------
\* A new request, unless its URL has been or is being submitted often enough.
Arrive(r) ==
  /\ stage[r] = "answered"
  /\ \E q \in RequestKinds :
       /\ q.op = "AnalyzeURL" =>
            NextVersion(q.url) + Cardinality({p \in Requests : request[p] = q}) <= MaxAnalyses
       /\ request' = [request EXCEPT ![r] = q]
  /\ stage' = [stage EXCEPT ![r] = "route"] /\ accepted' = accepted \ {r}
  /\ UNCHANGED <<keyVars, submissionVars, authEnabled, quota>>

ReqInit ==
  /\ KeyInit /\ SubmissionInit
  /\ authEnabled \in BOOLEAN
  /\ request = [r \in Requests |-> NoRequest]
  /\ stage = [r \in Requests |-> "answered"]
  /\ accepted = {}
  /\ quota = MaxBurst

RequestStep(r) ==
  \/ BindParameters(r) \/ RateLimit(r) \/ Validate(r) \/ FindKey(r) \/ CheckToken(r)
  \/ ValidateRest(r)
  \/ HealthCheck(r) \/ GetAnalysis(r) \/ GetAnalysisEvents(r) \/ BeginAnalysis(r)
  \/ ReadNextVersion(r) \/ SaveAnalysis(r) \/ SaveAnalysisCollides(r) \/ SaveEvent(r)
  \/ CommitAnalysis(r)

ReqNext ==
  \/ \E r \in Requests :
       RequestStep(r) \/ CommitUnknown(r) \/ SubmissionFails(r) \/ Arrive(r)
  \/ (RotateKey \/ KeyExpires) /\ UNCHANGED <<submissionVars, requestVars>>
  \/ Replenish

\* Every request runs in a goroutine of its own.  A mutex and a unique key are given to one that
\* waits for them before long.
Locked(r) == FindKey(r) \/ SaveAnalysis(r) \/ SaveAnalysisCollides(r)

ReqSpec ==
  /\ ReqInit /\ [][ReqNext]_reqVars
  /\ \A r \in Requests : WF_reqVars(RequestStep(r)) /\ SF_reqVars(Locked(r))

ReqTypeOK ==
  /\ KeyTypeOK /\ SubmissionTypeOK
  /\ authEnabled \in BOOLEAN
  /\ request \in [Requests -> RequestKinds \cup {NoRequest}]
  /\ stage \in [Requests -> {"route", "limit", "validate", "key", "validated", "handle",
                             "version", "insert", "event", "commit", "answered"}]
  /\ accepted \subseteq Requests
  /\ quota \in 0..MaxBurst

-----------------------------------------------------------------------------
(* Properties                                                              *)

\* 202 is a promise: it is given once the analysis is in its table and its event in the outbox, and
\* for an analysis that no other request was given.
AcceptedIsStored ==
  [][\A r \in Requests :
       r \in accepted' \ accepted =>
         /\ NewRow(r, request[r].url) \in rows' \cap events'
         /\ NewRow(r, request[r].url) \notin rows]_reqVars

\* Every request is answered: requests that wait for the key's lock or for each other's
\* transactions never wait for ever.
EveryRequestAnswered == \A r \in Requests : stage[r] = "route" ~> stage[r] = "answered"
=============================================================================
