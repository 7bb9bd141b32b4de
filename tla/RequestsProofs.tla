--------------------------- MODULE RequestsProofs ---------------------------
(***************************************************************************)
(* Proofs about Requests, for any number of concurrent requests, any URLs, *)
(* keys and analyses: the key cache and the transactions of StartAnalysis. *)
(***************************************************************************)
EXTENDS Requests, TLAPS, WellFoundedInduction, FiniteSetTheorems, FunctionTheorems

Stages == {"route", "limit", "validate", "key", "validated", "handle",
           "version", "insert", "event", "commit", "answered"}

\* What the requests are, apart from keys and transactions.
RequestsOK ==
  /\ authEnabled \in BOOLEAN
  /\ request \in [Requests -> RequestKinds \cup {NoRequest}]
  /\ stage \in [Requests -> Stages]
  /\ accepted \subseteq Requests
  /\ quota \in 0..MaxBurst

-----------------------------------------------------------------------------
(* The key cache                                                           *)

\* A key that is about to be stored is at least as new as the cached one: nobody else has stored
\* one since it was read.
StoredKeyIsNew ==
  /\ cachedKey <= vaultKey
  /\ \A r \in Requests : keyStage[r] = "store" => cachedKey <= key[r] /\ key[r] <= vaultKey

KeyInv == KeyTypeOK /\ OneLoadPerExpiry /\ StoredKeyIsNew

KeyAction ==
  \/ \E r \in Requests : KeyStep(r) \/ (keyStage[r] = "given" /\ Forget(r))
  \/ RotateKey \/ KeyExpires

LEMMA KeyStart == KeyInit => KeyInv
  <1> SUFFICES ASSUME KeyInit PROVE KeyInv
    OBVIOUS
  <1>0. 0 \in 0..MaxKeys /\ 1 \in 1..MaxKeys
    BY MaxKeysAssumption
  <1>1. KeyTypeOK
    BY <1>0 DEF KeyInit, KeyTypeOK, Fallback
  <1>2. OneLoadPerExpiry /\ StoredKeyIsNew
    BY DEF KeyInit, OneLoadPerExpiry, StoredKeyIsNew
  <1> QED
    BY <1>1, <1>2 DEF KeyInv

\* Whatever a request does, it does to the key cache what the key service does, or nothing.
LEMMA KeyActions == ReqNext => KeyAction \/ UNCHANGED keyVars
  BY DEF ReqNext, RequestStep, KeyAction,
         BindParameters, RateLimit, Validate, FindKey, CheckToken, ValidateRest, HealthCheck,
         GetAnalysis, GetAnalysisEvents, BeginAnalysis, Submits, ReadNextVersion, SaveAnalysis,
         SaveAnalysisCollides, SaveEvent, CommitAnalysis, CommitUnknown, SubmissionFails, Arrive,
         Replenish

LEMMA KeyIsInvariant ==
  ASSUME KeyInv, KeyAction \/ UNCHANGED keyVars
  PROVE  KeyInv'
  <1> USE MaxKeysAssumption DEF KeyInv, KeyTypeOK, OneLoadPerExpiry, StoredKeyIsNew, Fallback, Cached
  <1>1. ASSUME NEW r \in Requests, GetPublicKey(r) PROVE KeyInv'
    BY <1>1 DEF GetPublicKey, Give
  <1>2. ASSUME NEW r \in Requests, LockKey(r) PROVE KeyInv'
    BY <1>2 DEF LockKey, Give
  <1>3. ASSUME NEW r \in Requests, ReadKey(r) PROVE KeyInv'
    BY <1>3 DEF ReadKey
  <1>4. ASSUME NEW r \in Requests, ReadKeyFails(r) PROVE KeyInv'
    BY <1>4 DEF ReadKeyFails, Give
  <1>5. ASSUME NEW r \in Requests, StoreKey(r) PROVE KeyInv'
    BY <1>5 DEF StoreKey, Give
  <1>6. ASSUME NEW r \in Requests, keyStage[r] = "given", Forget(r) PROVE KeyInv'
    BY <1>6 DEF Forget
  <1>7. ASSUME RotateKey PROVE KeyInv'
    BY <1>7 DEF RotateKey
  <1>8. ASSUME KeyExpires PROVE KeyInv'
    BY <1>8 DEF KeyExpires
  <1>9. ASSUME UNCHANGED keyVars PROVE KeyInv'
    BY <1>9 DEF keyVars
  <1> QED
    BY <1>1, <1>2, <1>3, <1>4, <1>5, <1>6, <1>7, <1>8, <1>9 DEF KeyAction, KeyStep

LEMMA KeyInvariance == ReqSpec => []KeyInv
  <1>1. ReqInit => KeyInv
    BY KeyStart DEF ReqInit
  <1>2. KeyInv /\ [ReqNext]_reqVars => KeyInv'
    BY KeyActions, KeyIsInvariant DEF reqVars
  <1> QED
    BY <1>1, <1>2, PTL DEF ReqSpec

\* However many requests find the key expired together, Vault is asked by one at a time, and never
\* while the cache has a key.
THEOREM OneLoad == ReqSpec => []OneLoadPerExpiry
  <1>1. KeyInv => OneLoadPerExpiry
    BY DEF KeyInv
  <1> QED
    BY <1>1, KeyInvariance, PTL

\* The cached key never goes back, whatever rotations, expiries and failures of Vault there are.
THEOREM KeyAdvances == ReqSpec => CachedKeyAdvances
  <1>1. KeyInv /\ [ReqNext]_reqVars => [cachedKey' >= cachedKey]_cachedKey
    <2> SUFFICES ASSUME KeyInv, KeyAction, cachedKey' # cachedKey
                 PROVE  cachedKey' >= cachedKey
      BY KeyActions DEF reqVars, keyVars
    <2>1. PICK r \in Requests : StoreKey(r)
      BY DEF KeyAction, KeyStep, GetPublicKey, LockKey, ReadKey, ReadKeyFails, Forget, RotateKey,
             KeyExpires
    <2> QED
      BY <2>1, MaxKeysAssumption DEF KeyInv, KeyTypeOK, StoredKeyIsNew, StoreKey
  <1> QED
    BY <1>1, KeyInvariance, PTL DEF ReqSpec, CachedKeyAdvances

-----------------------------------------------------------------------------
(* Numbers                                                                 *)

Less == {ss \in Nat \X Nat : ss[1] < ss[2]}

\* A set of numbers that is not empty has a least one.
LEMMA LeastNumber ==
  ASSUME NEW S, S # {}, S \subseteq Nat
  PROVE  \E x \in S : \A y \in S : x <= y
  <1>1. IsWellFoundedOn(Less, Nat)
    BY NatLessThanWellFounded DEF OpToRel, Less
  <1>2. PICK x \in S : \A y \in S : ~ (<<y, x>> \in Less)
    BY <1>1, WFMin
  <1>3. \A y \in S : ~ (y < x)
    BY <1>2 DEF Less
  <1> QED
    BY <1>3

\* And one that is bounded has a greatest one.
LEMMA MaxOfBounded ==
  ASSUME NEW S, S # {}, S \subseteq Nat, NEW n \in Nat, \A x \in S : x <= n
  PROVE  Max(S) \in S
  <1> DEFINE T == {n - x : x \in S}
  <1>1. \A x \in S : x \in Nat /\ n - x \in Nat
    OBVIOUS
  <1>2. T \subseteq Nat /\ T # {}
    BY <1>1
  <1>3. PICK m \in T : \A y \in T : m <= y
    BY <1>2, LeastNumber
  <1>4. PICK x \in S : m = n - x
    BY <1>3
  <1>5. ASSUME NEW y \in S PROVE x >= y
    <2>1. n - y \in T
      OBVIOUS
    <2>2. n - x <= n - y
      BY <1>3, <1>4, <2>1
    <2> HIDE DEF T
    <2> QED
      BY <1>1, <1>4, <2>2
  <1> QED
    BY <1>4, <1>5 DEF Max

-----------------------------------------------------------------------------
(* The transactions of StartAnalysis                                       *)

Bounded == \E n \in Nat : \A row \in rows : row.version <= n

InTransaction == {"version", "insert", "event", "commit"}
Submissions == [op : {"AnalyzeURL"}, url : Urls]

\* The row a request is about to insert or has inserted.
RowOf(r) == NewRow(r, request[r].url)

\* How far a transaction is follows from the request's stage.  Its number was the next one when it
\* was read, so that the one before it is there, and stays.
TransactionOK(r) ==
  /\ stage[r] \in InTransaction => request[r] \in Submissions
  /\ stage[r] \in {"insert", "event", "commit"} =>
       /\ version[r] # 0
       /\ version[r] > 1 => [url |-> request[r].url, version |-> version[r] - 1] \in rows
  /\ pending[r].rows = IF stage[r] \in {"event", "commit"} THEN {RowOf(r)} ELSE {}
  /\ pending[r].events = IF stage[r] = "commit" THEN {RowOf(r)} ELSE {}

\* No two rows share an id, committed or not.
Distinct ==
  /\ \A a, b \in rows : Id(a) = Id(b) => a = b
  /\ \A r \in Requests : \A a \in pending[r].rows :
       /\ \A b \in rows : Id(b) # Id(a)
       /\ \A q \in Requests \ {r} : \A b \in pending[q].rows : Id(b) # Id(a)

SubmissionInv ==
  /\ RequestsOK /\ SubmissionTypeOK
  /\ Bounded /\ VersionsContiguous /\ AnalysisHasEvent
  /\ \A r \in Requests : TransactionOK(r)
  /\ Distinct

LEMMA NextVersionFollows ==
  ASSUME rows \subseteq Row, Bounded, NEW url \in Urls
  PROVE  /\ NextVersion(url) \in Nat \ {0}
         /\ NextVersion(url) > 1 => [url |-> url, version |-> NextVersion(url) - 1] \in rows
  <1> DEFINE S == {0} \cup {row.version : row \in {r \in rows : r.url = url}}
  <1>1. S # {} /\ S \subseteq Nat
    BY DEF Row
  <1>2. PICK n \in Nat : \A row \in rows : row.version <= n
    BY DEF Bounded
  <1>n. \A x \in S : x <= n
    BY <1>2
  <1>3. Max(S) \in S
    BY <1>1, <1>n, MaxOfBounded
  <1>4. NextVersion(url) = Max(S) + 1
    BY DEF NextVersion
  <1>5. ASSUME Max(S) # 0 PROVE [url |-> url, version |-> Max(S)] \in rows
    <2>1. PICK row \in rows : row.url = url /\ row.version = Max(S)
      BY <1>3, <1>5
    <2> QED
      BY <2>1 DEF Row
  <1>6. Max(S) \in Nat
    BY <1>1, <1>3
  <1>7. /\ NextVersion(url) \in Nat \ {0} /\ NextVersion(url) - 1 = Max(S)
        /\ NextVersion(url) > 1 => Max(S) # 0
    <2> HIDE DEF S
    <2> QED
      BY <1>4, <1>6
  <1> QED
    BY <1>5, <1>7

-----------------------------------------------------------------------------
(* What a request does to its stage and its transaction                    *)

LEMMA Answers ==
  ASSUME RequestsOK, NEW r \in Requests, NEW code, Answer(r, code)
  PROVE  /\ stage' = [stage EXCEPT ![r] = "answered"]
         /\ request' = [request EXCEPT ![r] = NoRequest]
         /\ stage' \in [Requests -> Stages]
         /\ request' \in [Requests -> RequestKinds \cup {NoRequest}]
         /\ accepted' \subseteq Requests
  BY DEF Answer, RequestsOK, Stages

LEMMA Advances ==
  ASSUME RequestsOK, NEW r \in Requests, NEW s \in Stages, Advance(r, s)
  PROVE  /\ stage' = [stage EXCEPT ![r] = s]
         /\ request' = request
         /\ stage' \in [Requests -> Stages]
         /\ accepted' = accepted
  BY DEF Advance, RequestsOK

\* A request that is in no transaction, and does not get further than the start of one.
Aside(r) ==
  /\ stage[r] \notin InTransaction
  /\ UNCHANGED submissionVars
  /\ \E s \in Stages \ {"insert", "event", "commit"}, q \in RequestKinds \cup {NoRequest} :
       /\ stage' = [stage EXCEPT ![r] = s] /\ request' = [request EXCEPT ![r] = q]
       /\ s = "version" => q \in Submissions

\* The end of a transaction.
Finish(r) ==
  /\ stage' = [stage EXCEPT ![r] = "answered"] /\ request' = [request EXCEPT ![r] = NoRequest]
  /\ \/ stage[r] = "commit" /\ Commit(r)
     \/ stage[r] \in InTransaction /\ Rollback(r)

Begun(r) == ReadNextVersion(r) \/ SaveAnalysis(r) \/ SaveEvent(r)

LEMMA RequestSteps ==
  ASSUME RequestsOK, ReqNext
  PROVE  /\ RequestsOK'
         /\ \/ \E r \in Requests : Aside(r) \/ Begun(r) \/ Finish(r)
            \/ UNCHANGED <<submissionVars, stage, request>>
  <1>1. ASSUME NEW r \in Requests, stage[r] \notin InTransaction,
               NEW s \in Stages \ {"insert", "event", "commit"}, Advance(r, s),
               s = "version" => request[r] \in Submissions,
               UNCHANGED submissionVars
        PROVE  Aside(r)
    <2>1. stage' = [stage EXCEPT ![r] = s] /\ request' = [request EXCEPT ![r] = request[r]]
      BY <1>1, Advances DEF RequestsOK
    <2>2. request[r] \in RequestKinds \cup {NoRequest}
      BY DEF RequestsOK
    <2> QED
      BY <1>1, <2>1, <2>2 DEF Aside
  <1>2. ASSUME NEW r \in Requests, stage[r] \notin InTransaction,
               NEW code, Answer(r, code), UNCHANGED submissionVars
        PROVE  Aside(r)
    <2>1. stage' = [stage EXCEPT ![r] = "answered"] /\ request' = [request EXCEPT ![r] = NoRequest]
      BY <1>2, Answers
    <2>2. /\ "answered" \in Stages \ {"insert", "event", "commit"} /\ "answered" # "version"
          /\ NoRequest \in RequestKinds \cup {NoRequest}
      BY DEF Stages
    <2> QED
      BY <1>2, <2>1, <2>2 DEF Aside
  <1>3. ASSUME NEW r \in Requests,
               \/ \E s \in Stages : Advance(r, s)
               \/ \E code \in {0, 200, 202, 400, 401, 404, 429, 500, 503} : Answer(r, code),
               authEnabled' = authEnabled, quota' \in 0..MaxBurst
        PROVE  RequestsOK'
    BY <1>3, Answers, Advances DEF RequestsOK
  <1> DEFINE Kinds == \/ \E r \in Requests : Aside(r) \/ Begun(r) \/ Finish(r)
                      \/ UNCHANGED <<submissionVars, stage, request>>
  <1>4. ASSUME NEW r \in Requests,
               \/ BindParameters(r) \/ Validate(r) \/ CheckToken(r) \/ ValidateRest(r)
               \/ HealthCheck(r) \/ GetAnalysis(r) \/ GetAnalysisEvents(r)
        PROVE  RequestsOK' /\ Kinds
    <2>1. stage[r] \notin InTransaction
      BY <1>4 DEF BindParameters, Validate, CheckToken, ValidateRest, HealthCheck, GetAnalysis,
                  GetAnalysisEvents, Handles, InTransaction
    <2>2. UNCHANGED <<submissionVars, authEnabled, quota>>
      BY <1>4 DEF BindParameters, Validate, CheckToken, ValidateRest, HealthCheck, GetAnalysis,
                  GetAnalysisEvents
    <2>3. \/ \E s \in {"limit", "key", "validated", "handle"} : Advance(r, s)
          \/ \E code \in {0, 200, 400, 401, 404, 503} : Answer(r, code)
      BY <1>4 DEF BindParameters, Validate, CheckToken, ValidateRest, HealthCheck, GetAnalysis,
                  GetAnalysisEvents
    <2> QED
      BY <1>1, <1>2, <1>3, <2>1, <2>2, <2>3 DEF Stages, RequestsOK
  <1>5. ASSUME NEW r \in Requests, RateLimit(r) PROVE RequestsOK' /\ Kinds
    <2>1. stage[r] \notin InTransaction /\ UNCHANGED <<submissionVars, authEnabled>>
      BY <1>5 DEF RateLimit, InTransaction
    <2>2. Advance(r, "validate") \/ Answer(r, 429)
      BY <1>5 DEF RateLimit
    <2>3. quota' \in 0..MaxBurst
      BY <1>5, MaxBurstAssumption DEF RateLimit, RequestsOK
    <2> QED
      BY <1>1, <1>2, <1>3, <2>1, <2>2, <2>3 DEF Stages
  <1>6. ASSUME NEW r \in Requests, BeginAnalysis(r) PROVE RequestsOK' /\ Kinds
    <2>1. /\ stage[r] \notin InTransaction /\ Advance(r, "version")
          /\ UNCHANGED <<submissionVars, authEnabled, quota>>
      BY <1>6 DEF BeginAnalysis, Handles, InTransaction
    <2>2. request[r] \in Submissions
      BY <1>6 DEF BeginAnalysis, Handles, RequestsOK, RequestKinds, Submissions, Operations, NoRequest
    <2> QED
      BY <1>1, <1>3, <2>1, <2>2 DEF Stages, RequestsOK
  <1>7. ASSUME NEW r \in Requests, Begun(r) PROVE RequestsOK' /\ Kinds
    <2>1. \/ Advance(r, "insert") \/ Advance(r, "event") \/ Advance(r, "commit")
      BY <1>7 DEF Begun, ReadNextVersion, SaveAnalysis, SaveEvent
    <2>2. UNCHANGED <<authEnabled, quota>>
      BY <1>7 DEF Begun, ReadNextVersion, SaveAnalysis, SaveEvent, Submits
    <2> QED
      BY <1>3, <1>7, <2>1, <2>2 DEF Stages, RequestsOK
  <1>8. ASSUME NEW r \in Requests,
               \/ SaveAnalysisCollides(r) \/ CommitAnalysis(r) \/ CommitUnknown(r)
               \/ SubmissionFails(r)
        PROVE  RequestsOK' /\ Kinds
    <2>1. \/ stage[r] = "commit" /\ Commit(r)
          \/ stage[r] \in InTransaction /\ Rollback(r)
      BY <1>8 DEF SaveAnalysisCollides, CommitAnalysis, CommitUnknown, SubmissionFails, Submits,
                  InTransaction
    <2>2. \E code \in {202, 500} : Answer(r, code)
      BY <1>8 DEF SaveAnalysisCollides, CommitAnalysis, CommitUnknown, SubmissionFails
    <2>3. UNCHANGED <<authEnabled, quota>>
      BY <1>8 DEF SaveAnalysisCollides, CommitAnalysis, CommitUnknown, SubmissionFails, Submits
    <2> QED
      BY <1>3, <2>1, <2>2, <2>3, Answers DEF Finish, RequestsOK
  <1>9. ASSUME NEW r \in Requests, Arrive(r) PROVE RequestsOK' /\ Kinds
    <2>1. PICK q \in RequestKinds : request' = [request EXCEPT ![r] = q]
      BY <1>9 DEF Arrive
    <2>2. /\ stage' = [stage EXCEPT ![r] = "route"] /\ stage[r] = "answered"
          /\ UNCHANGED <<submissionVars, authEnabled, quota>> /\ accepted' = accepted \ {r}
      BY <1>9 DEF Arrive
    <2>3. RequestsOK'
      BY <2>1, <2>2 DEF RequestsOK, Stages
    <2>4. "route" \in Stages \ {"insert", "event", "commit"} /\ "answered" \notin InTransaction
      BY DEF Stages, InTransaction
    <2>5. Aside(r)
      BY <2>1, <2>2, <2>4 DEF Aside
    <2> QED
      BY <2>3, <2>5
  <1>10. ASSUME \/ \E r \in Requests : FindKey(r)
                \/ (RotateKey \/ KeyExpires) /\ UNCHANGED <<submissionVars, requestVars>>
                \/ Replenish
         PROVE  RequestsOK' /\ Kinds
    BY <1>10, MaxBurstAssumption DEF FindKey, Replenish, requestVars, RequestsOK
  <1> QED
    BY <1>4, <1>5, <1>6, <1>7, <1>8, <1>9, <1>10 DEF ReqNext, RequestStep, Begun

\* A request that is not touched, while the table only grows.
LEMMA Untouched ==
  ASSUME NEW q \in Requests, TransactionOK(q),
         stage'[q] = stage[q], request'[q] = request[q], version'[q] = version[q],
         pending'[q] = pending[q], rows \subseteq rows'
  PROVE  TransactionOK(q)'
  BY DEF TransactionOK, RowOf, NewRow

LEMMA AsideKeeps ==
  ASSUME SubmissionInv, RequestsOK', NEW r \in Requests, Aside(r)
  PROVE  SubmissionInv'
  <1>1. UNCHANGED <<rows, events, version, pending>>
    BY DEF Aside, submissionVars
  <1>2. PICK s \in Stages \ {"insert", "event", "commit"}, k \in RequestKinds \cup {NoRequest} :
          /\ stage' = [stage EXCEPT ![r] = s] /\ request' = [request EXCEPT ![r] = k]
          /\ s = "version" => k \in Submissions
    BY DEF Aside
  <1>3. ASSUME NEW q \in Requests PROVE TransactionOK(q)'
    <2>1. CASE q # r
      <3>1. stage'[q] = stage[q] /\ request'[q] = request[q]
        BY <1>2, <2>1 DEF SubmissionInv, RequestsOK
      <3> QED
        BY <1>1, <3>1, Untouched DEF SubmissionInv
    <2>2. CASE q = r
      <3>1. stage'[q] = s /\ request'[q] = k
        BY <1>2, <2>2 DEF SubmissionInv, RequestsOK
      <3>2. pending[r].rows = {} /\ pending[r].events = {}
        BY DEF SubmissionInv, TransactionOK, Aside, InTransaction
      <3> QED
        BY <1>1, <1>2, <2>2, <3>1, <3>2 DEF TransactionOK, InTransaction
    <2> QED
      BY <2>1, <2>2
  <1>4. Distinct'
    BY <1>1 DEF SubmissionInv, Distinct, Id
  <1> QED
    BY <1>1, <1>3, <1>4
       DEF SubmissionInv, SubmissionTypeOK, Bounded, VersionsContiguous, AnalysisHasEvent

LEMMA ReadVersionKeeps ==
  ASSUME SubmissionInv, RequestsOK', NEW r \in Requests, ReadNextVersion(r)
  PROVE  SubmissionInv'
  <1>1. /\ stage[r] = "version" /\ stage' = [stage EXCEPT ![r] = "insert"] /\ request' = request
        /\ UNCHANGED <<rows, events, pending>>
        /\ version' = [version EXCEPT ![r] = NextVersion(request[r].url)]
    BY DEF ReadNextVersion, Submits, ReadVersion, Advance
  <1>2. request[r] \in Submissions
    BY <1>1 DEF SubmissionInv, TransactionOK, InTransaction
  <1>3. /\ NextVersion(request[r].url) \in Nat \ {0}
        /\ NextVersion(request[r].url) > 1
             => [url |-> request[r].url, version |-> NextVersion(request[r].url) - 1] \in rows
    BY <1>2, NextVersionFollows DEF SubmissionInv, SubmissionTypeOK, Submissions
  <1>4. ASSUME NEW q \in Requests PROVE TransactionOK(q)'
    <2>1. CASE q # r
      <3>1. stage'[q] = stage[q] /\ request'[q] = request[q] /\ version'[q] = version[q]
        BY <1>1, <2>1 DEF SubmissionInv, RequestsOK, SubmissionTypeOK
      <3> QED
        BY <1>1, <3>1, Untouched DEF SubmissionInv
    <2>2. CASE q = r
      <3>1. /\ stage'[r] = "insert" /\ request'[r] = request[r]
            /\ version'[r] = NextVersion(request[r].url)
        BY <1>1 DEF SubmissionInv, RequestsOK, SubmissionTypeOK
      <3>2. pending[r].rows = {} /\ pending[r].events = {}
        BY <1>1 DEF SubmissionInv, TransactionOK
      <3> QED
        BY <1>1, <1>2, <1>3, <2>2, <3>1, <3>2 DEF TransactionOK, InTransaction
    <2> QED
      BY <2>1, <2>2
  <1>5. Distinct'
    BY <1>1 DEF SubmissionInv, Distinct, Id
  <1>6. SubmissionTypeOK'
    BY <1>1, <1>3 DEF SubmissionInv, SubmissionTypeOK
  <1> QED
    BY <1>1, <1>4, <1>5, <1>6
       DEF SubmissionInv, Bounded, VersionsContiguous, AnalysisHasEvent

LEMMA SaveAnalysisKeeps ==
  ASSUME SubmissionInv, RequestsOK', NEW r \in Requests, SaveAnalysis(r)
  PROVE  SubmissionInv'
  <1>1. /\ stage[r] = "insert" /\ stage' = [stage EXCEPT ![r] = "event"] /\ request' = request
        /\ UNCHANGED <<rows, events, version>>
        /\ CanInsert(r, request[r].url)
        /\ pending' = [pending EXCEPT ![r].rows = {RowOf(r)}]
    BY DEF SaveAnalysis, Submits, InsertAnalysis, Advance, RowOf
  <1>2. request[r] \in Submissions /\ version[r] \in Nat \ {0}
    BY <1>1 DEF SubmissionInv, TransactionOK, InTransaction, SubmissionTypeOK
  <1>3. RowOf(r) \in Row
    BY <1>2 DEF RowOf, NewRow, Row, Submissions
  <1>4. SubmissionTypeOK'
    BY <1>1, <1>3 DEF SubmissionInv, SubmissionTypeOK
  <1>5. /\ pending'[r].rows = {RowOf(r)} /\ pending'[r].events = pending[r].events
        /\ \A q \in Requests \ {r} : pending'[q] = pending[q]
    BY <1>1 DEF SubmissionInv, SubmissionTypeOK
  <1>6. ASSUME NEW q \in Requests PROVE TransactionOK(q)'
    <2>1. CASE q # r
      <3>1. stage'[q] = stage[q] /\ request'[q] = request[q] /\ version'[q] = version[q]
        BY <1>1, <2>1 DEF SubmissionInv, RequestsOK
      <3> QED
        BY <1>1, <1>5, <2>1, <3>1, Untouched DEF SubmissionInv
    <2>2. CASE q = r
      <3>1. stage'[r] = "event" /\ request'[r] = request[r] /\ version'[r] = version[r]
        BY <1>1 DEF SubmissionInv, RequestsOK
      <3> QED
        BY <1>1, <1>2, <1>5, <2>2, <3>1
           DEF SubmissionInv, TransactionOK, InTransaction, RowOf, NewRow
    <2> QED
      BY <2>1, <2>2
  <1>7. Distinct'
    <2>1. \A b \in rows : Id(b) # Id(RowOf(r))
      BY <1>1 DEF CanInsert, Collides, RowOf
    <2>2. \A q \in Requests \ {r} : \A b \in pending[q].rows : Id(b) # Id(RowOf(r))
      BY <1>1 DEF CanInsert, Collides, Uncommitted, RowOf
    <2> QED
      BY <1>1, <1>5, <2>1, <2>2 DEF SubmissionInv, Distinct
  <1> QED
    BY <1>1, <1>4, <1>6, <1>7 DEF SubmissionInv, Bounded, VersionsContiguous, AnalysisHasEvent

LEMMA SaveEventKeeps ==
  ASSUME SubmissionInv, RequestsOK', NEW r \in Requests, SaveEvent(r)
  PROVE  SubmissionInv'
  <1>1. /\ stage[r] = "event" /\ stage' = [stage EXCEPT ![r] = "commit"] /\ request' = request
        /\ UNCHANGED <<rows, events, version>>
        /\ pending' = [pending EXCEPT ![r].events = pending[r].rows]
    BY DEF SaveEvent, Submits, InsertEvent, Advance
  <1>2. SubmissionTypeOK'
    BY <1>1 DEF SubmissionInv, SubmissionTypeOK
  <1>3. /\ pending'[r].rows = pending[r].rows /\ pending'[r].events = pending[r].rows
        /\ \A q \in Requests \ {r} : pending'[q] = pending[q]
    BY <1>1 DEF SubmissionInv, SubmissionTypeOK
  <1>4. ASSUME NEW q \in Requests PROVE TransactionOK(q)'
    <2>1. CASE q # r
      <3>1. stage'[q] = stage[q] /\ request'[q] = request[q] /\ version'[q] = version[q]
        BY <1>1, <2>1 DEF SubmissionInv, RequestsOK
      <3> QED
        BY <1>1, <1>3, <2>1, <3>1, Untouched DEF SubmissionInv
    <2>2. CASE q = r
      <3>1. stage'[r] = "commit" /\ request'[r] = request[r] /\ version'[r] = version[r]
        BY <1>1 DEF SubmissionInv, RequestsOK
      <3> QED
        BY <1>1, <1>3, <2>2, <3>1
           DEF SubmissionInv, TransactionOK, InTransaction, RowOf, NewRow
    <2> QED
      BY <2>1, <2>2
  <1>5. Distinct'
    BY <1>1, <1>3 DEF SubmissionInv, Distinct
  <1> QED
    BY <1>1, <1>2, <1>4, <1>5 DEF SubmissionInv, Bounded, VersionsContiguous, AnalysisHasEvent

\* What a commit adds to the tables: one row with its event.
LEMMA CommitAdds ==
  ASSUME SubmissionInv, NEW r \in Requests, stage[r] = "commit", Commit(r)
  PROVE  /\ rows' = rows \cup {RowOf(r)} /\ events' = events \cup {RowOf(r)}
         /\ RowOf(r) \in Row \ rows
  <1>1. pending[r].rows = {RowOf(r)} /\ pending[r].events = {RowOf(r)}
    BY DEF SubmissionInv, TransactionOK
  <1>2. RowOf(r) \in Row
    BY <1>1 DEF SubmissionInv, SubmissionTypeOK
  <1>3. RowOf(r) \notin rows
    BY <1>1 DEF SubmissionInv, Distinct
  <1> QED
    BY <1>1, <1>2, <1>3 DEF Commit

LEMMA FinishKeeps ==
  ASSUME SubmissionInv, RequestsOK', NEW r \in Requests, Finish(r)
  PROVE  SubmissionInv'
  <1>1. /\ stage' = [stage EXCEPT ![r] = "answered"] /\ request' = [request EXCEPT ![r] = NoRequest]
        /\ pending' = [pending EXCEPT ![r] = Nothing] /\ version' = [version EXCEPT ![r] = 0]
    BY DEF Finish, Commit, Rollback, End
  <1>2. \/ rows' = rows /\ events' = events
        \/ /\ stage[r] = "commit" /\ Commit(r)
           /\ rows' = rows \cup {RowOf(r)} /\ events' = events \cup {RowOf(r)}
           /\ RowOf(r) \in Row \ rows
    BY CommitAdds DEF Finish, Rollback
  <1>3. SubmissionTypeOK'
    BY <1>1, <1>2 DEF SubmissionInv, SubmissionTypeOK, Nothing
  <1>4. rows \subseteq rows' /\ AnalysisHasEvent'
    BY <1>2 DEF SubmissionInv, AnalysisHasEvent
  <1>5. ASSUME NEW q \in Requests PROVE TransactionOK(q)'
    <2>1. CASE q # r
      <3>1. /\ stage'[q] = stage[q] /\ request'[q] = request[q] /\ version'[q] = version[q]
            /\ pending'[q] = pending[q]
        BY <1>1, <2>1 DEF SubmissionInv, RequestsOK, SubmissionTypeOK
      <3> QED
        BY <1>4, <3>1, Untouched DEF SubmissionInv
    <2>2. CASE q = r
      <3>1. stage'[r] = "answered" /\ pending'[r] = Nothing
        BY <1>1 DEF SubmissionInv, RequestsOK, SubmissionTypeOK
      <3> QED
        BY <2>2, <3>1 DEF TransactionOK, InTransaction, Nothing
    <2> QED
      BY <2>1, <2>2
  <1>6. CASE rows' = rows /\ events' = events
    <2>1. /\ pending'[r].rows = {}
          /\ \A q \in Requests \ {r} : pending'[q] = pending[q]
      BY <1>1 DEF SubmissionInv, SubmissionTypeOK, Nothing
    <2>2. Distinct'
      BY <1>6, <2>1 DEF SubmissionInv, Distinct
    <2> QED
      BY <1>3, <1>4, <1>5, <1>6, <2>2 DEF SubmissionInv, Bounded, VersionsContiguous
  <1>7. CASE /\ stage[r] = "commit" /\ rows' = rows \cup {RowOf(r)} /\ RowOf(r) \in Row \ rows
    <2>1. pending[r].rows = {RowOf(r)}
      BY <1>7 DEF SubmissionInv, TransactionOK
    <2>2. /\ pending'[r].rows = {}
          /\ \A q \in Requests \ {r} : pending'[q] = pending[q]
      BY <1>1 DEF SubmissionInv, SubmissionTypeOK, Nothing
    <2>3. Distinct'
      BY <1>7, <2>1, <2>2 DEF SubmissionInv, Distinct
    <2>4. Bounded'
      <3>1. PICK n \in Nat : \A row \in rows : row.version <= n
        BY DEF SubmissionInv, Bounded
      <3>2. RowOf(r).version \in Nat /\ \A row \in rows : row.version \in Nat
        BY <1>7 DEF SubmissionInv, SubmissionTypeOK, Row
      <3>3. n + RowOf(r).version \in Nat
        BY <3>2
      <3>4. \A row \in rows' : row.version <= n + RowOf(r).version
        BY <1>7, <3>1, <3>2
      <3> QED
        BY <3>3, <3>4 DEF Bounded
    <2>5. VersionsContiguous'
      <3>1. ASSUME RowOf(r).version > 1
            PROVE  [RowOf(r) EXCEPT !.version = @ - 1] \in rows
        <4>1. RowOf(r) = [url |-> request[r].url, version |-> version[r]]
          BY DEF RowOf, NewRow
        <4>2. [RowOf(r) EXCEPT !.version = @ - 1]
                = [url |-> request[r].url, version |-> version[r] - 1]
          BY <4>1
        <4>3. version[r] > 1
          BY <3>1, <4>1
        <4> QED
          BY <1>7, <4>2, <4>3 DEF SubmissionInv, TransactionOK
      <3> QED
        BY <1>7, <3>1 DEF SubmissionInv, VersionsContiguous
    <2> QED
      BY <1>3, <1>4, <1>5, <2>3, <2>4, <2>5 DEF SubmissionInv
  <1> QED
    BY <1>2, <1>6, <1>7

LEMMA SubmissionInvariance == ReqSpec => []SubmissionInv
  <1>1. ReqInit => SubmissionInv
    <2> SUFFICES ASSUME ReqInit PROVE SubmissionInv
      OBVIOUS
    <2>1. RequestsOK
      BY MaxBurstAssumption DEF ReqInit, RequestsOK, Stages
    <2>2. SubmissionTypeOK
      BY DEF ReqInit, SubmissionInit, SubmissionTypeOK, Nothing
    <2>3. Bounded /\ VersionsContiguous /\ AnalysisHasEvent
      BY DEF ReqInit, SubmissionInit, Bounded, VersionsContiguous, AnalysisHasEvent
    <2>4. ASSUME NEW r \in Requests PROVE TransactionOK(r)
      BY DEF ReqInit, SubmissionInit, TransactionOK, InTransaction, Nothing
    <2>5. Distinct
      BY DEF ReqInit, SubmissionInit, Distinct, Nothing
    <2> QED
      BY <2>1, <2>2, <2>3, <2>4, <2>5 DEF SubmissionInv
  <1>2. SubmissionInv /\ [ReqNext]_reqVars => SubmissionInv'
    <2> SUFFICES ASSUME SubmissionInv, [ReqNext]_reqVars PROVE SubmissionInv'
      OBVIOUS
    <2>1. CASE ReqNext
      <3>1. RequestsOK'
        BY <2>1, RequestSteps DEF SubmissionInv
      <3>2. \/ \E r \in Requests : Aside(r) \/ Begun(r) \/ Finish(r)
            \/ UNCHANGED <<submissionVars, stage, request>>
        BY <2>1, RequestSteps DEF SubmissionInv
      <3>3. CASE UNCHANGED <<submissionVars, stage, request>>
        <4>1. /\ UNCHANGED <<rows, events, version, pending>>
              /\ \A r \in Requests : TransactionOK(r)'
          BY <3>3 DEF submissionVars, SubmissionInv, TransactionOK, RowOf, NewRow
        <4>2. Distinct'
          BY <4>1 DEF SubmissionInv, Distinct
        <4> QED
          BY <3>1, <4>1, <4>2
             DEF SubmissionInv, SubmissionTypeOK, Bounded, VersionsContiguous, AnalysisHasEvent
      <3> QED
        BY <3>1, <3>2, <3>3, AsideKeeps, ReadVersionKeeps, SaveAnalysisKeeps, SaveEventKeeps,
           FinishKeeps DEF Begun
    <2>2. CASE UNCHANGED reqVars
      <3>1. /\ UNCHANGED <<rows, events, version, pending, stage, request, authEnabled, accepted,
                           quota>>
        BY <2>2 DEF reqVars, submissionVars, requestVars
      <3>2. \A r \in Requests : TransactionOK(r)'
        BY <3>1 DEF SubmissionInv, TransactionOK, RowOf, NewRow
      <3>3. Distinct' /\ RequestsOK'
        BY <3>1 DEF SubmissionInv, Distinct, RequestsOK
      <3> QED
        BY <3>1, <3>2, <3>3
           DEF SubmissionInv, SubmissionTypeOK, Bounded, VersionsContiguous, AnalysisHasEvent
    <2> QED
      BY <2>1, <2>2
  <1> QED
    BY <1>1, <1>2, PTL DEF ReqSpec

-----------------------------------------------------------------------------
(* What follows                                                            *)

\* Types, for any number of requests and analyses.
THEOREM ReqTypeCorrect == ReqSpec => []ReqTypeOK
  <1>1. KeyInv /\ SubmissionInv => ReqTypeOK
    BY DEF KeyInv, SubmissionInv, RequestsOK, Stages, ReqTypeOK
  <1> QED
    BY <1>1, KeyInvariance, SubmissionInvariance, PTL

\* The analyses of a URL are numbered without a gap, however submissions that read the same number
\* interleave, fail and are rolled back.
THEOREM VersionsHaveNoGap == ReqSpec => []VersionsContiguous
  <1>1. SubmissionInv => VersionsContiguous
    BY DEF SubmissionInv
  <1> QED
    BY <1>1, SubmissionInvariance, PTL

\* Analysis and outbox event are stored together or not at all.
THEOREM AnalysesHaveEvents == ReqSpec => []AnalysisHasEvent
  <1>1. SubmissionInv => AnalysisHasEvent
    BY DEF SubmissionInv
  <1> QED
    BY <1>1, SubmissionInvariance, PTL

\* 202 is answered only for an analysis that this request has stored, with its event.
THEOREM AcceptedMeansStored == ReqSpec => AcceptedIsStored
  <1>1. SubmissionInv /\ [ReqNext]_reqVars
          => [\A r \in Requests :
                r \in accepted' \ accepted =>
                  /\ NewRow(r, request[r].url) \in rows' \cap events'
                  /\ NewRow(r, request[r].url) \notin rows]_reqVars
    <2> SUFFICES ASSUME SubmissionInv, ReqNext, NEW r \in Requests, r \in accepted' \ accepted
                 PROVE  RowOf(r) \in rows' \cap events' /\ RowOf(r) \notin rows
      BY DEF RowOf
    <2>1. CommitAnalysis(r)
      BY DEF ReqNext, RequestStep, BindParameters, RateLimit, Validate, FindKey, CheckToken,
             ValidateRest, HealthCheck, GetAnalysis, GetAnalysisEvents, BeginAnalysis,
             ReadNextVersion, SaveAnalysis, SaveAnalysisCollides, SaveEvent, CommitAnalysis,
             CommitUnknown, SubmissionFails, Arrive, Replenish, requestVars, Answer, Advance
    <2>2. stage[r] = "commit" /\ Commit(r)
      BY <2>1 DEF CommitAnalysis, Submits
    <2> QED
      BY <2>2, CommitAdds
  <1> QED
    BY <1>1, SubmissionInvariance, PTL DEF ReqSpec, AcceptedIsStored

\* The normal form does not tell two spellings of a page apart.
LEMMA NormalFormOfPage ==
  ASSUME NEW u \in Urls, NEW v \in Urls, SamePage(u, v)
  PROVE  NewNormalizedURL(u) = NewNormalizedURL(v)
  <1> DEFINE Scheme(w) == IF w.scheme = "" THEN "https" ELSE w.scheme
             Port(w) == IF w.port = DefaultPort(Scheme(w)) THEN "" ELSE w.port
             Path(w) == IF w.path = "/" THEN "" ELSE w.path
             Form(w) == [scheme |-> Scheme(w), host |-> Lower(w.host), port |-> Port(w),
                         path |-> Path(w), fragment |-> ""]
  <1>1. ASSUME NEW w \in Urls, Recognised(w) PROVE NewNormalizedURL(w) = Form(w)
    <2>1. CASE w.scheme # ""
      BY <2>1 DEF NewNormalizedURL, Normalized
    <2>2. CASE w.scheme = ""
      BY <1>1, <2>2 DEF NewNormalizedURL, Normalized, Recognised, DefaultPort
    <2> QED
      BY <2>1, <2>2
  <1>2. u.scheme \in {"", "http", "https"} /\ v.scheme \in {"", "http", "https"}
    BY UrlsAssumption
  <1>3. Scheme(u) = Scheme(v) /\ Lower(u.host) = Lower(v.host)
    BY <1>2 DEF SamePage, Lower
  <1>4. Port(u) = Port(v)
    <2>1. CASE u.scheme = "http" /\ v.scheme = "http"
      BY <2>1 DEF SamePage, DefaultPort
    <2>2. CASE u.scheme # "http" /\ v.scheme # "http"
      <3>1. Scheme(u) = "https" /\ Scheme(v) = "https"
        BY <1>2, <2>2
      <3> QED
        BY <2>2, <3>1 DEF SamePage, DefaultPort
    <2> QED
      BY <2>1, <2>2 DEF SamePage
  <1>5. Path(u) = Path(v)
    BY DEF SamePage
  <1>6. Form(u) = Form(v)
    <2> HIDE DEF Scheme, Port, Path
    <2> QED
      BY <1>3, <1>4, <1>5
  <1> QED
    BY <1>1, <1>6 DEF SamePage

\* A URL that has been analysed has been analysed for the first time.
LEMMA FirstAnalysis ==
  ASSUME rows \subseteq Row, VersionsContiguous, NEW a \in rows
  PROVE  [url |-> a.url, version |-> 1] \in rows
  <1> DEFINE S == {row.version : row \in {b \in rows : b.url = a.url}}
  <1>1. S # {} /\ S \subseteq Nat
    BY DEF Row
  <1>2. PICK m \in S : \A n \in S : m <= n
    BY <1>1, LeastNumber
  <1>3. PICK b \in rows : b.url = a.url /\ b.version = m
    BY <1>2
  <1>4. b = [url |-> a.url, version |-> m] /\ m \in Nat \ {0}
    BY <1>3 DEF Row
  <1>5. m = 1
    <2> SUFFICES ASSUME m > 1 PROVE FALSE
      BY <1>4
    <2>1. [b EXCEPT !.version = @ - 1] = [url |-> a.url, version |-> m - 1]
      BY <1>4
    <2>2. [url |-> a.url, version |-> m - 1] \in rows
      BY <1>3, <2>1 DEF VersionsContiguous
    <2>3. m - 1 \in S
      BY <2>2
    <2>4. m <= m - 1
      BY <1>2, <2>3
    <2> QED
      BY <1>4, <2>4
  <1> QED
    BY <1>3, <1>4, <1>5

\* A page is analysed under one of its spellings only: the first analysis under another one has the
\* id of the first under this.
THEOREM OneSpelling == ReqSpec => []OneSpellingPerPage
  <1>1. SubmissionInv => OneSpellingPerPage
    <2> SUFFICES ASSUME SubmissionInv, NEW a \in rows, NEW b \in rows, SamePage(a.url, b.url)
                 PROVE  a.url = b.url
      BY DEF OneSpellingPerPage
    <2> DEFINE First(row) == [url |-> row.url, version |-> 1]
    <2>1. First(a) \in rows /\ First(b) \in rows
      BY FirstAnalysis DEF SubmissionInv, SubmissionTypeOK
    <2>2. a.url \in Urls /\ b.url \in Urls
      BY DEF SubmissionInv, SubmissionTypeOK, Row
    <2>3. Id(First(a)) = Id(First(b))
      BY <2>2, NormalFormOfPage DEF Id
    <2>4. First(a) = First(b)
      BY <2>1, <2>3 DEF SubmissionInv, Distinct
    <2> QED
      BY <2>4
  <1> QED
    BY <1>1, SubmissionInvariance, PTL
-----------------------------------------------------------------------------
(* The serial submission                                                   *)

\* With a number of a URL there are those below it.
LEMMA NumbersBelow ==
  ASSUME rows \subseteq Row, VersionsContiguous, NEW a \in rows,
         NEW k \in Nat \ {0}, k <= a.version
  PROVE  [url |-> a.url, version |-> k] \in rows
  <1> DEFINE b(n) == [url |-> a.url, version |-> n]
             S == {n \in Nat : n > k /\ b(n) \in rows}
  <1>1. a = b(a.version) /\ a.version \in Nat
    BY DEF Row
  <1> SUFFICES ASSUME b(k) \notin rows PROVE FALSE
    OBVIOUS
  <1>2. a.version > k
    BY <1>1
  <1>3. S # {} /\ S \subseteq Nat
    BY <1>1, <1>2
  <1>4. PICK m \in S : \A n \in S : m <= n
    BY <1>3, LeastNumber
  <1>5. m \in Nat /\ m > k /\ b(m) \in rows
    BY <1>4
  <1>6. b(m).version > 1 /\ [b(m) EXCEPT !.version = @ - 1] = b(m - 1)
    BY <1>5
  <1>7. b(m - 1) \in rows
    BY <1>5, <1>6 DEF VersionsContiguous
  <1>8. m - 1 # k /\ m - 1 \in Nat
    BY <1>5, <1>7
  <1>9. m - 1 \in S
    BY <1>5, <1>7, <1>8
  <1>10. m <= m - 1
    BY <1>4, <1>9
  <1> QED
    BY <1>5, <1>10

\* There are as many numbers of a URL as the one before the next.
LEMMA CountOfNumbers ==
  ASSUME rows \subseteq Row, VersionsContiguous, NEW url, NEW n \in Nat \ {0},
         [url |-> url, version |-> n] \notin rows,
         n > 1 => [url |-> url, version |-> n - 1] \in rows
  PROVE  Cardinality({a \in rows : a.url = url}) = n - 1
  <1> DEFINE T == {a \in rows : a.url = url}
             I == 1 .. (n - 1)
             f == [k \in I |-> [url |-> url, version |-> k]]
  <1>1. ASSUME NEW a \in T PROVE a.version \in I /\ a = [url |-> url, version |-> a.version]
    <2>1. a.version \in Nat \ {0} /\ a = [url |-> url, version |-> a.version]
      BY DEF Row
    <2>2. ~ (n <= a.version)
      BY NumbersBelow
    <2> QED
      BY <2>1, <2>2
  <1>2. ASSUME NEW k \in I PROVE [url |-> url, version |-> k] \in T
    <2>1. n > 1 /\ k \in Nat \ {0} /\ k <= n - 1
      OBVIOUS
    <2> DEFINE a == [url |-> url, version |-> n - 1]
    <2>2. a \in rows /\ a.url = url /\ a.version = n - 1
      BY <2>1
    <2> HIDE DEF a
    <2>3. [url |-> url, version |-> k] \in rows
      BY <2>1, <2>2, NumbersBelow
    <2> QED
      BY <2>3
  <1>3. f \in Bijection(I, T)
    <2>1. f \in [I -> T]
      BY <1>2
    <2>2. \A j, k \in I : f[j] = f[k] => j = k
      <3> SUFFICES ASSUME NEW j \in I, NEW k \in I, f[j] = f[k] PROVE j = k
        OBVIOUS
      <3>1. f[j].version = j /\ f[k].version = k
        OBVIOUS
      <3> HIDE DEF f
      <3> QED
        BY <3>1
    <2>3. \A a \in T : \E k \in I : f[k] = a
      BY <1>1
    <2> HIDE DEF f, T, I
    <2> QED
      BY <2>1, <2>2, <2>3, Fun_IsBij
  <1>4. IsFiniteSet(I) /\ Cardinality(I) = n - 1
    BY FS_Interval
  <1> HIDE DEF f, T, I
  <1>5. Cardinality(T) = Cardinality(I)
    BY <1>3, <1>4, FS_Bijection DEF ExistsBijection
  <1> QED
    BY <1>4, <1>5 DEF T

\* The serial specification counts with the same operator.
LEMMA SameCount == \A S : Serial!Cardinality(S) = Cardinality(S)
  BY DEF Serial!Cardinality, Cardinality

\* A commit is a submission in one step.
LEMMA CommitIsSerial ==
  ASSUME SubmissionInv, NEW r \in Requests, stage[r] = "commit", Commit(r)
  PROVE  Serial!StartAnalysis(request[r].url)
  <1> DEFINE url == request[r].url
  <1>1. /\ rows' = rows \cup {RowOf(r)} /\ events' = events \cup {RowOf(r)}
        /\ RowOf(r) \in Row \ rows
    BY CommitAdds
  <1>2. RowOf(r) = [url |-> url, version |-> version[r]]
    BY DEF RowOf, NewRow
  <1>3. url \in Urls /\ version[r] \in Nat \ {0}
    BY <1>1, <1>2 DEF Row
  <1>4. version[r] > 1 => [url |-> url, version |-> version[r] - 1] \in rows
    BY DEF SubmissionInv, TransactionOK
  <1>5. rows \subseteq Row /\ VersionsContiguous
    BY DEF SubmissionInv, SubmissionTypeOK
  <1>6. Cardinality({a \in rows : a.url = url}) + 1 = version[r]
    BY <1>1, <1>2, <1>3, <1>4, <1>5, CountOfNumbers
  <1>7. ASSUME NEW a \in rows, NewNormalizedURL(a.url) = NewNormalizedURL(url)
        PROVE  a.url = url
    <2> DEFINE first(u) == [url |-> u, version |-> 1]
    <2>1. first(a.url) \in rows
      BY <1>5, FirstAnalysis
    <2>2. Id(first(a.url)) = Id(first(url))
      BY <1>7 DEF Id
    <2>3. CASE version[r] = 1
      <3>1. RowOf(r) = first(url) /\ pending[r].rows = {RowOf(r)}
        BY <1>2, <2>3 DEF SubmissionInv, TransactionOK
      <3> QED
        BY <2>1, <2>2, <3>1 DEF SubmissionInv, Distinct
    <2>4. CASE version[r] > 1
      <3>1. first(url) \in rows
        BY <1>4, <1>5, <2>4, FirstAnalysis
      <3>2. first(a.url) = first(url)
        BY <2>1, <2>2, <3>1 DEF SubmissionInv, Distinct
      <3> QED
        BY <3>2
    <2> QED
      BY <1>3, <2>3, <2>4
  <1>8. ASSUME NEW a \in rows,
               [u \in Urls |-> NewNormalizedURL(u)][a.url]
                 = [u \in Urls |-> NewNormalizedURL(u)][url]
        PROVE  a.url = url
    <2>1. a.url \in Urls
      BY <1>5 DEF Row
    <2>2. NewNormalizedURL(a.url) = NewNormalizedURL(url)
      BY <1>3, <1>8, <2>1
    <2> QED
      BY <1>7, <2>2
  <1>9. RowOf(r) = [url |-> url, version |-> Serial!Cardinality(Serial!AnalysesOf(url)) + 1]
    BY <1>2, <1>6, SameCount DEF Serial!AnalysesOf
  <1> QED
    BY <1>1, <1>8, <1>9 DEF Serial!StartAnalysis

\* StartAnalysis behaves as one step: every transaction that commits is the serial submission of its
\* URL, and no other step of any request can be told from the tables.
THEOREM RequestsImplementSerial == ReqSpec => ImplementsSerial
  <1>1. ReqInit => Serial!SerialInit
    BY DEF ReqInit, SubmissionInit, Serial!SerialInit
  <1>2. SubmissionInv /\ [ReqNext]_reqVars => [Serial!SerialNext]_<<rows, events>>
    <2> SUFFICES ASSUME SubmissionInv, ReqNext, ~ UNCHANGED <<rows, events>>
                 PROVE  Serial!SerialNext
      BY DEF reqVars, submissionVars
    <2>1. PICK r \in Requests : Finish(r)
      BY RequestSteps
         DEF SubmissionInv, Aside, Begun, ReadNextVersion, ReadVersion, SaveAnalysis,
             InsertAnalysis, SaveEvent, InsertEvent, submissionVars
    <2>2. stage[r] = "commit" /\ Commit(r)
      BY <2>1 DEF Finish, Rollback
    <2>3. Serial!StartAnalysis(request[r].url)
      BY <2>2, CommitIsSerial
    <2>4. request[r].url \in Urls
      BY <2>2, CommitAdds DEF RowOf, NewRow, Row
    <2> QED
      BY <2>3, <2>4 DEF Serial!SerialNext
  <1> QED
    BY <1>1, <1>2, SubmissionInvariance, PTL
       DEF ReqSpec, ImplementsSerial, Serial!SerialSpec, Serial!serialVars
=============================================================================
