----------------------------- MODULE Submission -----------------------------
(***************************************************************************)
(* What StartAnalysis (internal/service/application_service.go) does to    *)
(* the tables, statement by statement: SaveInTx of the analysis repository *)
(* (internal/adapters/repos/analysis_repository.go) numbers the analyses   *)
(* of a URL as it is spelt and derives their ids from its normal form.     *)
(* Postgres runs the transactions at READ COMMITTED and makes an insertion *)
(* wait for the end of another transaction with the same unique key.       *)
(***************************************************************************)
EXTENDS HttpRequests, FiniteSets, FiniteSetsExt

CONSTANTS Urls,          \* URLs as clients spell them
          MaxAnalyses    \* how often a URL is submitted successfully

ASSUME MaxAnalysesAssumption == MaxAnalyses \in Nat \ {0}

\* The parts of a URL as it is spelt: scheme, if it has one, host (a name and the way its letters
\* are written), port, path and fragment.  URLs of other schemes are submitted alike and refused by
\* the web fetcher.
ASSUME UrlsAssumption == \A url \in Urls : url.scheme \in {"", "http", "https"}

VARIABLES rows,     \* the analysis table: [url, version]
          events,   \* the outbox table: an event for each of these
          version,  \* the version a request has read
          pending   \* what its transaction has inserted into both

submissionVars == <<rows, events, version, pending>>

Row == [url : Urls, version : Nat \ {0}]
Nothing == [rows |-> {}, events |-> {}]

DefaultPort(scheme) == IF scheme = "http" THEN "80" ELSE "443"

Lower(host) == <<host[1], "lower">>

\* What url.Parse makes of a spelling and url.String writes of it again, but for the fragment.
\* Without a scheme the host is the beginning of the path: it gets https:// in front like any other,
\* but its letters stay as they are, and a path of "/" is not all of the path.  A name before a
\* colon is taken for the scheme, and the rest is opaque.
Normalized(url, fragment) ==
  CASE url.scheme # "" ->
         [scheme |-> url.scheme, host |-> Lower(url.host),
          port |-> IF url.port = DefaultPort(url.scheme) THEN "" ELSE url.port,
          path |-> IF url.path = "/" THEN "" ELSE url.path, fragment |-> fragment]
    [] url.scheme = "" /\ url.port = "" ->
         [scheme |-> "https", host |-> url.host, port |-> "",
          path |-> url.path, fragment |-> fragment]
    [] OTHER ->
         [scheme |-> url.host[1], host |-> <<"", "lower">>, port |-> url.port,
          path |-> url.path, fragment |-> fragment]

\* Mutant: the fragment stays.
NewNormalizedURLFragment(url) == Normalized(url, url.fragment)

NewNormalizedURL(url) == Normalized(url, "")

\* The id of a row is a hash of this.
Id(row) == <<NewNormalizedURL(row.url), row.version>>

\* PRIMARY KEY (id), UNIQUE (url, version).
Collides(row, others) == \E o \in others : Id(o) = Id(row) \/ o = row

\* Mutant: the rows of every URL.
NextVersionAll(url) == Max({0} \cup {row.version : row \in rows}) + 1

\* COALESCE(MAX(version), 0) + 1 over the rows with this spelling.
NextVersion(url) == Max({0} \cup {row.version : row \in {r \in rows : r.url = url}}) + 1

ReadVersion(r, url) ==
  /\ version' = [version EXCEPT ![r] = NextVersion(url)]
  /\ UNCHANGED <<rows, events, pending>>

NewRow(r, url) == [url |-> url, version |-> version[r]]
Uncommitted(r) == UNION {pending[q].rows : q \in Requests \ {r}}

\* Mutant: no unique key stops the insertion.
CanInsertAlways(r, url) == NewRow(r, url) \in Row

CanInsert(r, url) == ~ Collides(NewRow(r, url), rows \cup Uncommitted(r))
MustFail(r, url) == Collides(NewRow(r, url), rows)

InsertAnalysis(r, url) ==
  /\ CanInsert(r, url)
  /\ pending' = [pending EXCEPT ![r].rows = {NewRow(r, url)}]
  /\ UNCHANGED <<rows, events, version>>

\* Mutant: the event is inserted outside the transaction.
InsertEventAtOnce(r) ==
  /\ events' = events \cup pending[r].rows
  /\ UNCHANGED <<rows, version, pending>>

InsertEvent(r) ==
  /\ pending' = [pending EXCEPT ![r].events = pending[r].rows]
  /\ UNCHANGED <<rows, events, version>>

\* The end of r's transaction.
End(r) ==
  /\ pending' = [pending EXCEPT ![r] = Nothing]
  /\ version' = [version EXCEPT ![r] = 0]

Commit(r) ==
  /\ rows' = rows \cup pending[r].rows
  /\ events' = events \cup pending[r].events
  /\ End(r)

\* Mutant: the transaction stays open.
RollbackForgotten(r) == UNCHANGED submissionVars

\* The deferred Rollback, or the connection's end.
Rollback(r) == End(r) /\ UNCHANGED <<rows, events>>

SubmissionInit ==
  /\ rows = {} /\ events = {}
  /\ version = [r \in Requests |-> 0]
  /\ pending = [r \in Requests |-> Nothing]

SubmissionTypeOK ==
  /\ rows \subseteq Row /\ events \subseteq Row
  /\ version \in [Requests -> Nat]
  /\ pending \in [Requests -> [rows : SUBSET Row, events : SUBSET Row]]

-----------------------------------------------------------------------------
(* Properties                                                              *)

\* The analyses of a URL are numbered 1, 2, 3, ... without a gap or a repetition, however
\* submissions that read the same number interleave, fail and are rolled back.
VersionsContiguous ==
  \A row \in rows :
    row.version > 1 => [row EXCEPT !.version = @ - 1] \in rows

\* The tables agree: an analysis is stored with its event or not at all.
AnalysisHasEvent == rows = events

\* The statements of StartAnalysis, interleaved with those of other transactions, repeated, failing
\* and rolled back at any of them, have the effect of a StartAnalysis in one step or none.
Serial == INSTANCE SerialSubmission WITH
  analyses <- rows, outbox <- events,
  NormalForm <- [url \in Urls |-> NewNormalizedURL(url)]

ImplementsSerial == Serial!SerialSpec

\* The spellings whose parts url.Parse recognises, or has no need to.
Recognised(url) ==
  url.scheme # "" \/ (url.host = Lower(url.host) /\ url.port = "" /\ url.path # "/")

\* Two such spellings of one page: the reference that the normal form is held against.
SamePage(u, v) ==
  LET Secure(w) == w.scheme # "http"
      Port(w) == IF w.port = "" THEN (IF Secure(w) THEN "443" ELSE "80") ELSE w.port
      Root(w) == w.path \in {"", "/"}
  IN  /\ Recognised(u) /\ Recognised(v)
      /\ Secure(u) = Secure(v) /\ Port(u) = Port(v)
      /\ u.host[1] = v.host[1]
      /\ u.path = v.path \/ (Root(u) /\ Root(v))

\* Only one spelling of a page is ever accepted: the first analysis under any other gets the id
\* of the first one, and the insertion fails however often it is tried.  Not so a spelling without
\* a scheme that has capitals, a port or a path of "/": it is a page of its own.
OneSpellingPerPage ==
  \A a, b \in rows : SamePage(a.url, b.url) => a.url = b.url
=============================================================================
