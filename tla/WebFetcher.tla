---------------------------- MODULE WebFetcher ----------------------------
(***************************************************************************)
(* The web fetcher (internal/adapters/web_fetcher.go), called by the one   *)
(* goroutine that handles messages: one fetch at a time.  The retries of   *)
(* the HTTP client are part of its call.                                   *)
(***************************************************************************)
EXTENDS CircuitBreaker

VARIABLES fetchBreaker,
          fetching    \* the generation of the fetch under way, 0 for none

fetchVars == <<fetchBreaker, fetching>>

\* validateURL: a URL record tells whether its length is allowed and it parses, its scheme, and
\* what its host is.
ValidURL(url) == url.wellFormed /\ url.scheme \in {"http", "https"} /\ url.host \notin {"", "private"}

\* The errors of Fetch, as it returns them without having asked.
RefusedFetch(url) ==
  IF ~ ValidURL(url) THEN "INVALID_URL"
  ELSE IF ~ Lets(fetchBreaker) THEN "CIRCUIT_BREAKER_OPEN"
  ELSE ""

BeginFetch ==
  /\ fetchBreaker' = Before(fetchBreaker)
  /\ fetching' = fetchBreaker.generation

\* A transport error, a status outside 200..299, and a body that is too large.  What is no HTML is
\* taken nevertheless.
FetchOutcomes == {"", "URL_NOT_REACHABLE", "RESPONSE_TOO_LARGE"}

EndFetch(outcome) ==
  /\ fetchBreaker' = After(fetchBreaker, fetching, outcome = "", 3, 6)
  /\ fetching' = 0

FetchBreakerExpires(maxGeneration) ==
  /\ fetchBreaker.generation < maxGeneration
  /\ fetchBreaker.state = "open" \/ (fetchBreaker.state = "closed" /\ fetchBreaker.requests > 0)
  /\ fetchBreaker' = Expired(fetchBreaker)
  /\ UNCHANGED fetching
=============================================================================
