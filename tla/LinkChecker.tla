---------------------------- MODULE LinkChecker ----------------------------
(***************************************************************************)
(* The link checker (internal/adapters/link_checker.go): a goroutine for   *)
(* each link, a semaphore, and one breaker for all checks of the process,  *)
(* which outlives the analyses.                                            *)
(***************************************************************************)
EXTENDS CircuitBreaker, Sequences, FiniteSets

CONSTANTS MaxLinksToCheck, MaxConcurrentChecks

ASSUME LinkCheckerAssumption ==
  MaxLinksToCheck \in Nat /\ MaxConcurrentChecks \in Nat \ {0}

VARIABLES linkBreaker,
          check,         \* the goroutine of each link: its stage, the generation, the status
          inaccessible,  \* the links found so
          failures       \* how many checks have failed so far, for the properties

checkVars == <<linkBreaker, check, inaccessible, failures>>

\* filterExternalLinks, and the limit: the first MaxLinksToCheck different links.
UpTo(links, i) == {links[j] : j \in 1..i}
LinksToCheck(links) ==
  {links[i] : i \in {j \in DOMAIN links : Cardinality(UpTo(links, j)) <= MaxLinksToCheck}}

Statuses == {0, 200, 404, 503}
Goroutine(stage, generation, status) ==
  [stage |-> stage, generation |-> generation, status |-> status]
Goroutines ==
  [stage : {"spawned", "checking", "checked", "done"}, generation : Nat, status : Statuses]

Spawn(links) ==
  /\ check' = [link \in LinksToCheck(links) |-> Goroutine("spawned", 0, 0)]
  /\ inaccessible' = <<>>
  /\ UNCHANGED <<linkBreaker, failures>>

Stage(link) == check[link].stage
Holders == {link \in DOMAIN check : Stage(link) \in {"checking", "checked"}}

\* The goroutine gets into the semaphore and goes on to Execute.
Enters(link) == Stage(link) = "spawned" /\ Cardinality(Holders) < MaxConcurrentChecks

BeginCheck(link) ==
  /\ Enters(link) /\ Lets(linkBreaker)
  /\ linkBreaker' = Before(linkBreaker)
  /\ check' = [check EXCEPT ![link] = Goroutine("checking", linkBreaker.generation, 0)]
  /\ UNCHANGED <<inaccessible, failures>>

\* The status of a link that was not asked: 503 for an open breaker, and for one that is half-open
\* and has let enough calls through 0, as for a link that cannot be reached.
Unasked == IF linkBreaker.state = "open" THEN 503 ELSE 0

RejectCheck(link) ==
  /\ Enters(link) /\ ~ Lets(linkBreaker)
  /\ check' = [check EXCEPT ![link] = Goroutine("checked", 0, Unasked)]
  /\ UNCHANGED <<linkBreaker, inaccessible, failures>>

\* Mutant: an answer of 400 or more counts as a failure.
AnsweredSternly(link, status) ==
  /\ Stage(link) = "checking"
  /\ linkBreaker' = After(linkBreaker, check[link].generation, status < 400, 5, 8)
  /\ check' = [check EXCEPT ![link] = Goroutine("checked", 0, status)]
  /\ UNCHANGED <<inaccessible, failures>>

\* HEAD, or GET when HEAD fails, is answered: for the breaker that is a success.
Answered(link, status) ==
  /\ Stage(link) = "checking"
  /\ linkBreaker' = After(linkBreaker, check[link].generation, TRUE, 5, 8)
  /\ check' = [check EXCEPT ![link] = Goroutine("checked", 0, status)]
  /\ UNCHANGED <<inaccessible, failures>>

\* Both HEAD and GET fail.
Unreachable(link) ==
  /\ Stage(link) = "checking"
  /\ linkBreaker' = After(linkBreaker, check[link].generation, FALSE, 5, 8)
  /\ check' = [check EXCEPT ![link] = Goroutine("checked", 0, 0)]
  /\ failures' = failures + 1
  /\ UNCHANGED inaccessible

IsInaccessible(link) == check[link].status = 0 \/ check[link].status >= 400

\* Mutant: a link that was not asked does not leave the semaphore.
ReportAsked(link) ==
  /\ Stage(link) = "checked" /\ check[link].status # 503
  /\ check' = [check EXCEPT ![link].stage = "done"]
  /\ inaccessible' = IF IsInaccessible(link)
                       THEN Append(inaccessible, [url |-> link, status |-> check[link].status])
                       ELSE inaccessible
  /\ UNCHANGED <<linkBreaker, failures>>

\* The link is added under the lock, and the semaphore released.
Report(link) ==
  /\ Stage(link) = "checked"
  /\ check' = [check EXCEPT ![link].stage = "done"]
  /\ inaccessible' = IF IsInaccessible(link)
                       THEN Append(inaccessible, [url |-> link, status |-> check[link].status])
                       ELSE inaccessible
  /\ UNCHANGED <<linkBreaker, failures>>

\* Mutant: the last step of the goroutines is not waited for.
AllCheckedEarly == \A link \in DOMAIN check : Stage(link) \in {"checked", "done"}

\* wg.Wait.
AllChecked == \A link \in DOMAIN check : Stage(link) = "done"

LinkBreakerExpires(maxGeneration) ==
  /\ linkBreaker.generation < maxGeneration
  /\ linkBreaker.state = "open" \/ (linkBreaker.state = "closed" /\ linkBreaker.requests > 0)
  /\ linkBreaker' = Expired(linkBreaker)
  /\ UNCHANGED <<check, inaccessible, failures>>

CheckStep(link) ==
  \/ BeginCheck(link) \/ RejectCheck(link)
  \/ Answered(link, 200) \/ Answered(link, 404) \/ Unreachable(link) \/ Report(link)
=============================================================================
