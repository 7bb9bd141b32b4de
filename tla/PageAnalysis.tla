---------------------------- MODULE PageAnalysis ----------------------------
(***************************************************************************)
(* One subscriber analysing page after page: the fetch and                 *)
(* performFullAnalysis (internal/service/subscriber_service.go), with the  *)
(* goroutines of the analyzer and of the link checker, and the breakers,   *)
(* which remember from one page to the next.                               *)
(***************************************************************************)
EXTENDS WebFetcher, LinkChecker, HTMLAnalyzer

CONSTANTS Options,         \* the sets of parts that requests ask for: headings, forms, links
          Urls,            \* the URLs of requests
          MaxPages,        \* how many requests there are
          MaxGeneration    \* how often a breaker changes

ASSUME PageAssumption == MaxPages \in Nat /\ MaxGeneration \in Nat

\* A page has finitely many anchors.
ASSUME PagesAssumption == \A p \in Pages : p.anchors \in Seq(ToSet(p.anchors))

VARIABLES stage,      \* of the analysis
          left,       \* the requests still to come
          page,       \* what was fetched
          options,    \* what was asked for
          writing,    \* the parts whose goroutines have not finished
          results,
          error       \* the error code of the last analysis, "" for none

analysisVars == <<stage, left, page, options, writing, results, error>>
pageVars == <<fetchVars, checkVars, analysisVars>>

NoPage == [title |-> "none"]

\* A message comes in, and Fetch refuses it or sends its request.
Fetch(url) ==
  /\ stage = "idle" /\ left > 0
  /\ left' = left - 1
  /\ options' \in Options
  /\ error' = RefusedFetch(url)
  /\ IF error' = "" THEN stage' = "fetch" /\ BeginFetch
                    ELSE UNCHANGED <<stage, fetchVars>>
  /\ page' = NoPage /\ results' = NoResults /\ check' = <<>> /\ inaccessible' = <<>>
  /\ UNCHANGED <<linkBreaker, failures, writing>>

FetchFails ==
  /\ stage = "fetch"
  /\ \E outcome \in FetchOutcomes \ {""} : EndFetch(outcome) /\ error' = outcome
  /\ stage' = "idle"
  /\ UNCHANGED <<checkVars, left, page, options, writing, results>>

\* Analyze starts its goroutines.
FetchReturns ==
  /\ stage = "fetch"
  /\ EndFetch("")
  /\ page' \in Pages
  /\ writing' = Parts(options)
  /\ stage' = "analyze"
  /\ UNCHANGED <<checkVars, left, options, results, error>>

WritePart(part) ==
  /\ stage \in {"analyze", "check"} /\ part \in writing
  /\ results' = [results EXCEPT ![part] = Extract(page, part)]
  /\ writing' = writing \ {part}
  /\ UNCHANGED <<fetchVars, checkVars, stage, left, page, options, error>>

\* Mutant: Analyze returns with the links.
AnalyzedEarly == "links" \notin writing

\* wg.Wait.
Analyzed == writing = {}

\* The links are checked when that was asked for and there are any outside of the site.
AnalyzeReturns ==
  /\ stage = "analyze" /\ Analyzed
  /\ IF "check" \in options /\ results.links.external # <<>>
       THEN stage' = "check" /\ Spawn(results.links.external)
       ELSE stage' = "idle" /\ UNCHANGED checkVars
  /\ UNCHANGED <<fetchVars, left, page, options, writing, results, error>>

CheckLink(link) ==
  /\ stage = "check" /\ CheckStep(link)
  /\ UNCHANGED <<fetchVars, analysisVars>>

\* CheckAccessibility returns, and the results are saved.
ChecksReturn ==
  /\ stage = "check" /\ AllChecked
  /\ results' = [results EXCEPT !.links.inaccessible = inaccessible]
  /\ stage' = "idle"
  /\ UNCHANGED <<fetchVars, checkVars, left, page, options, writing, error>>

\* A breaker looks at the clock when it is called.
TimePasses ==
  /\ \/ stage \in {"idle", "fetch"} /\ FetchBreakerExpires(MaxGeneration) /\ UNCHANGED checkVars
     \/ stage = "check" /\ LinkBreakerExpires(MaxGeneration) /\ UNCHANGED fetchVars
  /\ UNCHANGED analysisVars

\* The breakers know nothing, or remember what came before: as many calls and failures of each as
\* leave them one failure away from opening.
Remembering(calls, failed) ==
  {ClosedBreaker, [ClosedBreaker EXCEPT !.requests = calls, !.failures = failed,
                                        !.successes = calls - failed]}

PageInit ==
  /\ fetchBreaker \in Remembering(2, 2) /\ fetching = 0
  /\ linkBreaker \in Remembering(4, 3) /\ failures = linkBreaker.failures
  /\ check = <<>> /\ inaccessible = <<>>
  /\ stage = "idle" /\ left = MaxPages
  /\ page = NoPage /\ options = {} /\ writing = {} /\ results = NoResults /\ error = ""

Work ==
  \/ FetchFails \/ FetchReturns \/ AnalyzeReturns \/ ChecksReturn
  \/ \E part \in writing : WritePart(part)
  \/ \E link \in DOMAIN check : CheckLink(link)

PageNext == (\E url \in Urls : Fetch(url)) \/ Work \/ TimePasses

\* Goroutines run, and calls to other sites end by their timeout.
PageSpec == PageInit /\ [][PageNext]_pageVars /\ WF_pageVars(Work)

\* A breaker's calls of this generation are those under way and those that ended.
UnderWay ==
  {link \in DOMAIN check :
     Stage(link) = "checking" /\ check[link].generation = linkBreaker.generation}

CountsAddUp ==
  /\ linkBreaker.requests = linkBreaker.failures + linkBreaker.successes + Cardinality(UnderWay)
  /\ fetchBreaker.requests = fetchBreaker.failures + fetchBreaker.successes
                               + (IF fetching = fetchBreaker.generation THEN 1 ELSE 0)

PageTypeOK ==
  /\ fetchBreaker \in Breaker /\ linkBreaker \in Breaker /\ fetching \in Nat
  /\ CountsAddUp
  /\ check \in [DOMAIN check -> Goroutines]
  /\ inaccessible \in Seq([url : DOMAIN check, status : Statuses])
  /\ stage \in {"idle", "fetch", "analyze", "check"} /\ left \in 0..MaxPages
  /\ page \in Pages \cup {NoPage} /\ options \in Options \cup {{}}
  /\ writing \subseteq Parts({"headings", "forms"})
  /\ failures \in Nat
  /\ error \in {"INVALID_URL", "CIRCUIT_BREAKER_OPEN"} \cup FetchOutcomes

-----------------------------------------------------------------------------
(* Properties                                                              *)

Finished == stage = "idle" /\ page # NoPage

\* The reference for ExtractLinks: a URL counts as a link exactly if the first anchor that leads to
\* it may be followed; an anchor such as "#" ahead of a link to the page itself hides the link.
FirstMention(url) ==
  CHOOSE i \in DOMAIN page.anchors :
    /\ page.anchors[i].url = url /\ page.anchors[i].href \notin NoURL
    /\ \A j \in 1..i - 1 :
         page.anchors[j].url = url => page.anchors[j].href \in NoURL

Mentioned == {a.url : a \in {b \in ToSet(page.anchors) : b.href \notin NoURL}}
Linked == {url \in Mentioned : page.anchors[FirstMention(url)].href \notin Skipped}

LinksCounted ==
  /\ results.links.total = Cardinality(Linked)
  /\ results.links.internal = Cardinality({url \in Linked : Internal(url)})
  /\ results.links.internal + Len(results.links.external) = results.links.total
  /\ ToSet(results.links.external) = {url \in Linked : ~ Internal(url)}

PartsWritten ==
  \A part \in DOMAIN results \ {"links"} :
    results[part] = IF part \in Parts(options) THEN Extract(page, part) ELSE NoResults[part]

\* However the goroutines of Analyze interleave, a finished analysis has every part that was asked
\* for, as the page has it, and nothing of a part that was not; its links are those of the
\* reference, each once.
PartsComplete == Finished => PartsWritten /\ LinksCounted

\* The report of a finished analysis has each link that was checked and not answered well, once,
\* and with the status its goroutine found; and the links checked are those outside of the site,
\* up to the limit.
ReportComplete ==
  Finished =>
    LET report == results.links.inaccessible
        Bad == {link \in DOMAIN check : IsInaccessible(link)}
    IN  /\ ToSet(report) = {[url |-> link, status |-> check[link].status] : link \in Bad}
        /\ Len(report) = Cardinality(Bad)
        /\ DOMAIN check \subseteq ToSet(results.links.external)
        /\ "check" \in options =>
             \/ DOMAIN check = ToSet(results.links.external)
             \/ Cardinality(DOMAIN check) = MaxLinksToCheck

\* A link is not reported unasked, as inaccessible for the breaker's sake, before four checks have
\* failed; answers of any kind do not bring that about.
BlamedAfterFailures ==
  (\E i \in DOMAIN inaccessible : inaccessible[i].status = 503) => failures >= 4

\* An analysis ends: no goroutine waits for ever for the semaphore, whether the checks before it
\* were answered, failed or were rejected.
AnalysisEnds == stage = "fetch" ~> stage = "idle"
=============================================================================
