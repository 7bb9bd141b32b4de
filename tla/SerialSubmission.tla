-------------------------- MODULE SerialSubmission --------------------------
(***************************************************************************)
(* What StartAnalysis (internal/service/application_service.go) promises:  *)
(* that it is one step.  Analysis and outbox event appear together, the    *)
(* analyses of a URL are counted as they come, and a page keeps the        *)
(* spelling it was submitted under first.                                  *)
(***************************************************************************)
EXTENDS Naturals, FiniteSets

CONSTANTS Urls,        \* URLs as clients spell them
          NormalForm   \* of each of these

VARIABLES analyses, outbox   \* sets of [url, version]

serialVars == <<analyses, outbox>>

AnalysesOf(url) == {a \in analyses : a.url = url}

\* Whatever other submissions are under way, and however many of them have failed.
StartAnalysis(url) ==
  /\ \A a \in analyses : NormalForm[a.url] = NormalForm[url] => a.url = url
  /\ LET analysis == [url |-> url, version |-> Cardinality(AnalysesOf(url)) + 1]
     IN  /\ analyses' = analyses \cup {analysis}
         /\ outbox' = outbox \cup {analysis}

SerialInit == analyses = {} /\ outbox = {}

SerialNext == \E url \in Urls : StartAnalysis(url)

SerialSpec == SerialInit /\ [][SerialNext]_serialVars
=============================================================================
