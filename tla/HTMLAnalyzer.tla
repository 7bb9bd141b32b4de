---------------------------- MODULE HTMLAnalyzer ----------------------------
(***************************************************************************)
(* The HTML analyzer (internal/adapters/html_analyzer.go): what it makes   *)
(* of a page.  A page is a record of                                       *)
(*   declared  the document types and XML declarations anywhere in it,     *)
(*   title, headings                                                       *)
(*   anchors   its a[href]: how the href reads, and the URL it resolves to *)
(*   forms     method, whether an input is of type password, field names   *)
(***************************************************************************)
EXTENDS Naturals, Sequences, FiniteSets, SequencesExt

CONSTANTS Pages, Site    \* Site is the host of every page

\* Each pattern is looked for in the whole text, in this order.
ExtractHTMLVersion(page) ==
  IF "html5" \in page.declared THEN "HTML5"
  ELSE IF "html401" \in page.declared THEN "HTML 4.01"
  ELSE IF "xhtml10" \in page.declared THEN "XHTML 1.0"
  ELSE IF "xhtml11" \in page.declared THEN "XHTML 1.1"
  ELSE IF "xml" \in page.declared THEN "XHTML 1.0"
  ELSE "Unknown"

Skipped == {"#", "javascript:", "mailto:", "tel:"}

\* What Analyze leaves when nothing has been written.
NoLinks == [total |-> 0, internal |-> 0, external |-> <<>>, inaccessible |-> <<>>]

Internal(url) == url.host = Site

\* Analyze counts the links, and keeps those that lead out of the site.
AddLink(links, url) ==
  IF Internal(url) THEN [links EXCEPT !.total = @ + 1, !.internal = @ + 1]
                   ELSE [links EXCEPT !.total = @ + 1, !.external = Append(@, url)]

\* What an anchor may have instead of a URL.
NoURL == {"", "malformed"}

\* A URL is marked as seen before the href is found to be one that is skipped.
AddAnchor(found, anchor) ==
  IF anchor.href \in NoURL \/ anchor.url \in found.seen
    THEN found
    ELSE [seen |-> found.seen \cup {anchor.url},
          links |-> IF anchor.href \in Skipped THEN found.links
                                               ELSE AddLink(found.links, anchor.url)]

\* ExtractLinks and the loop over the links that it returns, in one.
AnalyzeLinks(page) == FoldLeft(AddAnchor, [seen |-> {}, links |-> NoLinks], page.anchors).links

\* A method that is neither is a GET.
Method(form) == IF form.method = "POST" THEN "POST" ELSE "GET"
IsLikelyLoginForm(form) == Method(form) = "POST" /\ form.password

ExtractForms(page) ==
  [total |-> Len(page.forms),
   login |-> [i \in DOMAIN SelectSeq(page.forms, IsLikelyLoginForm) |->
                LET form == SelectSeq(page.forms, IsLikelyLoginForm)[i]
                IN  [method |-> Method(form), fields |-> ToSet(form.fields)]]]

NoResults ==
  [version |-> "", title |-> "", headings |-> 0, links |-> NoLinks,
   forms |-> [total |-> 0, login |-> <<>>]]

\* Mutant: a goroutine for every option.
PartsAll(options) == {"version", "title", "links"} \cup options

\* The goroutines of Analyze, one for each of these.
Parts(options) ==
  {"version", "title", "links"} \cup (options \cap {"headings", "forms"})

\* What the goroutine of a part writes, under the lock.
Extract(page, part) ==
  CASE part = "version" -> ExtractHTMLVersion(page)
    [] part = "title" -> page.title
    [] part = "headings" -> page.headings
    [] part = "links" -> AnalyzeLinks(page)
    [] part = "forms" -> ExtractForms(page)
=============================================================================
