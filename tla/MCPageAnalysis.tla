--------------------------- MODULE MCPageAnalysis ---------------------------
(* PageAnalysis for TLC: three links outside of the site, and pages that name one URL in several  *)
(* ways.                                                                                          *)
EXTENDS PageAnalysis

Url(host, path) == [host |-> host, path |-> path]
A(href, host, path) == [href |-> href, url |-> Url(host, path)]
Post == [method |-> "POST", password |-> TRUE, fields |-> <<"name", "name", "word">>]
Search == [method |-> "", password |-> TRUE, fields |-> <<>>]

MCPages ==
  {[declared |-> {"html5", "xhtml11"}, title |-> "links", headings |-> 2, forms |-> <<>>,
    anchors |-> <<A("link", "x", ""), A("link", "y", ""), A("link", "x", ""), A("link", "z", "")>>],
   [declared |-> {"xml"}, title |-> "hidden", headings |-> 1, forms |-> <<Search, Post>>,
    anchors |-> <<A("malformed", "site", ""), A("#", "site", ""), A("link", "site", ""),
                  A("link", "site", "other"), A("mailto:", "", "me"), A("link", "z", "")>>]}

MCOptions == {{"headings", "check"}, {"forms"}}

MCUrls ==
  {[wellFormed |-> TRUE, scheme |-> "https", host |-> "site"],
   [wellFormed |-> TRUE, scheme |-> "https", host |-> "private"]}
=============================================================================
