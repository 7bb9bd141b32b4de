----------------------------- MODULE MCRequests -----------------------------
(* Requests for TLC: two spellings of one page, https://SITE:443/ and site#top. *)
EXTENDS Requests

MCUrls ==
  {[scheme |-> "https", host |-> <<"site", "upper">>, port |-> "443", path |-> "/", fragment |-> ""],
   [scheme |-> "", host |-> <<"site", "lower">>, port |-> "", path |-> "", fragment |-> "top"]}

(* The normal form on more spellings than the run has URLs for: it is the same for recognised
   spellings of one page and for no others, and no other spelling has the form of a recognised one. *)
Spellings ==
  [scheme : {"", "http", "https"}, host : {<<"site", "lower">>, <<"site", "upper">>},
   port : {"", "80", "443", "8080"}, path : {"", "/", "/page"}, fragment : {""}]

ASSUME NormalFormTellsPages ==
  \A u, v \in Spellings :
    Recognised(v) => (NewNormalizedURL(u) = NewNormalizedURL(v) <=> SamePage(u, v))
=============================================================================
