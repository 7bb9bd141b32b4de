---------------------------- MODULE HttpRequests ----------------------------
(***************************************************************************)
(* The requests an HTTP server works on, each in a goroutine of its own:   *)
(* how far each has come, and what it has been answered.                   *)
(***************************************************************************)
EXTENDS Naturals

CONSTANT Requests    \* concurrent HTTP requests

VARIABLES request,   \* what a client asks for
          stage,     \* how far the request has come
          accepted   \* the requests last answered with a 202

NoRequest == [op |-> "none"]

\* The answer is sent, and the request forgotten: of the code only a promise remains.
Answer(r, code) ==
  /\ accepted' = IF code = 202 THEN accepted \cup {r} ELSE accepted
  /\ stage' = [stage EXCEPT ![r] = "answered"]
  /\ request' = [request EXCEPT ![r] = NoRequest]

Advance(r, s) ==
  /\ stage' = [stage EXCEPT ![r] = s]
  /\ UNCHANGED <<request, accepted>>
=============================================================================
