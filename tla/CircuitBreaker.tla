--------------------------- MODULE CircuitBreaker ---------------------------
(***************************************************************************)
(* The breaker of github.com/sony/gobreaker as the web fetcher and the     *)
(* link checker configure and call it: Execute asks Before, makes the      *)
(* call, and tells After.  A new generation forgets the counts, and what   *)
(* is told of an earlier generation is ignored.  A failure ends half-open, *)
(* so the successes of that state are consecutive.                         *)
(***************************************************************************)
EXTENDS Naturals

CONSTANT MaxProbes    \* CircuitBreaker.MaxRequests: the calls let through half-open

ASSUME MaxProbesAssumption == MaxProbes \in Nat \ {0}

NewGeneration(b, state) ==
  [state |-> state, generation |-> b.generation + 1, requests |-> 0, failures |-> 0, successes |-> 0]

ClosedBreaker == NewGeneration([generation |-> 0], "closed")

Lets(b) == b.state = "closed" \/ (b.state = "half-open" /\ b.requests < MaxProbes)

Before(b) == [b EXCEPT !.requests = @ + 1]

\* ReadyToTrip: at least so many calls, and so large a part of them, in tenths, has failed.
Trips(b, calls, tenths) == b.requests >= calls /\ 10 * b.failures >= tenths * b.requests

After(b, generation, success, calls, tenths) ==
  LET counted == IF success THEN [b EXCEPT !.successes = @ + 1] ELSE [b EXCEPT !.failures = @ + 1]
  IN  IF generation # b.generation THEN b
      ELSE IF b.state = "half-open" /\ ~ success THEN NewGeneration(b, "open")
      ELSE IF b.state = "half-open" /\ counted.successes >= MaxProbes THEN NewGeneration(b, "closed")
      ELSE IF ~ success /\ Trips(counted, calls, tenths) THEN NewGeneration(b, "open")
      ELSE counted

\* Interval ends a generation of the closed breaker, Timeout makes an open one half-open.
Expired(b) == NewGeneration(b, IF b.state = "open" THEN "half-open" ELSE "closed")

Breaker ==
  [state : {"closed", "open", "half-open"}, generation : Nat \ {0},
   requests : Nat, failures : Nat, successes : Nat]
=============================================================================
