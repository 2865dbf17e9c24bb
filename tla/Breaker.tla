------------------------------ MODULE Breaker ------------------------------
(***************************************************************************)
(* The circuit breaker that all connections of a vault share: the settings *)
(* of circuitbreaker.SyncWS, and the state machine of the gobreaker        *)
(* library as the code relies on it.  A breaker is a record; calls that    *)
(* began under an earlier generation are not counted.                      *)
(***************************************************************************)
EXTENDS Naturals

CONSTANTS
  TripAfter,    \* consecutive failures after which it opens: 3
  MaxRequests   \* calls let through at a time when it is half open: 1

BreakerAssumption == TripAfter \in Nat \ {0} /\ MaxRequests \in Nat \ {0}
ASSUME BreakerAssumption

Breakers == [state : {"closed", "open", "half-open"}, generation : Nat,
             failures : Nat, requests : Nat]

ClosedBreaker(g) == [state |-> "closed", generation |-> g, failures |-> 0, requests |-> 0]
OpenBreaker(g) == [state |-> "open", generation |-> g, failures |-> 0, requests |-> 0]
HalfOpenBreaker(g) == [state |-> "half-open", generation |-> g, failures |-> 0, requests |-> 0]

\* Mutant: a half-open breaker lets every call through.
AdmitsUnlessOpen(b) == b.state # "open"

Admits(b) == \/ b.state = "closed"
             \/ b.state = "half-open" /\ b.requests < MaxRequests
Admitted(b) == IF b.state = "half-open" THEN [b EXCEPT !.requests = @ + 1] ELSE b

(* The timeout of an open breaker has passed.                              *)
TimedOut(b) == HalfOpenBreaker(b.generation + 1)

Succeeds(b, g) ==
  IF g # b.generation THEN b
  ELSE IF b.state = "half-open" /\ MaxRequests = 1 THEN ClosedBreaker(g + 1)
  ELSE [b EXCEPT !.failures = 0]

Failed(b, g) ==
  IF g # b.generation THEN b
  ELSE IF b.state = "half-open" \/ b.failures + 1 >= TripAfter THEN OpenBreaker(g + 1)
  ELSE [b EXCEPT !.failures = @ + 1]

(* A call that was cancelled does not count.                               *)
Cancelled(b, g) ==
  IF g = b.generation /\ b.state = "half-open" THEN [b EXCEPT !.requests = @ - 1] ELSE b

=============================================================================
