--------------------------- MODULE CircuitBreaker ---------------------------
(***************************************************************************)
(* The circuit breaker in front of the webhook receiver: the settings of   *)
(* newCircuitBreaker in server/internal/dispatcher, and what gobreaker     *)
(* makes of them.  A pure state and its transitions; Dispatcher holds one  *)
(* per process.  The library drops the result of a request that began in   *)
(* an earlier state: Dispatcher marks those requests as stale.             *)
(***************************************************************************)
EXTENDS Naturals

CONSTANTS
    FailureThreshold,  \* consecutive failures that open the circuit
    SuccessThreshold   \* requests that a half-open circuit lets through

ASSUME ThresholdsAssumption ==
    FailureThreshold \in Nat \ {0} /\ SuccessThreshold \in Nat \ {0}

(* failures: in a row, while closed.  requests, successes: while half-open. *)
Breaker == [state : {"closed", "open", "half-open"}, failures : 0..FailureThreshold,
            requests : 0..SuccessThreshold, successes : 0..SuccessThreshold]

Circuit(state) == [state |-> state, failures |-> 0, requests |-> 0, successes |-> 0]

IsOpen(b) == b.state = "open"

(* Execute runs the request, or answers ErrOpenState or ErrTooManyRequests. *)
Admits(b) == \/ b.state = "closed"
             \/ b.state = "half-open" /\ b.requests < SuccessThreshold

Admit(b) == IF b.state = "half-open" THEN [b EXCEPT !.requests = @ + 1] ELSE b

Succeed(b) ==
    IF b.state = "closed" THEN [b EXCEPT !.failures = 0]
    ELSE IF b.successes + 1 >= SuccessThreshold THEN Circuit("closed")
    ELSE [b EXCEPT !.successes = @ + 1]

(* ReadyToTrip while closed; one failure is enough while half-open. *)
Fail(b) ==
    IF b.state = "closed" /\ b.failures + 1 < FailureThreshold
    THEN [b EXCEPT !.failures = @ + 1]
    ELSE Circuit("open")
=============================================================================
