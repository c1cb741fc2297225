----------------------- MODULE CircuitBreakerRefines -----------------------
(***************************************************************************)
(* CircuitBreaker implements Breaker.  The abstract run is the counter of  *)
(* the current state; what the code leaves in the other counter (failures  *)
(* of late calls while OPEN, carried into HALF_OPEN) is hidden.            *)
(***************************************************************************)
EXTENDS CircuitBreaker

\* The counter that belongs to the current state.
CurrentRun == IF state = "CLOSED" THEN failureCount
              ELSE IF state = "HALF_OPEN" THEN successCount ELSE 0

Abstract == INSTANCE Breaker WITH
    mode <- state,
    run <- CurrentRun,
    quiet <- (sinceFailure > ResetTimeout),
    pending <- inFlight

\* The breaker of the code is a breaker: no interleaving of late answers,
\* probes, timer firings and resets takes it where Breaker cannot go.
ImplementsBreaker == Abstract!BSpec
=============================================================================
