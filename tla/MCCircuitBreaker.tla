--------------------------- MODULE MCCircuitBreaker ---------------------------
(* The circuit breaker in its registry, for TLC. *)
EXTENDS BreakerRegistry
=============================================================================
