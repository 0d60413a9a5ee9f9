-------------------------- MODULE MCCircuitBreaker --------------------------
(* A small instance of CircuitBreaker for TLC: four calls in flight, so two *)
(* more than the probe limit can be stragglers from before the outage.       *)
EXTENDS CircuitBreaker, TLC

Symmetry == Permutations(Calls)

=============================================================================
