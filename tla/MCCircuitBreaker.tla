-------------------------- MODULE MCCircuitBreaker --------------------------
(* Instances of CircuitBreaker for TLC. *)
EXTENDS CircuitBreaker, TLC

\* Request handlers run the same code.
RequestSymmetry == Permutations(Requests)

=============================================================================
