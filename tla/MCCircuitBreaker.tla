-------------------------- MODULE MCCircuitBreaker --------------------------
(* Small instances of CircuitBreaker for TLC. *)
EXTENDS CircuitBreaker, TLC

CONSTANTS c1, c2, c3, Threshold, HalfOpenMax

MCCfg == [threshold |-> Threshold, cooldownMs |-> 1, halfOpenMax |-> HalfOpenMax]

\* Callers that never reset are interchangeable.
Symmetry == Permutations(Callers \ Resetters)
=============================================================================
