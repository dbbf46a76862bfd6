-------------------------- MODULE MCCircuitBreaker --------------------------
(* Three callers sharing one breaker that opens after two failures.        *)
EXTENDS CircuitBreaker, TLC

CONSTANTS c1, c2, c3

MCCaller == {c1, c2, c3}

Symmetry == Permutations(MCCaller)
=============================================================================
