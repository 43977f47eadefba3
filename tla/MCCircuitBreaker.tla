-------------------------- MODULE MCCircuitBreaker --------------------------
(* Model-checking instance of CircuitBreaker: no symmetry, because one of the *)
(* properties is a liveness property.                                         *)
EXTENDS CircuitBreaker
=============================================================================
