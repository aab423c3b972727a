------------------------- MODULE MCCircuitBreaker -------------------------
(* Finite instances of CircuitBreaker.                                     *)
EXTENDS CircuitBreaker, TLC
===========================================================================
