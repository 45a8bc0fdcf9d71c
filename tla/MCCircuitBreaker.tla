--------------------------- MODULE MCCircuitBreaker ---------------------------
(* Two providers checked in turn and two overlapping calls. *)
EXTENDS CircuitBreaker

CONSTANTS decodo, brightdata

MCCheckOrder == <<decodo, brightdata>>
===============================================================================
