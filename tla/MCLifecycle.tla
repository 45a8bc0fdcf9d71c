------------------------------ MODULE MCLifecycle ------------------------------
(* Two requests on two workers that share one connection; a provider with  *)
(* a refresh task, one without, and null.                                  *)
EXTENDS Lifecycle

CONSTANTS r1, r2, dec, bright
================================================================================
