--------------------------- MODULE MCUsageAccounting ---------------------------
(* Two requests of a key, in batches of up to two, around one midnight. *)
EXTENDS UsageAccounting

CONSTANTS r1, r2, k1
================================================================================
