------------------------ MODULE MCPostgresRateLimiter ------------------------
(* Three requests of a key, in batches of up to two. *)
EXTENDS PostgresRateLimiter

CONSTANTS r1, r2, r3, k1
==============================================================================
