-------------------------- MODULE MCScrapeEndpoint --------------------------
(* Two requests of two keys, one session, one worker. *)
EXTENDS ScrapeEndpoint

CONSTANTS r1, r2, k1, k2, s1, name, w1, jp
=============================================================================
