--------------------------- MODULE MCScrapeWorker ---------------------------
(* ScrapeWorker with BrightData as the primary and Decodo as the fallback. *)
EXTENDS ScrapeWorker

CONSTANTS w1, w2, bright, dec, p1, p2, jp, us

MCCheckOrder == <<dec>>
=============================================================================
