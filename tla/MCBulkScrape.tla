----------------------------- MODULE MCBulkScrape -----------------------------
(* A key with three requests in two ticks and one without a limit; batches *)
(* of up to three items on one slot or two, one more than a batch may      *)
(* have, or none.                                                          *)
EXTENDS BulkScrape, TLC

CONSTANTS free, enterprise, c1

MCLimits == (free :> 3) @@ (enterprise :> Unlimited)
MCWindows == (free :> 2) @@ (enterprise :> 1)
MCFaults == {BadScheme, SessionOfAnother, Crash}
===============================================================================
