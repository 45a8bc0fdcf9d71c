----------------------------- MODULE MCWorkerPool -----------------------------
(* Four callers on two workers of the default region and one of another:   *)
(* queues of two behind a granted waiter, and requests for a region the    *)
(* pool does not have.                                                     *)
EXTENDS WorkerPool

CONSTANTS jp, us

MCSize == (jp :> 2) @@ (us :> 1)
===============================================================================
