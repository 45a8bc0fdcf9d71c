------------------------------ MODULE LeasePool ------------------------------
(***************************************************************************)
(* What the browser worker pool promises to the scrape route, without its  *)
(* semaphores, wait queues and flags: a worker has at most one lessee, a   *)
(* caller only ever leases a worker of the region it was routed to, and a  *)
(* caller that waits is served unless it gives up.  WorkerPool.tla         *)
(* implements it.                                                          *)
(***************************************************************************)
CONSTANTS
    Callers,     \* the tasks that call acquire() and release()
    Regions,     \* the keys of workers_per_region
    Workers,     \* every worker of every region
    Home,        \* the region a worker was built for
    NoWorker,    \* the lease of a caller that holds none
    NoRegion     \* the demand of a caller that waits for none

VARIABLES
    lease,       \* the worker each caller holds
    demand       \* the region each waiting caller was routed to

vars == <<lease, demand>>

Init ==
    /\ lease = [c \in Callers |-> NoWorker]
    /\ demand = [c \in Callers |-> NoRegion]

Engaged(c) == demand[c] # NoRegion \/ lease[c] # NoWorker
Free(w) == \A c \in Callers : lease[c] # w

(* A caller that finds no worker at once starts to wait. *)
Ask(c, r) ==
    /\ ~Engaged(c)
    /\ demand' = [demand EXCEPT ![c] = r]
    /\ UNCHANGED lease

(* A caller that does not have to wait is served on the spot. *)
LeaseNow(c, w) ==
    /\ ~Engaged(c)
    /\ Free(w)
    /\ lease' = [lease EXCEPT ![c] = w]
    /\ UNCHANGED demand

(* A waiting caller is served with a free worker of its region. *)
Lease(c, w) ==
    /\ demand[c] = Home[w]
    /\ Free(w)
    /\ lease' = [lease EXCEPT ![c] = w]
    /\ demand' = [demand EXCEPT ![c] = NoRegion]

(* A waiting caller gives up (its task is cancelled). *)
Withdraw(c) ==
    /\ demand[c] # NoRegion
    /\ demand' = [demand EXCEPT ![c] = NoRegion]
    /\ UNCHANGED lease

Return(c) ==
    /\ lease[c] # NoWorker
    /\ lease' = [lease EXCEPT ![c] = NoWorker]
    /\ UNCHANGED demand

Next ==
    \E c \in Callers :
        \/ \E r \in Regions : Ask(c, r)
        \/ \E w \in Workers : LeaseNow(c, w) \/ Lease(c, w)
        \/ Withdraw(c)
        \/ Return(c)

(* A waiting caller is served or gives up, however often the worker it     *)
(* could have had goes to somebody else first.                             *)
Fairness ==
    \A c \in Callers : SF_vars((\E w \in Workers : Lease(c, w)) \/ Withdraw(c))

Spec == Init /\ [][Next]_vars /\ Fairness
===============================================================================
