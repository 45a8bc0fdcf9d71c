------------------------------ MODULE WorkerPool ------------------------------
(***************************************************************************)
(* RegionWorkerPool (workers/pool.py): one bounded semaphore and one list  *)
(* of browser workers per region.  A caller first takes a permit of the    *)
(* region's semaphore, then marks the first idle worker of the list busy.  *)
(*                                                                         *)
(* The server runs on one asyncio event loop, so an action is what a task  *)
(* does between two suspensions.  acquire() suspends only inside the       *)
(* semaphore: the lease lock is never held across an await, so the         *)
(* selection of a worker follows the permit in the same step.              *)
(* asyncio.BoundedSemaphore is modelled from CPython 3.11, the version of  *)
(* the Dockerfile: a FIFO of waiters, release() hands its permit to the    *)
(* first of them, and newcomers queue behind any waiter that has been      *)
(* granted a permit and has not run yet.                                   *)
(*                                                                         *)
(* WorkerPool (pool.py:7-50) is the same code for a single region.         *)
(***************************************************************************)
EXTENDS Integers, FiniteSets, Sequences, SequencesExt

CONSTANTS
    Callers,         \* the tasks that use the pool (requests, bulk items)
    Regions,         \* the keys of workers_per_region
    DefaultRegion,   \* where a request without a known region is routed
    Size,            \* the number of workers of each region
    UnknownRegion,   \* a requested region the pool has no workers for, or None
    NoRegion,        \* "the attribute is absent"
    NoWorker

ASSUME WorkerPoolAssumption ==
    /\ IsFiniteSet(Callers)
    /\ IsFiniteSet(Regions)
    /\ DefaultRegion \in Regions
    /\ Size \in [Regions -> Nat]
    /\ UnknownRegion \notin Regions
    /\ NoRegion \notin Regions

VARIABLES
    permits,      \* BoundedSemaphore._value of each region
    queue,        \* the waiters of each semaphore that hold no permit yet
    pc,           \* where each caller is
    asked,        \* request.region, the argument of acquire() and release()
    busy,         \* ASBWorker._busy
    leaseRegion,  \* ASBWorker._lease_region
    held          \* the worker acquire() returned to the caller

vars == <<permits, queue, pc, asked, busy, leaseRegion, held>>

(* "worker-{region}-{i}" *)
WorkersOf(r) == {<<r, i>> : i \in 0 .. Size[r] - 1}
Workers == UNION {WorkersOf(r) : r \in Regions}

ASSUME NoWorkerAssumption == NoWorker \notin Workers

Normalize(a) == IF a \in Regions THEN a ELSE DefaultRegion
Region(c) == Normalize(asked[c])

(* Callers that were granted a permit while suspended and have not run yet *)
Granted(r) == {c \in Callers : pc[c] = "granted" /\ Region(c) = r}
Busy(r)    == {w \in WorkersOf(r) : busy[w]}
Idle(r)    == WorkersOf(r) \ Busy(r)

-------------------------------------------------------------------------------
Init ==
    /\ permits = Size
    /\ queue = [r \in Regions |-> <<>>]
    /\ pc = [c \in Callers |-> "out"]
    /\ asked = [c \in Callers |-> NoRegion]
    /\ busy = [w \in Workers |-> FALSE]
    /\ leaseRegion = [w \in Workers |-> NoRegion]
    /\ held = [c \in Callers |-> NoWorker]

(* Semaphore.locked(): a granted waiter still counts as a waiter. *)
Locked(r) == permits[r] = 0 \/ queue[r] # <<>> \/ Granted(r) # {}

(* Mutant of WakeUpNext: the last waiter is woken instead of the first.    *)
WakeUpLast(c, at, r, value) ==
    IF value > 0 /\ queue[r] # <<>>
    THEN /\ permits' = [permits EXCEPT ![r] = value - 1]
         /\ queue' = [queue EXCEPT ![r] = Front(@)]
         /\ pc' = [pc EXCEPT ![Last(queue[r])] = "granted", ![c] = at]
    ELSE /\ permits' = [permits EXCEPT ![r] = value]
         /\ pc' = [pc EXCEPT ![c] = at]
         /\ UNCHANGED queue

(* The semaphore of r has `value' permits and hands one to its first       *)
(* waiter, if there are both; caller c goes to `at'.                       *)
WakeUpNext(c, at, r, value) ==
    IF value > 0 /\ queue[r] # <<>>
    THEN /\ permits' = [permits EXCEPT ![r] = value - 1]
         /\ queue' = [queue EXCEPT ![r] = Tail(@)]
         /\ pc' = [pc EXCEPT ![Head(queue[r])] = "granted", ![c] = at]
    ELSE /\ permits' = [permits EXCEPT ![r] = value]
         /\ pc' = [pc EXCEPT ![c] = at]
         /\ UNCHANGED queue

(* Mutant of LeaseFirstIdle: the busy flag is set and never read. *)
LeaseFirst(c, r) ==
    LET w == <<r, 0>> IN
    /\ busy' = [busy EXCEPT ![w] = TRUE]
    /\ leaseRegion' = [leaseRegion EXCEPT ![w] = r]
    /\ held' = [held EXCEPT ![c] = w]

(* Under the lease lock: mark the first idle worker of the list. *)
LeaseFirstIdle(c, r) ==
    \E w \in Idle(r) :
        /\ \A v \in Idle(r) : w[2] <= v[2]
        /\ busy' = [busy EXCEPT ![w] = TRUE]
        /\ leaseRegion' = [leaseRegion EXCEPT ![w] = r]
        /\ held' = [held EXCEPT ![c] = w]

(* Mutant of TakeWorker: a resumed waiter wakes nobody. *)
TakeWorkerSilently(c, r, value) ==
    /\ Idle(r) # {}
    /\ LeaseFirstIdle(c, r)
    /\ permits' = [permits EXCEPT ![r] = value]
    /\ pc' = [pc EXCEPT ![c] = "leased"]
    /\ UNCHANGED queue

(* The rest of acquire(), the semaphore at `value': a worker, or the       *)
(* permit back and RuntimeError.                                           *)
TakeWorker(c, r, value) ==
    IF Idle(r) # {}
    THEN LeaseFirstIdle(c, r) /\ WakeUpNext(c, "leased", r, value)
    ELSE /\ WakeUpNext(c, "raised", r, value + 1)
         /\ UNCHANGED <<busy, leaseRegion, held>>

(* acquire() without contention never suspends. *)
AcquireAtOnce(c, a) ==
    LET r == Normalize(a) IN
    /\ pc[c] = "out"
    /\ ~Locked(r)
    /\ asked' = [asked EXCEPT ![c] = a]
    /\ TakeWorker(c, r, permits[r] - 1)

(* Otherwise it suspends on a future at the end of the queue. *)
AcquireWaits(c, a) ==
    LET r == Normalize(a) IN
    /\ pc[c] = "out"
    /\ Locked(r)
    /\ asked' = [asked EXCEPT ![c] = a]
    /\ queue' = [queue EXCEPT ![r] = Append(@, c)]
    /\ pc' = [pc EXCEPT ![c] = "waiting"]
    /\ UNCHANGED <<permits, busy, leaseRegion, held>>

(* A granted waiter runs: it wakes the next one if a permit is left, and   *)
(* selects its worker.                                                     *)
Resume(c) ==
    /\ pc[c] = "granted"
    /\ TakeWorker(c, Region(c), permits[Region(c)])
    /\ UNCHANGED asked

(* The waiting task is cancelled (asyncio.wait_for, a client that went     *)
(* away, shutdown): its future leaves the queue.                           *)
CancelWaiting(c) ==
    LET r == Region(c) IN
    /\ pc[c] = "waiting"
    /\ \E i \in DOMAIN queue[r] :
         /\ queue[r][i] = c
         /\ queue' = [queue EXCEPT ![r] = RemoveAt(@, i)]
    /\ pc' = [pc EXCEPT ![c] = "out"]
    /\ asked' = [asked EXCEPT ![c] = NoRegion]
    /\ UNCHANGED <<permits, busy, leaseRegion, held>>

(* Mutant of CancelGranted: the permit of a cancelled waiter is lost. *)
CancelGrantedLosingPermit(c) ==
    /\ pc[c] = "granted"
    /\ WakeUpNext(c, "out", Region(c), permits[Region(c)])
    /\ asked' = [asked EXCEPT ![c] = NoRegion]
    /\ UNCHANGED <<busy, leaseRegion, held>>

(* The task is cancelled after its future was granted and before it ran:   *)
(* the permit goes back and the next waiter is woken.                      *)
CancelGranted(c) ==
    /\ pc[c] = "granted"
    /\ WakeUpNext(c, "out", Region(c), permits[Region(c)] + 1)
    /\ asked' = [asked EXCEPT ![c] = NoRegion]
    /\ UNCHANGED <<busy, leaseRegion, held>>

(* Mutant of CreditedRegion: the permit goes to the default region. *)
CreditedToDefault(c) == DefaultRegion

(* The region release() credits: the one the worker was leased from,       *)
(* before the one the request names.                                       *)
CreditedRegion(c) ==
    IF leaseRegion[held[c]] # NoRegion THEN leaseRegion[held[c]] ELSE Region(c)

(* Mutant of Release: the permit goes up and no waiter is woken. *)
ReleaseWithoutWaking(c) ==
    LET r == CreditedRegion(c) IN
    /\ pc[c] = "leased"
    /\ busy' = [busy EXCEPT ![held[c]] = FALSE]
    /\ leaseRegion' = [leaseRegion EXCEPT ![held[c]] = NoRegion]
    /\ held' = [held EXCEPT ![c] = NoWorker]
    /\ asked' = [asked EXCEPT ![c] = NoRegion]
    /\ permits' = [permits EXCEPT ![r] = @ + 1]
    /\ pc' = [pc EXCEPT ![c] = "out"]
    /\ UNCHANGED queue

(* release(worker, request.region), in the `finally' of the scrape route.  *)
(* The bounded semaphore refuses a permit too many.                        *)
Release(c) ==
    LET w == held[c]
        r == CreditedRegion(c)
    IN
    /\ pc[c] = "leased"
    /\ busy' = [busy EXCEPT ![w] = FALSE]
    /\ leaseRegion' = [leaseRegion EXCEPT ![w] = NoRegion]
    /\ held' = [held EXCEPT ![c] = NoWorker]
    /\ asked' = [asked EXCEPT ![c] = NoRegion]
    /\ IF permits[r] >= Size[r]
       THEN pc' = [pc EXCEPT ![c] = "raised"] /\ UNCHANGED <<permits, queue>>
       ELSE WakeUpNext(c, "out", r, permits[r] + 1)

Next ==
    \E c \in Callers :
        \/ \E a \in Regions \union {UnknownRegion} :
             AcquireAtOnce(c, a) \/ AcquireWaits(c, a)
        \/ Resume(c)
        \/ CancelWaiting(c)
        \/ CancelGranted(c)
        \/ Release(c)

(* The event loop runs every task whose future is done, and a lease ends   *)
(* because every await of a scrape is bounded by a timeout.                *)
Fairness == \A c \in Callers : WF_vars(Resume(c)) /\ WF_vars(Release(c))

Spec == Init /\ [][Next]_vars /\ Fairness

-------------------------------------------------------------------------------
(* Every variable has its type. *)
TypeOK ==
    /\ permits \in [Regions -> Nat]
    /\ queue \in [Regions -> Seq(Callers)]
    /\ pc \in [Callers -> {"out", "waiting", "granted", "leased", "raised"}]
    /\ asked \in [Callers -> Regions \union {UnknownRegion, NoRegion}]
    /\ busy \in [Workers -> BOOLEAN]
    /\ leaseRegion \in [Workers -> Regions \union {NoRegion}]
    /\ held \in [Callers -> Workers \union {NoWorker}]

(* The permits of a region - in the semaphore, handed to a suspended       *)
(* waiter, or spent on a busy worker - always number its workers: no       *)
(* cancellation, hand-over or misrouted release loses or forges one.       *)
PermitsBalance ==
    \A r \in Regions :
        permits[r] + Cardinality(Granted(r)) + Cardinality(Busy(r)) = Size[r]

(* acquire() never reaches its RuntimeError ("semaphore acquired but no    *)
(* idle worker") and release() never the ValueError of an over-released    *)
(* bounded semaphore.                                                      *)
NoPoolError == \A c \in Callers : pc[c] # "raised"

(* A worker is busy exactly while one caller holds it, remembers the       *)
(* region that caller was routed to, and belongs to that region: two       *)
(* scrapes never share a browser, and release() credits the right region.  *)
LeaseExact ==
    /\ \A w \in Workers : busy[w] <=> \E c \in Callers : held[c] = w
    /\ \A c \in Callers : pc[c] = "leased" =>
         /\ held[c] \in WorkersOf(Region(c))
         /\ leaseRegion[held[c]] = Region(c)
         /\ \A d \in Callers : held[d] = held[c] => d = c

(* No wake-up is lost: while a permit lies in a semaphore with waiters, a  *)
(* granted waiter has yet to run, and will wake the next one when it does. *)
NoLostWakeup ==
    \A r \in Regions : permits[r] > 0 /\ queue[r] # <<>> => Granted(r) # {}

Ahead(c, d) ==
    \E r \in Regions : \E i, j \in DOMAIN queue[r] :
        i < j /\ queue[r][i] = c /\ queue[r][j] = d

Served(c) == pc[c] \in {"granted", "leased"}

(* Whoever is served while c keeps waiting for the same region was ahead   *)
(* of c in the queue: neither a newcomer nor a release overtakes a waiter. *)
NoOvertaking ==
    [][\A c, d \in Callers :
         /\ pc[c] = "waiting" /\ pc'[c] = "waiting"
         /\ ~Served(d) /\ Served(d)'
         /\ Region(d)' = Region(c)
         => Ahead(d, c)]_vars

(* A caller that waits for a worker is served or cancelled. *)
WaiterServed == \A c \in Callers : pc[c] = "waiting" ~> pc[c] # "waiting"

(* The pool implements the abstract one: a caller's lease is the worker it *)
(* holds, its demand the region it waits for inside acquire().             *)
Demand == [c \in Callers |->
    IF pc[c] \in {"waiting", "granted"} THEN Region(c) ELSE NoRegion]

Abstract == INSTANCE LeasePool WITH
    Home <- [w \in Workers |-> w[1]], lease <- held, demand <- Demand

ImplementsLeasePool == Abstract!Spec
===============================================================================
