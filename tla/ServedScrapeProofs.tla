-------------------------- MODULE ServedScrapeProofs --------------------------
(***************************************************************************)
(* The proxies of the scrapes, for any number of workers, proxies and      *)
(* regions, whichever of the two providers is Decodo, whatever the         *)
(* breakers let through, and whatever fails or is cancelled.               *)
(*                                                                         *)
(* The invariant has two halves.  The first follows one worker: it holds a *)
(* proxy only between the answer of a provider and its `finally', and      *)
(* `supplier' names the provider the proxy came from.  The second is about *)
(* the pool: the marks belong to holders, and, unless the vendor offers a  *)
(* proxy again that it withdrew while it was borrowed, what is borrowed    *)
(* and offered is marked.                                                  *)
(*                                                                         *)
(* The last part is about the requests whose scrapes these are: their      *)
(* leases keep the calls of a worker apart, so that the requests are those *)
(* of ScrapeEndpoint and the scrapes those of ScrapeWorker, and what is    *)
(* proved of either holds of the two together.                             *)
(***************************************************************************)
EXTENDS ServedScrape, TLAPS

LeaseTypes ==
    /\ pools \in [Regions -> SUBSET Proxies]
    /\ first \in Regions \union {NoRegion}
    /\ inUse \in SUBSET Proxies
    /\ pc \in [Workers -> {"idle", "primary", "failover", "fallback", "run", "finally"}]
    /\ proxy \in [Workers -> Proxies \union {Session, NoProxy}]
    /\ supplier \in [Workers -> Breakers \union {NoBreaker}]
    /\ used \in [Workers -> Breakers]
    /\ failed \in [Workers -> BOOLEAN]

Holds(w) == pc[w] \in {"run", "finally"}

WorkerInv ==
    \A w \in Workers :
        /\ ~Holds(w) => proxy[w] = NoProxy /\ used[w] = Primary /\ ~failed[w]
        /\ Holds(w) /\ ~failed[w] => proxy[w] # NoProxy /\ used[w] = supplier[w]
        /\ proxy[w] \in Proxies => supplier[w] = Decodo
        /\ proxy[w] = Session => supplier[w] # Decodo

PoolInv ==
    /\ Pool!MarksHeld
    /\ VendorStable => Pool!LeasedStaysMarked /\ Pool!ExclusiveLease

IInv == LeaseTypes /\ WorkerInv /\ PoolInv

-------------------------------------------------------------------------------
(* The pool. *)

(* What get_proxy() searches is offered. *)
LEMMA CandidatesOffered ==
    ASSUME LeaseTypes, NEW r
    PROVE  Pool!Candidates(r) \subseteq Pool!Offered
  BY ScrapeWorkerAssumption
  DEF LeaseTypes, Pool!Candidates, Pool!Offered, Pool!OfferedIn

(* The pool is unchanged by steps that leave its variables and the         *)
(* workers' proxies alone.                                                 *)
LEMMA PoolUnchanged ==
    ASSUME PoolInv, UNCHANGED <<decodo, proxy>>
    PROVE  PoolInv'
  BY DEF PoolInv, decodo, Pool!MarksHeld, Pool!LeasedStaysMarked,
         Pool!ExclusiveLease, Pool!Offered, Pool!OfferedIn

(* Borrowing a proxy marks it, and it was nobody's. *)
LEMMA GetProxyKeepsPool ==
    ASSUME LeaseTypes, PoolInv, NEW w \in Workers, NEW r,
           proxy[w] = NoProxy, Pool!GetProxy(w, r)
    PROVE  /\ PoolInv'
           /\ pools' = pools /\ first' = first
           /\ inUse' \in SUBSET Proxies
           /\ \E p \in Proxies : proxy' = [proxy EXCEPT ![w] = p]
  <1>1. PICK p \in Pool!Candidates(r) \ inUse :
          /\ inUse' = inUse \union {p}
          /\ proxy' = [proxy EXCEPT ![w] = p]
          /\ UNCHANGED <<pools, first>>
    BY DEF Pool!GetProxy
  <1>2. p \in Pool!Offered
    BY CandidatesOffered
  <1>3. p \in Proxies
    BY <1>2 DEF LeaseTypes, Pool!Offered, Pool!OfferedIn
  <1>4. Pool!MarksHeld'
    <2> SUFFICES ASSUME NEW q \in inUse' PROVE \E h \in Workers : proxy'[h] = q
      BY DEF Pool!MarksHeld
    <2>1. CASE q = p
      BY <1>1, <2>1 DEF LeaseTypes
    <2>2. CASE q # p
      <3>1. PICK h \in Workers : proxy[h] = q
        BY <1>1, <2>2 DEF PoolInv, Pool!MarksHeld
      <3>2. h # w
        BY <3>1, <1>1, <2>2, ScrapeWorkerAssumption DEF LeaseTypes
      <3>3. QED BY <1>1, <3>1, <3>2 DEF LeaseTypes
    <2>3. QED BY <2>1, <2>2
  <1>5. ASSUME VendorStable PROVE Pool!LeasedStaysMarked'
    <2> SUFFICES ASSUME NEW h \in Workers, proxy'[h] \in Pool!Offered' PROVE proxy'[h] \in inUse'
      BY DEF Pool!LeasedStaysMarked
    <2>1. Pool!Offered' = Pool!Offered
      BY <1>1 DEF Pool!Offered, Pool!OfferedIn
    <2>2. QED BY <1>1, <1>5, <2>1 DEF PoolInv, Pool!LeasedStaysMarked, LeaseTypes
  <1>6. ASSUME VendorStable PROVE Pool!ExclusiveLease'
    <2>1. \A h \in Workers : proxy[h] # p
      BY <1>1, <1>2, <1>6 DEF PoolInv, Pool!LeasedStaysMarked
    <2>2. QED BY <1>1, <1>6, <2>1 DEF PoolInv, Pool!ExclusiveLease, LeaseTypes
  <1>7. QED BY <1>1, <1>3, <1>4, <1>5, <1>6 DEF PoolInv, LeaseTypes

(* Returning a proxy clears its mark and nobody else's. *)
LEMMA ReleaseProxyKeepsPool ==
    ASSUME LeaseTypes, PoolInv, NEW w \in Workers, Pool!ReleaseProxy(w)
    PROVE  PoolInv'
  <1> USE DEF LeaseTypes, Pool!ReleaseProxy
  <1>1. Pool!MarksHeld'
    BY DEF PoolInv, Pool!MarksHeld
  <1>2. ASSUME VendorStable PROVE Pool!LeasedStaysMarked'
    <2> SUFFICES ASSUME NEW h \in Workers, proxy'[h] \in Pool!Offered' PROVE proxy'[h] \in inUse'
      BY DEF Pool!LeasedStaysMarked
    <2>1. /\ Pool!Offered' = Pool!Offered
          /\ Pool!Offered \subseteq Proxies
      BY DEF Pool!Offered, Pool!OfferedIn
    <2>2. h # w
      BY <2>1, ScrapeWorkerAssumption
    <2>3. proxy'[h] = proxy[h] /\ proxy[h] \in inUse
      BY <1>2, <2>1, <2>2 DEF PoolInv, Pool!LeasedStaysMarked
    <2>4. proxy[h] # proxy[w]
      BY <1>2, <2>1, <2>2, <2>3 DEF PoolInv, Pool!ExclusiveLease
    <2>5. QED BY <2>3, <2>4
  <1>3. ASSUME VendorStable PROVE Pool!ExclusiveLease'
    BY <1>3, ScrapeWorkerAssumption DEF PoolInv, Pool!ExclusiveLease
  <1>4. QED BY <1>1, <1>2, <1>3 DEF PoolInv

(* Giving up something that is no Decodo proxy leaves the pool alone. *)
LEMMA DropKeepsPool ==
    ASSUME LeaseTypes, PoolInv, NEW w \in Workers, NEW x \in {Session, NoProxy},
           proxy[w] \notin Proxies, proxy' = [proxy EXCEPT ![w] = x], UNCHANGED decodo
    PROVE  PoolInv'
  <1> USE DEF LeaseTypes, decodo
  <1>1. Pool!MarksHeld'
    BY DEF PoolInv, Pool!MarksHeld
  <1>2. ASSUME VendorStable PROVE Pool!LeasedStaysMarked'
    <2>1. /\ Pool!Offered' = Pool!Offered
          /\ Pool!Offered \subseteq Proxies
      BY DEF Pool!Offered, Pool!OfferedIn
    <2>2. QED BY <1>2, <2>1, ScrapeWorkerAssumption DEF PoolInv, Pool!LeasedStaysMarked
  <1>3. ASSUME VendorStable PROVE Pool!ExclusiveLease'
    BY <1>3, ScrapeWorkerAssumption DEF PoolInv, Pool!ExclusiveLease
  <1>4. QED BY <1>1, <1>2, <1>3 DEF PoolInv

(* A refresh keeps the marks of the proxies it offers. *)
LEMMA RefreshKeepsPool ==
    ASSUME LeaseTypes, PoolInv, Pool!Refresh
    PROVE  /\ PoolInv'
           /\ pools' \in [Regions -> SUBSET Proxies]
           /\ first' \in Regions \union {NoRegion}
           /\ inUse' \in SUBSET Proxies
           /\ proxy' = proxy
  <1>1. PICK new \in [Regions -> SUBSET Proxies] :
          /\ VendorStable =>
               \A h \in Workers : proxy[h] \in Pool!OfferedIn(new) => proxy[h] \in inUse
          /\ Pool!ReplacePool(new)
    BY DEF Pool!Refresh
  <1>2. /\ pools' = new
        /\ first' \in Regions \union {NoRegion}
        /\ inUse' = inUse \intersect Pool!OfferedIn(new)
        /\ proxy' = proxy
    BY <1>1 DEF Pool!ReplacePool
  <1>3. Pool!Offered' = Pool!OfferedIn(new)
    BY <1>2 DEF Pool!Offered, Pool!OfferedIn
  <1>4. Pool!MarksHeld'
    BY <1>2 DEF PoolInv, Pool!MarksHeld
  <1>5. VendorStable => Pool!LeasedStaysMarked'
    BY <1>1, <1>2, <1>3 DEF Pool!LeasedStaysMarked
  <1>6. VendorStable => Pool!ExclusiveLease'
    BY <1>2 DEF PoolInv, Pool!ExclusiveLease
  <1>7. QED BY <1>2, <1>4, <1>5, <1>6 DEF PoolInv, LeaseTypes

(* A provider that answers lends a proxy of its own kind. *)
LEMMA LendsKeepsPool ==
    ASSUME LeaseTypes, PoolInv, NEW w \in Workers, NEW b \in Breakers,
           proxy[w] = NoProxy, Lends(w, b)
    PROVE  /\ PoolInv'
           /\ pools' = pools /\ first' = first
           /\ inUse' \in SUBSET Proxies
           /\ \E p \in Proxies \union {Session} :
                /\ proxy' = [proxy EXCEPT ![w] = p]
                /\ p \in Proxies <=> b = Decodo
  <1>1. CASE b = Decodo
    BY <1>1, GetProxyKeepsPool DEF Lends
  <1>2. CASE b # Decodo
    <2>1. proxy' = [proxy EXCEPT ![w] = Session] /\ UNCHANGED decodo
      BY <1>2 DEF Lends
    <2>2. PoolInv'
      BY <2>1, DropKeepsPool, ScrapeWorkerAssumption
    <2>3. QED BY <1>2, <2>1, <2>2, ScrapeWorkerAssumption DEF decodo, LeaseTypes
  <1>3. QED BY <1>1, <1>2

(* What a worker holds goes back to the provider that lent it. *)
LEMMA ReturnKeepsPool ==
    ASSUME LeaseTypes, WorkerInv, PoolInv, NEW w \in Workers, ReturnProxy(w)
    PROVE  /\ PoolInv'
           /\ pools' = pools /\ first' = first
           /\ inUse' \in SUBSET Proxies
           /\ proxy' = [proxy EXCEPT ![w] = NoProxy]
  <1>1. CASE proxy[w] # NoProxy /\ supplier[w] = Decodo
    BY <1>1, ReleaseProxyKeepsPool DEF ReturnProxy, Pool!ReleaseProxy, LeaseTypes
  <1>2. CASE ~(proxy[w] # NoProxy /\ supplier[w] = Decodo)
    <2>1. proxy' = [proxy EXCEPT ![w] = NoProxy] /\ UNCHANGED decodo
      BY <1>2 DEF ReturnProxy
    <2>2. proxy[w] \notin Proxies
      BY <1>2, ScrapeWorkerAssumption DEF WorkerInv
    <2>3. PoolInv'
      BY <2>1, <2>2, DropKeepsPool
    <2>4. QED BY <2>1, <2>3 DEF decodo, LeaseTypes
  <1>3. QED BY <1>1, <1>2

-------------------------------------------------------------------------------
(* The invariant. *)

(* Initially every worker is idle and nothing is marked. *)
LEMMA InitIInv == Init => IInv
  <1> SUFFICES ASSUME Init PROVE IInv
    OBVIOUS
  <1> USE ScrapeWorkerAssumption DEF Init, Pool!Init
  <1>1. LeaseTypes
    BY DEF LeaseTypes, Breakers
  <1>2. WorkerInv
    BY DEF WorkerInv, Holds
  <1>3. PoolInv
    BY DEF PoolInv, Pool!MarksHeld, Pool!LeasedStaysMarked, Pool!ExclusiveLease,
           Pool!Offered, Pool!OfferedIn
  <1>4. QED BY <1>1, <1>2, <1>3 DEF IInv

(* A step that only moves a worker that holds nothing. *)
LEMMA BeginKeepsIInv ==
    ASSUME IInv, NEW w \in Workers, NEW r, Begin(w, r)
    PROVE  IInv'
  <1> USE DEF IInv, Begin
  <1>1. LeaseTypes'
    BY DEF LeaseTypes, decodo
  <1>2. WorkerInv'
    BY DEF WorkerInv, Holds, LeaseTypes
  <1>3. PoolInv'
    BY PoolUnchanged
  <1>4. QED BY <1>1, <1>2, <1>3

(* The primary's proxy makes the primary the supplier, ... *)
LEMMA PrimaryLendsKeepsIInv ==
    ASSUME IInv, NEW w \in Workers, PrimaryLends(w)
    PROVE  IInv'
  <1>1. /\ pc[w] = "primary"
        /\ Lends(w, Primary)
        /\ supplier' = [supplier EXCEPT ![w] = Primary]
        /\ pc' = [pc EXCEPT ![w] = "run"]
        /\ UNCHANGED <<used, failed>>
    BY DEF PrimaryLends
  <1>2. proxy[w] = NoProxy /\ used[w] = Primary
    BY <1>1 DEF IInv, WorkerInv, Holds
  <1>3. /\ PoolInv'
        /\ pools' = pools /\ first' = first
        /\ inUse' \in SUBSET Proxies
        /\ \E p \in Proxies \union {Session} :
             /\ proxy' = [proxy EXCEPT ![w] = p]
             /\ p \in Proxies <=> Primary = Decodo
    BY <1>1, <1>2, LendsKeepsPool DEF IInv, Breakers
  <1>4. LeaseTypes'
    BY <1>1, <1>3 DEF IInv, LeaseTypes, Breakers
  <1>5. WorkerInv'
    BY <1>1, <1>2, <1>3, ScrapeWorkerAssumption DEF IInv, WorkerInv, Holds, LeaseTypes
  <1>6. QED BY <1>3, <1>4, <1>5 DEF IInv

(* ... the fallback's the fallback. *)
LEMMA FallbackLendsKeepsIInv ==
    ASSUME IInv, NEW w \in Workers, FallbackLends(w)
    PROVE  IInv'
  <1>1. /\ pc[w] = "fallback"
        /\ Lends(w, Fallback)
        /\ supplier' = [supplier EXCEPT ![w] = Fallback]
        /\ used' = [used EXCEPT ![w] = Fallback]
        /\ pc' = [pc EXCEPT ![w] = "run"]
        /\ UNCHANGED failed
    BY DEF FallbackLends
  <1>2. proxy[w] = NoProxy
    BY <1>1 DEF IInv, WorkerInv, Holds
  <1>3. /\ PoolInv'
        /\ pools' = pools /\ first' = first
        /\ inUse' \in SUBSET Proxies
        /\ \E p \in Proxies \union {Session} :
             /\ proxy' = [proxy EXCEPT ![w] = p]
             /\ p \in Proxies <=> Fallback = Decodo
    BY <1>1, <1>2, LendsKeepsPool DEF IInv, Breakers
  <1>4. LeaseTypes'
    BY <1>1, <1>3 DEF IInv, LeaseTypes, Breakers
  <1>5. WorkerInv'
    BY <1>1, <1>2, <1>3, ScrapeWorkerAssumption DEF IInv, WorkerInv, Holds, LeaseTypes
  <1>6. QED BY <1>3, <1>4, <1>5 DEF IInv

(* Failures, the browser run and a cancellation move a worker with what it *)
(* holds, and never clear `failed'.                                        *)
LEMMA MoveKeepsIInv ==
    ASSUME IInv, NEW w \in Workers,
           UNCHANGED <<decodo, proxy, supplier, used>>,
           NEW step \in {"failover", "fallback", "finally"},
           pc' = [pc EXCEPT ![w] = step],
           failed' \in {failed, [failed EXCEPT ![w] = TRUE]},
           \/ step # "finally" /\ ~Holds(w) /\ failed' = failed
           \/ step = "finally" /\ (Holds(w) \/ failed' = [failed EXCEPT ![w] = TRUE])
    PROVE  IInv'
  <1> USE DEF IInv
  <1>1. LeaseTypes'
    BY DEF LeaseTypes, decodo
  <1>2. WorkerInv'
    BY DEF WorkerInv, Holds, LeaseTypes
  <1>3. PoolInv'
    BY PoolUnchanged
  <1>4. QED BY <1>1, <1>2, <1>3

(* The `finally' gives back what the worker holds. *)
LEMMA FinishKeepsIInv ==
    ASSUME IInv, NEW w \in Workers, Finish(w)
    PROVE  IInv'
  <1>1. /\ ReturnProxy(w)
        /\ supplier' = [supplier EXCEPT ![w] = NoBreaker]
        /\ pc' = [pc EXCEPT ![w] = "idle"]
        /\ used' = [used EXCEPT ![w] = Primary]
        /\ failed' = [failed EXCEPT ![w] = FALSE]
    BY DEF Finish
  <1>2. /\ PoolInv'
        /\ pools' = pools /\ first' = first
        /\ inUse' \in SUBSET Proxies
        /\ proxy' = [proxy EXCEPT ![w] = NoProxy]
    BY <1>1, ReturnKeepsPool DEF IInv
  <1>3. LeaseTypes'
    BY <1>1, <1>2 DEF IInv, LeaseTypes, Breakers
  <1>4. WorkerInv'
    BY <1>1, <1>2, ScrapeWorkerAssumption DEF IInv, WorkerInv, Holds, LeaseTypes
  <1>5. QED BY <1>2, <1>3, <1>4 DEF IInv

(* The environment. *)
LEMMA EnvironmentKeepsIInv ==
    ASSUME IInv, Refresh \/ HealthCheck \/ Tick \/ UNCHANGED vars
    PROVE  IInv'
  <1> USE DEF IInv
  <1>1. CASE Refresh
    <2>1. Pool!Refresh /\ UNCHANGED <<pc, supplier, used, failed>>
      BY <1>1 DEF Refresh, scrape
    <2>2. /\ PoolInv'
          /\ pools' \in [Regions -> SUBSET Proxies]
          /\ first' \in Regions \union {NoRegion}
          /\ inUse' \in SUBSET Proxies
          /\ proxy' = proxy
      BY <2>1, RefreshKeepsPool
    <2>3. LeaseTypes' /\ WorkerInv'
      BY <2>1, <2>2 DEF LeaseTypes, WorkerInv, Holds
    <2>4. QED BY <2>2, <2>3
  <1>2. CASE HealthCheck \/ Tick \/ UNCHANGED vars
    <2>1. UNCHANGED <<decodo, proxy, pc, supplier, used, failed>>
      BY <1>2 DEF HealthCheck, Tick, vars, scrape
    <2>2. PoolInv'
      BY <2>1, PoolUnchanged
    <2>3. LeaseTypes' /\ WorkerInv'
      BY <2>1 DEF LeaseTypes, WorkerInv, Holds, decodo
    <2>4. QED BY <2>2, <2>3
  <1>3. QED BY <1>1, <1>2

(* Every step keeps the invariant. *)
LEMMA NextIInv == IInv /\ [Next]_vars => IInv'
  <1> SUFFICES ASSUME IInv, [Next]_vars PROVE IInv'
    OBVIOUS
  <1>1. ASSUME NEW w \in Workers, NEW r \in Requested, Begin(w, r) PROVE IInv'
    BY <1>1, BeginKeepsIInv
  <1>2. ASSUME NEW w \in Workers, Work(w) PROVE IInv'
    <2>1. CASE PrimaryLends(w)
      BY <2>1, PrimaryLendsKeepsIInv
    <2>2. ASSUME NEW outcome \in {"counted", "uncounted"}, PrimaryRaises(w, outcome)
          PROVE  IInv'
      <3>1. pc[w] = "primary" /\ ~Holds(w) /\ ~failed[w]
        BY <2>2 DEF PrimaryRaises, Holds, IInv, WorkerInv
      <3>2. failed' = IF outcome = "counted" THEN failed ELSE [failed EXCEPT ![w] = TRUE]
        BY <2>2, <3>1 DEF PrimaryRaises, IInv, LeaseTypes
      <3>3. QED BY <2>2, <3>1, <3>2, MoveKeepsIInv DEF PrimaryRaises
    <2>3. CASE Failover(w)
      BY <2>3, MoveKeepsIInv DEF Failover, IInv, LeaseTypes, Holds
    <2>4. CASE FallbackLends(w)
      BY <2>4, FallbackLendsKeepsIInv
    <2>5. ASSUME NEW outcome \in {"counted", "uncounted"}, FallbackRaises(w, outcome)
          PROVE  IInv'
      BY <2>5, MoveKeepsIInv DEF FallbackRaises
    <2>6. CASE Run(w)
      BY <2>6, MoveKeepsIInv DEF Run, Holds
    <2>7. CASE Finish(w)
      BY <2>7, FinishKeepsIInv
    <2>8. QED BY <1>2, <2>1, <2>2, <2>3, <2>4, <2>5, <2>6, <2>7 DEF Work
  <1>3. ASSUME NEW w \in Workers, Cancel(w) PROVE IInv'
    BY <1>3, MoveKeepsIInv DEF Cancel
  <1>4. CASE Refresh \/ HealthCheck \/ Tick \/ UNCHANGED vars
    BY <1>4, EnvironmentKeepsIInv
  <1>5. QED BY <1>1, <1>2, <1>3, <1>4 DEF Next

(* The invariant holds in every reachable state of the scrapes. *)
THEOREM Invariance == Spec => []IInv
  BY InitIInv, NextIInv, PTL DEF Spec

-------------------------------------------------------------------------------
(* Every mark in the Decodo pool is that of a proxy some worker still      *)
(* scrapes through: no scrape leaves a proxy marked behind it, whatever    *)
(* failed or was cancelled in it.                                          *)
THEOREM MarksReturned == Spec => []MarksHeld
  <1>1. IInv => MarksHeld
    BY DEF IInv, PoolInv, WorkerInv, Holds, MarksHeld
  <1>2. QED BY <1>1, Invariance, PTL

(* A success was scraped through a proxy of the provider it names. *)
THEOREM NamesSupplier == Spec => []ProviderIsSupplier
  <1>1. IInv => ProviderIsSupplier
    BY ScrapeWorkerAssumption DEF IInv, LeaseTypes, WorkerInv, Holds, ProviderIsSupplier
  <1>2. QED BY <1>1, Invariance, PTL

(* As long as the vendor does not offer a proxy again that it withdrew     *)
(* while it was borrowed, what is borrowed and offered is marked, ...      *)
THEOREM LeasesMarked == VendorStable /\ Spec => []LeasedStaysMarked
  <1>1. ASSUME VendorStable PROVE IInv => LeasedStaysMarked
    BY <1>1 DEF IInv, PoolInv, LeasedStaysMarked
  <1>2. ASSUME VendorStable PROVE Spec => []LeasedStaysMarked
    BY <1>1, <1>2, Invariance, PTL
  <1>3. QED BY <1>2

(* ... and no two workers scrape through the same proxy. *)
THEOREM LeasesExclusive == VendorStable /\ Spec => []ExclusiveLease
  <1>1. ASSUME VendorStable PROVE IInv => ExclusiveLease
    BY <1>1 DEF IInv, PoolInv, ExclusiveLease
  <1>2. ASSUME VendorStable PROVE Spec => []ExclusiveLease
    BY <1>1, <1>2, Invariance, PTL
  <1>3. QED BY <1>2

(* A step of the scrapes is a step of the breakers, or leaves them alone.  *)
LEMMA StepsOfBreakers == [Next]_vars => [Breaker!Next]_(Breaker!vars)
  <1> SUFFICES ASSUME [Next]_vars
               PROVE  Breaker!Next \/ UNCHANGED breakers
    BY DEF breakers, Breaker!vars, Breaker!breaker
  <1>1. ASSUME NEW w \in Workers, NEW r \in Requested, Begin(w, r)
        PROVE  Breaker!Next \/ UNCHANGED breakers
    BY <1>1 DEF Begin, Breaker!Next, Breakers
  <1>2. ASSUME NEW w \in Workers, NEW outcome \in Breaker!Outcomes,
               Breaker!Answer(w, outcome)
        PROVE  Breaker!Next
    BY <1>2 DEF Breaker!Next
  <1>3. ASSUME NEW w \in Workers, Work(w)
        PROVE  Breaker!Next \/ UNCHANGED breakers
    <2>1. CASE PrimaryLends(w) \/ FallbackLends(w)
      BY <2>1, <1>2 DEF PrimaryLends, FallbackLends, Breaker!Outcomes
    <2>2. ASSUME NEW outcome \in {"counted", "uncounted"},
                 PrimaryRaises(w, outcome) \/ FallbackRaises(w, outcome)
          PROVE  Breaker!Next
      BY <2>2, <1>2 DEF PrimaryRaises, FallbackRaises, Breaker!Outcomes
    <2>3. CASE Failover(w)
      BY <2>3 DEF Failover, Breaker!Next, Breakers
    <2>4. CASE Run(w) \/ Finish(w)
      BY <2>4 DEF Run, Finish
    <2>5. QED BY <1>3, <2>1, <2>2, <2>3, <2>4 DEF Work
  <1>4. ASSUME NEW w \in Workers, Cancel(w)
        PROVE  Breaker!Next \/ UNCHANGED breakers
    BY <1>4, <1>2 DEF Cancel, Breaker!Outcomes
  <1>5. CASE HealthCheck \/ Tick
    BY <1>5 DEF HealthCheck, Tick, Breaker!Next
  <1>6. CASE Refresh \/ UNCHANGED vars
    BY <1>6 DEF Refresh, vars
  <1>7. QED BY <1>1, <1>3, <1>4, <1>5, <1>6 DEF Next

(* The scrapes drive the breakers as the calls of CircuitBreaker.tla do:   *)
(* through the gate, into the provider, past the record of the outcome.    *)
THEOREM DrivesBreakers == Spec => UsesBreakers
  <1>1. Init => Breaker!CircuitInit
    BY DEF Init
  <1>2. [Next]_vars => [UNCHANGED breakers \/ Breaker!Next]_vars
    BY StepsOfBreakers DEF breakers, Breaker!vars, Breaker!breaker
  <1>3. QED BY <1>1, <1>2, PTL DEF Spec, UsesBreakers

-------------------------------------------------------------------------------
(* The breakers under the scrapes. *)
Law == INSTANCE CircuitBreakerProofs WITH
    Calls <- Workers, good <- [b \in Breakers |-> FALSE]

(* What is assumed of the breakers holds of the two there are. *)
LEMMA LawApplies ==
    /\ Threshold \in Nat /\ Threshold >= 2
    /\ RecoveryTimeout \in Nat
    /\ CheckOrder \in Seq(Breakers)
    /\ Never \notin Nat
    /\ NoBreaker \notin Breakers
  BY ScrapeWorkerAssumption DEF Breakers

(* The breakers start as those of CircuitBreaker.tla, ... *)
LEMMA StartsByLaw == Init => Law!IInv
  <1> SUFFICES ASSUME Init PROVE Law!IInv
    OBVIOUS
  <1>1. Law!Init
    BY DEF Init, Breaker!CircuitInit, Law!Init, Law!CircuitInit
  <1>2. QED BY <1>1, LawApplies, Law!InitIInv DEF Law!CircuitBreakerAssumption

(* ... and every step of the scrapes is one of theirs. *)
LEMMA StepsByLaw == [Next]_vars => [Law!Next]_(Law!vars)
  <1> SUFFICES ASSUME Breaker!Next PROVE Law!Next
    BY StepsOfBreakers DEF breakers, Law!vars, Breaker!vars
  <1>1. ASSUME NEW w \in Workers, NEW b \in Breakers, Breaker!Enter(w, b) PROVE Law!Next
    BY <1>1 DEF Breaker!Enter, Breaker!PassGate, Breaker!Open,
                Law!Next, Law!Enter, Law!PassGate, Law!Open
  <1>2. ASSUME NEW w \in Workers, NEW outcome \in Breaker!Outcomes, Breaker!Answer(w, outcome)
        PROVE  Law!Next
    <2>1. Law!Answer(w, outcome)
      BY <1>2 DEF Breaker!Answer, Breaker!Record, Breaker!RecordSuccess, Breaker!RecordFailure,
                  Breaker!OneMore, Breaker!breaker,
                  Law!Answer, Law!Record, Law!RecordSuccess, Law!RecordFailure,
                  Law!OneMore, Law!breaker
    <2>2. QED BY <2>1 DEF Law!Next, Law!Outcomes, Breaker!Outcomes
  <1>3. CASE Breaker!StartRound
    BY <1>3 DEF Breaker!StartRound, Breaker!breaker, Law!Next, Law!StartRound, Law!breaker
  <1>4. ASSUME NEW verdict \in Breaker!Verdicts, Breaker!Check(verdict) PROVE Law!Next
    <2>1. Law!Check(verdict)
      BY <1>4 DEF Breaker!Check, Breaker!Judge, Breaker!breaker,
                  Law!Check, Law!Judge, Law!breaker
    <2>2. QED BY <2>1 DEF Law!Next, Law!Verdicts, Breaker!Verdicts
  <1>5. CASE Breaker!Tick
    BY <1>5 DEF Breaker!Tick, Breaker!Pass, Breaker!Older, Law!Next, Law!Tick, Law!Pass, Law!Older
  <1>6. ASSUME NEW b \in Breakers, Breaker!Flip(b) PROVE Law!Next
    BY <1>6 DEF Breaker!Flip, Breaker!breaker, Law!Next, Law!Flip, Law!breaker
  <1>7. QED BY <1>1, <1>2, <1>3, <1>4, <1>5, <1>6 DEF Breaker!Next

(* So what is proved of the breakers holds under the scrapes. *)
THEOREM BreakersInvariance == Spec => []Law!IInv
  <1>1. Law!IInv /\ [Next]_vars => Law!IInv'
    BY StepsByLaw, LawApplies, Law!NextIInv DEF Law!CircuitBreakerAssumption
  <1>2. QED BY <1>1, StartsByLaw, PTL DEF Spec

(* No interleaving of scrapes, cancellations, failovers and health checks  *)
(* leaves a breaker closed with as many failures as its threshold.         *)
THEOREM ScrapesOpenBreakers == Spec => []Breaker!ClosedBelowThreshold
  <1>1. Law!IInv => Breaker!ClosedBelowThreshold
    BY DEF Law!IInv, Law!ClosedBelowThreshold, Breaker!ClosedBelowThreshold
  <1>2. QED BY <1>1, BreakersInvariance, PTL

(* A scrape takes a breaker only along the edges of its state machine.     *)
THEOREM ScrapesKeepEdges == Spec => Breaker!StateMachine
  <1>1. Law!IInv /\ [Next]_vars => [Law!EdgeTaken]_(Law!vars)
    BY StepsByLaw, LawApplies, Law!StepsOnEdges DEF Law!CircuitBreakerAssumption, Law!IInv
  <1> DEFINE EdgeTaken == \A b \in Breakers :
                            state'[b] # state[b] => <<state[b], state'[b]>> \in Breaker!Edges
  <1>2. [Law!EdgeTaken]_(Law!vars) => [EdgeTaken]_(Breaker!vars)
    BY DEF Law!EdgeTaken, Law!Edges, Breaker!Edges, Law!vars, Breaker!vars
  <1>3. QED BY <1>1, <1>2, BreakersInvariance, PTL DEF Spec, Breaker!StateMachine

-------------------------------------------------------------------------------
(* Where a scrape is inside a breaker, and what it meets there. *)
Within(w) ==
    IF pc[w] = "primary" THEN Primary ELSE IF pc[w] = "fallback" THEN Fallback ELSE NoBreaker

InsideInv == \A w \in Workers : inside[w] = Within(w)

(* The provider has something to lend, or an exception to raise. *)
Answers(w, b) ==
    \/ b = Decodo => Pool!Candidates(region[w]) \ inUse # {}
    \/ \E outcome \in {"counted", "uncounted"} : MayRaise(w, b, outcome)

GoesOn ==
    \A w \in Workers :
        /\ pc[w] \in {"primary", "fallback"} =>
             inside[w] = Within(w) /\ inside[w] # NoBreaker /\ Answers(w, inside[w])
        /\ pc[w] = "failover" => inside[w] = NoBreaker

(* A scrape enters a breaker and leaves it with its own steps. *)
LEMMA NextInsideInv ==
    ASSUME LeaseTypes, InsideInv, Law!IInv, [Next]_vars
    PROVE  InsideInv'
  <1> USE ScrapeWorkerAssumption DEF LeaseTypes, InsideInv, Within
  <1>0. inside \in [Workers -> Breakers \union {NoBreaker}]
    BY DEF Law!IInv, Law!TypeOK
  <1>1. ASSUME NEW w \in Workers, NEW r \in Requested, Begin(w, r) PROVE InsideInv'
    BY <1>0, <1>1 DEF Begin, Breaker!Enter, breakers
  <1>2. ASSUME NEW w \in Workers, PrimaryLends(w) \/ FallbackLends(w) PROVE InsideInv'
    BY <1>0, <1>2 DEF PrimaryLends, FallbackLends, Breaker!Answer
  <1>3. ASSUME NEW w \in Workers, NEW outcome \in {"counted", "uncounted"},
               PrimaryRaises(w, outcome) \/ FallbackRaises(w, outcome)
        PROVE  InsideInv'
    BY <1>0, <1>3 DEF PrimaryRaises, FallbackRaises, Breaker!Answer
  <1>4. ASSUME NEW w \in Workers, Failover(w) PROVE InsideInv'
    BY <1>0, <1>4 DEF Failover, Breaker!Enter, breakers
  <1>5. ASSUME NEW w \in Workers, Run(w) \/ Finish(w) PROVE InsideInv'
    BY <1>0, <1>5 DEF Run, Finish, breakers
  <1>6. ASSUME NEW w \in Workers, Cancel(w) PROVE InsideInv'
    BY <1>0, <1>6 DEF Cancel, Breaker!Answer, breakers
  <1>7. CASE Refresh \/ HealthCheck \/ Tick \/ UNCHANGED vars
    BY <1>7 DEF Refresh, HealthCheck, Tick, Breaker!StartRound, Breaker!Check, Breaker!Tick,
                vars, scrape, breakers
  <1>8. QED BY <1>1, <1>2, <1>3, <1>4, <1>5, <1>6, <1>7 DEF Next, Work

(* A scrape is inside the breaker of the provider it has called. *)
LEMMA ScrapeInside == Spec => []InsideInv
  <1>1. Init => InsideInv
    BY DEF Init, InsideInv, Within
  <1>2. LeaseTypes /\ InsideInv /\ Law!IInv /\ [Next]_vars => InsideInv'
    BY NextInsideInv
  <1>3. IInv => LeaseTypes
    BY DEF IInv
  <1>4. QED BY <1>1, <1>2, <1>3, Invariance, BreakersInvariance, PTL DEF Spec

(* No scrape is left without its next step: while it is with a provider,   *)
(* the breaker has let it in and waits for its outcome, and there is one,  *)
(* a proxy to lend or an exception; and when it turns to the fallback it   *)
(* is inside no breaker.  Elsewhere its next step is unconditional.        *)
THEOREM ScrapeGoesOn == Spec => []GoesOn
  <1>1. InsideInv => GoesOn
    BY ScrapeWorkerAssumption DEF InsideInv, Within, GoesOn, Answers, MayRaise, Pool!Exhausted
  <1>2. QED BY <1>1, ScrapeInside, PTL

(* A worker moves only itself. *)
LEMMA MovesItself ==
    ASSUME LeaseTypes, NEW w \in Workers, Work(w) \/ Cancel(w) \/ \E q \in Requested : Begin(w, q)
    PROVE  \A v \in Workers : v # w => pc'[v] = pc[v]
  BY DEF LeaseTypes, Work, PrimaryLends, PrimaryRaises, Failover, FallbackLends, FallbackRaises,
         Run, Finish, Cancel, Begin

(* How many steps a scrape takes from each place, at the most. *)
StepsLeft ==
    [idle |-> 0, finally |-> 1, run |-> 2, fallback |-> 3, failover |-> 4, primary |-> 5]

Nearer(w) == StepsLeft[pc'[w]] < StepsLeft[pc[w]]

(* A step of a scrape brings it nearer to its answer, and no step of       *)
(* another scrape, of a refresh or of the health checker takes it back.    *)
Advances ==
    \A w \in Workers :
        /\ Work(w) \/ Cancel(w) => Nearer(w)
        /\ pc[w] # "idle" => pc'[w] = pc[w] \/ Nearer(w)

(* So a scrape answers after at most five steps, whatever the other        *)
(* workers do: with ScrapeGoesOn, all that is left to its end is that      *)
(* provider calls and browser runs end.                                    *)
THEOREM ScrapeAdvances == Spec => [][Advances]_vars
  <1>1. LeaseTypes /\ [Next]_vars => [Advances]_vars
    <2> SUFFICES ASSUME LeaseTypes, Next PROVE Advances
      OBVIOUS
    <2>1. ASSUME NEW w \in Workers, Work(w) \/ Cancel(w) PROVE Nearer(w)
      BY <2>1 DEF LeaseTypes, Work, Cancel, PrimaryLends, PrimaryRaises, Failover, FallbackLends,
                  FallbackRaises, Run, Finish, Nearer, StepsLeft
    <2>2. ASSUME NEW w \in Workers, pc[w] # "idle", ~Work(w), ~Cancel(w) PROVE pc'[w] = pc[w]
      <3>1. ASSUME NEW v \in Workers,
                   Work(v) \/ Cancel(v) \/ \E q \in Requested : Begin(v, q)
            PROVE  pc'[w] = pc[w]
        <4>1. w # v
          BY <2>2, <3>1 DEF Begin
        <4>2. QED BY <3>1, <4>1, MovesItself
      <3>2. CASE Refresh \/ HealthCheck \/ Tick
        BY <3>2 DEF Refresh, HealthCheck, Tick, scrape
      <3>3. QED BY <3>1, <3>2 DEF Next
    <2>3. QED BY <2>1, <2>2 DEF Advances
  <1>2. IInv => LeaseTypes
    BY DEF IInv
  <1>3. QED BY <1>1, <1>2, Invariance, PTL DEF Spec

-------------------------------------------------------------------------------
(* The requests over the workers. *)
Route == INSTANCE ScrapeEndpointProofs WITH pc <- at

LEMMA RouteApplies == Route!ScrapeEndpointAssumption
  BY ServedScrapeAssumption DEF Route!ScrapeEndpointAssumption

(* The routes start as those of ScrapeEndpoint.tla, ... *)
LEMMA StartsByRoute == ServedInit => Route!EInv
  <1> SUFFICES ASSUME ServedInit PROVE Route!EInv
    OBVIOUS
  <1>1. Route!Init
    BY DEF ServedInit, Endpoint!Init, Endpoint!Pool!Init, Route!Init, Route!Pool!Init
  <1>2. QED BY <1>1, RouteApplies, Route!InitEInv

(* ... and their steps are the same. *)
LEMMA RouteSteps == [Endpoint!Next]_routes => [Route!Next]_(Route!vars)
  <1> SUFFICES ASSUME Endpoint!Next PROVE Route!Next
    BY DEF routes, Route!vars, Route!sessions, Route!workers, Route!local
  <1> USE DEF Route!Next, Route!Step
  <1>1. ASSUME NEW r \in Requests, NEW k \in Keys, NEW s \in Sessions \union {NoSession},
               Endpoint!Begin(r, k, s)
        PROVE  Route!Next
    BY <1>1 DEF Endpoint!Begin, Endpoint!Goto, Endpoint!sessions, Endpoint!workers, Route!Begin,
                Route!Goto, Route!sessions, Route!workers
  <1>2. ASSUME NEW r \in Requests, Endpoint!ReadSession(r) PROVE Route!Next
    BY <1>2 DEF Endpoint!ReadSession, Endpoint!Pruned, Endpoint!Read, Endpoint!Visible,
                Endpoint!Owns, Endpoint!Goto, Endpoint!Ends, Endpoint!workers, Route!ReadSession,
                Route!Pruned, Route!Read, Route!Visible, Route!Owns, Route!Goto, Route!Ends,
                Route!workers
  <1>3. ASSUME NEW r \in Requests, Endpoint!Reset(r) PROVE Route!Next
    BY <1>3 DEF Endpoint!Reset, Endpoint!Store, Endpoint!Writable, Endpoint!Goto,
                Endpoint!workers, Route!Reset, Route!Store, Route!Writable, Route!Goto,
                Route!workers
  <1>4. ASSUME NEW r \in Requests, Endpoint!Wait(r) PROVE Route!Next
    BY <1>4 DEF Endpoint!Wait, Endpoint!Pool!Ask, Endpoint!Pool!Engaged, Endpoint!sessions,
                Endpoint!local, Route!Wait, Route!Pool!Ask, Route!Pool!Engaged, Route!sessions,
                Route!local
  <1>5. ASSUME NEW r \in Requests, Endpoint!Acquire(r) PROVE Route!Next
    BY <1>5 DEF Endpoint!Acquire, Endpoint!Pool!LeaseNow, Endpoint!Pool!Lease,
                Endpoint!Pool!Free, Endpoint!Pool!Engaged, Endpoint!Goto, Endpoint!sessions,
                Endpoint!local, Route!Acquire, Route!Pool!LeaseNow, Route!Pool!Lease,
                Route!Pool!Free, Route!Pool!Engaged, Route!Goto, Route!sessions, Route!local
  <1>6. ASSUME NEW r \in Requests, Endpoint!Scrape(r) PROVE Route!Next
    BY <1>6 DEF Endpoint!Scrape, Endpoint!CookiesOf, Endpoint!Goto, Endpoint!sessions,
                Endpoint!workers, Route!Scrape, Route!CookiesOf, Route!Goto, Route!sessions,
                Route!workers
  <1>7. ASSUME NEW r \in Requests, Endpoint!SaveCookies(r) PROVE Route!Next
    BY <1>7 DEF Endpoint!SaveCookies, Endpoint!Store, Endpoint!Writable, Endpoint!Goto,
                Endpoint!workers, Endpoint!local, Route!SaveCookies, Route!Store, Route!Writable,
                Route!Goto, Route!workers, Route!local
  <1>8. ASSUME NEW r \in Requests, Endpoint!CountAndRecord(r) PROVE Route!Next
    BY <1>8 DEF Endpoint!CountAndRecord, Endpoint!Goto, Endpoint!sessions, Endpoint!workers,
                Endpoint!local, Route!CountAndRecord, Route!Goto, Route!sessions, Route!workers,
                Route!local
  <1>9. ASSUME NEW r \in Requests, Endpoint!Fail(r) PROVE Route!Next
    BY <1>9 DEF Endpoint!Fail, Endpoint!Pool!Withdraw, Endpoint!Goto, Endpoint!Ends,
                Endpoint!sessions, Endpoint!workers, Endpoint!local, Route!Fail,
                Route!Pool!Withdraw, Route!Goto, Route!Ends, Route!sessions, Route!workers,
                Route!local
  <1>10. ASSUME NEW r \in Requests, Endpoint!Release(r) PROVE Route!Next
    BY <1>10 DEF Endpoint!Release, Endpoint!Pool!Return, Endpoint!Goto, Endpoint!Ends,
                Endpoint!sessions, Route!Release, Route!Pool!Return, Route!Goto, Route!Ends,
                Route!sessions
  <1>11. ASSUME NEW s \in Sessions, Endpoint!Expire(s) \/ \E k \in Keys : Endpoint!Create(k, s) \/ Endpoint!Delete(k, s)
        PROVE  Route!Next
    BY <1>11 DEF Endpoint!Expire, Endpoint!Create, Endpoint!Delete, Endpoint!Read,
                Endpoint!Visible, Endpoint!Owns, Endpoint!workers, Endpoint!local, Route!Expire,
                Route!Create, Route!Delete, Route!Read, Route!Visible, Route!Owns, Route!workers,
                Route!local
  <1>12. QED BY <1>1, <1>2, <1>3, <1>4, <1>5, <1>6, <1>7, <1>8, <1>9, <1>10, <1>11
             DEF Endpoint!Next, Endpoint!Step
-------------------------------------------------------------------------------
(* The calls.  *)
CallTypes ==
    /\ serves \in [Workers -> Requests \union {NoRequest}]
    /\ cancelled \subseteq Workers

CallInv ==
    \A w \in Workers :
        /\ pc[w] # "idle" <=> serves[w] # NoRequest
        /\ serves[w] # NoRequest => lease[serves[w]] = w /\ at[serves[w]] = "scrape"
        /\ w \in cancelled => pc[w] = "finally"

(* The invariants of the two modules and of the calls between them. *)
SInv == IInv /\ Route!EInv /\ CallTypes /\ CallInv

(* A request that is to call a worker holds one. *)
LEMMA CallsItsWorker ==
    ASSUME Route!EInv, NEW r \in Requests, at[r] = "scrape"
    PROVE  lease[r] \in Workers
  BY DEF Route!EInv, Route!TypeOK, Route!WorkerHeldWhileScraping

(* Every step is one of the workers or leaves them alone, ... *)
LEMMA StepsOfWorkers ==
    ASSUME Route!EInv, [ServedNext]_servedVars
    PROVE  [Next]_vars
  <1>1. ASSUME NEW r \in Requests, Call(r) PROVE Next
    BY <1>1, CallsItsWorker DEF Call, Next
  <1>2. ASSUME NEW w \in Workers, Serve(w) \/ CancelCall(w) \/ Return(w) PROVE Next
    BY <1>2 DEF Serve, CancelCall, Return, Work, Next
  <1>3. CASE RouteStep \/ Environment \/ UNCHANGED servedVars
    BY <1>3 DEF RouteStep, Environment, servedVars, Next
  <1>4. QED BY <1>1, <1>2, <1>3 DEF ServedNext

(* ... and one of the routes or leaves them alone: the return of a call is *)
(* the request's Scrape or its Fail.                                       *)
LEMMA StepsOfRoutes ==
    ASSUME CallTypes, CallInv, [ServedNext]_servedVars
    PROVE  [Endpoint!Next]_routes
  <1>1. ASSUME NEW w \in Workers, Return(w) PROVE Endpoint!Next
    <2>1. serves[w] \in Requests
      BY <1>1 DEF CallTypes, CallInv, Return, Finish
    <2>2. QED BY <1>1, <2>1 DEF Return, Endpoint!Next, Endpoint!Step
  <1>2. QED BY <1>1 DEF ServedNext, servedVars, Call, Serve, CancelCall, RouteStep, Environment

LEMMA CallKeeps ==
    ASSUME SInv, NEW r \in Requests, Call(r)
    PROVE  CallTypes' /\ CallInv'
  <1> USE DEF SInv, CallTypes
  <1>1. lease[r] \in Workers
    BY CallsItsWorker DEF Call
  <1>2. PICK q \in Requested : Begin(lease[r], q)
    BY DEF Call
  <1>3. /\ pc[lease[r]] = "idle" /\ pc'[lease[r]] \in {"primary", "failover"}
        /\ \A v \in Workers : v # lease[r] => pc'[v] = pc[v]
    BY <1>1, <1>2, MovesItself DEF IInv, LeaseTypes, Begin
  <1>4. QED BY <1>1, <1>3, ServedScrapeAssumption DEF Call, CallInv, routes

LEMMA ServeKeeps ==
    ASSUME SInv, NEW w \in Workers, Serve(w)
    PROVE  CallTypes' /\ CallInv'
  <1>1. \A v \in Workers : v # w => pc'[v] = pc[v]
    BY MovesItself DEF Serve, SInv, IInv
  <1>2. pc[w] # "idle" /\ pc[w] # "finally" /\ pc'[w] # "idle"
    BY DEF Serve, SInv, IInv, LeaseTypes, Work, PrimaryLends, PrimaryRaises, Failover,
           FallbackLends, FallbackRaises, Run, Finish
  <1>3. QED BY <1>1, <1>2 DEF SInv, CallTypes, CallInv, Serve, calls, routes

LEMMA CancelCallKeeps ==
    ASSUME SInv, NEW w \in Workers, CancelCall(w)
    PROVE  CallTypes' /\ CallInv'
  <1>1. \A v \in Workers : v # w => pc'[v] = pc[v]
    BY MovesItself DEF CancelCall, SInv, IInv
  <1>2. pc[w] # "idle" /\ pc'[w] = "finally"
    BY DEF CancelCall, SInv, IInv, LeaseTypes, Cancel
  <1>3. QED BY <1>1, <1>2 DEF SInv, CallTypes, CallInv, CancelCall, routes

LEMMA ReturnKeeps ==
    ASSUME SInv, NEW w \in Workers, Return(w)
    PROVE  CallTypes' /\ CallInv'
  <1> DEFINE r == serves[w]
  <1>1. \A v \in Workers : v # w => pc'[v] = pc[v]
    BY MovesItself DEF Return, SInv, IInv, Work
  <1>2. pc[w] = "finally" /\ pc'[w] = "idle"
    BY DEF Return, SInv, IInv, LeaseTypes, Finish
  <1>3. r \in Requests /\ lease[r] = w /\ at[r] = "scrape"
    BY <1>2 DEF SInv, CallTypes, CallInv
  <1>4. lease' = lease /\ \A q \in Requests : q # r => at'[q] = at[q]
    BY <1>3 DEF Return, Endpoint!Scrape, Endpoint!Fail, Endpoint!Goto, Endpoint!workers,
               SInv, Route!EInv, Route!TypeOK
  <1>5. QED BY <1>1, <1>2, <1>3, <1>4, ServedScrapeAssumption DEF SInv, CallTypes, CallInv, Return

LEMMA RouteStepKeeps ==
    ASSUME SInv, RouteStep
    PROVE  CallTypes' /\ CallInv'
  <1>1. [Route!Next]_(Route!vars)
    BY RouteSteps DEF RouteStep
  <1>2. ASSUME NEW w \in Workers, serves[w] # NoRequest
        PROVE  lease'[serves[w]] = w /\ at'[serves[w]] = "scrape"
    <2>1. serves[w] \in Requests /\ lease[serves[w]] = w /\ at[serves[w]] = "scrape"
      BY <1>2 DEF SInv, CallTypes, CallInv
    <2>2. at'[serves[w]] = "scrape"
      BY <2>1 DEF RouteStep
    <2>3. QED BY <1>1, <2>1, <2>2, RouteApplies, Route!LeaseKept DEF SInv
  <1>3. QED BY <1>2 DEF SInv, CallTypes, CallInv, RouteStep, vars, scrape, calls

LEMMA NextSInv == SInv /\ [ServedNext]_servedVars => SInv'
  <1> SUFFICES ASSUME SInv, [ServedNext]_servedVars PROVE SInv'
    OBVIOUS
  <1>1. IInv'
    BY StepsOfWorkers, NextIInv DEF SInv
  <1>2. Route!EInv'
    BY StepsOfRoutes, RouteSteps, RouteApplies, Route!NextKeeps DEF SInv
  <1>3. CASE Environment \/ UNCHANGED servedVars
    <2>1. UNCHANGED <<pc, lease, at, serves, cancelled>>
      BY <1>3 DEF Environment, Refresh, HealthCheck, Tick, scrape, routes, calls, servedVars, vars
    <2>2. CallTypes' /\ CallInv'
      BY <2>1 DEF SInv, CallTypes, CallInv
    <2>3. QED BY <1>1, <1>2, <2>2 DEF SInv
  <1>4. CASE ServedNext /\ ~Environment
    <2>1. CallTypes' /\ CallInv'
      BY <1>4, CallKeeps, ServeKeeps, CancelCallKeeps, ReturnKeeps, RouteStepKeeps DEF ServedNext
    <2>2. QED BY <1>1, <1>2, <2>1 DEF SInv
  <1>5. QED BY <1>3, <1>4

LEMMA InitSInv == ServedInit => SInv
  <1> SUFFICES ASSUME ServedInit PROVE SInv
    OBVIOUS
  <1>1. IInv /\ Route!EInv
    BY InitIInv, StartsByRoute DEF ServedInit
  <1>2. CallTypes /\ CallInv
    BY DEF ServedInit, Init, CallTypes, CallInv
  <1>3. QED BY <1>1, <1>2 DEF SInv

(* The invariants of the worker, of the routes and of the calls between     *)
(* them hold of requests that are served by workers.                       *)
THEOREM ServedInvariance == ServedSpec => []SInv
  BY InitSInv, NextSInv, PTL DEF ServedSpec

(* The requests drive the workers as ScrapeWorker assumes, one call at a   *)
(* time on each: what holds of its scrapes holds of theirs.                *)
THEOREM ServesAsWorkers == ServedSpec => Spec
  <1>1. ServedInit => Init
    BY DEF ServedInit
  <1>2. SInv /\ [ServedNext]_servedVars => [Next]_vars
    BY StepsOfWorkers DEF SInv
  <1>3. QED BY <1>1, <1>2, ServedInvariance, PTL DEF ServedSpec, Spec

(* A call of scrape(), its steps in the worker and its return are, to the  *)
(* route, one step of _execute_one_scrape: what ScrapeEndpoint takes for a *)
(* Scrape or, when it is cancelled, a Fail.                                *)
THEOREM ImplementsRoutes == ServedSpec => Endpoint!Init /\ [][Endpoint!Next]_routes
  <1>1. ServedInit => Endpoint!Init
    BY DEF ServedInit
  <1>2. SInv /\ [ServedNext]_servedVars => [Endpoint!Next]_routes
    BY StepsOfRoutes DEF SInv
  <1>3. QED BY <1>1, <1>2, ServedInvariance, PTL DEF ServedSpec

(* A worker scrapes for the request that holds it and for no other, and is *)
(* idle by the time anybody calls it.                                      *)
THEOREM CallsLeased == ServedSpec => []ScrapesUnderLease
  <1>1. SInv => ScrapesUnderLease
    <2> SUFFICES ASSUME SInv PROVE ScrapesUnderLease
      OBVIOUS
    <2>1. ASSUME NEW w \in Workers, pc[w] # "idle"
          PROVE  \E r \in Requests : serves[w] = r /\ lease[r] = w /\ at[r] = "scrape"
      BY <2>1 DEF SInv, CallTypes, CallInv
    <2>2. ASSUME NEW r \in Requests, at[r] = "scrape", \A v \in Workers : serves[v] # r
          PROVE  pc[lease[r]] = "idle"
      <3> DEFINE w == lease[r]
      <3>1. w \in Workers
        BY <2>2, CallsItsWorker DEF SInv
      <3>2. ASSUME serves[w] # NoRequest PROVE FALSE
        <4>1. serves[w] \in Requests /\ lease[serves[w]] = w /\ w # NoWorker
          BY <3>1, <3>2, ServedScrapeAssumption DEF SInv, CallTypes, CallInv
        <4>2. serves[w] = r
          BY <4>1 DEF SInv, Route!EInv, Route!WorkerHeldWhileScraping
        <4>3. QED BY <2>2, <3>1, <4>2
      <3>3. QED BY <3>1, <3>2 DEF SInv, CallInv
    <2>3. QED BY <2>1, <2>2 DEF ScrapesUnderLease
  <1>2. QED BY <1>1, ServedInvariance, PTL

(* When a request goes on from its scrape, its proxy is back: whatever is  *)
(* marked in the Decodo pool belongs to a request that is still scraping.  *)
THEOREM MarksEndWithCalls == ServedSpec => []MarksOfRequests
  <1>1. SInv => MarksOfRequests
    <2> SUFFICES ASSUME SInv, NEW p \in inUse
                 PROVE  \E r \in Requests :
                          at[r] = "scrape" /\ lease[r] \in Workers /\ proxy[lease[r]] = p
      BY DEF MarksOfRequests
    <2>1. PICK w \in Workers : proxy[w] = p
      BY DEF SInv, IInv, PoolInv, Pool!MarksHeld
    <2>2. p # NoProxy
      BY ScrapeWorkerAssumption DEF SInv, IInv, LeaseTypes
    <2>3. pc[w] # "idle"
      BY <2>1, <2>2 DEF SInv, IInv, WorkerInv, Holds
    <2>4. serves[w] \in Requests /\ lease[serves[w]] = w /\ at[serves[w]] = "scrape"
      BY <2>3 DEF SInv, CallTypes, CallInv
    <2>5. QED BY <2>1, <2>4
  <1>2. QED BY <1>1, ServedInvariance, PTL

(* No two requests scrape through one Decodo proxy, under the assumption   *)
(* that LeasesExclusive makes of the vendor.                               *)
THEOREM ProxiesOfRequests == VendorStable /\ ServedSpec => []ProxyOfOneRequest
  <1>1. ASSUME VendorStable PROVE SInv => ProxyOfOneRequest
    <2> SUFFICES ASSUME SInv, NEW q \in Requests, NEW r \in Requests,
                        at[q] = "scrape", at[r] = "scrape",
                        proxy[lease[q]] = proxy[lease[r]], proxy[lease[r]] \in Proxies
                 PROVE  q = r
      BY DEF ProxyOfOneRequest
    <2>1. lease[q] \in Workers /\ lease[r] \in Workers
      BY CallsItsWorker DEF SInv
    <2>2. lease[q] = lease[r]
      BY <1>1, <2>1 DEF SInv, IInv, PoolInv, Pool!ExclusiveLease
    <2>3. QED BY <2>1, <2>2, ServedScrapeAssumption DEF SInv, Route!EInv, Route!WorkerHeldWhileScraping
  <1>2. ASSUME VendorStable PROVE ServedSpec => []ProxyOfOneRequest
    BY <1>1, <1>2, ServedInvariance, PTL
  <1>3. QED BY <1>2

(* The routes keep cookies with their key while workers scrape for them. *)
THEOREM CookiesKeptWhenServed == ServedSpec => []Endpoint!CookiesStayWithKey
  <1>1. SInv => Endpoint!CookiesStayWithKey
    BY DEF SInv, Route!EInv, Route!CookiesStayWithKey, Route!CookiesOf,
           Endpoint!CookiesStayWithKey, Endpoint!CookiesOf
  <1>2. QED BY <1>1, ServedInvariance, PTL

-------------------------------------------------------------------------------
(* A request in its call has an idle worker to call, or one that runs for  *)
(* it and goes on; and a request that waits for a worker waits for one     *)
(* that is free, or held by a request that no longer waits for any.        *)
NoCircularWait ==
    /\ GoesOn
    /\ \A r \in Requests : at[r] = "scrape" =>
         LET w == lease[r] IN
         w \in Workers /\ IF pc[w] = "idle" THEN inside[w] = NoBreaker ELSE serves[w] = r
    /\ \A w \in Workers :
         Endpoint!Pool!Free(w)
         \/ \E q \in Requests : lease[q] = w /\ at[q] \notin {"idle", "session", "reset", "acquire"}

(* So no set of requests waits for one another, through the pool, the      *)
(* breakers and the proxies: the safety half of RequestEnds, over the      *)
(* scrapes as the workers run them.                                        *)
THEOREM ServedGoesOn == ServedSpec => []NoCircularWait
  <1>1. ServedSpec => [](GoesOn /\ InsideInv)
    BY ServesAsWorkers, ScrapeGoesOn, ScrapeInside, PTL
  <1>2. SInv /\ GoesOn /\ InsideInv /\ ScrapesUnderLease => NoCircularWait
    <2> SUFFICES ASSUME SInv, GoesOn, InsideInv, ScrapesUnderLease PROVE NoCircularWait
      OBVIOUS
    <2>1. ASSUME NEW r \in Requests, at[r] = "scrape"
          PROVE  /\ lease[r] \in Workers
                 /\ IF pc[lease[r]] = "idle" THEN inside[lease[r]] = NoBreaker ELSE serves[lease[r]] = r
      <3>1. lease[r] \in Workers
        BY <2>1, CallsItsWorker DEF SInv
      <3>2. pc[lease[r]] = "idle" => inside[lease[r]] = NoBreaker
        BY <3>1 DEF InsideInv, Within
      <3>3. ASSUME pc[lease[r]] # "idle" PROVE serves[lease[r]] = r
        BY <3>1, <3>3, ServedScrapeAssumption
        DEF ScrapesUnderLease, SInv, Route!EInv, Route!WorkerHeldWhileScraping
      <3>4. QED BY <3>1, <3>2, <3>3
    <2>2. ASSUME NEW w \in Workers, ~Endpoint!Pool!Free(w)
          PROVE  \E q \in Requests : lease[q] = w /\ at[q] \notin {"idle", "session", "reset", "acquire"}
      BY <2>2, ServedScrapeAssumption
      DEF Endpoint!Pool!Free, SInv, Route!EInv, Route!TypeOK, Route!WorkerHeldWhileScraping
    <2>3. QED BY <2>1, <2>2 DEF NoCircularWait
  <1>3. QED BY <1>1, <1>2, ServedInvariance, CallsLeased, PTL
===============================================================================
