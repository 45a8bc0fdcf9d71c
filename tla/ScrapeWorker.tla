----------------------------- MODULE ScrapeWorker -----------------------------
(***************************************************************************)
(* ASBWorker.scrape (workers/worker.py) on top of the circuit breakers and *)
(* the Decodo pool: a proxy from the primary provider, or from the         *)
(* fallback, a browser run, and the proxy back to the provider that lent   *)
(* it.  Workers scrape one request at a time (WorkerPool.tla), all of them *)
(* through the same breakers and providers.                                *)
(*                                                                         *)
(* One of the two providers is DecodoProvider; the other (BrightData or a  *)
(* custom list) lends proxies without keeping account of them.  A call may *)
(* suspend in either provider: more interleavings than Decodo's allows.    *)
(***************************************************************************)
EXTENDS Integers, Sequences

CONSTANTS
    Workers,
    Primary, Fallback,     \* the breakers of the two providers
    Decodo,                \* which of the two is DecodoProvider
    Proxies, Regions, DefaultRegion, NoProxy, NoRegion, VendorStable,
    Requested,             \* the values of request.region
    Session,               \* a proxy of the provider that keeps no account
    CheckOrder, Threshold, RecoveryTimeout, Never, NoBreaker

ASSUME ScrapeWorkerAssumption ==
    /\ Primary # Fallback
    /\ Decodo \in {Primary, Fallback}
    /\ Session \notin Proxies \union {NoProxy}
    /\ NoProxy \notin Proxies
    /\ DefaultRegion \in Regions
    /\ NoRegion \notin Regions
    /\ NoBreaker \notin {Primary, Fallback}
    /\ Threshold \in Nat /\ Threshold >= 2
    /\ RecoveryTimeout \in Nat
    /\ CheckOrder \in Seq({Primary, Fallback})
    /\ Never \notin Nat

VARIABLES
    state, failures, age, inside, checking,   \* the breakers
    pools, first, inUse,                      \* the Decodo pool
    pc,          \* where each worker is in scrape()
    region,      \* request.region
    proxy,       \* the local `proxy' of scrape()
    supplier,    \* ASBWorker._last_proxy_breaker
    used,        \* the local `used_provider_name'
    failed       \* an exception, or a cancellation, ended the `try'

breakers == <<state, failures, age, inside, checking>>
decodo == <<pools, first, inUse>>
scrape == <<pc, region, supplier, used, failed>>
vars == <<breakers, decodo, proxy, scrape>>

Breakers == {Primary, Fallback}

(* The breakers are driven by the workers' calls; their providers may      *)
(* always fail.                                                            *)
Breaker == INSTANCE CircuitBreaker WITH
    Calls <- Workers, good <- [b \in Breakers |-> FALSE]

Pool == INSTANCE DecodoProvider WITH Holders <- Workers, lease <- proxy

Init ==
    /\ Breaker!CircuitInit
    /\ inside = [w \in Workers |-> NoBreaker]
    /\ checking = 0
    /\ Pool!Init
    /\ pc = [w \in Workers |-> "idle"]
    /\ region = [w \in Workers |-> NoRegion]
    /\ supplier = [w \in Workers |-> NoBreaker]
    /\ used = [w \in Workers |-> Primary]
    /\ failed = [w \in Workers |-> FALSE]

-------------------------------------------------------------------------------
(* The provider behind b answers the call of w. *)
Lends(w, b) ==
    IF b = Decodo
    THEN Pool!GetProxy(w, region[w])
    ELSE proxy' = [proxy EXCEPT ![w] = Session] /\ UNCHANGED decodo

(* Mutant of MayRaise: an exhausted Decodo pool makes the caller wait. *)
MayRaiseVendor(w, b, outcome) ==
    b # Decodo /\ outcome \in {"counted", "uncounted"}

(* It raises: Decodo when its pool is exhausted, any other at any time.    *)
MayRaise(w, b, outcome) ==
    IF b = Decodo
    THEN outcome = "counted" /\ Pool!Exhausted(region[w])
    ELSE outcome \in {"counted", "uncounted"}

(* scrape() asks the primary's breaker, which lets the call through or     *)
(* raises PoolExhaustedError.                                              *)
Begin(w, r) ==
    /\ pc[w] = "idle"
    /\ region' = [region EXCEPT ![w] = r]
    /\ \/ /\ Breaker!Enter(w, Primary)
          /\ pc' = [pc EXCEPT ![w] = "primary"]
       \/ /\ ~Breaker!Open(Primary)
          /\ pc' = [pc EXCEPT ![w] = "failover"]
          /\ UNCHANGED breakers
    /\ UNCHANGED <<decodo, proxy, supplier, used, failed>>

PrimaryLends(w) ==
    /\ pc[w] = "primary"
    /\ pc' = [pc EXCEPT ![w] = "run"]
    /\ Breaker!Answer(w, "proxy")
    /\ Lends(w, Primary)
    /\ supplier' = [supplier EXCEPT ![w] = Primary]
    /\ UNCHANGED <<region, used, failed>>

(* PoolExhaustedError and ProviderError lead to the fallback, any other    *)
(* exception to the error response.                                        *)
PrimaryRaises(w, outcome) ==
    /\ pc[w] = "primary"
    /\ pc' = [pc EXCEPT ![w] = IF outcome = "counted" THEN "failover" ELSE "finally"]
    /\ MayRaise(w, Primary, outcome)
    /\ Breaker!Answer(w, outcome)
    /\ failed' = [failed EXCEPT ![w] = outcome # "counted"]
    /\ UNCHANGED <<decodo, proxy, region, supplier, used>>

(* Mutant of Failover: the fallback is asked behind its breaker's back. *)
FailoverUngated(w) ==
    /\ pc[w] = "failover"
    /\ inside' = [inside EXCEPT ![w] = Fallback]
    /\ pc' = [pc EXCEPT ![w] = "fallback"]
    /\ UNCHANGED <<state, failures, age, checking>>
    /\ UNCHANGED <<failed, decodo, proxy, region, supplier, used>>

(* The fallback's breaker lets the call through, or the primary's error is *)
(* raised again.                                                           *)
Failover(w) ==
    /\ pc[w] = "failover"
    /\ \/ /\ Breaker!Enter(w, Fallback)
          /\ pc' = [pc EXCEPT ![w] = "fallback"]
          /\ UNCHANGED failed
       \/ /\ ~Breaker!Open(Fallback)
          /\ pc' = [pc EXCEPT ![w] = "finally"]
          /\ failed' = [failed EXCEPT ![w] = TRUE]
          /\ UNCHANGED breakers
    /\ UNCHANGED <<decodo, proxy, region, supplier, used>>

(* Mutant of FallbackLends: the response still names the primary. *)
FallbackLendsUnnamed(w) ==
    /\ pc[w] = "fallback"
    /\ pc' = [pc EXCEPT ![w] = "run"]
    /\ Breaker!Answer(w, "proxy")
    /\ Lends(w, Fallback)
    /\ supplier' = [supplier EXCEPT ![w] = Fallback]
    /\ UNCHANGED <<region, used, failed>>

FallbackLends(w) ==
    /\ pc[w] = "fallback"
    /\ pc' = [pc EXCEPT ![w] = "run"]
    /\ Breaker!Answer(w, "proxy")
    /\ Lends(w, Fallback)
    /\ supplier' = [supplier EXCEPT ![w] = Fallback]
    /\ used' = [used EXCEPT ![w] = Fallback]
    /\ UNCHANGED <<region, failed>>

FallbackRaises(w, outcome) ==
    /\ pc[w] = "fallback"
    /\ pc' = [pc EXCEPT ![w] = "finally"]
    /\ MayRaise(w, Fallback, outcome)
    /\ Breaker!Answer(w, outcome)
    /\ failed' = [failed EXCEPT ![w] = TRUE]
    /\ UNCHANGED <<decodo, proxy, region, supplier, used>>

(* The fingerprint lookup or the browser raises, or the page is answered.  *)
Run(w) ==
    /\ pc[w] = "run"
    /\ pc' = [pc EXCEPT ![w] = "finally"]
    /\ failed' \in {failed, [failed EXCEPT ![w] = TRUE]}
    /\ UNCHANGED <<breakers, decodo, proxy, region, supplier, used>>

(* The request's task is cancelled where scrape() is suspended; no         *)
(* `except Exception' sees it, only the `finally'.                         *)
Cancel(w) ==
    /\ \/ /\ pc[w] \in {"primary", "fallback"}
          /\ Breaker!Answer(w, "uncounted")
       \/ /\ pc[w] = "run"
          /\ UNCHANGED breakers
    /\ pc' = [pc EXCEPT ![w] = "finally"]
    /\ failed' = [failed EXCEPT ![w] = TRUE]
    /\ UNCHANGED <<decodo, proxy, region, supplier, used>>

(* Mutant of ReturnProxy: the proxy goes back to the primary whoever lent  *)
(* it.                                                                     *)
ReturnToPrimary(w) ==
    IF proxy[w] # NoProxy /\ Primary = Decodo
    THEN Pool!ReleaseProxy(w)
    ELSE proxy' = [proxy EXCEPT ![w] = NoProxy] /\ UNCHANGED decodo

(* release_proxy() on the breaker that lent the proxy, if there is one.    *)
ReturnProxy(w) ==
    IF proxy[w] # NoProxy /\ supplier[w] = Decodo
    THEN Pool!ReleaseProxy(w)
    ELSE proxy' = [proxy EXCEPT ![w] = NoProxy] /\ UNCHANGED decodo

(* The `finally' of scrape(), which then answers and forgets its locals.   *)
Finish(w) ==
    /\ pc[w] = "finally"
    /\ pc' = [pc EXCEPT ![w] = "idle"]
    /\ ReturnProxy(w)
    /\ supplier' = [supplier EXCEPT ![w] = NoBreaker]
    /\ region' = [region EXCEPT ![w] = NoRegion]
    /\ used' = [used EXCEPT ![w] = Primary]
    /\ failed' = [failed EXCEPT ![w] = FALSE]
    /\ UNCHANGED breakers

(* The environment of the scrapes: the refresh of the pool, the health     *)
(* checker, time.                                                          *)
Refresh == Pool!Refresh /\ UNCHANGED <<breakers, scrape>>

HealthCheck ==
    /\ Breaker!StartRound \/ \E verdict \in Breaker!Verdicts : Breaker!Check(verdict)
    /\ UNCHANGED <<decodo, proxy, scrape>>

Tick == Breaker!Tick /\ UNCHANGED <<decodo, proxy, scrape>>

Work(w) ==
    \/ PrimaryLends(w)
    \/ \E outcome \in {"counted", "uncounted"} : PrimaryRaises(w, outcome)
    \/ Failover(w)
    \/ FallbackLends(w)
    \/ \E outcome \in {"counted", "uncounted"} : FallbackRaises(w, outcome)
    \/ Run(w)
    \/ Finish(w)

Next ==
    \/ \E w \in Workers :
         \/ \E r \in Requested : Begin(w, r)
         \/ Work(w)
         \/ Cancel(w)
    \/ Refresh
    \/ HealthCheck
    \/ Tick

Spec == Init /\ [][Next]_vars

-------------------------------------------------------------------------------
(* Every variable has its type. *)
TypeOK ==
    /\ Breaker!TypeOK
    /\ pools \in [Regions -> SUBSET Proxies]
    /\ first \in Regions \union {NoRegion}
    /\ inUse \subseteq Proxies
    /\ pc \in [Workers -> {"idle", "primary", "failover", "fallback", "run", "finally"}]
    /\ region \in [Workers -> Requested \union {NoRegion}]
    /\ proxy \in [Workers -> Proxies \union {Session, NoProxy}]
    /\ supplier \in [Workers -> Breakers \union {NoBreaker}]
    /\ used \in [Workers -> Breakers]
    /\ failed \in [Workers -> BOOLEAN]

(* Two workers never run through the same Decodo proxy, whatever refreshes *)
(* happen during their scrapes.                                            *)
ExclusiveLease == Pool!ExclusiveLease

(* A proxy that is borrowed and offered is marked in use, so that nobody   *)
(* else is lent it: what tests/test_providers.py asserts of a refresh.     *)
LeasedStaysMarked == Pool!LeasedStaysMarked

(* Every mark is that of a proxy some worker still scrapes through: after  *)
(* every scrape, whatever failed or was cancelled in it, the proxy goes    *)
(* back to the provider that lent it.                                      *)
MarksHeld ==
    /\ Pool!MarksHeld
    /\ \A w \in Workers : pc[w] \notin {"run", "finally"} => proxy[w] = NoProxy

(* A success, which names `used', was scraped through a proxy of the       *)
(* provider it names.                                                      *)
ProviderIsSupplier ==
    \A w \in Workers :
        pc[w] \in {"run", "finally"} /\ ~failed[w] =>
            (used[w] = Decodo <=> proxy[w] \in Proxies)

(* The scrapes drive the two breakers as CircuitBreaker's calls do: never  *)
(* into a provider whose breaker is shut, never past the record of an      *)
(* outcome.  What holds of CircuitBreaker holds here.                      *)
UsesBreakers == Breaker!CircuitInit /\ [][UNCHANGED breakers \/ Breaker!Next]_vars

(* No state of the pool or of the breakers leaves a scrape without its     *)
(* next step.  Each step brings a scrape nearer to its `finally', so every *)
(* scrape answers once its provider calls and its browser run end, which   *)
(* their timeouts see to.                                                  *)
NeverStuck == \A w \in Workers : pc[w] # "idle" => ENABLED Work(w)
===============================================================================
