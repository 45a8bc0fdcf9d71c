---------------------------- MODULE DecodoProvider ----------------------------
(***************************************************************************)
(* DecodoProvider (providers/decodo.py): a pool of vendor proxies that are *)
(* leased one holder at a time.  A lease is a mark in _in_use, keyed by    *)
(* host:port.  A periodic refresh replaces the pool by what the vendor     *)
(* offers then and drops the marks of proxies that are no longer offered.  *)
(*                                                                         *)
(* The bodies under the provider's lock never suspend, so each of its      *)
(* operations is one step of the event loop; a refresh suspends only while *)
(* it fetches, before it touches the state.                                *)
(***************************************************************************)
CONSTANTS
    Holders,        \* the workers that borrow proxies
    Proxies,        \* the host:port keys the vendor may offer
    Regions,        \* the regions the pool is fetched for
    DefaultRegion,
    NoProxy,
    NoRegion,
    VendorStable    \* the vendor never re-offers a proxy it withdrew while
                    \* the proxy is still borrowed

VARIABLES
    pools,      \* _proxies: the proxies offered in each region
    first,      \* the first key of the _proxies dictionary
    inUse,      \* _in_use
    lease       \* the proxy each holder has borrowed and not returned

vars == <<pools, first, inUse, lease>>

OfferedIn(new) == UNION {new[r] : r \in Regions}
Offered == OfferedIn(pools)

Init ==
    /\ pools = [r \in Regions |-> {}]
    /\ first = NoRegion
    /\ inUse = {}
    /\ lease = [h \in Holders |-> NoProxy]

-------------------------------------------------------------------------------
(* The list get_proxy() searches: the region's, or the dictionary's first. *)
Candidates(region) ==
    LET r == IF region = NoRegion THEN DefaultRegion ELSE region IN
    IF r \in Regions /\ pools[r] # {} THEN pools[r]
    ELSE IF first # NoRegion THEN pools[first]
    ELSE {}

(* get_proxy() lends one that is not marked; which one depends on the      *)
(* vendor's order.                                                         *)
GetProxy(h, region) ==
    \E p \in Candidates(region) \ inUse :
        /\ inUse' = inUse \union {p}
        /\ lease' = [lease EXCEPT ![h] = p]
        /\ UNCHANGED <<pools, first>>

(* get_proxy() raises PoolExhaustedError. *)
Exhausted(region) == Candidates(region) \subseteq inUse

ReleaseProxy(h) ==
    /\ inUse' = inUse \ {lease[h]}
    /\ lease' = [lease EXCEPT ![h] = NoProxy]
    /\ UNCHANGED <<pools, first>>

(* Mutant of ReplacePool: no mark survives a refresh. *)
ReplacePoolClearingMarks(new) ==
    /\ pools' = new
    /\ first' \in IF OfferedIn(new) = {} THEN {NoRegion} ELSE {r \in Regions : new[r] # {}}
    /\ inUse' = {}
    /\ UNCHANGED lease

(* _replace_pool(): only regions with a proxy are keys of the new pool. *)
ReplacePool(new) ==
    /\ pools' = new
    /\ first' \in IF OfferedIn(new) = {} THEN {NoRegion} ELSE {r \in Regions : new[r] # {}}
    /\ inUse' = inUse \intersect OfferedIn(new)
    /\ UNCHANGED lease

(* start() and the refresh loop: the fetched pool may be anything, empty   *)
(* when every request of the fetch failed.                                 *)
Refresh ==
    \E new \in [Regions -> SUBSET Proxies] :
        /\ VendorStable =>
             \A h \in Holders : lease[h] \in OfferedIn(new) => lease[h] \in inUse
        /\ ReplacePool(new)

Next ==
    \/ \E h \in Holders :
         \/ lease[h] = NoProxy /\ \E r \in Regions \union {NoRegion} : GetProxy(h, r)
         \/ lease[h] # NoProxy /\ ReleaseProxy(h)
    \/ Refresh

Spec == Init /\ [][Next]_vars

-------------------------------------------------------------------------------
TypeOK ==
    /\ pools \in [Regions -> SUBSET Proxies]
    /\ first \in Regions \union {NoRegion}
    /\ inUse \in SUBSET Proxies
    /\ lease \in [Holders -> Proxies \union {NoProxy}]

(* A borrowed proxy that is in the pool is marked in use, across every     *)
(* refresh.                                                                *)
LeasedStaysMarked ==
    \A h \in Holders : lease[h] \in Offered => lease[h] \in inUse

(* Two holders never share a proxy. *)
ExclusiveLease ==
    \A g, h \in Holders : lease[g] = lease[h] /\ lease[h] \in Proxies => g = h

(* Every mark belongs to a holder that will clear it: a borrowed proxy     *)
(* never stays marked after its scrape.                                    *)
MarksHeld == \A p \in inUse : \E h \in Holders : lease[h] = p
===============================================================================
