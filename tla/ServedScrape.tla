----------------------------- MODULE ServedScrape -----------------------------
(***************************************************************************)
(* Requests and their scrapes together: _execute_one_scrape                *)
(* (ScrapeEndpoint.tla) calls scrape() of the worker it has leased         *)
(* (ScrapeWorker.tla) and is suspended until the call returns.  All        *)
(* requests share the breakers and the Decodo pool through their workers.  *)
(*                                                                         *)
(* What ScrapeEndpoint takes for one step, Scrape or Fail, is here a call, *)
(* the steps of the worker, and its return; what ScrapeWorker takes for    *)
(* granted, that a worker is called when it is idle, is here what the      *)
(* leases of the requests have to see to.                                  *)
(***************************************************************************)
EXTENDS ScrapeWorker

CONSTANTS
    Requests, Keys, Sessions, Names, Region,    \* as in ScrapeEndpoint
    NoKey, NoSession, NoWorker, NoRequest

ASSUME ServedScrapeAssumption ==
    /\ NoKey \notin Keys
    /\ NoSession \notin Sessions
    /\ NoWorker \notin Workers
    /\ NoRegion # Region
    /\ NoRequest \notin Requests

VARIABLES
    persistent, status, expired, owner, jar,    \* the session store
    lease, demand,                              \* the worker pool
    at,                                         \* where each request is
    who, sess, cookies, ok,                     \* its locals
    serves,      \* the request whose `await worker.scrape()' each worker runs
    cancelled    \* the workers whose call a CancelledError goes through

Endpoint == INSTANCE ScrapeEndpoint WITH pc <- at

routes == <<persistent, status, expired, owner, jar, lease, demand, at, who, sess, cookies, ok>>
calls == <<serves, cancelled>>
servedVars == <<vars, routes, calls>>

ServedInit ==
    /\ Init
    /\ Endpoint!Init
    /\ serves = [w \in Workers |-> NoRequest]
    /\ cancelled = {}

-------------------------------------------------------------------------------
(* The request has its worker and calls it. *)
Call(r) ==
    LET w == lease[r] IN
    /\ at[r] = "scrape"
    /\ \A v \in Workers : serves[v] # r
    /\ \E q \in Requested : Begin(w, q)
    /\ serves' = [serves EXCEPT ![w] = r]
    /\ UNCHANGED <<routes, cancelled>>

(* The worker goes on with the call. *)
Serve(w) ==
    /\ Work(w)
    /\ pc'[w] # "idle"
    /\ UNCHANGED <<routes, calls>>

(* Mutant of CancelCall: the request goes on without waiting for the       *)
(* `finally' of scrape(), as if the call were shielded.                    *)
CancelCallDetached(w) ==
    /\ pc[w] \in {"primary", "fallback", "run"}
    /\ Endpoint!Fail(serves[w])
    /\ UNCHANGED <<vars, calls>>

(* The task of the request is cancelled where the worker is suspended. *)
CancelCall(w) ==
    /\ Cancel(w)
    /\ cancelled' = cancelled \union {w}
    /\ UNCHANGED <<routes, serves>>

(* scrape() returns its response, a success or an error, or raises the     *)
(* CancelledError.                                                         *)
Return(w) ==
    LET r == serves[w] IN
    /\ Finish(w)
    /\ \/ w \notin cancelled /\ Endpoint!Scrape(r) /\ ok'[r] = ~failed[w]
       \/ w \in cancelled /\ Endpoint!Fail(r)
    /\ serves' = [serves EXCEPT ![w] = NoRequest]
    /\ cancelled' = cancelled \ {w}

(* A step of the routes, the pool and the sessions outside of such calls. *)
RouteStep ==
    /\ Endpoint!Next
    /\ \A r \in Requests : at[r] = "scrape" => at'[r] = "scrape"
    /\ UNCHANGED <<vars, calls>>

Environment ==
    /\ Refresh \/ HealthCheck \/ Tick
    /\ UNCHANGED <<routes, calls>>

ServedNext ==
    \/ \E r \in Requests : Call(r)
    \/ \E w \in Workers : Serve(w) \/ CancelCall(w) \/ Return(w)
    \/ RouteStep
    \/ Environment

ServedSpec == ServedInit /\ [][ServedNext]_servedVars

-------------------------------------------------------------------------------
(* A worker is in scrape() exactly while a request that holds it waits for *)
(* the call; a request that is about to call its worker finds it idle.     *)
(* No failure, cancellation or early release runs two scrapes on a worker, *)
(* or a scrape on a worker that is free for others.                        *)
ScrapesUnderLease ==
    /\ \A w \in Workers : pc[w] # "idle" =>
         \E r \in Requests : serves[w] = r /\ lease[r] = w /\ at[r] = "scrape"
    /\ \A r \in Requests :
         at[r] = "scrape" /\ (\A v \in Workers : serves[v] # r) => pc[lease[r]] = "idle"

(* Every mark of the Decodo pool is that of a request that is still in its *)
(* scrape() call: when a request goes on to save its session's cookies, to *)
(* record its usage or to give its worker back, its proxy has gone back.   *)
MarksOfRequests ==
    \A p \in inUse :
        \E r \in Requests : at[r] = "scrape" /\ lease[r] \in Workers /\ proxy[lease[r]] = p

(* Two requests, of whichever keys, never scrape through one Decodo proxy. *)
ProxyOfOneRequest ==
    \A q, r \in Requests :
        /\ {at[q], at[r]} = {"scrape"}
        /\ proxy[lease[q]] = proxy[lease[r]] /\ proxy[lease[r]] \in Proxies
        => q = r
===============================================================================
