------------------------------- MODULE Lifecycle -------------------------------
(***************************************************************************)
(* The life of an API process (__main__.py): startup() connects the        *)
(* database, starts the providers and the browsers and wires them; the     *)
(* requests served then use a database connection at a time                *)
(* (db/connection.py) and one context of a worker's browser                *)
(* (workers/asb_runner.py); shutdown() stops every part in turn.           *)
(*                                                                         *)
(* What surrounds them is modelled from its use: uvicorn serves only after *)
(* startup() has returned, ends the process when it raises, and calls      *)
(* shutdown() when the requests in flight have ended; asyncpg's pool       *)
(* closes when every connection has been returned.  The process may be     *)
(* killed at any moment: everything it holds goes with it.                 *)
(***************************************************************************)
EXTENDS Integers, FiniteSets

CONSTANTS
    Requests,
    N,              \* the number of workers, over all regions, in their order
    Providers,      \* the names a configuration may enable
    Null,           \* "null", the provider of direct connections
    Managed,        \* the providers with a start() and a stop()
    MaxPool,        \* max_pool of the database
    MaxContexts,    \* bound: contexts open at a time in one browser
    NoProvider, NoWorker

Workers == 1 .. N
TheDatabase == 0    \* among the workers, as a part to be stopped

ASSUME LifecycleAssumption ==
    /\ IsFiniteSet(Requests)
    /\ N \in Nat
    /\ Null \in Providers /\ Managed \subseteq Providers
    /\ MaxPool \in Nat \ {0} /\ MaxContexts \in Nat \ {0}
    /\ NoProvider \notin Providers
    /\ NoWorker \notin Workers

VARIABLES
    main,               \* where the process is
    dsn,                \* a database is configured
    enabled,            \* the providers that are
    primary, fallback,  \* the providers of the two breakers the pool is given
    database,           \* Database._pool is open
    refreshing,         \* the providers whose refresh task runs
    checker,            \* the health checker's task runs
    driver, browser,    \* the workers whose Playwright and Chromium run
    contexts,           \* the contexts open in each browser
    raised,             \* the parts whose stop raised
    pc, on, conns,      \* where each request is, its worker; those with a connection
    spoiled             \* the browsers a scrape may have left a context in: new_page()
                        \* raised, or it was cancelled opening or closing a context

config == <<dsn, enabled>>
parts == <<database, refreshing, checker, driver, browser, raised>>
providers == <<primary, fallback>>
requests == <<pc, on, conns, contexts, spoiled>>
vars == <<main, config, providers, parts, requests>>

Init ==
    /\ main = "down"
    /\ dsn = FALSE /\ enabled = {}
    /\ primary = NoProvider /\ fallback = NoProvider
    /\ database = FALSE /\ refreshing = {} /\ checker = FALSE
    /\ driver = {} /\ browser = {}
    /\ contexts = [w \in Workers |-> 0]
    /\ raised = {}
    /\ pc = [r \in Requests |-> "none"]
    /\ on = [r \in Requests |-> NoWorker]
    /\ conns = {} /\ spoiled = {}

-------------------------------------------------------------------------------
(* startup() *)

Boot ==
    /\ main = "down"
    /\ dsn' \in BOOLEAN
    /\ enabled' \in SUBSET Providers
    /\ main' = IF dsn' THEN "connect" ELSE "providers"
    /\ UNCHANGED <<providers, parts, requests>>

ConnectDatabase ==
    /\ main = "connect"
    /\ database' = TRUE
    /\ main' = "migrate"
    /\ UNCHANGED <<config, providers, refreshing, checker, driver, browser, raised, requests>>

(* run_migrations(): every statement of it may be run again. *)
Migrate ==
    /\ main = "migrate"
    /\ main' = "providers"
    /\ UNCHANGED <<config, providers, parts, requests>>

(* ProviderRegistry.start_all(), one provider after the other. *)
StartProvider ==
    /\ main = "providers"
    /\ \E p \in (enabled \cap Managed) \ refreshing : refreshing' = refreshing \union {p}
    /\ UNCHANGED <<main, config, providers, database, checker, driver, browser, raised, requests>>

(* Mutant of Breakers: the fallback that took the primary's place stays    *)
(* the fallback too.                                                       *)
BreakersKept(p, f, on_) ==
    LET second == IF f # p /\ f \in on_ THEN f ELSE NoProvider IN
    IF p \in on_ THEN <<p, second>>
    ELSE IF second # NoProvider THEN <<second, second>>
    ELSE <<Null, NoProvider>>

(* The primary and the fallback breaker for the configured names p and f:  *)
(* of the enabled providers, the fallback in the primary's place, or null. *)
Breakers(p, f, on_) ==
    LET second == IF f # p /\ f \in on_ THEN f ELSE NoProvider IN
    IF p \in on_ THEN <<p, second>>
    ELSE IF second # NoProvider THEN <<second, NoProvider>>
    ELSE <<Null, NoProvider>>

(* The breakers are wired, the health checker started.  With null needed   *)
(* and not enabled registry.get() raises.                                  *)
WireBreakers ==
    /\ main = "providers"
    /\ enabled \cap Managed \subseteq refreshing
    /\ \E p, f \in Providers :
         LET chosen == Breakers(p, f, enabled) IN
         /\ chosen[1] \in enabled
         /\ primary' = chosen[1] /\ fallback' = chosen[2]
    /\ checker' = TRUE
    /\ main' = "workers"
    /\ UNCHANGED <<config, database, refreshing, driver, browser, raised, requests>>

(* RegionWorkerPool.start_all() starts one worker after the other. *)
NextToStart(w) == w \notin browser /\ 1 .. w - 1 \subseteq browser

(* ASBRunner.__aenter__(): Playwright, then Chromium. *)
StartWorker ==
    /\ main = "workers"
    /\ \E w \in Workers :
         /\ NextToStart(w)
         /\ IF w \notin driver THEN driver' = driver \union {w} /\ UNCHANGED browser
            ELSE browser' = browser \union {w} /\ UNCHANGED driver
    /\ UNCHANGED <<main, config, providers, database, refreshing, checker, raised, requests>>

(* Every browser runs; the stores are wired and the process serves. *)
Serve ==
    /\ main = "workers"
    /\ browser = Workers
    /\ main' = "serving"
    /\ UNCHANGED <<config, providers, parts, requests>>

-------------------------------------------------------------------------------
(* Requests. *)

Goto(r, step) == pc' = [pc EXCEPT ![r] = step]

Begin(r) ==
    /\ main = "serving" /\ pc[r] = "none"
    /\ Goto(r, "check")
    /\ UNCHANGED <<main, config, providers, parts, on, conns, contexts, spoiled>>

(* A step with a query of its own. *)
Querying(r) == pc[r] \in {"check", "record"}

(* db.acquire(): a connection of the pool, when one is free. *)
Connect(r) ==
    /\ Querying(r) /\ dsn /\ r \notin conns
    /\ Cardinality(conns) < MaxPool
    /\ conns' = conns \union {r}
    /\ UNCHANGED <<main, config, providers, parts, pc, on, contexts, spoiled>>

(* Mutant of Returned: a failing query skips the release. *)
ReturnedOnSuccess(r, good) == IF good THEN conns \ {r} ELSE conns

(* db.release(), in the `finally' of every query. *)
Returned(r, good) == conns \ {r}

(* The key and its quota are checked, or the usage row is written; or the  *)
(* query raises.  Without a database the stores are in memory.             *)
Query(r) ==
    /\ Querying(r) /\ (dsn => r \in conns)
    /\ \E good \in BOOLEAN :
         /\ conns' = Returned(r, good)
         /\ Goto(r, IF pc[r] = "check" /\ good THEN "lease" ELSE "none")
    /\ on' = [on EXCEPT ![r] = NoWorker]
    /\ UNCHANGED <<main, config, providers, parts, contexts, spoiled>>

Lease(r) ==
    /\ pc[r] = "lease"
    /\ \E w \in Workers \ {on[q] : q \in Requests} : on' = [on EXCEPT ![r] = w]
    /\ Goto(r, "context")
    /\ UNCHANGED <<main, config, providers, parts, conns, contexts, spoiled>>

(* run(): a context of the worker's browser.  It may raise; so may what    *)
(* precedes it, a proxy that is not to be had.                             *)
NewContext(r) ==
    LET w == on[r] IN
    /\ pc[r] = "context"
    /\ \/ /\ w \in browser /\ contexts[w] < MaxContexts
          /\ contexts' = [contexts EXCEPT ![w] = @ + 1]
          /\ Goto(r, "page")
       \/ /\ Goto(r, "record")
          /\ UNCHANGED contexts
    /\ UNCHANGED <<main, config, providers, parts, on, conns, spoiled>>

(* new_page(), still before the `try' whose `finally' closes the context:  *)
(* when it raises the context stays open.                                  *)
NewPage(r) ==
    /\ pc[r] = "page"
    /\ \/ Goto(r, "goto") /\ UNCHANGED spoiled
       \/ Goto(r, "record") /\ spoiled' = spoiled \union {on[r]}
    /\ UNCHANGED <<main, config, providers, parts, on, conns, contexts>>

(* Mutant of Visit: the context is closed after a success only. *)
VisitAndClose(r) ==
    /\ pc[r] = "goto"
    /\ contexts' \in {contexts, [contexts EXCEPT ![on[r]] = @ - 1]}
    /\ Goto(r, "record")
    /\ UNCHANGED <<main, config, providers, parts, on, conns, spoiled>>

(* The page is visited, well or not, and the context closed. *)
Visit(r) ==
    /\ pc[r] = "goto"
    /\ contexts' = [contexts EXCEPT ![on[r]] = @ - 1]
    /\ Goto(r, "record")
    /\ UNCHANGED <<main, config, providers, parts, on, conns, spoiled>>

(* The task of the request is cancelled where it is suspended.  The        *)
(* `finally's return its connection and its worker, and once it has a page *)
(* its context is closed.  A context asked for is left open, whether       *)
(* new_context() or new_page() was under way, and so is one whose close()  *)
(* the cancellation meets before the browser has been told.                *)
Cancel(r) ==
    LET w == on[r]
        Left == spoiled' = spoiled \union {w}
    IN
    /\ pc[r] # "none"
    /\ \/ /\ pc[r] = "goto"
          /\ contexts' = [contexts EXCEPT ![w] = @ - 1]
          /\ UNCHANGED spoiled
       \/ pc[r] \in {"page", "goto"} /\ Left /\ UNCHANGED contexts
       \/ /\ pc[r] = "context" /\ w \in browser /\ contexts[w] < MaxContexts
          /\ contexts' = [contexts EXCEPT ![w] = @ + 1]
          /\ Left
       \/ pc[r] \notin {"page", "goto"} /\ UNCHANGED <<contexts, spoiled>>
    /\ conns' = conns \ {r}
    /\ on' = [on EXCEPT ![r] = NoWorker]
    /\ Goto(r, "none")
    /\ UNCHANGED <<main, config, providers, parts>>

Serving(r) ==
    \/ Query(r) \/ NewContext(r) \/ NewPage(r) \/ Visit(r)

-------------------------------------------------------------------------------
(* shutdown() *)

Signal ==
    /\ main = "serving"
    /\ main' = "draining"
    /\ UNCHANGED <<config, providers, parts, requests>>

(* The requests have ended; the health checker's task is cancelled. *)
StopChecker ==
    /\ main = "draining"
    /\ \A r \in Requests : pc[r] = "none"
    /\ checker' = FALSE
    /\ main' = "pool"
    /\ UNCHANGED <<config, providers, database, refreshing, driver, browser, raised, requests>>

(* Mutant of AfterRaise: no `try' around it; shutdown() ends. *)
AfterRaiseEnds(step) == "stopped"

(* Where shutdown() goes on after a part's stop has raised. *)
AfterRaise(step) == step

(* RegionWorkerPool.stop_all() stops one worker after the other. *)
NextToStop(w) == \A v \in driver : w <= v

(* ASBRunner.__aexit__(): the browser, then Playwright; the first worker   *)
(* to raise ends the loop.                                                 *)
StopWorker ==
    /\ main = "pool"
    /\ \E w \in driver :
         /\ NextToStop(w)
         /\ \/ /\ IF w \in browser
                  THEN /\ browser' = browser \ {w}
                       /\ contexts' = [contexts EXCEPT ![w] = 0]
                       /\ spoiled' = spoiled \ {w}
                       /\ UNCHANGED driver
                  ELSE driver' = driver \ {w} /\ UNCHANGED <<browser, contexts, spoiled>>
               /\ UNCHANGED <<main, raised>>
            \/ /\ raised' = raised \union {w}
               /\ main' = AfterRaise("registry")
               /\ UNCHANGED <<driver, browser, contexts, spoiled>>
    /\ UNCHANGED <<config, providers, database, refreshing, checker, pc, on, conns>>

(* ProviderRegistry.stop_all(), one provider after the other. *)
StopProviders ==
    /\ \/ main = "pool" /\ driver = {} /\ main' = "registry" /\ UNCHANGED refreshing
       \/ /\ main = "registry" /\ refreshing = {}
          /\ main' = "database"
          /\ UNCHANGED refreshing
       \/ /\ main = "registry"
          /\ \E p \in refreshing : refreshing' = refreshing \ {p}
          /\ UNCHANGED main
    /\ UNCHANGED <<config, providers, database, checker, driver, browser, raised, requests>>

(* disconnect(): asyncpg's close() waits for the connections in use.       *)
Disconnect ==
    /\ main = "database"
    /\ \/ ~database /\ UNCHANGED <<database, raised>>
       \/ /\ database /\ conns = {}
          /\ \/ database' = FALSE /\ UNCHANGED raised
             \/ raised' = raised \union {TheDatabase} /\ UNCHANGED database
    /\ main' = "stopped"
    /\ UNCHANGED <<config, providers, refreshing, checker, driver, browser, requests>>

(* The process ends: startup() raised, shutdown() returned or it is killed *)
Exit ==
    /\ main # "down" /\ main' = "down"
    /\ dsn' = FALSE /\ enabled' = {}
    /\ primary' = NoProvider /\ fallback' = NoProvider
    /\ database' = FALSE /\ refreshing' = {} /\ checker' = FALSE
    /\ driver' = {} /\ browser' = {}
    /\ contexts' = [w \in Workers |-> 0]
    /\ raised' = {}
    /\ pc' = [r \in Requests |-> "none"]
    /\ on' = [r \in Requests |-> NoWorker]
    /\ conns' = {} /\ spoiled' = {}

Shutdown == StopChecker \/ StopWorker \/ StopProviders \/ Disconnect

Next ==
    \/ Boot \/ ConnectDatabase \/ Migrate \/ StartProvider \/ WireBreakers \/ StartWorker \/ Serve
    \/ \E r \in Requests : Begin(r) \/ Connect(r) \/ Lease(r) \/ Serving(r) \/ Cancel(r)
    \/ Signal \/ Shutdown \/ Exit

(* Calls of the database and of the browser end; connections and workers   *)
(* go to the requests that wait for them in turn.  No cancellation need    *)
(* ever come.                                                              *)
Fairness ==
    /\ WF_vars(Shutdown)
    /\ \A r \in Requests : SF_vars(Connect(r)) /\ SF_vars(Lease(r)) /\ WF_vars(Serving(r))

Spec == Init /\ [][Next]_vars /\ Fairness

-------------------------------------------------------------------------------
(* Every variable has its type. *)
TypeOK ==
    /\ main \in {"down", "connect", "migrate", "providers", "workers", "serving",
                 "draining", "pool", "registry", "database", "stopped"}
    /\ dsn \in BOOLEAN /\ enabled \subseteq Providers
    /\ primary \in Providers \union {NoProvider}
    /\ fallback \in Providers \union {NoProvider}
    /\ database \in BOOLEAN /\ refreshing \subseteq Managed /\ checker \in BOOLEAN
    /\ driver \subseteq Workers /\ browser \subseteq Workers
    /\ contexts \in [Workers -> Nat]
    /\ raised \subseteq Workers \union {TheDatabase}
    /\ pc \in [Requests -> {"none", "check", "lease", "context", "page", "goto", "record"}]
    /\ on \in [Requests -> Workers \union {NoWorker}]
    /\ conns \subseteq Requests /\ spoiled \subseteq Workers

(* Requests are served only by a process whose every part runs, whatever   *)
(* the configuration and whatever fails on the way up or down: the         *)
(* database, the refresh of each provider, the health checker and every    *)
(* browser; and the two breakers are of different, enabled providers.      *)
ReadyToServe ==
    main \in {"serving", "draining"} \/ (\E r \in Requests : pc[r] # "none") =>
        /\ database = dsn
        /\ refreshing = enabled \cap Managed
        /\ checker
        /\ browser = Workers
        /\ primary \in enabled
        /\ fallback \in enabled \union {NoProvider} /\ fallback # primary

(* A browser holds exactly the context of the scrape that uses it: none    *)
(* outlives its scrape, however the visit ends and wherever the scrape is  *)
(* cancelled, but in a browser where new_page() has raised or a            *)
(* cancellation has met new_context(), new_page() or close().              *)
ContextsClosed ==
    \A w \in browser \ spoiled :
        contexts[w] = Cardinality({r \in Requests : on[r] = w /\ pc[r] \in {"page", "goto"}})

(* A worker or a database that refuses to stop spares no other part: no    *)
(* refresh task and no health checker outlives shutdown(), and the pool of *)
(* connections only by its own refusal.  It says nothing of the workers:   *)
(* those behind the first that raises are left running (pool.py, stop_all) *)
(* although "Shutdown must stop all browser workers." (SPEC.md:512).       *)
StopsTheRest ==
    main = "stopped" =>
        /\ database => TheDatabase \in raised
        /\ refreshing = {} /\ ~checker

(* A process told to stop does: every request in flight ends, although     *)
(* they share the connections and the workers, and none keeps a connection *)
(* that the closing of the pool would wait for.                            *)
ShutdownEnds == main = "draining" ~> main \in {"stopped", "down"}
================================================================================
