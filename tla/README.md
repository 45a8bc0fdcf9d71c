# ASB Cloud API: formal model

TLA+ modules of the server in `asb_api/`, the configurations under which TLC
checks them, and the theorems about them that TLAPS proves. `PROJECT.json`
relates every definition to the lines it models, every property to a run and to
a mutant of the code that breaks it, and lists the hazards of the code at the
lines where they bite.

To check a run: `tlc -config WorkerPool.cfg MCWorkerPool.tla`; to check the
proofs of a module: `tlapm WorkerPoolProofs.tla`.

## 1. The system

A customer posts a URL; the server leases a browser worker, borrows a proxy,
loads the page and answers with its HTML and cookies. One asyncio event loop
runs everything, so between two `await`s nothing interleaves; all concurrency
is at the `await`s. Several API processes may share one PostgreSQL database.

| Component | State | Operations | Talks to |
| --- | --- | --- | --- |
| Scrape and bulk endpoint, `api/routes/scrape.py` | locals of the request | scrape, bulk scrape | limiter, session store, worker pool, usage tracker |
| Rate limiters, `api/rate_limiter.py`, `db/rate_limiter.py` | times of admitted requests; advisory locks and usage rows | `check`, `check_many` | usage rows |
| Session stores, `session/store.py`, `db/session_store.py` | sessions with owner, cookies, expiry, deletion | create, get, update, delete | called by the routes |
| Worker pool, `workers/pool.py` | a semaphore, a lock and a list of workers per region | `acquire`, `release`, start and stop | workers |
| Scrape worker, `workers/worker.py` | the breaker that lent the current proxy | `scrape` | breakers, fingerprint, browser |
| Circuit breaker and health checker, `providers/health.py` | state, failure count, time of the last failure | `get_proxy`, `release_proxy`, periodic check | providers |
| Providers, `providers/*.py` | Decodo: offered proxies, marks of those in use | `get_proxy`, `release_proxy`, refresh | vendors |
| Usage, `db/usage.py`, `jobs/daily_rollup.py`, `api/usage.py` | usage rows, daily totals | record, sum, overage, rollup | limiter, routes |
| Billing, `api/routes/webhooks.py`, `db/auth_store.py`, `billing/` | recorded events, billing columns of a key | webhook, checkout, licences | Stripe |
| Keys, `api/auth.py`, `db/auth_store.py`, `admin.py` | the rows of `api_keys` | create, revoke, find; the updates of billing | every route, webhook |
| Errors and URL safety, `api/errors.py`, `security.py` | none | exception to code, URL to exception | routes |
| Lifecycle, `__main__.py`, `providers/__init__.py`, `db/connection.py`, `workers/asb_runner.py` | the wired parts, connections, browsers and their contexts | startup, shutdown | all of them |
| Configuration, fingerprints, views, clients | see `PROJECT.json` | | |

What makes each of them correct, and what makes that hard:

- **Worker pool.** A permit is never lost or forged, a lease is exclusive, a
  waiter is served in order. Hard because a permit is handed to a suspended
  waiter that may be cancelled before it runs (a client that went away, or the
  `asyncio.wait_for` of `tests/test_worker_regressions.py`), while newcomers and
  releases act on the same semaphore, and because a request for an unknown
  region is routed to another one.
- **Circuit breaker.** Opens at the threshold, closes only through a probe,
  never stays open for ever. Hard because the provider call runs outside the
  lock, and the health checker writes state without it.
- **Decodo pool and scrape worker.** A proxy is lent to one worker at a time and
  always goes back to the provider that lent it. Hard because a refresh replaces
  the pool under the borrowers, and a scrape may fail over, fail or be cancelled
  anywhere.
- **Limiters.** No more than the limit in a window. Hard because of inclusive
  boundaries, batches, and, in PostgreSQL, because the rows that are counted are
  written only after the scrape.
- **Sessions.** Cookies stay with their key, deleted and expired sessions stay
  so, live ones keep their cookies. Hard because a scrape reads the session,
  waits, and writes it back much later.
- **Bulk scrape.** Every item paid for and answered in its place, none waiting
  for ever. Hard because items overtake one another and fail in many ways, each
  of which must look as it does when scraped alone.
- **Usage.** No row counted twice, no day rolled up before it is over, nobody
  refused for what was not used. Hard because midnight, the rollup job and late
  rows fall between the queries of a check.
- **Billing.** Every event applied once, a tier moved only by what its key
  bought, a licence on one key. Hard because deliveries repeat, overlap, arrive
  in any order and are interrupted, while keys are created and revoked.
- **Lifecycle.** Serving only when everything runs; stopping everything that can
  be stopped. Hard because every part may fail to start or to stop, requests
  share connections and may be cancelled anywhere, and the browser contexts of
  a run must not outlive it.

## 2. The modules

| Module | Models | Built on |
| --- | --- | --- |
| `LeasePool` | abstract: workers leased one caller at a time, nobody waits for ever | |
| `WorkerPool` | `RegionWorkerPool` with CPython 3.11's `BoundedSemaphore` | implements `LeasePool` |
| `CircuitBreaker` | `CircuitBreaker`, `ProviderHealthChecker` | |
| `DecodoProvider` | `DecodoProvider` | |
| `ScrapeWorker` | `ASBWorker.scrape` | instances of `CircuitBreaker`, `DecodoProvider` |
| `Quota` | abstract: at most `Limits[k]` requests accounted | |
| `SlidingWindowLimiter` | `SlidingWindowLimiter` | implements `Quota` |
| `ErrorContract` | the checks of a URL, and the codes of a call's and of an item's failure | |
| `BulkScrape` | `scrape` and `bulk_scrape` with their admission, semaphore and answer | extends `SlidingWindowLimiter`, `ErrorContract` |
| `PostgresRateLimiter` | `PostgresRateLimiter.check_many`, the requests it admits and their usage rows | implements `Quota` with a slack |
| `UsageAccounting` | `PostgresUsageTracker`, the rollup job, the days | extends and implements `PostgresRateLimiter` |
| `ScrapeEndpoint` | `_execute_one_scrape`, both session stores, session deletion and expiry | instance of `LeasePool` |
| `ServedScrape` | `_execute_one_scrape` calling `ASBWorker.scrape` of the worker it leased | extends `ScrapeWorker`, instance of `ScrapeEndpoint` |
| `KeyStore` | `PostgresKeyStore`: the table `api_keys` and its statements | |
| `StripeWebhook` | the checkouts, `stripe_webhook`, `create-key` and `revoke-key` | extends `KeyStore` |
| `Lifecycle` | `startup`, `shutdown`, `start_all`, `stop_all`, database connections, browser contexts | |
| `*Proofs` | the theorems of section 4, those of `PostgresRateLimiter` in `UsageAccountingProofs`, those of `ScrapeWorker` in `ServedScrapeProofs` | extend their module; `ServedScrapeProofs` is also an instance of `CircuitBreakerProofs` and of `ScrapeEndpointProofs` |
| `MC*` | the constants of the runs | extend their module |

An action is what one task does between two suspensions. State keeps the name of
the attribute or column where there is one (`inUse` is `_in_use`, `leaseRegion`
is `_lease_region`, `stripeEvents` the table `stripe_events`); a `pc` says where
in its coroutine a task is suspended. Definitions called "Mutant of" another are
plausible mistakes: each property is shown to notice one, none is used by a
specification.

`Quota` is implemented twice: by the in-memory limiter with its limits, and by
the PostgreSQL limiter only with a slack of what the other requests in flight
may add (`ImplementsLooseQuota`), which is finding 2 in the form of a
refinement.

The components meet as follows. `ScrapeEndpoint` uses the pool through what
`LeasePool` promises, and `WorkerPool` is checked to keep that promise, liveness
included. `ScrapeWorker` runs the actions of `CircuitBreaker` and
`DecodoProvider` themselves; `UsesBreakers` says that it drives the breakers as
`CircuitBreaker` allows, so what holds there holds here. A scrape of
`ScrapeEndpoint` is one `Scrape` step, and a worker of `ScrapeWorker` is called
when it is idle; `ServedScrape` runs the two together, with a call, the steps of
the worker and its return in the place of that one step. It is proved to
implement both (`ImplementsRoutes`, `ServesAsWorkers`). The
rows of `PostgresRateLimiter` are those `ScrapeEndpoint` writes last;
`UsageAccounting` sorts them into days and decides with them the overage check
that `PostgresRateLimiter` leaves open. An item of `BulkScrape` is one scrape of
`ScrapeEndpoint`. `BulkScrape` runs the actions of the in-memory limiter, so the
properties of the limiter are checked on calls the routes really make.
`Lifecycle` surrounds them all: what the other modules take as running is what
`ReadyToServe` says of a process that serves.

### Abstractions, and why they are sound

- **Time.** The breaker's clock is the age of `last_failure`, up to one tick
  past the timeout; the window limiter's times are ages, up to one tick past
  the window; the code tells apart nothing older. The ages of usage rows are
  dropped altogether: any row may leave the window at any time, which allows
  more than the code does. Clocks do not step back (a listed hazard).
- **Counts.** `failures` saturates at the threshold, beyond which the code does
  not distinguish counts.
- **Data.** Cookies are told apart by the key whose scrape received them;
  pages, fingerprints and proxies' credentials do not occur. Proxies of
  providers without account are one value, `Session`.
- **Billing.** A checkout and its completion at Stripe are one step, and every
  checkout has a customer of its own, as the sessions are created without one.
  `pro` stands for the tiers that are sold, `enterprise` for a tier an operator
  gave a key. A
  row of `api_keys` is identified by its position, in the order of `created_at`.
- **Usage.** The rows of a request are inserted one after the other; rows of
  other items are those of other requests.
- **Sessions.** Deleting one is one step; the code reads it, checks the owner
  and deletes it in three. In between it can only expire or be deleted, which
  its deletion repeats, and owners never change.
- **Licences.** `add_license` also takes a key's identifier. The licence checkout
  sends no `key_id`, so the webhook always gives it an address, and that branch
  is left out.
- **Advisory locks.** A `pg_try_advisory_lock` cancelled in flight takes no
  lock. In PostgreSQL it may, until asyncpg resets the connection on its way
  back to the pool; checks that find the lock taken in that moment try again and
  refuse, as they do here while another check has it, but `LockHeldByChecker`
  says nothing of that moment.
- **Dates.** `rollup_daily` passes its date as text, which asyncpg refuses for a
  `DATE`, so that in production the statement raises. The model has that branch
  and also the one in which it succeeds, the more permissive of the two.
- **URLs.** Whether a host is private is a free choice: DNS is external.
- **Yielding.** In `ScrapeWorker` a call suspends in both providers, also where
  Decodo's would not: more interleavings than there are.

## 3. The runs

All runs together take about twelve minutes on two cores.

| Run | States | What it shows |
| --- | --- | --- |
| `worker_pool` | 4 callers, regions of 2 and 1 workers, an unknown region | permits balance, `acquire` and `release` never raise, no wake-up is lost, nobody is overtaken, waiters are served, `LeasePool` is implemented |
| `circuit_breaker` | 2 providers, 2 overlapping calls, threshold 2 | never closed at the threshold, only legal edges, recovery once the provider is up, an open breaker is probed again |
| `served_scrape` | 2 requests without a session, 2 workers, BrightData in front of Decodo with one proxy, two regions | a worker scrapes exactly while the request that holds it waits for it, exclusive leases of proxies, which are back before their request goes on; the response names the true provider, breakers never bypassed, no scrape is ever stuck |
| `proxy_reoffered` | the workers alone, vendor not stable | finding 1 |
| `sliding_window` | `scrape` and `bulk_scrape` over keys with 3 requests in 2 ticks or no limit, batches of 0 to 4, 1 or 2 slots, as asked for with 0, 1 or 3, three kinds of exception | the limiter is a quota, and refuses only when full; every item is paid for and answered in its place with the code it has alone; slots and running items balance, every call ends |
| `postgres_limiter` | 2 requests of one paid key, batches up to 2, limit 2, daily allowance 1, 2 days | locks are held exactly while counting, the limiter is a quota with a slack, which bounds the overshoot, every check answers, rollups count no row twice, refusals for overage are due |
| `quota_exceeded` | the limiter alone, 3 requests | finding 2 |
| `scrape_endpoint` | 2 requests, 2 keys, 1 session, 1 worker, either store | the worker is held exactly while needed, cookies stay with their key, only its owner's scrapes write to a session, dead sessions stay dead, every request ends |
| `session_cookies_lost` | as before | finding 3 |
| `stripe_webhook` | up to 2 keys of 2 addresses, 2 purchases with their events, 2 deliveries at a time, a crash or failure | each event is applied at most once; one that nothing interrupts is lost only for want of a row: a licence without a valid key, a report on a subscription its key does not hold; a licence is on one key of its buyer, a tier moves only with what its key bought |
| `webhook_effect_lost` | as before | finding 4 |
| `lifecycle` | 2 requests that may be cancelled, 2 workers, 1 connection, 3 providers enabled or not, with and without a database | served only when every part runs, contexts closed with their scrape, no refusal to stop spares a refresh task, the health checker or the database, and shutdown ends |

Why these bounds are enough for the interesting cases. *Pool:* four callers on
one worker make a holder, a granted waiter and a queue of two behind it, the
case in which a wrong wake-up shows; the second region and the unknown one make
misrouting visible. *Breaker:* with two calls in flight, one outcome is always
older than the state it meets; a threshold of two is the least that has a count
between closed and open. *Served scrape:* two requests on two workers overlap in
every pair of places of a scrape; one proxy and two workers make every
second borrower meet an exhausted pool; two regions let the same proxy be
offered twice and let a request fall through to another region. Sessions, which
no worker looks at, are left to `scrape_endpoint`, so that one of the two stores
will do; requests are alike, as are
workers, and no liveness is checked there. *PostgreSQL
limiter:* two requests of batches up to two against a limit of two overshoot
and contend for the lock, through both tries; the one midnight falls between any
two steps, and an allowance of one is exceeded by two rows, which a late row or
a second rollup can bring about. *Bulk:* three items on two slots make one wait,
overtake and fail in one batch; one call at a time suffices, as calls meet in
the limiter only, and there in one step. *Endpoint:* two requests on one
session and one worker make one wait, with the session read, while the other
holds it. *Billing:* two handlers overlap on one event or on two events
of a purchase, a second purchase and a second key are what the first can be
confused with, and one accident hits a delivery whose redelivery follows.
Handlers are symmetric and no liveness is checked there. *Lifecycle:* two
workers give `stop_all` one behind the first that raises, two requests on one
connection and two browsers one that waits for each. `CHECK_DEADLOCK FALSE` is
set where everything has been delivered and the model may stop
(`StripeWebhook`).

`VendorStable` in `served_scrape` assumes that the vendor does not offer a proxy
again that it withdrew while it was borrowed. Without it leases are not
exclusive: that is finding 1.

**Findings.** (1) A refresh whose fetch fails empties the pool and drops the
marks of borrowed proxies; the next one offers them again, and they are lent
twice (`providers/decodo.py:61`). (2) The PostgreSQL limiter counts rows that
are written after the scrape, so requests in flight together all pass
(`db/rate_limiter.py:79`). (3) A failed scrape overwrites the cookies of its
session with none (`api/routes/scrape.py:119`). (4) A webhook event is recorded
before it is applied, so a failure between the two loses its effect for good: a
checkout is acknowledged and never upgrades its key
(`api/routes/webhooks.py:55`).

**Fairness.** A task whose future is done is run by the event loop, and a lease
or a call ends because the page load, httpx and the database have timeouts:
weak fairness of `Resume`, `Release`, `Answer`, `Check`, `Step`, `Record`.
`RecoversWhenUp` and `DownThenProbed` also need calls that keep coming, since
nothing but a call probes a breaker: strong fairness of `Enter`, as the gate
may shut again before a caller comes. `ScrapeEndpoint` assumes for a waiting
request what `WorkerPool` shows, that its turn comes if the worker is given back
again and again (strong fairness of `Acquire` alone: `acquire()` has no timeout
and nobody is made to give up, so one worker that does not come back strands
whoever waits for it, and `RequestEnds` fails), and `Lifecycle` the same of connections, which asyncpg hands out in
turn, and workers (strong fairness of `Connect` and `Lease`); the steps of
`shutdown()` follow one another (weak fairness of `Shutdown`). Nowhere is a
cancellation, a failure or a crash forced to happen. The items of a
batch run because the semaphore is a queue and scrapes end (weak fairness of
`RunItems` and `Answer`). `StripeWebhook`, `ScrapeWorker` and `ServedScrape`
state none: a redelivery that never comes breaks no safety property, and
`NeverStuck` says instead that a scrape always has a next step.

## 4. The theorems

TLAPS proves these for every value of the constants that the named assumptions
allow (finite sets of callers, handlers, regions and requests; special values
outside the sets they mark; a threshold of at least two).

| Module | Theorems |
| --- | --- |
| `WorkerPoolProofs` | `TypeCorrect`, `PermitsConserved`, `NeverRaises`, `LeasesExact`, `WakeupsKept`, `ImplementsLeases`, `ServedInOrder` |
| `CircuitBreakerProofs` | `TypeCorrect`, `ThresholdOpens`, `EdgesOnly` |
| `ServedScrapeProofs` | of `ScrapeWorker`: `MarksReturned`, `NamesSupplier`, `LeasesMarked`, `LeasesExclusive`, `DrivesBreakers`, `BreakersInvariance`, `ScrapesOpenBreakers`, `ScrapesKeepEdges`, `ScrapeGoesOn`, `ScrapeAdvances`; with the requests: `ServedInvariance`, `ServesAsWorkers`, `ImplementsRoutes`, `CallsLeased`, `MarksEndWithCalls`, `ProxiesOfRequests`, `CookiesKeptWhenServed`, `ServedGoesOn` |
| `BulkScrapeProofs` | `LimiterIsQuota`, `BulkInvariance`, `QuotaImplemented`, `RefusedWhenFull`, `RemainderReported`, `SlotsConserved`, `NeverStranded`, `CallsProgress`, `PaidPerItem`, `AnswersCorrect` |
| `UsageAccountingProofs` | of `PostgresRateLimiter`: `TypeCorrect`, `LocksHeld`, `OvershootLimited`, `ExactWhenSequential`, `LimiterIsLooseQuota`; with the usage rows: `UsageInvariance`, `RollupsCorrect`, `ImplementsLimiter`, `OvershootLimitedWithUsage`, `OverageJust`, `LooseQuotaWithUsage`, `ChecksAdvance` |
| `ScrapeEndpointProofs` | `EndpointInvariance`, `WorkersHeldAndReturned`, `CookiesKept`, `SessionsStayGone`, `OwnerWrites`, `RequestsAdvance` |
| `StripeWebhookProofs` | `AppliedOnce`, `BillingInvariance`, `LicensesUnique`, `TiersBought`, `LossInvariance`, `LossesAccounted`, `CheckoutsAppliedWithoutTrouble` |
| `LifecycleProofs` | `Invariance`, `ServedWhenReady`, `RestStopped`, `ContextsExact`, `ConnectionsReturned`, `NoneWaitsInCircle`, `ShutdownAdvances` |

- **Pool.** `NeverRaises` is not inductive. `IInv` adds that the queues hold
  exactly the waiting callers, each once and in its own region (`QueueOK`), that
  busy workers, leases and lease regions agree (`LeaseOK`), and the balance of
  permits. A granted waiter then implies an idle worker by counting: permits,
  granted waiters and busy workers add up to the size of the region.
  `ImplementsLeases` maps every step to one of `LeasePool`: the worker a permit
  leads to is idle, and an idle worker is leased by nobody. `ServedInOrder` needs
  the converse of `QueueOK`, that every waiter is in its queue.
- **Breaker.** `TypeOK` and `ClosedBelowThreshold` are inductive together. The
  health checker sets the count to one when it degrades a breaker, which is below
  the threshold only if that is at least two: hence the assumption.
- **Scrape worker.** One half of the invariant follows a worker: it holds
  something only between the answer of a provider and its `finally`, and
  `supplier` names where that came from, so `ReturnProxy` clears the right
  mark. The other half is the pool: exclusiveness needs that what is borrowed
  and offered is marked (so that nobody else gets it), which needs exclusiveness
  in turn (so that a return clears nobody else's mark).
  `DrivesBreakers` maps every step of a scrape to a step of `CircuitBreaker` or
  to none. With that mapping the theorems about the breakers are taken over as
  they are: `Law` is an instance of `CircuitBreakerProofs` with the workers for
  its calls, and its invariant and its edges hold under scrapes. From it and from
  where a scrape stands, `ScrapeGoesOn` derives what `NeverStuck` says, with the
  guards of the next step written out in the place of `ENABLED`.
- **Served scrape.** The invariant is that of the workers, that of the routes,
  and one line between them: a worker is busy exactly while it serves a request,
  and that request holds it and is at its scrape. The lease makes the line
  inductive: a request calls the worker it holds, nobody else holds it, so the
  worker is idle and the call is a `Begin` of `ScrapeWorker` (`ServesAsWorkers`);
  only the return of the call moves the request on, by its `Scrape` or, when it
  was cancelled, its `Fail` (`ImplementsRoutes`). With both refinements the
  theorems of either module hold of the two together: cookies stay with their
  key (`CookiesKeptWhenServed`), exclusive leases of proxies become exclusive
  among requests (`ProxiesOfRequests`), and `MarksHeld`, which is about workers,
  becomes `MarksOfRequests`.
- **In-memory limiter.** `Prune` drops stale entries from the front and stops at
  the first it keeps; what is left is what is live only because ages never
  increase along a window (`Sorted`), which admissions, at age zero and at the
  end, and the clock, which ages all alike, preserve. The size of a window after
  pruning is then the number `Quota` bounds, and `LimiterIsQuota`,
  `RefusedWhenFull` and `RemainderReported` follow step by step. That a front to
  stop at exists is the least-element principle, from the well-foundedness of
  the natural numbers.
- **Bulk.** The steps of the routes are steps of the limiter or leave it alone,
  so the quota carries over. Free slots and running items of a call add up to its
  capped concurrency (`SlotsBalance`); an item starts in the order of the batch,
  so a call with a waiting item and a free slot has a first one to start, and
  with no waiting and no running item has all it needs to answer (`NoneStranded`).
  `AnswersCorrect` needs that an item's code depends on its exception alone but
  for the two cases of section 6.
- **PostgreSQL limiter.** The rows in the window and the admitted items that
  may still add one are at most the limit plus `MaxUnits` for each other
  request. Only an admission adds to the sum, and it has just counted; every
  other step moves an item to the rows or drops it. With one request the slack
  is zero: `ExactWhenSequential` proves what `quota_exceeded` refutes for three.
  Taking that sum for what is used, `LimiterIsLooseQuota` maps every step to one
  of `Quota`: an admission to `Admit`, everything else that changes the sum to
  `Expire`.
- **Usage.** `ImplementsLimiter` carries the bound over to the limiter with its
  usage rows, and `LooseQuotaWithUsage` the refinement. A rollup is at most the
  rows of its day because rows are only added, and of a past day because the job
  keeps the date it started with; `OverageJust` follows, as both answers of a
  check are at most the rows there.
- **Endpoint.** `LocalsKnown` is what a place in the code says: past the owner
  check the session is the request's own key's, and owners never change, so a
  late write carries cookies to a session of the key that received them
  (`CookiesKept`) and is that owner's write (`OwnerWrites`). That a worker is held
  exactly between `acquire` and the `finally` is inductive with it.
- **Billing.** `AppliedOnce` rests on the insert: an event being applied is in
  `stripe_events`, and only one delivery can have put it there. `LicensesUnique`
  and `TiersBought` add (`BillingInv`) that a customer in a row was a purchase of
  that key and that a licence in a row has been applied, so that it is not given
  out again. `LossesAccounted` takes each way a delivery may end an event. With
  no failure or crash that is its own statement, and the event is lost when the
  statement finds no row. A checkout finds its key, which is never deleted; a
  licence finds one if its address has a valid key; the others find the key by
  the customer the checkout left there. For these the strengthening `UpgradesInv`
  is needed: a key that a checkout has upgraded keeps the customer of an upgraded
  purchase, so if there is only one, its own. `CheckoutsAppliedWithoutTrouble`
  holds for as long as there has been no failure; `webhook_effect_lost` shows
  what one does.
- **Lifecycle.** What has been started or stopped at each point of `main`, and
  which requests hold a connection, a worker or a context at each of their
  steps; a cancellation takes a request out of any of them. `ContextsExact`
  counts the requests on a browser. It excepts the browsers in `spoiled`:
  `new_context()` and `new_page()` come before the `try` whose `finally` closes
  the context (`workers/asb_runner.py:57-65`), so that a `new_page()` that raises,
  or a cancellation in either, leaves one behind; so may a cancellation in
  `close()` itself.

**Progress.** The provers cannot reach liveness, but its two safety halves are
proved wherever a run checks it of a request, a check, a call or a shutdown.
One is a variant: every step brings the task nearer to its end, and no other
task takes it back (`ScrapeAdvances`, at most five steps of a scrape,
`RequestsAdvance`, nine of a request, `ChecksAdvance`, six of a check,
`CallsProgress`, `ShutdownAdvances`). The other is that no task waits for one
that waits for it: of two requests for a worker, one holds it and does not wait
for any (`ServedGoesOn`); a request that holds a connection of the database
waits for nothing else, and a shutdown has a part to stop or is done
(`NoneWaitsInCircle`, with `ConnectionsReturned`); an item that waits for a slot
has one, or an item that runs (`NeverStranded`). What remains, and is assumed as
fairness, is that page loads, provider calls and queries end and that the queues
hand out turns. Of a check this half is in its guards, which ask for nothing but
its own place: it does not wait for a lock, it tries twice.

Every safety property of a passing run is a theorem, but for `NeverStuck`, a
statement about `ENABLED`, which is out of the prover's reach: `ScrapeGoesOn`
proves its content without that operator. Some invariants are proved and need no
run of their own: the types, `LeaseExact` (which `ImplementsLeasePool` covers),
`OvershootBounded` (the bound in `ImplementsLooseQuota`), `NoneStranded` (the
safety half of `CallEnds`), `RemainingIsTrue` (the remaining count a client is
told is what the limiter would still admit), `MarksHeld` (a mark is that of a
worker's proxy, which `MarksOfRequests` covers) and, under `VendorStable`, `LeasedStaysMarked` (what
`ExclusiveLease` rests on) and `ProxyOfOneRequest`. Only model-checked are also the
liveness properties (`WaiterServed`, `RecoversWhenUp`, `DownThenProbed`,
`CheckAnswers`, `RequestEnds`, `CallEnds`, `ShutdownEnds`, and the liveness half
of `ImplementsLeasePool`).

## 5. Not modelled

- The in-memory usage tracker and the in-memory key store, used without a
  database: a list and a dictionary no step of which interleaves with another.
- The signing and parsing of licences (`billing/license.py`) and of keys,
  hashing, the tests of address ranges and the redaction in `security.py`, the
  configuration, fingerprints, message texts and headers: pure text or numbers.
- The portal, invoices, health and usage views: they read and change nothing.
- The client library and the command line client: one HTTP call per method, no
  state and no retry.
- Migrations are one step of `Lifecycle`, and each statement of the database one
  atomic step. The audit log is appended to and never read.
- The cancellation of a whole bulk call: `gather` cancels the items, and the
  cancellation of an item is in `ScrapeEndpoint`.

The models start from a request with a valid key, except for the refusals of
`BulkScrape`. Of the commands of `admin.py`, `list-keys` only prints.

## 6. Remarks on the code

Seen while modelling; the models do what the code does, and no run is about them.

- `stop_all` of the pool ends at the first worker that raises, so the browsers
  behind it are not stopped by `shutdown()`, against "Shutdown must stop all
  browser workers." (SPEC.md:512). `Lifecycle` takes these steps; `StopsTheRest`
  is about the other parts and says nothing of the workers.
- Billing events that find no row are acknowledged and dropped: a licence for an
  address without a valid key, and a status or a deletion that overtakes its
  checkout, against "Create a self-hosted license for the purchaser identity."
  and "Downgrade the customer to the free tier."
  (docs/BILLING_TEST_MODE.md:66, :68). `LossesExplained` says when.
- A scrape cancelled while its context is being opened leaves it open
  (`workers/asb_runner.py:57-63`); `ContextsClosed` excepts these browsers.
- A session of another key is `SESSION_NOT_FOUND` for a single scrape and
  `BAD_REQUEST` in a batch; an unexpected exception has no code alone and is
  `INTERNAL_ERROR` in a batch. `AnswersMatch` excepts the two.
- Items that fail their URL or session check are charged but leave no usage row
  (SPEC.md:309 counts every item that passed the check of the batch), and the
  comment of `api/routes/scrape.py:85` does not hold for a batch, which is
  charged before its URLs are looked at.
- `jobs/daily_rollup.py` run on its own, as its comment suggests, raises: nothing
  connects the database. `UsageAccounting` runs the job in a connected process.
- `check_overage` compares `TIER_MONTHLY_REQUESTS` with the total of one day.
- Startup creates a new test key each time (`__main__.py:180` calls it
  idempotent).
- A licence sold by the webhook, `sk_license_` and 48 digits, is not of the form
  `billing/license.py` verifies.
- The Python client raises a `TypeError` for 429 and 402: its exceptions are
  given `error_code` twice (`asb_client/exceptions.py:37`, `:47`).

## 7. Plan

Modelled, in this order: pool, breaker, scrape worker with the Decodo pool, the
two limiters, the endpoint with the sessions, the webhook; then lifecycle, bulk
scrape, usage, keys and checkouts; then requests and their scrapes together.
Proved: the safety of all of them, the refinements between them, and the safety
halves of their progress.

Left:

1. `WorkerPool` in the place of `LeasePool` under `ServedScrape`. As
   `ImplementsLeases` is a theorem, that would show nothing new of the safety;
   it would let the fairness of `Acquire` be derived.
2. Pure modules: licence keys and the address tests of `security.py` against a
   reference definition over bounded inputs.
