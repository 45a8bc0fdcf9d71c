---------------------------- MODULE ScrapeEndpoint ----------------------------
(***************************************************************************)
(* _execute_one_scrape (api/routes/scrape.py), behind POST /v1/scrape and  *)
(* every item of POST /v1/bulk-scrape, once the quota has been checked     *)
(* (PostgresRateLimiter.tla): the session, a worker of the pool, the       *)
(* scrape, the session's new cookies and count, the usage row, and the     *)
(* worker back.  It runs over the pool's promise (LeasePool.tla) and the   *)
(* session store, in memory (session/store.py) or in PostgreSQL            *)
(* (db/session_store.py); sessions are deleted and expire meanwhile.       *)
(*                                                                         *)
(* Every store call is one step: the in-memory store does not suspend, the *)
(* PostgreSQL store runs one statement.  request_count and last_used are   *)
(* left out: nothing reads them back but GET /v1/sessions.                 *)
(***************************************************************************)
EXTENDS Integers

CONSTANTS
    Requests, Keys, Sessions, Names,    \* Names: of cookies
    Workers, Region,                    \* one region of the pool
    NoKey, NoSession, NoWorker, NoRegion

ASSUME ScrapeEndpointAssumption ==
    /\ NoKey \notin Keys
    /\ NoSession \notin Sessions
    /\ NoWorker \notin Workers
    /\ NoRegion # Region

VARIABLES
    persistent,     \* the PostgreSQL store is used
    status,         \* of each session: "none", "live", "deleted" or "pruned"
    expired,        \* expires_at has passed
    owner,          \* key_id of the session
    jar,            \* its stored cookies
    lease, demand,  \* the worker pool
    pc,             \* where each request is
    who, sess,      \* its API key, request.session_id
    cookies,        \* the local session.cookies, then result.cookies
    ok              \* result.status is "success"

sessions == <<status, expired, owner, jar>>
workers == <<lease, demand>>
local == <<who, sess, cookies, ok>>
vars == <<persistent, sessions, workers, pc, local>>

Pool == INSTANCE LeasePool WITH
    Callers <- Requests, Regions <- {Region}, Home <- [w \in Workers |-> Region]

(* A cookie is told apart by the key whose scrape received it. *)
CookiesOf(k) == {k} \X Names
Jars == SUBSET (Keys \X Names)

Init ==
    /\ persistent \in BOOLEAN
    /\ status = [s \in Sessions |-> "none"]
    /\ expired = [s \in Sessions |-> FALSE]
    /\ owner = [s \in Sessions |-> NoKey]
    /\ jar = [s \in Sessions |-> {}]
    /\ Pool!Init
    /\ pc = [r \in Requests |-> "idle"]
    /\ who = [r \in Requests |-> NoKey]
    /\ sess = [r \in Requests |-> NoSession]
    /\ cookies = [r \in Requests |-> {}]
    /\ ok = [r \in Requests |-> FALSE]

-------------------------------------------------------------------------------
(* The session store. *)

Visible(s) == status[s] = "live" /\ ~expired[s]

(* A write finds the record: of the dictionary, or the row, which neither  *)
(* an expiry nor a deletion removes.                                       *)
Writable(s) == IF persistent THEN status[s] # "none" ELSE status[s] = "live"

Create(k, s) ==
    /\ status[s] = "none"
    /\ status' = [status EXCEPT ![s] = "live"]
    /\ owner' = [owner EXCEPT ![s] = k]
    /\ UNCHANGED <<persistent, expired, jar, workers, pc, local>>

(* get() finds the session. *)
Read(s) == Visible(s)

(* get() drops an expired session from the dictionary. *)
Pruned(s) ==
    IF ~persistent /\ status[s] = "live" /\ expired[s]
    THEN [status EXCEPT ![s] = "pruned"] ELSE status

(* Mutant of Store: an upsert for the update. *)
Upsert(s, new) ==
    /\ jar' = [jar EXCEPT ![s] = new]
    /\ status' = [status EXCEPT ![s] = "live"]
    /\ UNCHANGED <<expired, owner>>

(* update_cookies() *)
Store(s, new) ==
    /\ jar' = IF Writable(s) THEN [jar EXCEPT ![s] = new] ELSE jar
    /\ UNCHANGED <<status, expired, owner>>

(* Mutant of Owns: any key may use any session. *)
OwnsAny(k, s) == s \in Sessions

(* ensure_session_owner() *)
Owns(k, s) == owner[s] = k

(* DELETE /v1/sessions: get(), the owner, delete(). *)
Delete(k, s) ==
    /\ Read(s) /\ Owns(k, s)
    /\ status' = [status EXCEPT ![s] = "deleted"]
    /\ UNCHANGED <<persistent, expired, owner, jar, workers, pc, local>>

(* The clock passes expires_at. *)
Expire(s) ==
    /\ Visible(s)
    /\ expired' = [expired EXCEPT ![s] = TRUE]
    /\ UNCHANGED <<persistent, status, owner, jar, workers, pc, local>>

-------------------------------------------------------------------------------
(* A scrape. *)

Goto(r, step) == pc' = [pc EXCEPT ![r] = step]

(* The request ends; its locals with it. *)
Ends(r) ==
    /\ Goto(r, "idle")
    /\ who' = [who EXCEPT ![r] = NoKey]
    /\ sess' = [sess EXCEPT ![r] = NoSession]
    /\ cookies' = [cookies EXCEPT ![r] = {}]
    /\ ok' = [ok EXCEPT ![r] = FALSE]

Begin(r, k, s) ==
    /\ pc[r] = "idle"
    /\ Goto(r, IF s = NoSession THEN "acquire" ELSE "session")
    /\ who' = [who EXCEPT ![r] = k]
    /\ sess' = [sess EXCEPT ![r] = s]
    /\ UNCHANGED <<persistent, sessions, workers, cookies, ok>>

(* The session is read and its owner checked; SESSION_NOT_FOUND otherwise. *)
ReadSession(r) ==
    LET s == sess[r] IN
    /\ pc[r] = "session"
    /\ status' = Pruned(s)
    /\ \/ /\ Read(s) /\ Owns(who[r], s)
          /\ cookies' = [cookies EXCEPT ![r] = jar[s]]
          /\ \/ Goto(r, "acquire")
             \/ Goto(r, "reset")
          /\ UNCHANGED <<who, sess, ok>>
       \/ /\ ~(Read(s) /\ Owns(who[r], s))
          /\ Ends(r)
    /\ UNCHANGED <<persistent, expired, owner, jar, workers>>

(* stateful_reset *)
Reset(r) ==
    /\ pc[r] = "reset"
    /\ Store(sess[r], {})
    /\ cookies' = [cookies EXCEPT ![r] = {}]
    /\ Goto(r, "acquire")
    /\ UNCHANGED <<persistent, workers, who, sess, ok>>

(* pool.acquire() *)
Wait(r) ==
    /\ pc[r] = "acquire"
    /\ Pool!Ask(r, Region)
    /\ UNCHANGED <<persistent, sessions, pc, local>>
Acquire(r) ==
    /\ pc[r] = "acquire"
    /\ \E w \in Workers : Pool!LeaseNow(r, w) \/ Pool!Lease(r, w)
    /\ Goto(r, "scrape")
    /\ UNCHANGED <<persistent, sessions, local>>

(* The worker scrapes, sending the session's cookies, and answers with the *)
(* cookies of its browser, or with an error and none.                      *)
Scrape(r) ==
    /\ pc[r] = "scrape"
    /\ \/ \E new \in SUBSET CookiesOf(who[r]) :
            cookies' = [cookies EXCEPT ![r] = new] /\ ok' = [ok EXCEPT ![r] = TRUE]
       \/ cookies' = [cookies EXCEPT ![r] = {}] /\ ok' = [ok EXCEPT ![r] = FALSE]
    /\ Goto(r, IF sess[r] = NoSession THEN "usage" ELSE "save")
    /\ UNCHANGED <<persistent, sessions, workers, who, sess>>

SaveCookies(r) ==
    /\ pc[r] = "save"
    /\ Store(sess[r], cookies[r])
    /\ Goto(r, "count")
    /\ UNCHANGED <<persistent, workers, local>>

(* increment_count(), then usage_tracker.record() *)
CountAndRecord(r) ==
    /\ \/ pc[r] = "count" /\ Goto(r, "usage")
       \/ pc[r] = "usage" /\ Goto(r, "finally")
    /\ UNCHANGED <<persistent, sessions, workers, local>>

(* A store call raises, or the task is cancelled where it is suspended.    *)
Fail(r) ==
    /\ \/ /\ pc[r] \in {"session", "reset"}
          /\ Ends(r)
          /\ UNCHANGED workers
       \/ /\ pc[r] = "acquire"
          /\ Pool!Withdraw(r)
          /\ Ends(r)
       \/ /\ pc[r] \in {"scrape", "save", "count", "usage"}
          /\ Goto(r, "finally")
          /\ UNCHANGED <<workers, local>>
    /\ UNCHANGED <<persistent, sessions>>

(* Mutant of Release: the worker goes back after a success only. *)
ReleaseAfterSuccess(r) ==
    /\ pc[r] = "finally"
    /\ IF ok[r] THEN Pool!Return(r) ELSE UNCHANGED workers
    /\ Ends(r)
    /\ UNCHANGED <<persistent, sessions>>

(* The `finally' of the request. *)
Release(r) ==
    /\ pc[r] = "finally"
    /\ Pool!Return(r)
    /\ Ends(r)
    /\ UNCHANGED <<persistent, sessions>>

Step(r) ==
    \/ ReadSession(r) \/ Reset(r) \/ Wait(r)
    \/ Scrape(r) \/ SaveCookies(r) \/ CountAndRecord(r) \/ Release(r)

Next ==
    \/ \E r \in Requests :
         \/ \E k \in Keys, s \in Sessions \union {NoSession} : Begin(r, k, s)
         \/ Step(r) \/ Acquire(r) \/ Fail(r)
    \/ \E k \in Keys, s \in Sessions : Create(k, s) \/ Delete(k, s)
    \/ \E s \in Sessions : Expire(s)

(* Store calls and scrapes end; a worker that comes back again and again   *)
(* goes in the end to each request that waits, which is what WorkerPool    *)
(* shows of the pool.  acquire() has no timeout: a request whose worker    *)
(* never comes back waits for ever, and need not be cancelled.             *)
Fairness == \A r \in Requests : WF_vars(Step(r)) /\ SF_vars(Acquire(r))

Spec == Init /\ [][Next]_vars /\ Fairness

-------------------------------------------------------------------------------
(* Every variable has its type; a session that was created has an owner.   *)
TypeOK ==
    /\ persistent \in BOOLEAN
    /\ status \in [Sessions -> {"none", "live", "deleted", "pruned"}]
    /\ expired \in [Sessions -> BOOLEAN]
    /\ owner \in [Sessions -> Keys \union {NoKey}]
    /\ \A s \in Sessions : owner[s] = NoKey <=> status[s] = "none"
    /\ jar \in [Sessions -> Jars]
    /\ lease \in [Requests -> Workers \union {NoWorker}]
    /\ demand \in [Requests -> {Region, NoRegion}]
    /\ pc \in [Requests -> {"idle", "session", "reset", "acquire", "scrape",
                            "save", "count", "usage", "finally"}]
    /\ who \in [Requests -> Keys \union {NoKey}]
    /\ sess \in [Requests -> Sessions \union {NoSession}]
    /\ cookies \in [Requests -> Jars]
    /\ ok \in [Requests -> BOOLEAN]

(* A request holds a worker exactly from its acquire() to its release(),   *)
(* and no two hold the same: no failure on the way leaks one.              *)
WorkerHeldWhileScraping ==
    /\ \A r \in Requests :
         lease[r] # NoWorker <=> pc[r] \in {"scrape", "save", "count", "usage", "finally"}
    /\ \A q, r \in Requests : lease[q] = lease[r] /\ lease[q] # NoWorker => q = r

(* Cookies never cross keys, through whatever overlapping scrapes, resets, *)
(* deletions and late writes: what a session holds was received by its     *)
(* owner's scrapes, and what a scrape sends was received by its own key's. *)
CookiesStayWithKey ==
    /\ \A s \in Sessions : jar[s] \subseteq CookiesOf(owner[s])
    /\ \A r \in Requests : cookies[r] \subseteq CookiesOf(who[r])

(* A session that was deleted or has expired is never seen again, however  *)
(* late a scrape that started with it writes back, in either store.        *)
NoResurrection ==
    [][\A s \in Sessions : status[s] # "none" /\ ~Visible(s) => ~Read(s)']_vars

(* Only its owner's scrapes change what a session holds, a reset that      *)
(* leaves no cookies behind included, and however long after the check of  *)
(* the owner the write is made.                                            *)
WrittenByOwner ==
    [][\A s \in Sessions : jar'[s] # jar[s] =>
         \E r \in Requests : /\ sess[r] = s /\ who[r] = owner[s]
                            /\ pc[r] \in {"reset", "save"}]_vars

(* Every request ends: none waits for ever for a worker. *)
RequestEnds == \A r \in Requests : pc[r] # "idle" ~> pc[r] = "idle"

(* "Stateful sessions persist cookies and request count until TTL expiry"  *)
(* (SPEC.md:65): cookies leave a session only by a reset, or replaced by   *)
(* those of a successful scrape.                                           *)
CookiesPersist ==
    [][\A s \in Sessions :
         jar[s] \subseteq jar'[s]
         \/ \E r \in Requests : sess[r] = s /\ (pc[r] = "reset" \/ (pc[r] = "save" /\ ok[r]))]_vars
===============================================================================
