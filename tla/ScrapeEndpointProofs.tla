------------------------- MODULE ScrapeEndpointProofs -------------------------
(* What ScrapeEndpoint.tla promises, for any requests, keys, sessions,      *)
(* cookies and workers.                                                     *)
EXTENDS ScrapeEndpoint, TLAPS

Holding == {"scrape", "save", "count", "usage", "finally"}

(* What a request's place in the code says of its locals: it has a key, it  *)
(* has a session where the code uses one, and past the owner check that     *)
(* session is its key's.                                                    *)
LocalsKnown ==
    \A r \in Requests :
      /\ pc[r] = "idle" <=> who[r] = NoKey
      /\ pc[r] \in {"session", "reset", "save", "count"} => sess[r] \in Sessions
      /\ pc[r] \notin {"idle", "session"} /\ sess[r] # NoSession => owner[sess[r]] = who[r]

EInv == TypeOK /\ LocalsKnown /\ WorkerHeldWhileScraping /\ CookiesStayWithKey

USE ScrapeEndpointAssumption

LEMMA InitEInv == Init => EInv
BY DEF Init, EInv, TypeOK, LocalsKnown, WorkerHeldWhileScraping, CookiesStayWithKey, Pool!Init, Jars

(* Whoever has no key has no cookies. *)
LEMMA NobodysCookies ==
    ASSUME NEW c \in Jars, c \subseteq CookiesOf(NoKey)
    PROVE  c = {}
BY DEF Jars, CookiesOf

LEMMA CookiesAreJars ==
    ASSUME NEW k \in Keys, NEW c \in SUBSET CookiesOf(k)
    PROVE  c \in Jars
BY DEF Jars, CookiesOf

LEMMA EndsKeeps ==
    ASSUME EInv, NEW r \in Requests, Ends(r), UNCHANGED <<expired, owner, jar, persistent>>,
           status' \in [Sessions -> {"none", "live", "deleted", "pruned"}],
           \A s \in Sessions : (status'[s] = "none") <=> (status[s] = "none"),
           lease' \in [Requests -> Workers \union {NoWorker}],
           demand' \in [Requests -> {Region, NoRegion}],
           lease' = [lease EXCEPT ![r] = NoWorker]
    PROVE  EInv'
<1>1. TypeOK'
  BY DEF EInv, TypeOK, Ends, Goto, Jars
<1>2. LocalsKnown'
  BY DEF EInv, TypeOK, LocalsKnown, Ends, Goto
<1>3. WorkerHeldWhileScraping'
  BY DEF EInv, TypeOK, WorkerHeldWhileScraping, Ends, Goto
<1>4. CookiesStayWithKey'
  BY DEF EInv, TypeOK, CookiesStayWithKey, CookiesOf, Ends, Goto
<1> QED BY <1>1, <1>2, <1>3, <1>4 DEF EInv

(* A step of a request that takes and returns no worker: the pool and what *)
(* the request is for stay, and it moves between places of one kind.       *)
LEMMA MovesKeep ==
    ASSUME EInv, NEW r \in Requests, NEW step, Goto(r, step),
           UNCHANGED <<persistent, workers, who, sess, status, expired, owner>>,
           pc[r] # "idle", step \in {"acquire"} \union Holding,
           pc[r] \in Holding <=> step \in Holding,
           step \in {"save", "count"} => sess[r] \in Sessions,
           sess[r] # NoSession => owner[sess[r]] = who[r],
           jar' \in [Sessions -> Jars],
           cookies' \in [Requests -> Jars],
           CookiesStayWithKey',
           ok' \in [Requests -> BOOLEAN]
    PROVE  EInv'
<1>1. TypeOK'
  BY DEF EInv, TypeOK, Goto, workers, Holding
<1>2. LocalsKnown'
  BY DEF EInv, TypeOK, LocalsKnown, Goto, Holding
<1>3. WorkerHeldWhileScraping'
  BY DEF EInv, TypeOK, WorkerHeldWhileScraping, Goto, workers, Holding
<1> QED BY <1>1, <1>2, <1>3 DEF EInv

LEMMA BeginKeeps ==
    ASSUME EInv, NEW r \in Requests, NEW k \in Keys, NEW s \in Sessions \union {NoSession},
           Begin(r, k, s)
    PROVE  EInv'
<1>1. TypeOK'
  BY DEF EInv, TypeOK, Begin, Goto, sessions, workers
<1>2. LocalsKnown'
  BY DEF EInv, TypeOK, LocalsKnown, Begin, Goto, sessions
<1>3. WorkerHeldWhileScraping'
  BY DEF EInv, TypeOK, WorkerHeldWhileScraping, Begin, Goto, workers
<1>4. CookiesStayWithKey'
  <2>1. cookies[r] = {}
    BY NobodysCookies DEF EInv, TypeOK, LocalsKnown, CookiesStayWithKey, Begin
  <2> QED BY <2>1 DEF EInv, TypeOK, CookiesStayWithKey, CookiesOf, Begin, sessions
<1> QED BY <1>1, <1>2, <1>3, <1>4 DEF EInv

LEMMA PrunedKeeps ==
    ASSUME EInv, NEW s \in Sessions
    PROVE  /\ Pruned(s) \in [Sessions -> {"none", "live", "deleted", "pruned"}]
           /\ \A t \in Sessions : Pruned(s)[t] = "none" <=> status[t] = "none"
BY DEF EInv, TypeOK, Pruned

LEMMA ReadSessionKeeps ==
    ASSUME EInv, NEW r \in Requests, ReadSession(r)
    PROVE  EInv'
<1> DEFINE s == sess[r]
<1>0. s \in Sessions /\ pc[r] = "session" /\ who[r] \in Keys /\ lease[r] = NoWorker
  BY DEF EInv, TypeOK, LocalsKnown, WorkerHeldWhileScraping, ReadSession
<1>1. /\ status' \in [Sessions -> {"none", "live", "deleted", "pruned"}]
      /\ \A t \in Sessions : status'[t] = "none" <=> status[t] = "none"
  BY <1>0, PrunedKeeps DEF ReadSession
<1>2. CASE Ends(r)
  <2>1. lease' = [lease EXCEPT ![r] = NoWorker] /\ UNCHANGED demand
    BY <1>0 DEF EInv, TypeOK, ReadSession, workers
  <2> QED
    <3>1. UNCHANGED <<expired, owner, jar, persistent, lease, demand>>
      BY DEF ReadSession, workers
    <3>2. /\ lease' \in [Requests -> Workers \union {NoWorker}]
          /\ demand' \in [Requests -> {Region, NoRegion}]
      BY <3>1 DEF EInv, TypeOK
    <3> QED BY <1>1, <1>2, <2>1, <3>1, <3>2, EndsKeeps
<1>3. CASE /\ Owns(who[r], s)
           /\ cookies' = [cookies EXCEPT ![r] = jar[s]]
           /\ Goto(r, "acquire") \/ Goto(r, "reset")
           /\ UNCHANGED <<who, sess, ok>>
  <2>1. TypeOK'
    BY <1>0, <1>1, <1>3 DEF EInv, TypeOK, ReadSession, Goto, workers
  <2>2. LocalsKnown'
    BY <1>0, <1>3 DEF EInv, TypeOK, LocalsKnown, ReadSession, Owns, Goto
  <2>3. WorkerHeldWhileScraping'
    BY <1>0, <1>3 DEF EInv, TypeOK, WorkerHeldWhileScraping, ReadSession, Goto, workers
  <2>4. CookiesStayWithKey'
    BY <1>0, <1>3 DEF EInv, TypeOK, CookiesStayWithKey, CookiesOf, ReadSession, Owns
  <2> QED BY <2>1, <2>2, <2>3, <2>4 DEF EInv
<1> QED BY <1>2, <1>3 DEF ReadSession

LEMMA ResetKeeps ==
    ASSUME EInv, NEW r \in Requests, Reset(r)
    PROVE  EInv'
<1>1. /\ pc[r] = "reset" /\ sess[r] \in Sessions /\ owner[sess[r]] = who[r]
  BY DEF EInv, LocalsKnown, Reset
<1>2. jar' \in [Sessions -> Jars] /\ cookies' \in [Requests -> Jars]
  BY <1>1 DEF EInv, TypeOK, Reset, Store, Jars
<1>3. CookiesStayWithKey'
  BY <1>1 DEF EInv, TypeOK, CookiesStayWithKey, CookiesOf, Reset, Store
<1> QED
  BY <1>1, <1>2, <1>3, MovesKeep DEF EInv, TypeOK, Reset, Store, Holding

LEMMA WaitKeeps ==
    ASSUME EInv, NEW r \in Requests, Wait(r)
    PROVE  EInv'
<1>1. TypeOK'
  BY DEF EInv, TypeOK, Wait, Pool!Ask, sessions, local
<1> QED
  BY <1>1 DEF EInv, LocalsKnown, WorkerHeldWhileScraping, CookiesStayWithKey, CookiesOf,
              Wait, Pool!Ask, sessions, local

LEMMA AcquireKeeps ==
    ASSUME EInv, NEW r \in Requests, Acquire(r)
    PROVE  EInv'
<1>0. PICK w \in Workers : Pool!LeaseNow(r, w) \/ Pool!Lease(r, w)
  BY DEF Acquire
<1>1. /\ pc[r] = "acquire"
      /\ \A q \in Requests : lease[q] # w
      /\ lease' = [lease EXCEPT ![r] = w]
      /\ demand' = demand \/ demand' = [demand EXCEPT ![r] = NoRegion]
  BY <1>0 DEF Acquire, Pool!LeaseNow, Pool!Lease, Pool!Free
<1>2. TypeOK'
  BY <1>1 DEF EInv, TypeOK, Acquire, Goto, sessions, local
<1>3. LocalsKnown'
  BY <1>1 DEF EInv, TypeOK, LocalsKnown, Acquire, Goto, sessions, local
<1>4. WorkerHeldWhileScraping'
  BY <1>1 DEF EInv, TypeOK, WorkerHeldWhileScraping, Acquire, Goto
<1>5. CookiesStayWithKey'
  BY DEF EInv, CookiesStayWithKey, CookiesOf, Acquire, sessions, local
<1> QED BY <1>2, <1>3, <1>4, <1>5 DEF EInv

LEMMA ScrapeKeeps ==
    ASSUME EInv, NEW r \in Requests, Scrape(r)
    PROVE  EInv'
<1>0. /\ pc[r] = "scrape" /\ who[r] \in Keys
      /\ sess[r] # NoSession => owner[sess[r]] = who[r]
      /\ sess[r] # NoSession => sess[r] \in Sessions
  BY DEF EInv, TypeOK, LocalsKnown, Scrape
<1>1. PICK new \in SUBSET CookiesOf(who[r]), b \in BOOLEAN :
        cookies' = [cookies EXCEPT ![r] = new] /\ ok' = [ok EXCEPT ![r] = b]
  <2>1. CASE \E new \in SUBSET CookiesOf(who[r]) :
               cookies' = [cookies EXCEPT ![r] = new] /\ ok' = [ok EXCEPT ![r] = TRUE]
    BY <2>1
  <2>2. CASE cookies' = [cookies EXCEPT ![r] = {}] /\ ok' = [ok EXCEPT ![r] = FALSE]
    <3>1. {} \in SUBSET CookiesOf(who[r])
      OBVIOUS
    <3> QED BY <2>2, <3>1
  <2> QED BY <2>1, <2>2 DEF Scrape
<1>2. cookies' \in [Requests -> Jars] /\ ok' \in [Requests -> BOOLEAN]
  <2>1. new \in Jars
    BY <1>0, CookiesAreJars
  <2> QED BY <1>1, <2>1 DEF EInv, TypeOK
<1>3. jar' \in [Sessions -> Jars]
  BY DEF EInv, TypeOK, Scrape, sessions
<1>4. CookiesStayWithKey'
  BY <1>1 DEF EInv, TypeOK, CookiesStayWithKey, CookiesOf, Scrape, sessions
<1>5. \/ Goto(r, "usage") /\ sess[r] = NoSession
      \/ Goto(r, "save") /\ sess[r] # NoSession
  BY DEF Scrape
<1>6. UNCHANGED <<persistent, workers, who, sess, status, expired, owner>>
  BY DEF Scrape, sessions
<1> QED
  BY <1>0, <1>2, <1>3, <1>4, <1>5, <1>6, MovesKeep DEF Holding

LEMMA SaveCookiesKeeps ==
    ASSUME EInv, NEW r \in Requests, SaveCookies(r)
    PROVE  EInv'
<1>1. pc[r] = "save" /\ sess[r] \in Sessions
  BY DEF EInv, LocalsKnown, SaveCookies
<1>2. owner[sess[r]] = who[r]
  BY <1>1 DEF EInv, LocalsKnown
<1>3. jar' \in [Sessions -> Jars] /\ cookies' \in [Requests -> Jars] /\ ok' \in [Requests -> BOOLEAN]
  BY <1>1 DEF EInv, TypeOK, SaveCookies, Store, local
<1>4. CookiesStayWithKey'
  BY <1>1, <1>2 DEF EInv, TypeOK, CookiesStayWithKey, CookiesOf, SaveCookies, Store, local
<1>5. UNCHANGED <<persistent, workers, who, sess, status, expired, owner>>
  BY DEF SaveCookies, Store, local
<1> QED
  BY <1>1, <1>2, <1>3, <1>4, <1>5, MovesKeep DEF SaveCookies, Holding

LEMMA CountAndRecordKeeps ==
    ASSUME EInv, NEW r \in Requests, CountAndRecord(r)
    PROVE  EInv'
<1>1. /\ pc[r] \in {"count", "usage"}
      /\ Goto(r, "usage") \/ Goto(r, "finally")
      /\ UNCHANGED <<persistent, workers, who, sess, status, expired, owner, jar, cookies, ok>>
  BY DEF CountAndRecord, sessions, local
<1>2. sess[r] # NoSession => owner[sess[r]] = who[r]
  BY <1>1 DEF EInv, LocalsKnown
<1>3. CookiesStayWithKey'
  BY <1>1 DEF EInv, CookiesStayWithKey, CookiesOf
<1> QED
  BY <1>1, <1>2, <1>3, MovesKeep DEF EInv, TypeOK, Holding

LEMMA FailKeeps ==
    ASSUME EInv, NEW r \in Requests, Fail(r)
    PROVE  EInv'
<1>0. UNCHANGED <<persistent, status, expired, owner, jar>>
  BY DEF Fail, sessions
<1>1. CASE pc[r] \in {"session", "reset"} /\ Ends(r) /\ UNCHANGED workers
  <2>1. lease' = [lease EXCEPT ![r] = NoWorker] /\ UNCHANGED demand
    BY <1>1 DEF EInv, TypeOK, WorkerHeldWhileScraping, workers
  <2> QED
    BY <1>0, <1>1, <2>1, EndsKeeps DEF EInv, TypeOK
<1>2. CASE pc[r] = "acquire" /\ Pool!Withdraw(r) /\ Ends(r)
  <2>1. lease' = [lease EXCEPT ![r] = NoWorker] /\ demand' = [demand EXCEPT ![r] = NoRegion]
    BY <1>2 DEF EInv, TypeOK, WorkerHeldWhileScraping, Pool!Withdraw
  <2> QED
    BY <1>0, <1>2, <2>1, EndsKeeps DEF EInv, TypeOK
<1>3. CASE pc[r] \in {"scrape", "save", "count", "usage"} /\ Goto(r, "finally") /\ UNCHANGED <<workers, local>>
  <2>1. sess[r] # NoSession => owner[sess[r]] = who[r]
    BY <1>3 DEF EInv, LocalsKnown
  <2>2. CookiesStayWithKey'
    BY <1>0, <1>3 DEF EInv, CookiesStayWithKey, CookiesOf, local
  <2> QED
    BY <1>0, <1>3, <2>1, <2>2, MovesKeep DEF EInv, TypeOK, Holding, local
<1> QED BY <1>1, <1>2, <1>3 DEF Fail

LEMMA ReleaseKeeps ==
    ASSUME EInv, NEW r \in Requests, Release(r)
    PROVE  EInv'
<1>1. lease' = [lease EXCEPT ![r] = NoWorker] /\ UNCHANGED demand
  BY DEF Release, Pool!Return
<1> QED
  BY <1>1, EndsKeeps DEF EInv, TypeOK, Release, sessions

(* Create, Delete and Expire: the sessions change under the requests. *)
LEMMA CreateKeeps ==
    ASSUME EInv, NEW k \in Keys, NEW s \in Sessions, Create(k, s)
    PROVE  EInv'
<1>1. TypeOK'
  BY DEF EInv, TypeOK, Create, workers, local
<1>2. LocalsKnown'
  BY DEF EInv, TypeOK, LocalsKnown, Create, local
<1>3. WorkerHeldWhileScraping'
  BY DEF EInv, WorkerHeldWhileScraping, Create, workers
<1>4. CookiesStayWithKey'
  <2>1. jar[s] = {}
    BY NobodysCookies DEF EInv, TypeOK, CookiesStayWithKey, Create
  <2> QED BY <2>1 DEF EInv, TypeOK, CookiesStayWithKey, CookiesOf, Create, local
<1> QED BY <1>1, <1>2, <1>3, <1>4 DEF EInv

LEMMA ExpireKeeps ==
    ASSUME EInv, NEW s \in Sessions, Expire(s)
    PROVE  EInv'
<1>1. TypeOK'
  BY DEF EInv, TypeOK, Expire, Visible, workers, local
<1> QED
  BY <1>1 DEF EInv, LocalsKnown, WorkerHeldWhileScraping, CookiesStayWithKey, CookiesOf,
              Expire, workers, local

LEMMA DeleteKeeps ==
    ASSUME EInv, NEW k \in Keys, NEW s \in Sessions, Delete(k, s)
    PROVE  EInv'
<1>1. TypeOK'
  BY DEF EInv, TypeOK, Delete, Read, Visible, workers, local
<1> QED
  BY <1>1 DEF EInv, LocalsKnown, WorkerHeldWhileScraping, CookiesStayWithKey, CookiesOf,
              Delete, workers, local

LEMMA StutterKeeps ==
    ASSUME EInv, UNCHANGED vars
    PROVE  EInv'
BY DEF EInv, TypeOK, LocalsKnown, WorkerHeldWhileScraping, CookiesStayWithKey, CookiesOf, Jars,
       vars, sessions, workers, local

LEMMA NextKeeps == EInv /\ [Next]_vars => EInv'
<1> SUFFICES ASSUME EInv, [Next]_vars PROVE EInv'
  OBVIOUS
<1>1. CASE \E r \in Requests, k \in Keys, s \in Sessions \union {NoSession} : Begin(r, k, s)
  BY <1>1, BeginKeeps
<1>2. CASE \E r \in Requests : Step(r)
  BY <1>2, ReadSessionKeeps, ResetKeeps, WaitKeeps, ScrapeKeeps, SaveCookiesKeeps,
     CountAndRecordKeeps, ReleaseKeeps DEF Step
<1>3. CASE \E r \in Requests : Acquire(r) \/ Fail(r)
  BY <1>3, AcquireKeeps, FailKeeps
<1>4. CASE \E s \in Sessions : Expire(s) \/ \E k \in Keys : Create(k, s) \/ Delete(k, s)
  BY <1>4, CreateKeeps, DeleteKeeps, ExpireKeeps
<1>5. CASE UNCHANGED vars
  BY <1>5, StutterKeeps
<1> QED BY <1>1, <1>2, <1>3, <1>4, <1>5 DEF Next

(* EInv is an inductive invariant of the scrape route over the pool's       *)
(* promise and either session store.                                        *)
THEOREM EndpointInvariance == Spec => []EInv
BY InitEInv, NextKeeps, PTL DEF Spec

(* A request of _execute_one_scrape holds a worker exactly from acquire()   *)
(* to the `finally', whatever fails between, and never another's.           *)
THEOREM WorkersHeldAndReturned == Spec => []WorkerHeldWhileScraping
<1>1. EInv => WorkerHeldWhileScraping
  BY DEF EInv
<1> QED BY <1>1, EndpointInvariance, PTL

(* What a session stores and what a scrape sends was received by scrapes    *)
(* of the session's owner and of the request's key alone.                   *)
THEOREM CookiesKept == Spec => []CookiesStayWithKey
<1>1. EInv => CookiesStayWithKey
  BY DEF EInv
<1> QED BY <1>1, EndpointInvariance, PTL

(* No step, a late cookie write of a scrape included, shows a deleted or    *)
(* expired session again, in the dictionary or in PostgreSQL.               *)
THEOREM SessionsStayGone == Spec => NoResurrection
<1> DEFINE A == \A s \in Sessions : status[s] # "none" /\ ~Visible(s) => ~Read(s)'
<1>1. EInv /\ [Next]_vars => A
  <2> SUFFICES ASSUME EInv, [Next]_vars, NEW t \in Sessions, status[t] # "none", ~Visible(t)
               PROVE  ~Visible(t)'
    BY DEF Read
  <2>1. CASE \E k \in Keys, s \in Sessions : Create(k, s)
    BY <2>1 DEF EInv, TypeOK, Create, Visible
  <2>2. CASE \E s \in Sessions : Expire(s) \/ \E k \in Keys : Delete(k, s)
    BY <2>2 DEF EInv, TypeOK, Expire, Delete, Visible
  <2>3. CASE \E r \in Requests : ReadSession(r)
    BY <2>3 DEF EInv, TypeOK, ReadSession, Pruned, Visible
  <2>4. CASE UNCHANGED <<status, expired>>
    BY <2>4 DEF Visible
  <2>5. ASSUME NEW r \in Requests,
               \/ \E k \in Keys, s \in Sessions \union {NoSession} : Begin(r, k, s)
               \/ Reset(r) \/ Wait(r) \/ Scrape(r) \/ SaveCookies(r) \/ CountAndRecord(r)
               \/ Release(r) \/ Acquire(r) \/ Fail(r)
        PROVE  UNCHANGED <<status, expired>>
    BY <2>5 DEF Begin, Reset, Wait, Scrape, SaveCookies, CountAndRecord, Release, Acquire, Fail,
                Store, sessions
  <2>6. UNCHANGED vars => UNCHANGED <<status, expired>>
    BY DEF vars, sessions
  <2> QED BY <2>1, <2>2, <2>3, <2>4, <2>5, <2>6 DEF Next, Step
<1> QED BY <1>1, EndpointInvariance, PTL DEF Spec, NoResurrection

(* While a request scrapes, the worker it holds stays the same one. *)
LEMMA LeaseKept ==
    ASSUME EInv, [Next]_vars, NEW r \in Requests, pc[r] = "scrape", pc'[r] = "scrape"
    PROVE  lease'[r] = lease[r]
<1> USE DEF EInv, TypeOK, Goto, Ends
<1>1. ASSUME NEW q \in Requests, Acquire(q) PROVE lease'[r] = lease[r]
  BY <1>1 DEF Acquire, Pool!LeaseNow, Pool!Lease
<1>2. ASSUME NEW q \in Requests, Release(q) PROVE lease'[r] = lease[r]
  BY <1>2 DEF Release, Pool!Return
<1>3. ASSUME NEW q \in Requests, Wait(q) \/ Fail(q) PROVE lease'[r] = lease[r]
  BY <1>3 DEF Wait, Fail, Pool!Ask, Pool!Withdraw, workers
<1>4. ASSUME NEW q \in Requests,
             \/ \E k \in Keys, s \in Sessions \union {NoSession} : Begin(q, k, s)
             \/ ReadSession(q) \/ Reset(q) \/ Scrape(q) \/ SaveCookies(q) \/ CountAndRecord(q)
      PROVE  lease'[r] = lease[r]
  BY <1>4 DEF Begin, ReadSession, Reset, Scrape, SaveCookies, CountAndRecord, workers
<1>5. CASE UNCHANGED vars \/ \E s \in Sessions : Expire(s) \/ \E k \in Keys : Create(k, s) \/ Delete(k, s)
  BY <1>5 DEF vars, Expire, Create, Delete, workers
<1> QED BY <1>1, <1>2, <1>3, <1>4, <1>5 DEF Next, Step

(* A session's cookies change by a reset or a save of its owner's scrapes   *)
(* alone, long after the owner was checked as they may come.                *)
THEOREM OwnerWrites == Spec => WrittenByOwner
<1> DEFINE A == \A s \in Sessions : jar'[s] # jar[s] =>
                  \E r \in Requests : /\ sess[r] = s /\ who[r] = owner[s]
                                     /\ pc[r] \in {"reset", "save"}
<1>1. EInv /\ [Next]_vars => A
  <2> SUFFICES ASSUME EInv, [Next]_vars, NEW s \in Sessions, jar'[s] # jar[s]
               PROVE  \E r \in Requests : /\ sess[r] = s /\ who[r] = owner[s]
                                         /\ pc[r] \in {"reset", "save"}
    OBVIOUS
  <2>1. ASSUME NEW r \in Requests, Reset(r) \/ SaveCookies(r)
        PROVE  sess[r] = s /\ who[r] = owner[s] /\ pc[r] \in {"reset", "save"}
    <3>1. pc[r] \in {"reset", "save"} /\ sess[r] \in Sessions /\ sess[r] # NoSession
      BY <2>1 DEF EInv, LocalsKnown, Reset, SaveCookies
    <3>2. owner[sess[r]] = who[r]
      BY <3>1 DEF EInv, LocalsKnown
    <3>3. sess[r] = s
      BY <2>1 DEF EInv, TypeOK, Reset, SaveCookies, Store
    <3> QED BY <3>1, <3>2, <3>3
  <2>2. ASSUME NEW r \in Requests,
               \/ \E k \in Keys, t \in Sessions \union {NoSession} : Begin(r, k, t)
               \/ ReadSession(r) \/ Wait(r) \/ Scrape(r) \/ CountAndRecord(r)
               \/ Release(r) \/ Acquire(r) \/ Fail(r)
        PROVE  FALSE
    BY <2>2 DEF Begin, ReadSession, Wait, Scrape, CountAndRecord, Release, Acquire, Fail, sessions
  <2>3. ASSUME NEW t \in Sessions, Expire(t) \/ \E k \in Keys : Create(k, t) \/ Delete(k, t)
        PROVE  FALSE
    BY <2>3 DEF Expire, Create, Delete
  <2>4. ~UNCHANGED vars
    BY DEF vars, sessions
  <2> QED BY <2>1, <2>2, <2>3, <2>4 DEF Next, Step
<1> QED BY <1>1, EndpointInvariance, PTL DEF Spec, WrittenByOwner

(* How many steps a request takes from where it is, at most.               *)
StepsLeft ==
    [idle |-> 0, finally |-> 1, usage |-> 2, count |-> 3, save |-> 4, scrape |-> 5, acquire |-> 6,
     reset |-> 8, session |-> 9]
Left(r) == StepsLeft[pc[r]] + IF pc[r] = "acquire" /\ demand[r] = NoRegion THEN 1 ELSE 0

(* A step of a request, a failure or a cancellation included, brings it    *)
(* nearer to its end, and no step of another request takes it back.        *)
Advances ==
    \A r \in Requests :
        /\ Step(r) \/ Acquire(r) \/ Fail(r) => Left(r)' < Left(r)
        /\ pc[r] # "idle" => Left(r)' <= Left(r)

(* So a request ends after at most nine steps, once it is given a worker.  *)
THEOREM RequestsAdvance == Spec => [][Advances]_vars
<1>1. EInv /\ [Next]_vars => [Advances]_vars
  <2> SUFFICES ASSUME EInv, Next PROVE Advances
    OBVIOUS
  <2> USE DEF Left, StepsLeft, Goto, Ends, sessions, workers, local
  <2>0. /\ pc \in [Requests -> {"idle", "session", "reset", "acquire", "scrape",
                                "save", "count", "usage", "finally"}]
        /\ demand \in [Requests -> {Region, NoRegion}]
    BY DEF EInv, TypeOK
  <2>1. ASSUME NEW r \in Requests, Step(r) \/ Acquire(r) \/ Fail(r)
        PROVE  Left(r)' < Left(r) /\ Left(r)' <= Left(r)
    <3>1. CASE ReadSession(r) \/ Reset(r)
      BY <2>0, <3>1 DEF ReadSession, Reset
    <3>2. CASE Wait(r) \/ Acquire(r)
      BY <2>0, <3>2 DEF Wait, Acquire, Pool!Ask, Pool!Engaged
    <3>3. CASE Scrape(r) \/ SaveCookies(r) \/ CountAndRecord(r) \/ Release(r)
      BY <2>0, <3>3 DEF Scrape, SaveCookies, CountAndRecord, Release
    <3>4. CASE Fail(r)
      BY <2>0, <3>4 DEF Fail
    <3> QED BY <2>1, <3>1, <3>2, <3>3, <3>4 DEF Step
  <2>2. ASSUME NEW r \in Requests, pc[r] # "idle", ~(Step(r) \/ Acquire(r) \/ Fail(r))
        PROVE  Left(r)' <= Left(r)
    <3>1. CASE pc'[r] = pc[r] /\ demand'[r] = demand[r]
      BY <2>0, <3>1
    <3>2. ASSUME NEW q \in Requests, q # r, Step(q) \/ Acquire(q) \/ Fail(q)
          PROVE  pc'[r] = pc[r] /\ demand'[r] = demand[r]
      BY <2>0, <3>2 DEF Step, Acquire, Fail, ReadSession, Reset, Wait, Scrape, SaveCookies,
                        CountAndRecord, Release, Pool!Ask, Pool!LeaseNow, Pool!Lease,
                        Pool!Withdraw, Pool!Return
    <3>3. ASSUME \/ \E q \in Requests, k \in Keys, s \in Sessions \union {NoSession} : Begin(q, k, s)
                 \/ \E s \in Sessions : Expire(s) \/ \E k \in Keys : Create(k, s) \/ Delete(k, s)
          PROVE  pc'[r] = pc[r] /\ demand'[r] = demand[r]
      BY <2>0, <2>2, <3>3 DEF Begin, Expire, Create, Delete
    <3> QED BY <2>2, <3>1, <3>2, <3>3 DEF Next
  <2> QED BY <2>1, <2>2 DEF Advances
<1> QED BY <1>1, EndpointInvariance, PTL DEF Spec
===============================================================================
