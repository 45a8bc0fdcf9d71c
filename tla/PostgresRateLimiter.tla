-------------------------- MODULE PostgresRateLimiter --------------------------
(***************************************************************************)
(* PostgresRateLimiter.check_many (db/rate_limiter.py), the usage rows it  *)
(* counts (db/usage.py) and the requests that write them: a single scrape, *)
(* or the items of a bulk scrape (api/routes/scrape.py), each adding its   *)
(* row when it has been scraped.  Several requests, of several API         *)
(* processes, are in flight; each database call is one step.               *)
(*                                                                         *)
(* Time is abstracted to the moments rows leave the window.  A row leaves  *)
(* it at any time, so the ages of the rows are not kept.                   *)
(***************************************************************************)
EXTENDS Integers, FiniteSets

CONSTANTS
    Requests,       \* the requests in flight
    Keys,
    Limit,          \* max_requests of the keys' tier
    MaxUnits,       \* MAX_BULK_ITEMS
    Billed,         \* a paid tier: neither free nor enterprise
    NoRequest, NoKey

ASSUME PostgresRateLimiterAssumption ==
    /\ IsFiniteSet(Requests) /\ Requests # {}
    /\ Limit \in Nat
    /\ MaxUnits \in Nat \ {0}
    /\ Billed \in BOOLEAN
    /\ NoRequest \notin Requests
    /\ NoKey \notin Keys

VARIABLES
    pc,         \* where each request is
    key,        \* its API key
    items,      \* its items that have not ended: the units it asks for
    lock,       \* the holder of each key's advisory lock
    rows        \* usage_records of each key within its window

request == <<pc, key, items>>
vars == <<request, lock, rows>>

Steps == {"idle", "overage", "lock", "relock", "count", "admit", "refuse", "run"}

Init ==
    /\ pc = [r \in Requests |-> "idle"]
    /\ key = [r \in Requests |-> NoKey]
    /\ items = [r \in Requests |-> 0]
    /\ lock = [k \in Keys |-> NoRequest]
    /\ rows = [k \in Keys |-> 0]

-------------------------------------------------------------------------------
Goto(r, step) == pc' = [pc EXCEPT ![r] = step]

(* The request ends without having been admitted. *)
Refused(r) ==
    /\ Goto(r, "idle")
    /\ key' = [key EXCEPT ![r] = NoKey]
    /\ items' = [items EXCEPT ![r] = 0]

(* A scrape asks for one unit, a bulk scrape for as many as it has items.  *)
Begin(r, k, n) ==
    /\ pc[r] = "idle"
    /\ Goto(r, "overage")
    /\ key' = [key EXCEPT ![r] = k]
    /\ items' = [items EXCEPT ![r] = n]
    /\ UNCHANGED <<lock, rows>>

(* The overage check: a key of a paid tier may be over what it includes.   *)
(* When the query fails the request goes on.                               *)
CheckOverage(r) ==
    /\ pc[r] = "overage"
    /\ \/ Billed /\ Refused(r)
       \/ Goto(r, "lock") /\ UNCHANGED <<key, items>>
    /\ UNCHANGED <<lock, rows>>

(* Mutant of TryLock: it tries until it gets the lock. *)
TryLockForever(r) ==
    /\ pc[r] \in {"lock", "relock"}
    /\ \/ /\ lock[key[r]] = NoRequest
          /\ lock' = [lock EXCEPT ![key[r]] = r]
          /\ Goto(r, "count")
       \/ /\ lock[key[r]] # NoRequest
          /\ UNCHANGED lock
          /\ Goto(r, "relock")
    /\ UNCHANGED <<key, items, rows>>

(* pg_try_advisory_lock(), once more after 50 ms, then "conservative deny" *)
TryLock(r) ==
    /\ pc[r] \in {"lock", "relock"}
    /\ \/ /\ lock[key[r]] = NoRequest
          /\ lock' = [lock EXCEPT ![key[r]] = r]
          /\ Goto(r, "count")
          /\ UNCHANGED <<key, items>>
       \/ /\ lock[key[r]] # NoRequest
          /\ UNCHANGED lock
          /\ IF pc[r] = "lock" THEN Goto(r, "relock") /\ UNCHANGED <<key, items>>
             ELSE Refused(r)
    /\ UNCHANGED rows

(* No connection, or the lock query raises: an error without the lock.     *)
LockFails(r) ==
    /\ pc[r] \in {"lock", "relock"}
    /\ Refused(r)
    /\ UNCHANGED <<lock, rows>>

(* Mutant of Fits: a batch fits as soon as one of its items does.          *)
FitsOne(k, n) == Limit - rows[k] >= 1
Fits(k, n) == Limit - rows[k] >= n

(* COUNT of the window's rows, and the verdict; a failing query refuses.   *)
Count(r) ==
    /\ pc[r] = "count"
    /\ \/ Fits(key[r], items[r]) /\ Goto(r, "admit")
       \/ Goto(r, "refuse")
    /\ UNCHANGED <<key, items, lock, rows>>

(* Mutant of Unlock: an early return forgets the lock. *)
UnlockOnAdmit(r) ==
    /\ pc[r] \in {"admit", "refuse"}
    /\ lock' = IF pc[r] = "admit" THEN [lock EXCEPT ![key[r]] = NoRequest] ELSE lock
    /\ \/ /\ pc[r] = "admit"
          /\ Goto(r, "run")
          /\ UNCHANGED <<key, items>>
       \/ /\ pc[r] = "refuse"
          /\ Refused(r)
    /\ UNCHANGED rows

(* The `finally' of the check; then the admitted request runs its items.   *)
Unlock(r) ==
    /\ pc[r] \in {"admit", "refuse"}
    /\ lock' = [lock EXCEPT ![key[r]] = NoRequest]
    /\ \/ /\ pc[r] = "admit"
          /\ Goto(r, "run")
          /\ UNCHANGED <<key, items>>
       \/ /\ pc[r] = "refuse"
          /\ Refused(r)
    /\ UNCHANGED rows

(* An admitted item ends; the request ends with its last. *)
ItemEnds(r) ==
    /\ pc[r] = "run"
    /\ items' = [items EXCEPT ![r] = @ - 1]
    /\ IF items[r] = 1 THEN Goto(r, "idle") /\ key' = [key EXCEPT ![r] = NoKey]
       ELSE UNCHANGED <<pc, key>>

(* It has been scraped, well or not, and its row is inserted.              *)
Record(r) ==
    /\ ItemEnds(r)
    /\ rows' = [rows EXCEPT ![key[r]] = @ + 1]
    /\ UNCHANGED lock

(* It ended without a row: its URL or session was refused, its task was    *)
(* cancelled, its cookies could not be saved or the insertion failed.      *)
EndUnrecorded(r) ==
    /\ ItemEnds(r)
    /\ UNCHANGED <<lock, rows>>

(* The oldest row of a key leaves the window. *)
Expire(k) ==
    /\ rows[k] > 0
    /\ rows' = [rows EXCEPT ![k] = @ - 1]
    /\ UNCHANGED <<request, lock>>

Check(r) == CheckOverage(r) \/ TryLock(r) \/ Count(r) \/ Unlock(r)

Next ==
    \/ \E r \in Requests :
         \/ \E k \in Keys, n \in 1 .. MaxUnits : Begin(r, k, n)
         \/ Check(r)
         \/ LockFails(r)
         \/ Record(r)
         \/ EndUnrecorded(r)
    \/ \E k \in Keys : Expire(k)

(* Database calls and scrapes end. *)
Fairness ==
    \A r \in Requests : WF_vars(Check(r)) /\ WF_vars(Record(r) \/ EndUnrecorded(r))

Spec == Init /\ [][Next]_vars /\ Fairness

-------------------------------------------------------------------------------
(* Every variable has its type. *)
TypeOK ==
    /\ pc \in [Requests -> Steps]
    /\ key \in [Requests -> Keys \union {NoKey}]
    /\ items \in [Requests -> 0 .. MaxUnits]
    /\ lock \in [Keys -> Requests \union {NoRequest}]
    /\ rows \in [Keys -> Nat]

(* The advisory lock of a key is held exactly by the one request that is   *)
(* counting the key's rows: no refusal, failure or cancellation leaks it.  *)
LockHeldByChecker ==
    /\ \A k \in Keys : lock[k] # NoRequest =>
         key[lock[k]] = k /\ pc[lock[k]] \in {"count", "admit", "refuse"}
    /\ \A r \in Requests : pc[r] \in {"count", "admit", "refuse"} => lock[key[r]] = r

(* The items of k that have been admitted and may still add a row. *)
Admitted(k) == {r \in Requests : key[r] = k /\ pc[r] \in {"admit", "run"}}
Outstanding(k) ==
    {p \in Requests \X (1 .. MaxUnits) : p[1] \in Admitted(k) /\ p[2] <= items[p[1]]}

(* A check counts the rows there are and reserves nothing, so the requests *)
(* in flight may pass the limit, but by no more than the other requests in *)
(* flight may add: with one request at a time the limit is exact.          *)
OvershootBounded ==
    \A k \in Keys :
        rows[k] + Cardinality(Outstanding(k)) <= Limit + (Cardinality(Requests) - 1) * MaxUnits

(* The limiter is a quota too, as the in-memory one is, of rows and of     *)
(* items that may still add one, but of a looser limit: what a key has     *)
(* used grows only by an admission, while there is room for the whole of   *)
(* the batch, and only of the one key that asked.                          *)
Promise == INSTANCE Quota WITH
    Limits <- [k \in Keys |-> Limit + (Cardinality(Requests) - 1) * MaxUnits],
    Batches <- 1 .. MaxUnits,
    spent <- [k \in Keys |-> rows[k] + Cardinality(Outstanding(k))]
ImplementsLooseQuota == Promise!Spec

(* Every check ends, by an admission or a refusal. *)
CheckAnswers ==
    \A r \in Requests : pc[r] # "idle" ~> pc[r] \in {"idle", "run"}

(* What the advisory lock is meant for: "Advisory lock serializes per-key  *)
(* checks (prevents race in count)", db/rate_limiter.py:60.                *)
QuotaRespected == \A k \in Keys : rows[k] <= Limit
================================================================================
