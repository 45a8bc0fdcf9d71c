---------------------------- MODULE UsageAccounting ----------------------------
(***************************************************************************)
(* PostgresUsageTracker (db/usage.py) around PostgresRateLimiter.tla: the  *)
(* usage rows of each day, their rollup into daily_usage by the midnight   *)
(* job (jobs/daily_rollup.py), and the overage check, which holds the      *)
(* day's total against the allowance of the tier.                          *)
(*                                                                         *)
(* A row belongs to the day its INSERT began in, and is there when the     *)
(* statement ends: days change in between, as they do between the date a   *)
(* check asks for and its two queries.  The job is run in a process that   *)
(* is connected to the database: alone it raises at once.  Any query may   *)
(* fail.                                                                   *)
(***************************************************************************)
EXTENDS PostgresRateLimiter

CONSTANTS
    Allowance,      \* TIER_MONTHLY_REQUESTS of the keys' tier
    LastDay,        \* bound: the days of a behaviour
    MaxRows         \* bound: the usage rows of a key in a day

Days == 0 .. LastDay
NoDay == -1
NoRow == 0          \* no row of daily_usage: a rollup writes none of zero

ASSUME UsageAccountingAssumption ==
    /\ Allowance \in Nat /\ LastDay \in Nat /\ MaxRows \in Nat

VARIABLES
    today,
    asof,           \* the day the overage check of a request asks for
    missed,         \* the requests whose day has no rollup yet
    stamp,          \* created_at of the row a request is inserting
    recorded,       \* the usage_records of each key and day
    daily,          \* total_requests of daily_usage
    job             \* the day the rollup job works on

usage == <<today, asof, missed, stamp, recorded, daily, job>>
allVars == <<vars, usage>>

UsageInit ==
    /\ Init
    /\ today = 0
    /\ asof = [r \in Requests |-> NoDay]
    /\ missed = {}
    /\ stamp = [r \in Requests |-> NoDay]
    /\ recorded = [k \in Keys |-> [d \in Days |-> 0]]
    /\ daily = [k \in Keys |-> [d \in Days |-> NoRow]]
    /\ job = NoDay

-------------------------------------------------------------------------------
(* check_overage(): only paid tiers are looked up, at the date of now. *)
BeginCheck(r, k, n) ==
    /\ Begin(r, k, n)
    /\ asof' = [asof EXCEPT ![r] = IF Billed THEN today ELSE NoDay]
    /\ UNCHANGED <<today, missed, stamp, recorded, daily, job>>

(* The check ends: refused when `over', on to the rate limit otherwise.    *)
Judge(r, over) ==
    /\ CheckOverage(r)
    /\ pc'[r] = IF over THEN "idle" ELSE "lock"
    /\ asof' = [asof EXCEPT ![r] = NoDay]
    /\ missed' = missed \ {r}
    /\ UNCHANGED <<today, stamp, recorded, daily, job>>

(* get_daily_usage(): the day's rollup, *)
LookUpRollup(r) ==
    /\ pc[r] = "overage" /\ asof[r] # NoDay /\ r \notin missed
    /\ IF daily[key[r]][asof[r]] # NoRow THEN Judge(r, daily[key[r]][asof[r]] > Allowance)
       ELSE /\ missed' = missed \union {r}
            /\ UNCHANGED <<vars, today, asof, stamp, recorded, daily, job>>

(* Mutant of LiveTotal: the rows of every day are counted. *)
LiveTotalUndated(k, d) ==
    LET sum[e \in Days] == recorded[k][e] + IF e = 0 THEN 0 ELSE sum[e - 1] IN sum[LastDay]

LiveTotal(k, d) == recorded[k][d]

(* or, without one, its raw rows. *)
CountRows(r) ==
    /\ r \in missed
    /\ Judge(r, LiveTotal(key[r], asof[r]) > Allowance)

(* A tier that is exempt, or a query that fails: the request goes on. *)
SkipOverage(r) == pc[r] = "overage" /\ Judge(r, FALSE)

(* record(): the INSERT begins, *)
StartInsert(r) ==
    /\ pc[r] = "run" /\ stamp[r] = NoDay
    /\ stamp' = [stamp EXCEPT ![r] = today]
    /\ UNCHANGED <<vars, today, asof, missed, recorded, daily, job>>

(* and ends. *)
Insert(r) ==
    /\ stamp[r] # NoDay
    /\ recorded[key[r]][stamp[r]] < MaxRows
    /\ Record(r)
    /\ recorded' = [recorded EXCEPT ![key[r]][stamp[r]] = @ + 1]
    /\ stamp' = [stamp EXCEPT ![r] = NoDay]
    /\ UNCHANGED <<today, asof, missed, daily, job>>

NotInserted(r) ==
    /\ EndUnrecorded(r)
    /\ stamp' = [stamp EXCEPT ![r] = NoDay]
    /\ UNCHANGED <<today, asof, missed, recorded, daily, job>>

Midnight ==
    /\ today < LastDay
    /\ today' = today + 1
    /\ UNCHANGED <<vars, asof, missed, stamp, recorded, daily, job>>

(* run() of the job: yesterday's date, or the end of the job. *)
StartJob ==
    /\ job = NoDay /\ today > 0
    /\ job' = today - 1
    /\ UNCHANGED <<vars, today, asof, missed, stamp, recorded, daily>>

(* Mutant of RolledUp: a second run adds to what the first has written.    *)
RolledUpAgain(k, d) == daily[k][d] + recorded[k][d]

(* INSERT ... SELECT COUNT( * ) ... ON CONFLICT DO UPDATE *)
RolledUp(k, d) == recorded[k][d]

(* rollup_daily(); the job ends without it when the query fails.           *)
RunJob ==
    /\ job # NoDay
    /\ \/ daily' = [k \in Keys |-> [daily[k] EXCEPT ![job] = RolledUp(k, job)]]
       \/ UNCHANGED daily
    /\ job' = NoDay
    /\ UNCHANGED <<vars, today, asof, missed, stamp, recorded>>

CheckStep(r) ==
    \/ LookUpRollup(r) \/ CountRows(r) \/ SkipOverage(r)
    \/ (TryLock(r) \/ Count(r) \/ Unlock(r)) /\ UNCHANGED usage
RunStep(r) == StartInsert(r) \/ Insert(r) \/ NotInserted(r)

UsageNext ==
    \/ \E r \in Requests :
         \/ \E k \in Keys, n \in 1 .. MaxUnits : BeginCheck(r, k, n)
         \/ CheckStep(r)
         \/ LockFails(r) /\ UNCHANGED usage
         \/ RunStep(r)
    \/ \E k \in Keys : Expire(k) /\ UNCHANGED usage
    \/ Midnight \/ StartJob \/ RunJob

(* Database calls and scrapes end. *)
UsageFairness == \A r \in Requests : WF_allVars(CheckStep(r)) /\ WF_allVars(Insert(r) \/ NotInserted(r))

UsageSpec == UsageInit /\ [][UsageNext]_allVars /\ UsageFairness

-------------------------------------------------------------------------------
(* A request is refused for overage only if its key had used more than its *)
(* allowance on the very day the request asked for, whatever midnight, the *)
(* rollup and late rows do between its queries.                            *)
OverageIsDue ==
    [][\A r \in Requests : pc[r] = "overage" /\ pc'[r] = "idle" =>
         Billed /\ recorded[key[r]][asof[r]] > Allowance]_allVars

(* A rollup counts rows of its day that are there, of a day that is over,  *)
(* however often the job runs and fails and runs again: a row that comes   *)
(* late is missed until the next run, none is counted twice.               *)
RollupsTrue ==
    \A k \in Keys, d \in Days :
        daily[k][d] # NoRow => d < today /\ daily[k][d] <= recorded[k][d]
===============================================================================
