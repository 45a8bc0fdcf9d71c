------------------------- MODULE SlidingWindowLimiter -------------------------
(***************************************************************************)
(* SlidingWindowLimiter (api/rate_limiter.py): the limiter of a single     *)
(* process.  Of each key it keeps the times of the admitted requests, the  *)
(* oldest first, and prunes them when the key asks again.                  *)
(*                                                                         *)
(* check_many() never suspends: it is one step.  A time is kept as its     *)
(* age; ages beyond the window, all pruned alike, are not told apart.      *)
(***************************************************************************)
EXTENDS Integers, Sequences, FiniteSets, FiniteSetsExt

CONSTANTS
    Keys,
    Limits,        \* max_requests of each key's tier, Unlimited if none
    Windows,       \* window_seconds of each key's tier, in ticks
    Batches        \* the counts check_many() is called with

(* max_requests of a tier without a limit. *)
Unlimited == -1

ASSUME SlidingWindowAssumption ==
    /\ Limits \in [Keys -> Nat \union {Unlimited}]
    /\ Windows \in [Keys -> Nat]
    /\ Batches \subseteq Nat

VARIABLES
    windows,     \* _windows
    answer       \* what the last check answered

vars == <<windows, answer>>

NoAnswer == [key |-> "none"]

Init ==
    /\ windows = [k \in Keys |-> <<>>]
    /\ answer = NoAnswer

-------------------------------------------------------------------------------
Stale(k, a) == a > Windows[k]

(* Mutant of Prune: nothing is ever pruned. *)
PruneNothing(k, s) == s

(* popleft() while the oldest entry is before the cutoff. *)
Prune(k, s) ==
    LET kept == {i \in DOMAIN s : ~Stale(k, s[i])} IN
    IF kept = {} THEN <<>> ELSE SubSeq(s, Min(kept), Len(s))

Units(count) == IF count < 1 THEN 1 ELSE count

(* Mutant of Denied: a batch is admitted as soon as one request fits.      *)
DeniedWhenFull(k, s, n) == Limits[k] - Len(s) < 1

Denied(k, s, n) == Limits[k] - Len(s) < n

Entries(n) == [i \in 1 .. n |-> 0]

(* check() and check_many(). *)
Check(k, count) ==
    LET n == Units(count)
        fresh == Prune(k, windows[k])
        remaining == Limits[k] - Len(fresh)
    IN
    \/ /\ Limits[k] = Unlimited
       /\ answer' = [key |-> k, units |-> n, allowed |-> TRUE, remaining |-> Unlimited]
       /\ UNCHANGED windows
    \/ /\ Limits[k] # Unlimited /\ Denied(k, fresh, n)
       /\ windows' = [windows EXCEPT ![k] = fresh]
       /\ answer' = [key |-> k, units |-> n, allowed |-> FALSE,
                     remaining |-> IF remaining > 0 THEN remaining ELSE 0]
    \/ /\ Limits[k] # Unlimited /\ ~Denied(k, fresh, n)
       /\ windows' = [windows EXCEPT ![k] = fresh \o Entries(n)]
       /\ answer' = [key |-> k, units |-> n, allowed |-> TRUE, remaining |-> remaining - n]

(* Time passes. *)
Older(k, s) == [i \in DOMAIN s |-> IF Stale(k, s[i]) THEN s[i] ELSE s[i] + 1]
Tick ==
    /\ windows' = [k \in Keys |-> Older(k, windows[k])]
    /\ UNCHANGED answer

Next ==
    \/ \E k \in Keys, count \in Batches : Check(k, count)
    \/ Tick

Spec == Init /\ [][Next]_vars

-------------------------------------------------------------------------------
Metered == {k \in Keys : Limits[k] # Unlimited}

(* Every variable has its type. *)
TypeOK ==
    /\ windows \in [Keys -> Seq(Nat)]
    /\ \A k \in Keys : \A i \in DOMAIN windows[k] : windows[k][i] <= Windows[k] + 1
    /\ answer # NoAnswer =>
         /\ answer.key \in Keys /\ answer.allowed \in BOOLEAN
         /\ answer.key \in Metered => answer.remaining \in Nat

(* The requests admitted within the window of k, pruned or not. *)
Live(k, s) == Cardinality({i \in DOMAIN s : ~Stale(k, s[i])})

(* The limiter is a quota of the requests admitted in the last window: at  *)
(* no moment are there more than the limit, whatever the pruning does.     *)
Promise == INSTANCE Quota WITH
    Keys <- Metered,
    Limits <- [k \in Metered |-> Limits[k]],
    Batches <- {Units(c) : c \in Batches},
    spent <- [k \in Metered |-> Live(k, windows[k])]
ImplementsQuota == Promise!Spec

(* A batch is refused only when too many of the requests admitted within   *)
(* the last window remain: no refusal counts requests that have left it.   *)
RefusesOnlyWhenFull ==
    [][\A k \in Metered :
         answer' # answer /\ answer'.key = k /\ ~answer'.allowed =>
           Live(k, windows[k]) + answer'.units > Limits[k]]_vars

(* What a check reports as remaining, to the client in a header, is what   *)
(* can still be admitted at that moment.                                   *)
RemainingIsTrue ==
    [][\A k \in Metered :
         answer' # answer /\ answer'.key = k =>
           answer'.remaining = Limits[k] - Live(k, windows'[k])]_vars
===============================================================================
