-------------------------------- MODULE Quota --------------------------------
(***************************************************************************)
(* What a rate limiter promises (the RateLimiter protocol of               *)
(* api/rate_limiter.py): of each key, at most its limit of requests are    *)
(* accounted in a window, and a batch is admitted as a whole or not at     *)
(* all.  Time is abstracted to the moments requests leave the window.      *)
(***************************************************************************)
EXTENDS Integers

CONSTANTS
    Keys,
    Limits,      \* max_requests of each key's tier
    Batches      \* the sizes of the batches that may ask

VARIABLE spent       \* the requests of each key accounted in its window

Init == spent = [k \in Keys |-> 0]

Room(k, n) == spent[k] + n <= Limits[k]

Admit(k, n) ==
    /\ Room(k, n)
    /\ spent' = [spent EXCEPT ![k] = @ + n]

(* Requests leave the windows. *)
Expire ==
    /\ spent' \in [Keys -> Nat]
    /\ \A k \in Keys : spent'[k] <= spent[k]

Next ==
    \/ \E k \in Keys, n \in Batches : Admit(k, n)
    \/ Expire

Spec == Init /\ [][Next]_spent
==============================================================================
