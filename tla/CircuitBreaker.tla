---------------------------- MODULE CircuitBreaker ----------------------------
(***************************************************************************)
(* CircuitBreaker and ProviderHealthChecker (providers/health.py): a       *)
(* breaker in front of every proxy provider, driven by the calls of the    *)
(* workers and, without its lock, by the periodic health checker.          *)
(*                                                                         *)
(* One asyncio loop runs it all.  A call suspends only inside the          *)
(* provider, between the gate and the record of its outcome, so calls      *)
(* overlap there: with each other, with the health checker and with time.  *)
(***************************************************************************)
EXTENDS Integers, Sequences

CONSTANTS
    Calls,             \* the get_proxy() calls that may be in flight together
    Breakers,
    CheckOrder,        \* the iteration order of the health checker
    Threshold,         \* failure_threshold
    RecoveryTimeout,   \* recovery_timeout, in ticks
    Never,             \* last_failure is None
    NoBreaker

ASSUME CircuitBreakerAssumption ==
    /\ Threshold \in Nat /\ Threshold >= 2
    /\ RecoveryTimeout \in Nat
    /\ CheckOrder \in Seq(Breakers)
    /\ Never \notin Nat
    /\ NoBreaker \notin Breakers

VARIABLES
    state,       \* CircuitBreaker.state
    failures,    \* CircuitBreaker.failures, counted up to Threshold
    age,         \* ticks since last_failure, up to RecoveryTimeout + 1
    good,        \* whether the provider is up: external
    inside,      \* the breaker whose provider each call is in
    checking     \* the breaker of the round being checked, 0 between rounds

breaker == <<state, failures, age>>
vars == <<state, failures, age, good, inside, checking>>

States == {"UP", "DEGRADED", "DOWN", "RECOVERING"}
Outcomes == {"proxy", "counted", "uncounted"}
Verdicts == {"healthy", "unhealthy", "raises"}

CircuitInit ==
    /\ state = [b \in Breakers |-> "UP"]
    /\ failures = [b \in Breakers |-> 0]
    /\ age = [b \in Breakers |-> Never]

Init ==
    /\ CircuitInit
    /\ good \in [Breakers -> BOOLEAN]
    /\ inside = [k \in Calls |-> NoBreaker]
    /\ checking = 0

-------------------------------------------------------------------------------
(* Mutant of Open: the recovery timeout is forgotten. *)
OpenUnlessDown(b) == state[b] # "DOWN"

(* The gate of get_proxy(): shut while DOWN, until the last failure is     *)
(* older than the recovery timeout.                                        *)
Open(b) == state[b] # "DOWN" \/ (age[b] # Never /\ age[b] > RecoveryTimeout)

PassGate(b) ==
    /\ Open(b)
    /\ state' = [state EXCEPT ![b] = IF @ = "DOWN" THEN "RECOVERING" ELSE @]
    /\ UNCHANGED <<failures, age>>

(* Mutants of RecordSuccess: any success closes the breaker; a success     *)
(* never does.                                                             *)
RecordSuccessAlways(b) ==
    /\ failures' = [failures EXCEPT ![b] = 0]
    /\ state' = [state EXCEPT ![b] = "UP"]
    /\ UNCHANGED age
RecordSuccessNever(b) ==
    /\ failures' = [failures EXCEPT ![b] = 0]
    /\ UNCHANGED <<state, age>>

RecordSuccess(b) ==
    /\ failures' = [failures EXCEPT ![b] = 0]
    /\ state' = [state EXCEPT ![b] = IF @ = "RECOVERING" THEN "UP" ELSE @]
    /\ UNCHANGED age

(* The count only matters up to the threshold, where it saturates. *)
OneMore(n) == IF n < Threshold THEN n + 1 ELSE n

(* Mutant of RecordFailure: the count tested before the failure is added.  *)
RecordFailureLate(b) ==
    /\ failures' = [failures EXCEPT ![b] = OneMore(@)]
    /\ age' = [age EXCEPT ![b] = 0]
    /\ state' = [state EXCEPT ![b] = IF failures[b] >= Threshold THEN "DOWN" ELSE @]

RecordFailure(b) ==
    /\ failures' = [failures EXCEPT ![b] = OneMore(@)]
    /\ age' = [age EXCEPT ![b] = 0]
    /\ state' = [state EXCEPT ![b] = IF failures'[b] >= Threshold THEN "DOWN" ELSE @]

(* What the outcome of the provider does to the breaker: an exception that *)
(* is neither PoolExhaustedError nor ProviderError (an httpx error, a      *)
(* cancellation) is not counted at all.                                    *)
Record(b, outcome) ==
    \/ outcome = "proxy" /\ RecordSuccess(b)
    \/ outcome = "counted" /\ RecordFailure(b)
    \/ outcome = "uncounted" /\ UNCHANGED breaker

-------------------------------------------------------------------------------
(* get_proxy(): past the gate, into the provider. *)
Enter(k, b) ==
    /\ inside[k] = NoBreaker
    /\ PassGate(b)
    /\ inside' = [inside EXCEPT ![k] = b]
    /\ UNCHANGED <<good, checking>>

(* The provider answers; one that is up hands out a proxy. *)
Answer(k, outcome) ==
    LET b == inside[k] IN
    /\ b # NoBreaker
    /\ good[b] => outcome = "proxy"
    /\ Record(b, outcome)
    /\ inside' = [inside EXCEPT ![k] = NoBreaker]
    /\ UNCHANGED <<good, checking>>

(* The health checker wakes up and asks the first provider. *)
StartRound ==
    /\ checking = 0
    /\ checking' = IF CheckOrder = <<>> THEN 0 ELSE 1
    /\ UNCHANGED <<breaker, good, inside>>

(* The verdict on b, applied to the state b has by then, without its lock. *)
Judge(b, verdict) ==
    \/ /\ verdict = "healthy" /\ state[b] \in {"DOWN", "DEGRADED"}
       /\ state' = [state EXCEPT ![b] = "RECOVERING"]
       /\ UNCHANGED <<failures, age>>
    \/ /\ verdict = "unhealthy" /\ state[b] = "UP"
       /\ state' = [state EXCEPT ![b] = "DEGRADED"]
       /\ failures' = [failures EXCEPT ![b] = 1]
       /\ UNCHANGED age
    \/ /\ verdict = "raises"
       /\ state' = [state EXCEPT ![b] = "DOWN"]
       /\ UNCHANGED <<failures, age>>
    \/ /\ verdict = "healthy" /\ state[b] \in {"UP", "RECOVERING"}
       /\ UNCHANGED breaker
    \/ /\ verdict = "unhealthy" /\ state[b] # "UP"
       /\ UNCHANGED breaker

(* The provider under check answers, and the checker goes on to the next.  *)
Check(verdict) ==
    /\ checking # 0
    /\ good[CheckOrder[checking]] => verdict = "healthy"
    /\ Judge(CheckOrder[checking], verdict)
    /\ checking' = IF checking = Len(CheckOrder) THEN 0 ELSE checking + 1
    /\ UNCHANGED <<good, inside>>

(* Time passes for one last_failure; beyond the timeout it does not matter *)
Older(a) == IF a # Never /\ a <= RecoveryTimeout THEN a + 1 ELSE a
Pass ==
    /\ age' = [b \in Breakers |-> Older(age[b])]
    /\ UNCHANGED <<state, failures>>

Tick ==
    /\ \E b \in Breakers : Older(age[b]) # age[b]
    /\ Pass
    /\ UNCHANGED <<good, inside, checking>>

(* External: a provider comes up or goes down. *)
Flip(b) ==
    /\ good' = [good EXCEPT ![b] = ~@]
    /\ UNCHANGED <<breaker, inside, checking>>

Next ==
    \/ \E k \in Calls :
         \/ \E b \in Breakers : Enter(k, b)
         \/ \E outcome \in Outcomes : Answer(k, outcome)
    \/ StartRound
    \/ \E verdict \in Verdicts : Check(verdict)
    \/ Tick
    \/ \E b \in Breakers : Flip(b)

(* Provider calls and health checks answer (httpx timeouts bound them),    *)
(* the checker's loop goes on, time passes, and requests keep coming to    *)
(* every provider.                                                         *)
Fairness ==
    /\ \A k \in Calls : WF_vars(\E outcome \in Outcomes : Answer(k, outcome))
    /\ \A b \in Breakers : SF_vars(\E k \in Calls : Enter(k, b))
    /\ WF_vars(StartRound)
    /\ WF_vars(\E verdict \in Verdicts : Check(verdict))
    /\ WF_vars(Tick)

Spec == Init /\ [][Next]_vars /\ Fairness

-------------------------------------------------------------------------------
(* Every variable has its type. *)
TypeOK ==
    /\ state \in [Breakers -> States]
    /\ failures \in [Breakers -> 0 .. Threshold]
    /\ age \in [Breakers -> 0 .. RecoveryTimeout + 1 \union {Never}]
    /\ good \in [Breakers -> BOOLEAN]
    /\ inside \in [Calls -> Breakers \union {NoBreaker}]
    /\ checking \in 0 .. Len(CheckOrder)

(* A breaker whose count has reached the threshold is never left closed,   *)
(* however late outcomes, health verdicts and resets interleave.           *)
ClosedBelowThreshold ==
    \A b \in Breakers : state[b] \in {"UP", "DEGRADED"} => failures[b] < Threshold

(* The edges of the breaker's state machine.  A late success never closes  *)
(* a breaker that is DOWN or DEGRADED, and a health check never closes one *)
(* at all: a breaker is closed only by a call that got a proxy while it    *)
(* was RECOVERING.                                                         *)
Edges == { <<"UP", "DEGRADED">>, <<"UP", "DOWN">>,
           <<"DEGRADED", "RECOVERING">>, <<"DEGRADED", "DOWN">>,
           <<"DOWN", "RECOVERING">>,
           <<"RECOVERING", "UP">>, <<"RECOVERING", "DOWN">> }
StateMachine ==
    [][\A b \in Breakers : state'[b] # state[b] => <<state[b], state'[b]>> \in Edges]_vars

(* A provider that comes back for good is eventually used without          *)
(* restriction again.                                                      *)
RecoversWhenUp ==
    \A b \in Breakers : <>[](good[b]) => <>[](state[b] = "UP")

(* Even if the provider never passes a health check, a breaker opened by a *)
(* failure is eventually probed by a call again.                           *)
DownThenProbed ==
    \A b \in Breakers : state[b] = "DOWN" /\ age[b] # Never ~> state[b] # "DOWN"
===============================================================================
