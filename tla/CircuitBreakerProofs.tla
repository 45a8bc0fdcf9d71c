------------------------- MODULE CircuitBreakerProofs -------------------------
(***************************************************************************)
(* Safety of the circuit breakers for every number of providers and calls  *)
(* and every threshold of at least two (production: three).  With a        *)
(* threshold of one, the health checker would leave a DEGRADED breaker     *)
(* with a count at its threshold.                                          *)
(***************************************************************************)
EXTENDS CircuitBreaker, TLAPS

IInv == TypeOK /\ ClosedBelowThreshold

(* Initially every breaker is UP and has counted nothing. *)
LEMMA InitIInv == Init => IInv
  BY CircuitBreakerAssumption
  DEF Init, CircuitInit, IInv, TypeOK, ClosedBelowThreshold, States

(* Counting saturates at the threshold, and reaches it one at a time. *)
LEMMA OneMoreCounts ==
    ASSUME NEW n \in 0 .. Threshold
    PROVE  OneMore(n) \in 0 .. Threshold
  BY CircuitBreakerAssumption DEF OneMore

(* Recording an outcome keeps the types and the threshold. *)
LEMMA RecordKeepsIInv ==
    ASSUME TypeOK, ClosedBelowThreshold,
           NEW b \in Breakers, NEW outcome \in Outcomes, Record(b, outcome)
    PROVE  /\ state' \in [Breakers -> States]
           /\ failures' \in [Breakers -> 0 .. Threshold]
           /\ age' \in [Breakers -> 0 .. RecoveryTimeout + 1 \union {Never}]
           /\ ClosedBelowThreshold'
  <1> USE DEF TypeOK, ClosedBelowThreshold
  <1>1. CASE RecordSuccess(b)
    BY <1>1, CircuitBreakerAssumption DEF RecordSuccess, States
  <1>2. CASE RecordFailure(b)
    <2>1. OneMore(failures[b]) \in 0 .. Threshold
      BY OneMoreCounts
    <2>2. /\ failures' = [failures EXCEPT ![b] = OneMore(failures[b])]
          /\ failures'[b] = OneMore(failures[b])
          /\ age' = [age EXCEPT ![b] = 0]
          /\ state' = [state EXCEPT
                         ![b] = IF failures'[b] >= Threshold THEN "DOWN" ELSE state[b]]
      BY <1>2 DEF RecordFailure
    <2>3. /\ state' \in [Breakers -> States]
          /\ failures' \in [Breakers -> 0 .. Threshold]
          /\ age' \in [Breakers -> 0 .. RecoveryTimeout + 1 \union {Never}]
      BY <2>1, <2>2, CircuitBreakerAssumption DEF States
    <2>4. ClosedBelowThreshold'
      BY <2>1, <2>2, CircuitBreakerAssumption
    <2>5. QED BY <2>3, <2>4
  <1>3. CASE UNCHANGED breaker
    BY <1>3 DEF breaker
  <1>4. QED BY <1>1, <1>2, <1>3 DEF Record

(* A verdict of the health checker does as well. *)
LEMMA JudgeKeepsIInv ==
    ASSUME TypeOK, ClosedBelowThreshold,
           NEW b \in Breakers, NEW verdict \in Verdicts, Judge(b, verdict)
    PROVE  /\ state' \in [Breakers -> States]
           /\ failures' \in [Breakers -> 0 .. Threshold]
           /\ age' = age
           /\ ClosedBelowThreshold'
  <1> USE DEF TypeOK, ClosedBelowThreshold
  <1>1. CASE state' = [state EXCEPT ![b] = "RECOVERING"] /\ UNCHANGED <<failures, age>>
    BY <1>1 DEF States
  <1>2. CASE /\ state' = [state EXCEPT ![b] = "DEGRADED"]
             /\ failures' = [failures EXCEPT ![b] = 1]
             /\ UNCHANGED age
    BY <1>2, CircuitBreakerAssumption DEF States
  <1>3. CASE state' = [state EXCEPT ![b] = "DOWN"] /\ UNCHANGED <<failures, age>>
    BY <1>3 DEF States
  <1>4. CASE UNCHANGED breaker
    BY <1>4 DEF breaker
  <1>5. QED BY <1>1, <1>2, <1>3, <1>4 DEF Judge

(* Every step keeps the types and the threshold. *)
LEMMA NextIInv == IInv /\ [Next]_vars => IInv'
  <1> SUFFICES ASSUME IInv, [Next]_vars PROVE IInv'
    OBVIOUS
  <1> USE DEF IInv
  <1>1. ASSUME NEW k \in Calls, NEW b \in Breakers, Enter(k, b)
        PROVE  IInv'
    <2>1. TypeOK'
      BY <1>1 DEF Enter, PassGate, TypeOK, States
    <2>2. ClosedBelowThreshold'
      BY <1>1 DEF Enter, PassGate, TypeOK, ClosedBelowThreshold
    <2>3. QED BY <2>1, <2>2
  <1>2. ASSUME NEW k \in Calls, NEW outcome \in Outcomes, Answer(k, outcome)
        PROVE  IInv'
    <2>1. PICK b \in Breakers : Record(b, outcome)
      BY <1>2 DEF Answer, TypeOK
    <2>2. UNCHANGED <<good, checking>>
          /\ inside' = [inside EXCEPT ![k] = NoBreaker]
      BY <1>2 DEF Answer
    <2>3. QED BY <2>1, <2>2, RecordKeepsIInv DEF TypeOK
  <1>3. CASE StartRound
    <2>1. CheckOrder # <<>> => Len(CheckOrder) >= 1
      BY CircuitBreakerAssumption
    <2>2. checking' \in 0 .. Len(CheckOrder)
      BY <1>3, <2>1, CircuitBreakerAssumption DEF StartRound
    <2>3. QED BY <1>3, <2>2 DEF StartRound, breaker, TypeOK, ClosedBelowThreshold
  <1>4. ASSUME NEW verdict \in Verdicts, Check(verdict)
        PROVE  IInv'
    <2>1. checking \in 1 .. Len(CheckOrder) /\ Len(CheckOrder) \in Nat
      BY <1>4, CircuitBreakerAssumption DEF Check, TypeOK
    <2>2. PICK b \in Breakers : Judge(b, verdict)
      BY <1>4, <2>1, CircuitBreakerAssumption DEF Check
    <2>3. checking' \in 0 .. Len(CheckOrder) /\ UNCHANGED <<good, inside>>
      BY <1>4, <2>1 DEF Check
    <2>4. QED BY <2>2, <2>3, JudgeKeepsIInv DEF TypeOK
  <1>5. CASE Tick
    <2>1. age' \in [Breakers -> 0 .. RecoveryTimeout + 1 \union {Never}]
      BY <1>5, CircuitBreakerAssumption DEF Tick, Pass, Older, TypeOK
    <2>2. QED BY <1>5, <2>1 DEF Tick, Pass, TypeOK, ClosedBelowThreshold
  <1>6. ASSUME NEW b \in Breakers, Flip(b)
        PROVE  IInv'
    BY <1>6 DEF Flip, breaker, TypeOK, ClosedBelowThreshold
  <1>7. CASE UNCHANGED vars
    BY <1>7 DEF vars, TypeOK, ClosedBelowThreshold
  <1>8. QED BY <1>1, <1>2, <1>3, <1>4, <1>5, <1>6, <1>7 DEF Next

(* The types and the threshold hold in every reachable state. *)
THEOREM Invariance == Spec => []IInv
  BY InitIInv, NextIInv, PTL DEF Spec

(* The variables of the breakers keep their types. *)
THEOREM TypeCorrect == Spec => []TypeOK
  <1>1. IInv => TypeOK
    BY DEF IInv
  <1>2. QED BY <1>1, Invariance, PTL

(* No interleaving of late outcomes and unlocked health verdicts leaves a  *)
(* breaker closed with as many failures as its threshold.                  *)
THEOREM ThresholdOpens == Spec => []ClosedBelowThreshold
  <1>1. IInv => ClosedBelowThreshold
    BY DEF IInv
  <1>2. QED BY <1>1, Invariance, PTL

(* The step of a breaker. *)
EdgeTaken == \A b \in Breakers : state'[b] # state[b] => <<state[b], state'[b]>> \in Edges

LEMMA StepsOnEdges == TypeOK /\ [Next]_vars => [EdgeTaken]_vars
  <1> SUFFICES ASSUME TypeOK, Next, NEW b \in Breakers, state'[b] # state[b]
               PROVE  <<state[b], state'[b]>> \in Edges
    BY DEF EdgeTaken
  <1> USE DEF Edges
  <1>1. state[b] \in States
    BY DEF TypeOK
  <1>2. ASSUME NEW k \in Calls, NEW d \in Breakers, Enter(k, d)
        PROVE  <<state[b], state'[b]>> \in Edges
    BY <1>2 DEF Enter, PassGate, TypeOK
  <1>3. ASSUME NEW k \in Calls, NEW outcome \in Outcomes, Answer(k, outcome)
        PROVE  <<state[b], state'[b]>> \in Edges
    <2>1. PICK d \in Breakers : Record(d, outcome)
      BY <1>3 DEF Answer, TypeOK
    <2>2. CASE RecordSuccess(d)
      BY <2>2 DEF RecordSuccess, TypeOK
    <2>3. CASE RecordFailure(d)
      <3>1. state'[b] = "DOWN"
        BY <2>3 DEF RecordFailure, TypeOK
      <3>2. QED BY <1>1, <3>1 DEF States
    <2>4. CASE UNCHANGED breaker
      BY <2>4 DEF breaker
    <2>5. QED BY <2>1, <2>2, <2>3, <2>4 DEF Record
  <1>4. ASSUME NEW verdict \in Verdicts, Check(verdict)
        PROVE  <<state[b], state'[b]>> \in Edges
    <2>1. checking \in 1 .. Len(CheckOrder)
      BY <1>4, CircuitBreakerAssumption DEF Check, TypeOK
    <2>2. PICK d \in Breakers : Judge(d, verdict)
      BY <1>4, <2>1, CircuitBreakerAssumption DEF Check
    <2>3. QED BY <1>1, <2>2 DEF Judge, breaker, TypeOK, States
  <1>5. StartRound \/ Tick \/ (\E d \in Breakers : Flip(d)) => UNCHANGED state
    BY DEF StartRound, Tick, Pass, Flip, breaker
  <1>6. QED BY <1>2, <1>3, <1>4, <1>5 DEF Next

(* A breaker only takes the edges of its state machine: in particular only *)
(* a call that succeeds while it is RECOVERING closes it.                  *)
THEOREM EdgesOnly == Spec => StateMachine
  BY StepsOnEdges, TypeCorrect, PTL DEF Spec, StateMachine, EdgeTaken
===============================================================================
