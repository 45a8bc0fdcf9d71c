--------------------------- MODULE WorkerPoolProofs ---------------------------
(***************************************************************************)
(* Safety of the browser worker pool for every number of callers, regions  *)
(* and workers: the properties TLC checks in run worker_pool, by one       *)
(* inductive invariant.                                                    *)
(***************************************************************************)
EXTENDS WorkerPool, FiniteSetTheorems, SequenceTheorems, TLAPS

(* What is queued: suspended callers of that region, each once. *)
QueueOK ==
    \A r \in Regions :
        /\ \A i \in 1 .. Len(queue[r]) :
             /\ pc[queue[r][i]] = "waiting"
             /\ Region(queue[r][i]) = r
        /\ \A i, j \in 1 .. Len(queue[r]) : queue[r][i] = queue[r][j] => i = j

(* What is held: LeaseExact with the reasons that make it inductive. *)
LeaseOK ==
    /\ \A c \in Callers : pc[c] # "raised"
    /\ \A c \in Callers : pc[c] # "leased" => held[c] = NoWorker
    /\ \A c \in Callers : pc[c] = "leased" =>
         /\ held[c] \in WorkersOf(Region(c))
         /\ leaseRegion[held[c]] = Region(c)
         /\ busy[held[c]] = TRUE
    /\ \A c, d \in Callers :
         pc[c] = "leased" /\ pc[d] = "leased" /\ held[c] = held[d] => c = d
    /\ \A w \in Workers : busy[w] = TRUE => \E c \in Callers : held[c] = w

IInv == TypeOK /\ QueueOK /\ LeaseOK /\ PermitsBalance /\ NoLostWakeup

-------------------------------------------------------------------------------
(* A worker belongs to one region. *)
LEMMA WorkersPartition ==
    /\ \A r \in Regions : WorkersOf(r) \subseteq Workers
    /\ \A r, s \in Regions : \A w : w \in WorkersOf(r) /\ w \in WorkersOf(s) => r = s
    /\ \A w \in Workers : \E r \in Regions : w \in WorkersOf(r)
  <1>1. \A r \in Regions : WorkersOf(r) \subseteq Workers
    BY DEF Workers
  <1>2. \A r, s \in Regions : \A w : w \in WorkersOf(r) /\ w \in WorkersOf(s) => r = s
    BY DEF WorkersOf
  <1>3. \A w \in Workers : \E r \in Regions : w \in WorkersOf(r)
    BY DEF Workers
  <1>4. QED BY <1>1, <1>2, <1>3

(* A region has Size[r] workers. *)
LEMMA WorkersCounted ==
    ASSUME NEW r \in Regions
    PROVE  IsFiniteSet(WorkersOf(r)) /\ Cardinality(WorkersOf(r)) = Size[r]
  <1> DEFINE n == Size[r]
             f == [i \in 0 .. n - 1 |-> <<r, i>>]
  <1>1. n \in Nat
    BY WorkerPoolAssumption
  <1>2. IsFiniteSet(0 .. n - 1) /\ Cardinality(0 .. n - 1) = n
    <2>1. 0 \in Int /\ n - 1 \in Int
      BY <1>1
    <2>2. /\ IsFiniteSet(0 .. n - 1)
          /\ Cardinality(0 .. n - 1) = IF 0 > n - 1 THEN 0 ELSE (n - 1) - 0 + 1
      BY <2>1, FS_Interval
    <2>3. QED BY <1>1, <2>2
  <1>3. f \in Bijection(0 .. n - 1, WorkersOf(r))
    <2>1. f \in [0 .. n - 1 -> WorkersOf(r)]
      BY DEF WorkersOf
    <2>2. \A i, j \in 0 .. n - 1 : f[i] = f[j] => i = j
      OBVIOUS
    <2>3. \A w \in WorkersOf(r) : \E i \in 0 .. n - 1 : f[i] = w
      BY DEF WorkersOf
    <2>4. QED BY <2>1, <2>2, <2>3 DEF Bijection, Injection, Surjection, IsInjective
  <1>4. QED BY <1>2, <1>3, FS_Bijection DEF ExistsBijection

(* RemoveAt drops one element and keeps the order of the others. *)
LEMMA RemoveAtProperties ==
    ASSUME NEW S, NEW q \in Seq(S), NEW i \in 1 .. Len(q)
    PROVE  /\ RemoveAt(q, i) \in Seq(S)
           /\ Len(RemoveAt(q, i)) = Len(q) - 1
           /\ \A j \in 1 .. Len(q) - 1 :
                RemoveAt(q, i)[j] = IF j < i THEN q[j] ELSE q[j + 1]
  <1> DEFINE left  == SubSeq(q, 1, i - 1)
             right == SubSeq(q, i + 1, Len(q))
  <1>1. Len(q) \in Nat
    OBVIOUS
  <1>2. /\ left \in Seq(S)
        /\ Len(left) = i - 1
        /\ \A j \in 1 .. i - 1 : left[j] = q[j]
    BY <1>1, SubSeqProperties
  <1>3. /\ right \in Seq(S)
        /\ Len(right) = Len(q) - i
        /\ \A j \in 1 .. Len(q) - i : right[j] = q[i + j]
    BY <1>1, SubSeqProperties
  <1>4. /\ left \o right \in Seq(S)
        /\ Len(left \o right) = Len(left) + Len(right)
        /\ \A j \in 1 .. Len(left) + Len(right) :
             (left \o right)[j] =
                IF j <= Len(left) THEN left[j] ELSE right[j - Len(left)]
    BY <1>2, <1>3, ConcatProperties
  <1> HIDE DEF left, right
  <1>5. Len(left) + Len(right) = Len(q) - 1
    BY <1>1, <1>2, <1>3
  <1>6. ASSUME NEW j \in 1 .. Len(q) - 1
        PROVE  (left \o right)[j] = IF j < i THEN q[j] ELSE q[j + 1]
    <2>1. j \in 1 .. Len(left) + Len(right)
      BY <1>5
    <2>2. CASE j < i
      <3>1. j \in 1 .. i - 1
        BY <2>2, <1>1
      <3>2. QED BY <2>1, <2>2, <3>1, <1>1, <1>2, <1>4
    <2>3. CASE ~(j < i)
      <3>1. j - Len(left) \in 1 .. Len(q) - i /\ i + (j - Len(left)) = j + 1
        BY <2>3, <1>1, <1>2
      <3>2. ~(j <= Len(left))
        BY <2>3, <1>1, <1>2
      <3>3. (left \o right)[j] = right[j - Len(left)]
        BY <2>1, <3>2, <1>4
      <3>4. QED BY <2>3, <3>1, <3>3, <1>3
    <2>4. QED BY <2>2, <2>3
  <1>7. RemoveAt(q, i) = left \o right
    BY DEF RemoveAt, left, right
  <1>8. QED BY <1>4, <1>5, <1>6, <1>7

(* What WakeUpNext does with the `value' permits of region r: none is lost *)
(* or forged, the queues stay in order, and it leaves no permit beside a   *)
(* waiter unless a granted one remains to pass it on.                      *)
LEMMA WakeUpNextEffect ==
    ASSUME TypeOK, QueueOK,
           NEW c \in Callers, NEW at \in {"out", "leased"},
           NEW r \in Regions, NEW value \in Nat,
           pc[c] # "waiting",
           WakeUpNext(c, at, r, value),
           \A d \in Callers : d # c => asked'[d] = asked[d]
    PROVE  /\ permits' \in [Regions -> Nat]
           /\ queue' \in [Regions -> Seq(Callers)]
           /\ pc' \in [Callers -> {"out", "waiting", "granted", "leased", "raised"}]
           /\ pc'[c] = at
           /\ \A d \in Callers : d # c =>
                pc'[d] = pc[d] \/ (pc[d] = "waiting" /\ pc'[d] = "granted")
           /\ QueueOK'
           /\ \A s \in Regions : s # r =>
                permits'[s] = permits[s] /\ queue'[s] = queue[s]
           /\ \A s \in Regions : s # r => Granted(s)' = Granted(s) \ {c}
           /\ permits'[r] + Cardinality(Granted(r)')
                = value + Cardinality(Granted(r) \ {c})
           /\ permits'[r] > 0 /\ queue'[r] # <<>> => Granted(r)' # {}
  <1> USE DEF TypeOK, Region
  <1> DEFINE head == Head(queue[r])
  <1>0. \A s \in Regions : IsFiniteSet(Granted(s) \ {c})
    <2>1. \A s \in Regions : Granted(s) \ {c} \in SUBSET Callers
      BY DEF Granted
    <2>2. QED BY <2>1, FS_Subset, WorkerPoolAssumption
  <1>1. CASE value > 0 /\ queue[r] # <<>>
    <2>1. /\ permits' = [permits EXCEPT ![r] = value - 1]
          /\ queue' = [queue EXCEPT ![r] = Tail(queue[r])]
          /\ pc' = [pc EXCEPT ![head] = "granted", ![c] = at]
      BY <1>1 DEF WakeUpNext
    <2>2. /\ queue[r] \in Seq(Callers)
          /\ Len(queue[r]) \in Nat \ {0}
          /\ head = queue[r][1]
          /\ head \in Callers
      BY <1>1
    <2>3. pc[head] = "waiting" /\ Region(head) = r /\ head # c
      BY <2>2 DEF QueueOK
    <2>4. /\ Tail(queue[r]) \in Seq(Callers)
          /\ Len(Tail(queue[r])) = Len(queue[r]) - 1
          /\ \A i \in 1 .. Len(queue[r]) - 1 : Tail(queue[r])[i] = queue[r][i + 1]
      BY <2>2
    <2>5. /\ permits' \in [Regions -> Nat]
          /\ \A s \in Regions : s # r => permits'[s] = permits[s]
          /\ permits'[r] = value - 1
      <3>1. value - 1 \in Nat
        BY <1>1
      <3>2. QED BY <2>1, <3>1
    <2>6. /\ queue' \in [Regions -> Seq(Callers)]
          /\ \A s \in Regions : s # r => queue'[s] = queue[s]
          /\ queue'[r] = Tail(queue[r])
      BY <2>1, <2>4
    <2>7. /\ pc' \in [Callers -> {"out", "waiting", "granted", "leased", "raised"}]
          /\ pc'[c] = at
          /\ \A d \in Callers : d # c =>
               pc'[d] = IF d = head THEN "granted" ELSE pc[d]
      <3> HIDE DEF head
      <3>1. QED BY <2>1, <2>2, <2>3
    <2>71. QueueOK'
      <3> SUFFICES ASSUME NEW s \in Regions
                   PROVE  /\ \A i \in 1 .. Len(queue'[s]) :
                              /\ pc'[queue'[s][i]] = "waiting"
                              /\ Normalize(asked'[queue'[s][i]]) = s
                          /\ \A i, j \in 1 .. Len(queue'[s]) :
                              queue'[s][i] = queue'[s][j] => i = j
        BY DEF QueueOK, Normalize
      <3>1. CASE s = r
        <4>1. \A i \in 1 .. Len(queue'[s]) :
                 /\ queue'[s][i] = queue[s][i + 1]
                 /\ i + 1 \in 1 .. Len(queue[s])
                 /\ i + 1 # 1
                 /\ 1 \in 1 .. Len(queue[s])
                 /\ queue[s][i + 1] \in Callers
          BY <3>1, <2>2, <2>4, <2>6
        <4>2. \A i \in 1 .. Len(queue'[s]) :
                 queue'[s][i] # c /\ queue'[s][i] # head
          <5> SUFFICES ASSUME NEW i \in 1 .. Len(queue'[s])
                       PROVE  queue'[s][i] # c /\ queue'[s][i] # head
            OBVIOUS
          <5>1. pc[queue[s][i + 1]] = "waiting" /\ queue[s][i + 1] # queue[s][1]
            BY <4>1 DEF QueueOK
          <5>2. QED BY <4>1, <5>1, <3>1, <2>2
        <4>3. \A i \in 1 .. Len(queue'[s]) :
                 /\ pc'[queue'[s][i]] = "waiting"
                 /\ Normalize(asked'[queue'[s][i]]) = s
          <5> HIDE DEF head
          <5> SUFFICES ASSUME NEW i \in 1 .. Len(queue'[s])
                       PROVE  /\ pc'[queue'[s][i]] = "waiting"
                              /\ Normalize(asked'[queue'[s][i]]) = s
            OBVIOUS
          <5>1. /\ pc[queue[s][i + 1]] = "waiting"
                /\ Normalize(asked[queue[s][i + 1]]) = s
            BY <4>1 DEF QueueOK
          <5>2. QED BY <4>1, <4>2, <5>1, <2>7
        <4>4. \A i, j \in 1 .. Len(queue'[s]) :
                 queue'[s][i] = queue'[s][j] => i = j
          BY <4>1, <3>1, <2>2 DEF QueueOK
        <4>5. QED BY <4>3, <4>4
      <3>2. CASE s # r
        <4>1. \A i \in 1 .. Len(queue[s]) :
                 /\ queue[s][i] \in Callers
                 /\ queue[s][i] # c
                 /\ queue[s][i] # head
          BY <3>2, <2>3 DEF QueueOK
        <4>2. queue'[s] = queue[s]
          BY <2>6, <3>2
        <4>3. QED
          <5> HIDE DEF head
          <5>1. \A i \in 1 .. Len(queue[s]) :
                   /\ pc[queue[s][i]] = "waiting"
                   /\ Normalize(asked[queue[s][i]]) = s
            BY DEF QueueOK
          <5>2. \A i \in 1 .. Len(queue[s]) :
                   /\ pc'[queue[s][i]] = pc[queue[s][i]]
                   /\ asked'[queue[s][i]] = asked[queue[s][i]]
            BY <4>1, <2>7
          <5>3. \A i, j \in 1 .. Len(queue[s]) : queue[s][i] = queue[s][j] => i = j
            BY DEF QueueOK
          <5>4. \A i \in 1 .. Len(queue[s]) :
                   /\ pc'[queue[s][i]] = "waiting"
                   /\ Normalize(asked'[queue[s][i]]) = s
            BY <5>1, <5>2
          <5>5. QED BY <4>2, <5>3, <5>4
      <3>3. QED BY <3>1, <3>2
    <2>8. \A s \in Regions : s # r => Granted(s)' = Granted(s) \ {c}
      BY <2>3, <2>7 DEF Granted
    <2>9. Granted(r)' = (Granted(r) \ {c}) \union {head}
      BY <2>2, <2>3, <2>7 DEF Granted
    <2>10. head \notin Granted(r) \ {c}
      BY <2>3 DEF Granted
    <2>11. Cardinality(Granted(r)') = Cardinality(Granted(r) \ {c}) + 1
      BY <1>0, <2>9, <2>10, FS_AddElement
    <2>12. Cardinality(Granted(r) \ {c}) \in Nat
      BY <1>0, FS_CardinalityType
    <2>13. permits'[r] + Cardinality(Granted(r)') = value + Cardinality(Granted(r) \ {c})
      BY <2>5, <2>11, <2>12
    <2>14. \A d \in Callers : d # c =>
             pc'[d] = pc[d] \/ (pc[d] = "waiting" /\ pc'[d] = "granted")
      BY <2>3, <2>7
    <2>15. Granted(r)' # {}
      BY <2>9
    <2>16. QED BY <2>5, <2>6, <2>7, <2>71, <2>8, <2>13, <2>14, <2>15
  <1>2. CASE ~(value > 0 /\ queue[r] # <<>>)
    <2>1. /\ permits' = [permits EXCEPT ![r] = value]
          /\ pc' = [pc EXCEPT ![c] = at]
          /\ queue' = queue
      BY <1>2 DEF WakeUpNext
    <2>3. QueueOK'
      <3>1. \A s \in Regions : \A i \in 1 .. Len(queue[s]) :
               queue[s][i] \in Callers /\ queue[s][i] # c
        BY DEF QueueOK
      <3>2. QED BY <3>1, <2>1 DEF QueueOK
    <2>4. \A s \in Regions : Granted(s)' = Granted(s) \ {c}
      BY <2>1 DEF Granted
    <2>5. permits'[r] = value
      BY <2>1
    <2>6. QED BY <1>2, <2>1, <2>3, <2>4, <2>5
  <1>3. QED BY <1>1, <1>2

(* The busy workers of a region are some of its workers. *)
LEMMA BusyCounted ==
    ASSUME NEW r \in Regions
    PROVE  /\ IsFiniteSet(Busy(r))
           /\ Cardinality(Busy(r)) \in Nat
           /\ Busy(r) \subseteq WorkersOf(r)
           /\ Cardinality(Busy(r)) < Size[r] => Idle(r) # {}
  <1>1. Busy(r) \subseteq WorkersOf(r)
    BY DEF Busy
  <1>2. IsFiniteSet(Busy(r)) /\ Cardinality(Busy(r)) \in Nat
    BY <1>1, WorkersCounted, FS_Subset, FS_CardinalityType
  <1>3. ASSUME Idle(r) = {} PROVE ~(Cardinality(Busy(r)) < Size[r])
    <2>1. Busy(r) = WorkersOf(r)
      BY <1>1, <1>3 DEF Idle
    <2>2. Size[r] \in Nat
      BY WorkerPoolAssumption
    <2>3. QED BY <2>1, <2>2, WorkersCounted
  <1>4. QED BY <1>1, <1>2, <1>3

(* The granted waiters of a region are finitely many. *)
LEMMA GrantedCounted ==
    ASSUME NEW r \in Regions
    PROVE  /\ IsFiniteSet(Granted(r))
           /\ Cardinality(Granted(r)) \in Nat
           /\ \A c : /\ IsFiniteSet(Granted(r) \ {c})
                     /\ Cardinality(Granted(r) \ {c})
                          = Cardinality(Granted(r)) - (IF c \in Granted(r) THEN 1 ELSE 0)
  <1>1. Granted(r) \in SUBSET Callers
    BY DEF Granted
  <1>2. IsFiniteSet(Granted(r)) /\ Cardinality(Granted(r)) \in Nat
    BY <1>1, FS_Subset, FS_CardinalityType, WorkerPoolAssumption
  <1>3. ASSUME NEW c
        PROVE  /\ IsFiniteSet(Granted(r) \ {c})
               /\ Cardinality(Granted(r) \ {c})
                    = Cardinality(Granted(r)) - (IF c \in Granted(r) THEN 1 ELSE 0)
    BY <1>2, FS_RemoveElement
  <1>4. QED BY <1>2, <1>3

(* A request is routed to a region of the pool. *)
LEMMA Routed == \A a : Normalize(a) \in Regions
  BY WorkerPoolAssumption DEF Normalize

-------------------------------------------------------------------------------
(* Initially every permit is free and nobody waits. *)
THEOREM InitIInv == Init => IInv
  <1> SUFFICES ASSUME Init PROVE IInv
    OBVIOUS
  <1> USE DEF Init
  <1>1. TypeOK
    BY WorkerPoolAssumption DEF TypeOK
  <1>2. QueueOK
    BY DEF QueueOK
  <1>3. LeaseOK
    BY DEF LeaseOK
  <1>4. PermitsBalance
    <2> SUFFICES ASSUME NEW r \in Regions
                 PROVE  permits[r] + Cardinality(Granted(r)) + Cardinality(Busy(r)) = Size[r]
      BY DEF PermitsBalance
    <2>1. Granted(r) = {}
      BY DEF Granted
    <2>2. Busy(r) = {}
      BY WorkersPartition DEF Busy
    <2>3. Size[r] \in Nat
      BY WorkerPoolAssumption
    <2>4. QED BY <2>1, <2>2, <2>3, FS_EmptySet
  <1>5. NoLostWakeup
    BY DEF NoLostWakeup
  <1>6. QED BY <1>1, <1>2, <1>3, <1>4, <1>5 DEF IInv

(* A caller that got a permit, and so far counts as neither waiting nor    *)
(* leasing, finds an idle worker, and leasing it keeps the invariant.      *)
LEMMA TakeWorkerKeepsIInv ==
    ASSUME IInv,
           NEW c \in Callers, NEW r \in Regions, NEW value \in Nat,
           pc[c] \in {"out", "granted"},
           asked' \in [Callers -> Regions \union {UnknownRegion, NoRegion}],
           \A d \in Callers : d # c => asked'[d] = asked[d],
           Normalize(asked'[c]) = r,
           \A s \in Regions : s # r => c \notin Granted(s),
           value + Cardinality(Granted(r) \ {c}) + Cardinality(Busy(r)) + 1 = Size[r],
           TakeWorker(c, r, value)
    PROVE  IInv'
  <1> USE DEF IInv
  <1> DEFINE free == Idle(r)
  <1>1. /\ Cardinality(Granted(r) \ {c}) \in Nat
        /\ Cardinality(Granted(r)) \in Nat
        /\ Cardinality(Busy(r)) \in Nat
        /\ Size[r] \in Nat
    BY GrantedCounted, FS_CardinalityType, BusyCounted, WorkerPoolAssumption
  <1>2. Idle(r) # {}
    BY <1>1, BusyCounted
  <1>3. PICK w \in Idle(r) :
          /\ busy' = [busy EXCEPT ![w] = TRUE]
          /\ leaseRegion' = [leaseRegion EXCEPT ![w] = r]
          /\ held' = [held EXCEPT ![c] = w]
    BY <1>2 DEF TakeWorker, LeaseFirstIdle
  <1>4. WakeUpNext(c, "leased", r, value)
    BY <1>2 DEF TakeWorker
  <1>5. /\ w \in WorkersOf(r)
        /\ w \in Workers
        /\ busy[w] = FALSE
    BY WorkersPartition DEF Idle, Busy, TypeOK
  <1>6. /\ permits' \in [Regions -> Nat]
        /\ queue' \in [Regions -> Seq(Callers)]
        /\ pc' \in [Callers -> {"out", "waiting", "granted", "leased", "raised"}]
        /\ pc'[c] = "leased"
        /\ \A d \in Callers : d # c =>
             pc'[d] = pc[d] \/ (pc[d] = "waiting" /\ pc'[d] = "granted")
        /\ QueueOK'
        /\ \A s \in Regions : s # r =>
             permits'[s] = permits[s] /\ queue'[s] = queue[s]
        /\ \A s \in Regions : s # r => Granted(s)' = Granted(s) \ {c}
        /\ permits'[r] + Cardinality(Granted(r)') = value + Cardinality(Granted(r) \ {c})
        /\ permits'[r] > 0 /\ queue'[r] # <<>> => Granted(r)' # {}
    <2>1. pc[c] # "waiting" /\ "leased" \in {"out", "leased"}
      OBVIOUS
    <2>2. QED BY <1>4, <2>1, WakeUpNextEffect
  <1>7. TypeOK'
    BY <1>3, <1>5, <1>6 DEF TypeOK
  <1>8. LeaseOK'
    <2>1. \A d \in Callers : pc'[d] # "raised"
      BY <1>6 DEF LeaseOK
    <2>2. \A d \in Callers : d # c =>
            /\ held'[d] = held[d]
            /\ pc'[d] = "leased" <=> pc[d] = "leased"
            /\ Region(d)' = Region(d)
      BY <1>3, <1>6 DEF TypeOK, Region, Normalize
    <2>3. held'[c] = w /\ pc'[c] = "leased" /\ Region(c)' = r
      BY <1>3, <1>6 DEF TypeOK, Region, Normalize
    <2>4. \A d \in Callers : d # c /\ pc[d] = "leased" => held[d] \in Workers /\ held[d] # w
      BY <1>5, Routed, WorkersPartition DEF LeaseOK, Region
    <2>5. \A d \in Callers : pc'[d] # "leased" => held'[d] = NoWorker
      BY <2>2, <2>3 DEF LeaseOK
    <2>6. \A d \in Callers : pc'[d] = "leased" =>
            /\ held'[d] \in WorkersOf(Region(d)')
            /\ leaseRegion'[held'[d]] = Region(d)'
            /\ busy'[held'[d]] = TRUE
      <3> SUFFICES ASSUME NEW d \in Callers, pc'[d] = "leased"
                   PROVE  /\ held'[d] \in WorkersOf(Region(d)')
                          /\ leaseRegion'[held'[d]] = Region(d)'
                          /\ busy'[held'[d]] = TRUE
        OBVIOUS
      <3>1. CASE d = c
        BY <3>1, <1>3, <1>5, <2>3 DEF TypeOK
      <3>2. CASE d # c
        <4>1. /\ held[d] \in WorkersOf(Region(d))
              /\ leaseRegion[held[d]] = Region(d)
              /\ busy[held[d]] = TRUE
          BY <2>2, <3>2 DEF LeaseOK
        <4>2. leaseRegion'[held[d]] = leaseRegion[held[d]] /\ busy'[held[d]] = busy[held[d]]
          BY <1>3, <2>2, <2>4, <3>2 DEF TypeOK
        <4>3. QED BY <2>2, <3>2, <4>1, <4>2
      <3>3. QED BY <3>1, <3>2
    <2>7. \A d, e \in Callers :
            pc'[d] = "leased" /\ pc'[e] = "leased" /\ held'[d] = held'[e] => d = e
      BY <2>2, <2>3, <2>4 DEF LeaseOK
    <2>8. \A v \in Workers : busy'[v] = TRUE => \E d \in Callers : held'[d] = v
      <3> SUFFICES ASSUME NEW v \in Workers, busy'[v] = TRUE
                   PROVE  \E d \in Callers : held'[d] = v
        OBVIOUS
      <3>1. CASE v = w
        BY <3>1, <2>3
      <3>2. CASE v # w
        <4>1. busy[v] = TRUE
          BY <1>3, <3>2 DEF TypeOK
        <4>2. PICK d \in Callers : held[d] = v
          BY <4>1 DEF LeaseOK
        <4>3. held[c] = NoWorker
          BY DEF LeaseOK
        <4>4. d # c
          BY <4>2, <4>3, NoWorkerAssumption
        <4>5. QED BY <2>2, <4>2, <4>4
      <3>3. QED BY <3>1, <3>2
    <2>9. QED BY <2>1, <2>5, <2>6, <2>7, <2>8 DEF LeaseOK
  <1>9. PermitsBalance'
    <2> SUFFICES ASSUME NEW s \in Regions
                 PROVE  permits'[s] + Cardinality(Granted(s)') + Cardinality(Busy(s)') = Size[s]
      BY DEF PermitsBalance
    <2>1. CASE s = r
      <3>1. Busy(r)' = Busy(r) \union {w}
        BY <1>3, <1>5, WorkersPartition DEF Busy, TypeOK
      <3>2. w \notin Busy(r)
        BY <1>5 DEF Busy
      <3>3. Cardinality(Busy(r)') = Cardinality(Busy(r)) + 1
        <4>1. IsFiniteSet(Busy(r))
          BY BusyCounted
        <4>2. Cardinality(Busy(r) \union {w}) = Cardinality(Busy(r)) + 1
          BY <3>2, <4>1, FS_AddElement
        <4>3. QED BY <3>1, <4>2
      <3>4. QED BY <1>1, <1>6, <2>1, <3>3
    <2>2. CASE s # r
      <3>1. Busy(s)' = Busy(s)
        <4>1. \A v \in WorkersOf(s) : v # w /\ v \in Workers
          BY <1>5, <2>2, WorkersPartition
        <4>2. QED BY <1>3, <4>1 DEF Busy, TypeOK
      <3>2. Granted(s)' = Granted(s)
        <4>1. c \notin Granted(s)
          BY <2>2
        <4>2. Granted(s) \ {c} = Granted(s)
          BY <4>1
        <4>3. QED BY <1>6, <2>2, <4>2
      <3>3. QED BY <1>6, <2>2, <3>1, <3>2 DEF PermitsBalance
    <2>3. QED BY <2>1, <2>2
  <1>10. NoLostWakeup'
    <2> SUFFICES ASSUME NEW s \in Regions, permits'[s] > 0, queue'[s] # <<>>
                 PROVE  Granted(s)' # {}
      BY DEF NoLostWakeup
    <2>1. CASE s = r
      BY <1>6, <2>1
    <2>2. CASE s # r
      BY <1>6, <2>2 DEF NoLostWakeup
    <2>3. QED BY <2>1, <2>2
  <1>11. QED BY <1>6, <1>7, <1>8, <1>9, <1>10

(* acquire() that takes a permit and a worker at once. *)
LEMMA AcquireAtOnceKeepsIInv ==
    ASSUME IInv, NEW c \in Callers, NEW a \in Regions \union {UnknownRegion},
           AcquireAtOnce(c, a)
    PROVE  IInv'
  <1> DEFINE r == Normalize(a)
  <1>1. /\ pc[c] = "out"
        /\ permits[r] # 0
        /\ Granted(r) = {}
        /\ asked' = [asked EXCEPT ![c] = a]
        /\ TakeWorker(c, r, permits[r] - 1)
    BY DEF AcquireAtOnce, Locked
  <1>2. r \in Regions /\ permits[r] - 1 \in Nat
    BY <1>1, Routed DEF IInv, TypeOK
  <1>3. /\ asked' \in [Callers -> Regions \union {UnknownRegion, NoRegion}]
        /\ \A d \in Callers : d # c => asked'[d] = asked[d]
        /\ Normalize(asked'[c]) = r
    BY <1>1 DEF IInv, TypeOK
  <1> HIDE DEF r
  <1>4. \A s \in Regions : c \notin Granted(s)
    BY <1>1 DEF Granted
  <1>5. (permits[r] - 1) + Cardinality(Granted(r) \ {c}) + Cardinality(Busy(r)) + 1 = Size[r]
    <2>1. Granted(r) \ {c} = Granted(r)
      BY <1>1
    <2>2. permits[r] + Cardinality(Granted(r)) + Cardinality(Busy(r)) = Size[r]
      BY <1>2 DEF IInv, PermitsBalance
    <2>3. /\ permits[r] \in Nat
          /\ Cardinality(Granted(r)) \in Nat
          /\ Cardinality(Busy(r)) \in Nat
      BY <1>2, GrantedCounted, BusyCounted DEF IInv, TypeOK
    <2>4. Cardinality(Granted(r) \ {c}) = Cardinality(Granted(r))
      BY <2>1
    <2> HIDE <2>1
    <2>5. QED BY <2>2, <2>3, <2>4
  <1>6. QED BY <1>1, <1>2, <1>3, <1>4, <1>5, TakeWorkerKeepsIInv

(* A waiter whose permit was granted goes on to take a worker. *)
LEMMA ResumeKeepsIInv ==
    ASSUME IInv, NEW c \in Callers, Resume(c)
    PROVE  IInv'
  <1> DEFINE r == Region(c)
  <1>1. /\ pc[c] = "granted"
        /\ asked' = asked
        /\ TakeWorker(c, r, permits[r])
    BY DEF Resume
  <1>2. r \in Regions /\ permits[r] \in Nat
    BY Routed DEF Region, IInv, TypeOK
  <1>3. /\ asked' \in [Callers -> Regions \union {UnknownRegion, NoRegion}]
        /\ \A d \in Callers : d # c => asked'[d] = asked[d]
        /\ Normalize(asked'[c]) = r
    BY <1>1 DEF IInv, TypeOK, Region
  <1>4. /\ \A s \in Regions : s # r => c \notin Granted(s)
        /\ c \in Granted(r)
    BY <1>1 DEF Granted
  <1>5. permits[r] + Cardinality(Granted(r) \ {c}) + Cardinality(Busy(r)) + 1 = Size[r]
    <2>1. Cardinality(Granted(r) \ {c}) = Cardinality(Granted(r)) - 1
      BY <1>2, <1>4, GrantedCounted
    <2>2. permits[r] + Cardinality(Granted(r)) + Cardinality(Busy(r)) = Size[r]
      BY <1>2 DEF IInv, PermitsBalance
    <2>3. /\ Cardinality(Granted(r)) \in Nat
          /\ Cardinality(Busy(r)) \in Nat
      BY <1>2, GrantedCounted, BusyCounted
    <2>4. QED BY <1>2, <2>1, <2>2, <2>3
  <1> HIDE DEF r
  <1>6. QED BY <1>1, <1>2, <1>3, <1>4, <1>5, TakeWorkerKeepsIInv

(* acquire() that joins the queue. *)
LEMMA AcquireWaitsKeepsIInv ==
    ASSUME IInv, NEW c \in Callers, NEW a \in Regions \union {UnknownRegion},
           AcquireWaits(c, a)
    PROVE  IInv'
  <1> USE DEF IInv
  <1> DEFINE r == Normalize(a)
  <1>1. /\ pc[c] = "out"
        /\ Locked(r)
        /\ asked' = [asked EXCEPT ![c] = a]
        /\ queue' = [queue EXCEPT ![r] = Append(queue[r], c)]
        /\ pc' = [pc EXCEPT ![c] = "waiting"]
        /\ UNCHANGED <<permits, busy, leaseRegion, held>>
    BY DEF AcquireWaits
  <1>2. r \in Regions
    BY Routed
  <1>3. /\ queue[r] \in Seq(Callers)
        /\ Len(queue[r]) \in Nat
        /\ Append(queue[r], c) \in Seq(Callers)
        /\ Len(Append(queue[r], c)) = Len(queue[r]) + 1
        /\ \A i \in 1 .. Len(queue[r]) : Append(queue[r], c)[i] = queue[r][i]
        /\ Append(queue[r], c)[Len(queue[r]) + 1] = c
    BY <1>2, AppendProperties DEF TypeOK
  <1> HIDE DEF r
  <1>4. /\ pc'[c] = "waiting" /\ asked'[c] = a
        /\ \A d \in Callers : d # c => pc'[d] = pc[d] /\ asked'[d] = asked[d]
        /\ queue'[r] = Append(queue[r], c)
        /\ \A s \in Regions : s # r => queue'[s] = queue[s]
    BY <1>1, <1>2 DEF TypeOK
  <1>5. TypeOK'
    BY <1>1, <1>2, <1>3 DEF TypeOK
  <1>6. \A s \in Regions : Granted(s)' = Granted(s)
    BY <1>1, <1>4 DEF Granted, Region
  <1>7. QueueOK'
    <2> SUFFICES ASSUME NEW s \in Regions
                 PROVE  /\ \A i \in 1 .. Len(queue'[s]) :
                            /\ pc'[queue'[s][i]] = "waiting"
                            /\ Normalize(asked'[queue'[s][i]]) = s
                        /\ \A i, j \in 1 .. Len(queue'[s]) :
                            queue'[s][i] = queue'[s][j] => i = j
      BY DEF QueueOK, Region, Normalize
    <2>1. \A i \in 1 .. Len(queue[s]) :
            /\ queue[s][i] \in Callers
            /\ queue[s][i] # c
            /\ pc[queue[s][i]] = "waiting"
            /\ Normalize(asked[queue[s][i]]) = s
      BY <1>1 DEF QueueOK, TypeOK, Region
    <2>2. \A i, j \in 1 .. Len(queue[s]) : queue[s][i] = queue[s][j] => i = j
      BY DEF QueueOK
    <2>3. \A i \in 1 .. Len(queue[s]) :
            /\ pc'[queue[s][i]] = "waiting"
            /\ Normalize(asked'[queue[s][i]]) = s
      BY <1>4, <2>1
    <2>4. CASE s # r
      BY <1>4, <2>2, <2>3, <2>4
    <2>5. CASE s = r
      <3>1. \A i \in 1 .. Len(queue'[s]) :
              \/ i \in 1 .. Len(queue[s]) /\ queue'[s][i] = queue[s][i]
              \/ i = Len(queue[s]) + 1 /\ queue'[s][i] = c
        BY <1>3, <1>4, <2>5
      <3>2. Normalize(asked'[c]) = s /\ pc'[c] = "waiting"
        BY <1>4, <2>5 DEF r
      <3>3. QED BY <2>1, <2>2, <2>3, <3>1, <3>2
    <2>6. QED BY <2>4, <2>5
  <1>8. LeaseOK'
    <2>1. \A d \in Callers : pc'[d] = "leased" <=> pc[d] = "leased"
      BY <1>1, <1>4
    <2>2. \A d \in Callers : pc[d] = "leased" => Region(d)' = Region(d)
      BY <1>1, <1>4 DEF Region, Normalize
    <2>3. \A d \in Callers : pc'[d] # "raised"
      BY <1>4 DEF LeaseOK
    <2>4. busy' = busy /\ leaseRegion' = leaseRegion /\ held' = held
      BY <1>1
    <2>5. QED BY <2>1, <2>2, <2>3, <2>4 DEF LeaseOK
  <1>9. PermitsBalance'
    <2>1. \A s \in Regions : Busy(s)' = Busy(s)
      BY <1>1 DEF Busy
    <2>2. QED BY <1>1, <1>6, <2>1 DEF PermitsBalance
  <1>10. NoLostWakeup'
    <2> SUFFICES ASSUME NEW s \in Regions, permits'[s] > 0, queue'[s] # <<>>
                 PROVE  Granted(s)' # {}
      BY DEF NoLostWakeup
    <2>1. CASE s # r \/ queue[r] # <<>>
      BY <1>1, <1>4, <1>6, <2>1 DEF NoLostWakeup
    <2>2. CASE s = r /\ queue[r] = <<>>
      BY <1>1, <1>2, <1>6, <2>2 DEF Locked, TypeOK
    <2>3. QED BY <2>1, <2>2
  <1>11. QED BY <1>5, <1>7, <1>8, <1>9, <1>10

(* A waiter without a permit is cancelled. *)
LEMMA CancelWaitingKeepsIInv ==
    ASSUME IInv, NEW c \in Callers, CancelWaiting(c)
    PROVE  IInv'
  <1> USE DEF IInv
  <1> DEFINE r == Region(c)
             q == queue[r]
  <1>1. /\ pc[c] = "waiting"
        /\ pc' = [pc EXCEPT ![c] = "out"]
        /\ asked' = [asked EXCEPT ![c] = NoRegion]
        /\ UNCHANGED <<permits, busy, leaseRegion, held>>
    BY DEF CancelWaiting
  <1>2. PICK k \in DOMAIN q :
          q[k] = c /\ queue' = [queue EXCEPT ![r] = RemoveAt(q, k)]
    BY DEF CancelWaiting
  <1>3. r \in Regions
    BY Routed DEF Region
  <1> HIDE DEF r
  <1>4. /\ q \in Seq(Callers)
        /\ Len(q) \in Nat
        /\ k \in 1 .. Len(q)
    BY <1>2, <1>3 DEF TypeOK
  <1>5. /\ queue'[r] \in Seq(Callers)
        /\ queue'[r] = RemoveAt(q, k)
        /\ Len(queue'[r]) = Len(q) - 1
        /\ \A i \in 1 .. Len(q) - 1 : queue'[r][i] = IF i < k THEN q[i] ELSE q[i + 1]
    <2>1. queue'[r] = RemoveAt(q, k)
      BY <1>2, <1>3 DEF TypeOK
    <2> HIDE DEF q
    <2>2. QED BY <1>4, <2>1, RemoveAtProperties
  <1>6. \A s \in Regions : s # r => queue'[s] = queue[s]
    BY <1>2 DEF TypeOK
  <1>7. /\ pc'[c] = "out"
        /\ \A d \in Callers : d # c => pc'[d] = pc[d] /\ asked'[d] = asked[d]
    BY <1>1 DEF TypeOK
  <1>8. TypeOK'
    <2>1. queue' \in [Regions -> Seq(Callers)]
      BY <1>2, <1>3, <1>5 DEF TypeOK
    <2>2. QED BY <1>1, <2>1 DEF TypeOK
  <1>9. \A s \in Regions : Granted(s)' = Granted(s)
    BY <1>1, <1>7 DEF Granted, Region
  <1>10. QueueOK'
    <2> SUFFICES ASSUME NEW s \in Regions
                 PROVE  /\ \A i \in 1 .. Len(queue'[s]) :
                            /\ pc'[queue'[s][i]] = "waiting"
                            /\ Normalize(asked'[queue'[s][i]]) = s
                        /\ \A i, j \in 1 .. Len(queue'[s]) :
                            queue'[s][i] = queue'[s][j] => i = j
      BY DEF QueueOK, Region, Normalize
    <2>1. \A i \in 1 .. Len(queue[s]) :
            /\ queue[s][i] \in Callers
            /\ pc[queue[s][i]] = "waiting"
            /\ Normalize(asked[queue[s][i]]) = s
      BY DEF QueueOK, TypeOK, Region
    <2>2. \A i, j \in 1 .. Len(queue[s]) : queue[s][i] = queue[s][j] => i = j
      BY DEF QueueOK
    <2>3. CASE s # r
      <3>1. \A i \in 1 .. Len(queue[s]) : queue[s][i] # c
        BY <2>1, <2>3 DEF r, Region
      <3>2. \A i \in 1 .. Len(queue[s]) :
              /\ pc'[queue[s][i]] = "waiting"
              /\ Normalize(asked'[queue[s][i]]) = s
        BY <1>7, <2>1, <3>1
      <3>3. QED BY <1>6, <2>2, <2>3, <3>2
    <2>4. CASE s = r
      <3>1. \A i \in 1 .. Len(queue'[s]) : \E m \in 1 .. Len(q) :
              /\ m # k
              /\ m = IF i < k THEN i ELSE i + 1
              /\ queue'[s][i] = q[m]
        BY <1>4, <1>5, <2>4
      <3>2. \A m \in 1 .. Len(q) : m # k => q[m] # c
        BY <1>2, <1>4, <2>2, <2>4
      <3>3. \A i \in 1 .. Len(queue'[s]) :
              /\ pc'[queue'[s][i]] = "waiting"
              /\ Normalize(asked'[queue'[s][i]]) = s
        <4> SUFFICES ASSUME NEW i \in 1 .. Len(queue'[s])
                     PROVE  /\ pc'[queue'[s][i]] = "waiting"
                            /\ Normalize(asked'[queue'[s][i]]) = s
          OBVIOUS
        <4>1. PICK m \in 1 .. Len(q) : m # k /\ queue'[s][i] = q[m]
          BY <3>1
        <4>2. /\ q[m] \in Callers
              /\ q[m] # c
              /\ pc[q[m]] = "waiting"
              /\ Normalize(asked[q[m]]) = s
          <5>1. q[m] # c
            BY <3>2, <4>1
          <5>2. q = queue[s]
            BY <2>4
          <5> HIDE DEF q
          <5>3. QED BY <2>1, <4>1, <5>1, <5>2
        <4> HIDE DEF q
        <4>3. QED BY <1>7, <4>1, <4>2
      <3>4. ASSUME NEW i \in 1 .. Len(queue'[s]), NEW j \in 1 .. Len(queue'[s]),
                   queue'[s][i] = queue'[s][j]
            PROVE  i = j
        <4>1. PICK m \in 1 .. Len(q) :
                m = (IF i < k THEN i ELSE i + 1) /\ queue'[s][i] = q[m]
          BY <3>1
        <4>2. PICK n \in 1 .. Len(q) :
                n = (IF j < k THEN j ELSE j + 1) /\ queue'[s][j] = q[n]
          BY <3>1
        <4>3. m = n
          BY <2>2, <2>4, <3>4, <4>1, <4>2
        <4>4. i \in Int /\ j \in Int /\ k \in Int
          BY <1>4, <1>5, <2>4
        <4>5. QED BY <4>1, <4>2, <4>3, <4>4
      <3>5. QED BY <3>3, <3>4
    <2>5. QED BY <2>3, <2>4
  <1>11. LeaseOK'
    <2>1. \A d \in Callers : pc'[d] = "leased" <=> pc[d] = "leased"
      BY <1>1, <1>7
    <2>2. \A d \in Callers : pc[d] = "leased" => Region(d)' = Region(d)
      BY <1>1, <1>7 DEF Region, Normalize
    <2>3. \A d \in Callers : pc'[d] # "raised"
      BY <1>7 DEF LeaseOK
    <2>4. busy' = busy /\ leaseRegion' = leaseRegion /\ held' = held
      BY <1>1
    <2>5. QED BY <2>1, <2>2, <2>3, <2>4 DEF LeaseOK
  <1>12. PermitsBalance'
    <2>1. \A s \in Regions : Busy(s)' = Busy(s)
      BY <1>1 DEF Busy
    <2>2. QED BY <1>1, <1>9, <2>1 DEF PermitsBalance
  <1>13. NoLostWakeup'
    <2> SUFFICES ASSUME NEW s \in Regions, permits'[s] > 0, queue'[s] # <<>>
                 PROVE  Granted(s)' # {}
      BY DEF NoLostWakeup
    <2>1. CASE s # r
      BY <1>1, <1>6, <1>9, <2>1 DEF NoLostWakeup
    <2>2. CASE s = r
      BY <1>1, <1>3, <1>4, <1>9, <2>2 DEF NoLostWakeup
    <2>3. QED BY <2>1, <2>2
  <1>14. QED BY <1>8, <1>10, <1>11, <1>12, <1>13

(* A waiter that has been granted a permit is cancelled and passes it on. *)
LEMMA CancelGrantedKeepsIInv ==
    ASSUME IInv, NEW c \in Callers, CancelGranted(c)
    PROVE  IInv'
  <1> USE DEF IInv
  <1>1. PICK r \in Regions : r = Region(c)
    BY Routed DEF Region
  <1>2. PICK value \in Nat : value = permits[r] + 1
    BY DEF TypeOK
  <1>3. /\ pc[c] = "granted"
        /\ WakeUpNext(c, "out", r, value)
        /\ asked' = [asked EXCEPT ![c] = NoRegion]
        /\ UNCHANGED <<busy, leaseRegion, held>>
    BY <1>1, <1>2 DEF CancelGranted
  <1>4. /\ \A d \in Callers : d # c => asked'[d] = asked[d]
        /\ \A s \in Regions : s # r => c \notin Granted(s)
        /\ c \in Granted(r)
    BY <1>1, <1>3 DEF TypeOK, Granted
  <1>5. /\ permits' \in [Regions -> Nat]
        /\ queue' \in [Regions -> Seq(Callers)]
        /\ pc' \in [Callers -> {"out", "waiting", "granted", "leased", "raised"}]
        /\ pc'[c] = "out"
        /\ \A d \in Callers : d # c =>
             pc'[d] = pc[d] \/ (pc[d] = "waiting" /\ pc'[d] = "granted")
        /\ QueueOK'
        /\ \A s \in Regions : s # r =>
             permits'[s] = permits[s] /\ queue'[s] = queue[s]
        /\ \A s \in Regions : s # r => Granted(s)' = Granted(s) \ {c}
        /\ permits'[r] + Cardinality(Granted(r)')
             = value + Cardinality(Granted(r) \ {c})
        /\ permits'[r] > 0 /\ queue'[r] # <<>> => Granted(r)' # {}
    <2>1. pc[c] # "waiting" /\ "out" \in {"out", "leased"}
      BY <1>3
    <2>2. QED BY <1>3, <1>4, <2>1, WakeUpNextEffect
  <1>6. TypeOK'
    BY <1>3, <1>5 DEF TypeOK
  <1>7. LeaseOK'
    <2>1. \A d \in Callers : pc'[d] = "leased" <=> pc[d] = "leased"
      BY <1>3, <1>5
    <2>2. \A d \in Callers : pc[d] = "leased" => Region(d)' = Region(d)
      BY <1>3, <1>4 DEF Region, Normalize
    <2>3. \A d \in Callers : pc'[d] # "raised"
      <3>1. \A d \in Callers : pc[d] # "raised"
        BY DEF LeaseOK
      <3>2. QED BY <1>5, <3>1
    <2>4. busy' = busy /\ leaseRegion' = leaseRegion /\ held' = held
      BY <1>3
    <2>5. QED BY <2>1, <2>2, <2>3, <2>4 DEF LeaseOK
  <1>8. \A s \in Regions : s # r => Granted(s)' = Granted(s)
    <2> SUFFICES ASSUME NEW s \in Regions, s # r PROVE Granted(s)' = Granted(s)
      OBVIOUS
    <2>1. Granted(s) \ {c} = Granted(s)
      BY <1>4
    <2>2. QED BY <1>5, <2>1
  <1>9. PermitsBalance'
    <2>1. \A s \in Regions : Busy(s)' = Busy(s)
      BY <1>3 DEF Busy
    <2>2. permits'[r] + Cardinality(Granted(r)') = permits[r] + Cardinality(Granted(r))
      <3>1. Cardinality(Granted(r) \ {c}) = Cardinality(Granted(r)) - 1
        BY <1>4, GrantedCounted
      <3>2. Cardinality(Granted(r)) \in Nat /\ permits[r] \in Nat
        BY GrantedCounted DEF TypeOK
      <3>3. permits'[r] + Cardinality(Granted(r)') = value + Cardinality(Granted(r) \ {c})
        BY <1>5
      <3>4. QED BY <1>2, <3>1, <3>2, <3>3
    <2> SUFFICES ASSUME NEW s \in Regions
                 PROVE  permits'[s] + Cardinality(Granted(s)') + Cardinality(Busy(s)') = Size[s]
      BY DEF PermitsBalance
    <2>3. permits[s] + Cardinality(Granted(s)) + Cardinality(Busy(s)) = Size[s]
      BY DEF PermitsBalance
    <2>4. CASE s = r
      BY <2>1, <2>2, <2>3, <2>4
    <2>5. CASE s # r
      <3>1. permits'[s] = permits[s]
        BY <1>5, <2>5
      <3>2. QED BY <1>8, <2>1, <2>3, <2>5, <3>1
    <2>6. QED BY <2>4, <2>5
  <1>10. NoLostWakeup'
    <2> SUFFICES ASSUME NEW s \in Regions, permits'[s] > 0, queue'[s] # <<>>
                 PROVE  Granted(s)' # {}
      BY DEF NoLostWakeup
    <2>1. CASE s = r
      <3>1. permits'[r] > 0 /\ queue'[r] # <<>> => Granted(r)' # {}
        BY <1>5
      <3>2. QED BY <2>1, <3>1
    <2>2. CASE s # r
      BY <1>5, <1>8, <2>2 DEF NoLostWakeup
    <2>3. QED BY <2>1, <2>2
  <1>11. QED BY <1>5, <1>6, <1>7, <1>9, <1>10

(* A worker is released and its permit passed on. *)
LEMMA ReleaseKeepsIInv ==
    ASSUME IInv, NEW c \in Callers, Release(c)
    PROVE  IInv'
  <1> USE DEF IInv
  <1>1. PICK r \in Regions : r = Region(c)
    BY Routed DEF Region
  <1>2. PICK w : w = held[c]
    OBVIOUS
  <1>3. PICK value \in Nat : value = permits[r] + 1
    BY DEF TypeOK
  <1>4. /\ pc[c] = "leased"
        /\ busy' = [busy EXCEPT ![w] = FALSE]
        /\ leaseRegion' = [leaseRegion EXCEPT ![w] = NoRegion]
        /\ held' = [held EXCEPT ![c] = NoWorker]
        /\ asked' = [asked EXCEPT ![c] = NoRegion]
    BY <1>2 DEF Release
  <1>5. /\ w \in WorkersOf(r)
        /\ w \in Workers
        /\ leaseRegion[w] = r
        /\ busy[w] = TRUE
    BY <1>1, <1>2, <1>4, WorkersPartition DEF LeaseOK
  <1>6. CreditedRegion(c) = r
    BY <1>1, <1>2, <1>5, WorkerPoolAssumption DEF CreditedRegion
  (* The busy worker accounts for the permit that comes back. *)
  <1>7. /\ Busy(r) = Busy(r)' \union {w}
        /\ w \notin Busy(r)'
        /\ \A s \in Regions : s # r => Busy(s)' = Busy(s)
    <2>1. Busy(r) = Busy(r)' \union {w} /\ w \notin Busy(r)'
      BY <1>4, <1>5, WorkersPartition DEF Busy, TypeOK
    <2>2. ASSUME NEW s \in Regions, s # r PROVE Busy(s)' = Busy(s)
      <3>1. \A v \in WorkersOf(s) : v # w /\ v \in Workers
        BY <1>5, <2>2, WorkersPartition
      <3>2. QED BY <1>4, <3>1 DEF Busy, TypeOK
    <2>3. QED BY <2>1, <2>2
  <1>8. /\ Cardinality(Busy(r)') \in Nat
        /\ Cardinality(Busy(r)) = Cardinality(Busy(r)') + 1
    <2>1. Busy(r)' = Busy(r) \ {w} /\ w \in Busy(r)
      BY <1>7
    <2>2. IsFiniteSet(Busy(r))
      BY BusyCounted
    <2>3. /\ IsFiniteSet(Busy(r) \ {w})
          /\ Cardinality(Busy(r) \ {w}) = Cardinality(Busy(r)) - 1
      BY <2>1, <2>2, FS_RemoveElement
    <2>4. Cardinality(Busy(r)) \in Nat /\ Cardinality(Busy(r) \ {w}) \in Nat
      BY <2>3, BusyCounted, FS_CardinalityType
    <2>5. QED BY <2>1, <2>3, <2>4
  <1>9. ~(permits[r] >= Size[r])
    <2>1. permits[r] + Cardinality(Granted(r)) + Cardinality(Busy(r)) = Size[r]
      BY DEF PermitsBalance
    <2>2. permits[r] \in Nat /\ Cardinality(Granted(r)) \in Nat
      BY GrantedCounted DEF TypeOK
    <2>3. QED BY <1>8, <2>1, <2>2
  <1>10. WakeUpNext(c, "out", r, value)
    BY <1>2, <1>3, <1>6, <1>9 DEF Release
  <1>11. /\ \A d \in Callers : d # c => asked'[d] = asked[d]
         /\ \A s \in Regions : Granted(s) \ {c} = Granted(s)
    BY <1>4 DEF TypeOK, Granted
  <1>12. /\ permits' \in [Regions -> Nat]
         /\ queue' \in [Regions -> Seq(Callers)]
         /\ pc' \in [Callers -> {"out", "waiting", "granted", "leased", "raised"}]
         /\ pc'[c] = "out"
         /\ \A d \in Callers : d # c =>
              pc'[d] = pc[d] \/ (pc[d] = "waiting" /\ pc'[d] = "granted")
         /\ QueueOK'
         /\ \A s \in Regions : s # r =>
              permits'[s] = permits[s] /\ queue'[s] = queue[s]
         /\ \A s \in Regions : s # r => Granted(s)' = Granted(s) \ {c}
         /\ permits'[r] + Cardinality(Granted(r)')
              = value + Cardinality(Granted(r) \ {c})
         /\ permits'[r] > 0 /\ queue'[r] # <<>> => Granted(r)' # {}
    <2>1. pc[c] # "waiting" /\ "out" \in {"out", "leased"}
      BY <1>4
    <2>2. QED BY <1>10, <1>11, <2>1, WakeUpNextEffect
  <1>13. TypeOK'
    BY <1>4, <1>12, WorkerPoolAssumption DEF TypeOK
  <1>14. LeaseOK'
    <2>1. \A d \in Callers : d # c =>
            /\ held'[d] = held[d]
            /\ pc'[d] = "leased" <=> pc[d] = "leased"
            /\ Region(d)' = Region(d)
      BY <1>4, <1>11, <1>12 DEF TypeOK, Region, Normalize
    <2>2. held'[c] = NoWorker /\ pc'[c] = "out"
      BY <1>4, <1>12 DEF TypeOK
    <2>3. \A d \in Callers : pc'[d] # "raised"
      <3>1. \A d \in Callers : pc[d] # "raised"
        BY DEF LeaseOK
      <3>2. QED BY <1>12, <3>1
    <2>4. \A d \in Callers : pc'[d] # "leased" => held'[d] = NoWorker
      BY <2>1, <2>2 DEF LeaseOK
    <2>5. \A d \in Callers : d # c /\ pc[d] = "leased" => held[d] # w /\ held[d] \in Workers
      BY <1>2, <1>4, Routed, WorkersPartition DEF LeaseOK, Region
    <2>6. \A d \in Callers : pc'[d] = "leased" =>
            /\ held'[d] \in WorkersOf(Region(d)')
            /\ leaseRegion'[held'[d]] = Region(d)'
            /\ busy'[held'[d]] = TRUE
      <3> SUFFICES ASSUME NEW d \in Callers, pc'[d] = "leased"
                   PROVE  /\ held'[d] \in WorkersOf(Region(d)')
                          /\ leaseRegion'[held'[d]] = Region(d)'
                          /\ busy'[held'[d]] = TRUE
        OBVIOUS
      <3>1. d # c /\ pc[d] = "leased"
        BY <2>1, <2>2
      <3>2. /\ held[d] \in WorkersOf(Region(d))
            /\ leaseRegion[held[d]] = Region(d)
            /\ busy[held[d]] = TRUE
        BY <3>1 DEF LeaseOK
      <3>3. leaseRegion'[held[d]] = leaseRegion[held[d]] /\ busy'[held[d]] = busy[held[d]]
        BY <1>4, <2>5, <3>1 DEF TypeOK
      <3>4. QED BY <2>1, <3>1, <3>2, <3>3
    <2>7. \A d, e \in Callers :
            pc'[d] = "leased" /\ pc'[e] = "leased" /\ held'[d] = held'[e] => d = e
      BY <2>1, <2>2 DEF LeaseOK
    <2>8. \A v \in Workers : busy'[v] = TRUE => \E d \in Callers : held'[d] = v
      <3> SUFFICES ASSUME NEW v \in Workers, busy'[v] = TRUE
                   PROVE  \E d \in Callers : held'[d] = v
        OBVIOUS
      <3>1. v # w /\ busy[v] = TRUE
        BY <1>4, <1>5 DEF TypeOK
      <3>2. PICK d \in Callers : held[d] = v
        BY <3>1 DEF LeaseOK
      <3>3. QED BY <1>2, <2>1, <3>1, <3>2
    <2>9. QED BY <2>3, <2>4, <2>6, <2>7, <2>8 DEF LeaseOK
  <1>15. PermitsBalance'
    <2> SUFFICES ASSUME NEW s \in Regions
                 PROVE  permits'[s] + Cardinality(Granted(s)') + Cardinality(Busy(s)') = Size[s]
      BY DEF PermitsBalance
    <2>1. permits[s] + Cardinality(Granted(s)) + Cardinality(Busy(s)) = Size[s]
      BY DEF PermitsBalance
    <2>2. CASE s = r
      <3>1. permits'[r] + Cardinality(Granted(r)') = value + Cardinality(Granted(r))
        BY <1>11, <1>12
      <3>2. permits[r] \in Nat /\ Cardinality(Granted(r)) \in Nat
        BY GrantedCounted DEF TypeOK
      <3>3. QED BY <1>3, <1>8, <2>1, <2>2, <3>1, <3>2
    <2>3. CASE s # r
      <3>1. permits'[s] = permits[s] /\ Granted(s)' = Granted(s)
        BY <1>11, <1>12, <2>3
      <3>2. Busy(s)' = Busy(s)
        BY <1>7, <2>3
      <3>3. QED BY <2>1, <3>1, <3>2
    <2>4. QED BY <2>2, <2>3
  <1>16. NoLostWakeup'
    <2> SUFFICES ASSUME NEW s \in Regions, permits'[s] > 0, queue'[s] # <<>>
                 PROVE  Granted(s)' # {}
      BY DEF NoLostWakeup
    <2>1. CASE s = r
      <3>1. permits'[r] > 0 /\ queue'[r] # <<>> => Granted(r)' # {}
        BY <1>12
      <3>2. QED BY <2>1, <3>1
    <2>2. CASE s # r
      <3>1. permits'[s] = permits[s] /\ queue'[s] = queue[s] /\ Granted(s)' = Granted(s)
        BY <1>11, <1>12, <2>2
      <3>2. QED BY <3>1 DEF NoLostWakeup
    <2>3. QED BY <2>1, <2>2
  <1>17. QED BY <1>12, <1>13, <1>14, <1>15, <1>16

-------------------------------------------------------------------------------
(* Every step of the pool keeps the invariant. *)
THEOREM NextIInv == IInv /\ [Next]_vars => IInv'
  <1> SUFFICES ASSUME IInv, [Next]_vars PROVE IInv'
    OBVIOUS
  <1>1. ASSUME NEW c \in Callers, NEW a \in Regions \union {UnknownRegion},
               AcquireAtOnce(c, a)
        PROVE  IInv'
    BY <1>1, AcquireAtOnceKeepsIInv
  <1>2. ASSUME NEW c \in Callers, NEW a \in Regions \union {UnknownRegion},
               AcquireWaits(c, a)
        PROVE  IInv'
    BY <1>2, AcquireWaitsKeepsIInv
  <1>3. ASSUME NEW c \in Callers, Resume(c) PROVE IInv'
    BY <1>3, ResumeKeepsIInv
  <1>4. ASSUME NEW c \in Callers, CancelWaiting(c) PROVE IInv'
    BY <1>4, CancelWaitingKeepsIInv
  <1>5. ASSUME NEW c \in Callers, CancelGranted(c) PROVE IInv'
    BY <1>5, CancelGrantedKeepsIInv
  <1>6. ASSUME NEW c \in Callers, Release(c) PROVE IInv'
    BY <1>6, ReleaseKeepsIInv
  <1>7. CASE UNCHANGED vars
    <2> USE <1>7 DEF vars, IInv
    <2>1. TypeOK'
      BY DEF TypeOK
    <2>2. QueueOK'
      BY DEF QueueOK, Region, Normalize
    <2>3. LeaseOK'
      BY DEF LeaseOK, Region, Normalize
    <2>4. \A r \in Regions : Granted(r)' = Granted(r) /\ Busy(r)' = Busy(r)
      BY DEF Granted, Busy, Region, Normalize
    <2>5. PermitsBalance' /\ NoLostWakeup'
      BY <2>4 DEF PermitsBalance, NoLostWakeup
    <2>6. QED BY <2>1, <2>2, <2>3, <2>5
  <1>8. QED BY <1>1, <1>2, <1>3, <1>4, <1>5, <1>6, <1>7 DEF Next

(* The inductive invariant holds in every reachable state. *)
THEOREM Invariance == Spec => []IInv
  BY InitIInv, NextIInv, PTL DEF Spec

(* The variables of the pool keep their types. *)
THEOREM TypeCorrect == Spec => []TypeOK
  <1>1. IInv => TypeOK
    BY DEF IInv
  <1>2. QED BY <1>1, Invariance, PTL

(* No permit of any region is ever lost or forged, whatever mixture of     *)
(* hand-overs, cancellations and releases of misrouted requests occurs.    *)
THEOREM PermitsConserved == Spec => []PermitsBalance
  <1>1. IInv => PermitsBalance
    BY DEF IInv
  <1>2. QED BY <1>1, Invariance, PTL

(* acquire() never raises its RuntimeError, and release() never the        *)
(* ValueError of the bounded semaphore.                                    *)
THEOREM NeverRaises == Spec => []NoPoolError
  <1>1. IInv => NoPoolError
    BY DEF IInv, LeaseOK, NoPoolError
  <1>2. QED BY <1>1, Invariance, PTL

(* Two scrapes never share a browser worker, and a worker remembers the    *)
(* region whose permit it was leased with.                                 *)
THEOREM LeasesExact == Spec => []LeaseExact
  <1>1. IInv => LeaseExact
    <2> SUFFICES ASSUME IInv PROVE LeaseExact
      OBVIOUS
    <2> USE DEF IInv
    <2>1. ASSUME NEW c \in Callers, held[c] \in Workers
          PROVE  pc[c] = "leased"
      BY <2>1, NoWorkerAssumption DEF LeaseOK
    <2>2. \A w \in Workers : busy[w] <=> \E c \in Callers : held[c] = w
      BY <2>1 DEF LeaseOK, TypeOK
    <2>3. ASSUME NEW c \in Callers, pc[c] = "leased"
          PROVE  /\ held[c] \in WorkersOf(Region(c))
                 /\ leaseRegion[held[c]] = Region(c)
                 /\ \A d \in Callers : held[d] = held[c] => d = c
      <3>1. held[c] \in WorkersOf(Region(c)) /\ leaseRegion[held[c]] = Region(c)
        BY <2>3 DEF LeaseOK
      <3>2. held[c] \in Workers
        BY <3>1, Routed, WorkersPartition DEF Region
      <3>3. \A d \in Callers : held[d] = held[c] => d = c
        BY <2>1, <2>3, <3>2 DEF LeaseOK
      <3>4. QED BY <3>1, <3>3
    <2>4. QED BY <2>2, <2>3 DEF LeaseExact
  <1>2. QED BY <1>1, Invariance, PTL

(* No wake-up of a semaphore is lost. *)
THEOREM WakeupsKept == Spec => []NoLostWakeup
  <1>1. IInv => NoLostWakeup
    BY DEF IInv
  <1>2. QED BY <1>1, Invariance, PTL

-------------------------------------------------------------------------------
(* What LeasePool promises, step by step. *)

(* No step but c's own changes what another caller asks for. *)
LEMMA DemandOfOne ==
    ASSUME IInv, NEW c \in Callers,
           pc' \in [Callers -> {"out", "waiting", "granted", "leased", "raised"}],
           \A d \in Callers : d # c =>
             /\ asked'[d] = asked[d]
             /\ pc'[d] = pc[d] \/ (pc[d] = "waiting" /\ pc'[d] = "granted")
    PROVE  Demand' = [Demand EXCEPT ![c] = Demand'[c]]
  <1>1. ASSUME NEW d \in Callers, d # c PROVE Demand'[d] = Demand[d]
    BY <1>1 DEF Demand, Region
  <1>2. DOMAIN Demand = Callers /\ DOMAIN Demand' = Callers
    BY DEF Demand
  <1>3. /\ Demand = [d \in Callers |-> Demand[d]]
        /\ Demand' = [d \in Callers |-> Demand'[d]]
    BY DEF Demand
  <1> HIDE DEF Demand
  <1>4. QED BY <1>1, <1>2, <1>3

LEMMA WakeUpNextDemand ==
    ASSUME IInv, NEW c \in Callers, NEW at \in {"out", "leased"},
           NEW r \in Regions, NEW value \in Nat,
           pc[c] # "waiting",
           WakeUpNext(c, at, r, value),
           \A d \in Callers : d # c => asked'[d] = asked[d]
    PROVE  Demand' = [Demand EXCEPT ![c] = NoRegion]
  <1>1. /\ pc' \in [Callers -> {"out", "waiting", "granted", "leased", "raised"}]
        /\ pc'[c] = at
        /\ \A d \in Callers : d # c =>
             pc'[d] = pc[d] \/ (pc[d] = "waiting" /\ pc'[d] = "granted")
    BY WakeUpNextEffect DEF IInv
  <1>2. Demand'[c] = NoRegion
    BY <1>1 DEF Demand
  <1>3. Demand' = [Demand EXCEPT ![c] = Demand'[c]]
    BY <1>1, DemandOfOne
  <1> HIDE DEF Demand
  <1>4. QED BY <1>2, <1>3

(* A caller that raises is one the invariant excludes. *)
LEMMA WokenNotRaised ==
    ASSUME IInv, NEW c \in Callers, NEW r, NEW value, WakeUpNext(c, "raised", r, value)
    PROVE  ~IInv'
  <1>1. pc'[c] = "raised"
    BY DEF IInv, TypeOK, WakeUpNext
  <1>2. QED BY <1>1 DEF IInv, LeaseOK

(* The worker a permit leads to is leased by nobody else. *)
LEMMA TakeWorkerLeases ==
    ASSUME IInv, IInv', NEW c \in Callers, NEW r \in Regions, NEW value \in Nat,
           pc[c] # "waiting",
           TakeWorker(c, r, value),
           \A d \in Callers : d # c => asked'[d] = asked[d]
    PROVE  /\ \E w \in Workers : /\ w[1] = r
                                 /\ Abstract!Free(w)
                                 /\ held' = [held EXCEPT ![c] = w]
           /\ Demand' = [Demand EXCEPT ![c] = NoRegion]
  <1>1. Idle(r) # {}
    BY WokenNotRaised DEF TakeWorker
  <1>2. PICK w \in Idle(r) : held' = [held EXCEPT ![c] = w]
    BY <1>1 DEF TakeWorker, LeaseFirstIdle
  <1>3. w \in Workers /\ w[1] = r /\ busy[w] = FALSE
    BY WorkersPartition DEF Idle, Busy, WorkersOf, IInv, TypeOK
  <1>4. Abstract!Free(w)
    BY <1>3, NoWorkerAssumption DEF Abstract!Free, IInv, LeaseOK
  <1>5. Demand' = [Demand EXCEPT ![c] = NoRegion]
    BY <1>1, WakeUpNextDemand DEF TakeWorker
  <1>6. QED BY <1>2, <1>3, <1>4, <1>5

LEMMA StepImplements ==
    ASSUME IInv, IInv', NEW c \in Callers,
           \/ \E a \in Regions \union {UnknownRegion} : AcquireAtOnce(c, a) \/ AcquireWaits(c, a)
           \/ Resume(c) \/ CancelWaiting(c) \/ CancelGranted(c) \/ Release(c)
    PROVE  \/ \E r \in Regions : Abstract!Ask(c, r)
           \/ \E w \in Workers : Abstract!LeaseNow(c, w) \/ Abstract!Lease(c, w)
           \/ Abstract!Withdraw(c)
           \/ Abstract!Return(c)
  <1> USE DEF IInv
  <1>0. Region(c) \in Regions /\ NoRegion \notin Regions
    BY Routed, WorkerPoolAssumption DEF Region
  <1>1. ASSUME NEW a \in Regions \union {UnknownRegion}, AcquireAtOnce(c, a)
        PROVE  \E w \in Workers : Abstract!LeaseNow(c, w)
    <2> DEFINE r == Normalize(a)
    <2>1. /\ pc[c] = "out" /\ permits[r] # 0
          /\ asked' = [asked EXCEPT ![c] = a]
          /\ TakeWorker(c, r, permits[r] - 1)
      BY <1>1 DEF AcquireAtOnce, Locked
    <2>2. r \in Regions /\ permits[r] - 1 \in Nat
      BY <2>1, Routed DEF TypeOK
    <2>3. \A d \in Callers : d # c => asked'[d] = asked[d]
      BY <2>1 DEF TypeOK
    <2>4. held[c] = NoWorker /\ Demand[c] = NoRegion
      BY <2>1 DEF LeaseOK, Demand
    <2>5. Demand = [Demand EXCEPT ![c] = NoRegion]
      BY <2>4 DEF Demand
    <2>6. PICK w \in Workers : Abstract!Free(w) /\ held' = [held EXCEPT ![c] = w]
      BY <2>1, <2>2, <2>3, TakeWorkerLeases
    <2>7. Demand' = Demand
      BY <2>1, <2>2, <2>3, <2>5, TakeWorkerLeases
    <2>8. QED BY <2>4, <2>6, <2>7 DEF Abstract!LeaseNow, Abstract!Engaged
  <1>2. ASSUME NEW a \in Regions \union {UnknownRegion}, AcquireWaits(c, a)
        PROVE  \E r \in Regions : Abstract!Ask(c, r)
    <2> DEFINE r == Normalize(a)
    <2>1. /\ pc[c] = "out" /\ pc' = [pc EXCEPT ![c] = "waiting"]
          /\ asked' = [asked EXCEPT ![c] = a]
          /\ held' = held
      BY <1>2 DEF AcquireWaits
    <2>2. r \in Regions
      BY Routed
    <2>3. held[c] = NoWorker /\ Demand[c] = NoRegion
      BY <2>1 DEF LeaseOK, Demand
    <2>4. Demand'[c] = r
      BY <2>1 DEF Demand, Region, TypeOK
    <2>5. Demand' = [Demand EXCEPT ![c] = Demand'[c]]
      BY <2>1, DemandOfOne DEF TypeOK
    <2>6. QED BY <2>1, <2>2, <2>3, <2>4, <2>5 DEF Abstract!Ask, Abstract!Engaged
  <1>3. CASE Resume(c)
    <2>1. pc[c] = "granted" /\ asked' = asked /\ TakeWorker(c, Region(c), permits[Region(c)])
      BY <1>3 DEF Resume
    <2>2. permits[Region(c)] \in Nat
      BY <1>0 DEF TypeOK
    <2>3. Demand[c] = Region(c)
      BY <2>1 DEF Demand
    <2>4. PICK w \in Workers : /\ w[1] = Region(c) /\ Abstract!Free(w)
                               /\ held' = [held EXCEPT ![c] = w]
      BY <1>0, <2>1, <2>2, TakeWorkerLeases
    <2>5. Demand' = [Demand EXCEPT ![c] = NoRegion]
      BY <1>0, <2>1, <2>2, TakeWorkerLeases
    <2>6. QED BY <2>3, <2>4, <2>5 DEF Abstract!Lease
  <1>4. CASE CancelWaiting(c)
    <2>1. /\ pc[c] = "waiting" /\ pc' = [pc EXCEPT ![c] = "out"]
          /\ asked' = [asked EXCEPT ![c] = NoRegion] /\ held' = held
      BY <1>4 DEF CancelWaiting
    <2>2. Demand[c] # NoRegion /\ Demand'[c] = NoRegion
      BY <1>0, <2>1 DEF Demand, TypeOK
    <2>3. Demand' = [Demand EXCEPT ![c] = Demand'[c]]
      BY <2>1, DemandOfOne DEF TypeOK
    <2>4. QED BY <2>1, <2>2, <2>3 DEF Abstract!Withdraw
  <1>5. CASE CancelGranted(c)
    <2>1. /\ pc[c] = "granted" /\ asked' = [asked EXCEPT ![c] = NoRegion] /\ held' = held
          /\ WakeUpNext(c, "out", Region(c), permits[Region(c)] + 1)
      BY <1>5 DEF CancelGranted
    <2>2. Demand[c] # NoRegion
      BY <1>0, <2>1 DEF Demand
    <2>3. Demand' = [Demand EXCEPT ![c] = NoRegion]
      <3>1. permits[Region(c)] + 1 \in Nat
        BY <1>0 DEF TypeOK
      <3>2. \A d \in Callers : d # c => asked'[d] = asked[d]
        BY <2>1 DEF TypeOK
      <3>3. QED BY <1>0, <2>1, <3>1, <3>2, WakeUpNextDemand
    <2>4. QED BY <2>1, <2>2, <2>3 DEF Abstract!Withdraw
  <1>6. CASE Release(c)
    <2> DEFINE r == CreditedRegion(c)
    <2>1. pc[c] = "leased" /\ held' = [held EXCEPT ![c] = NoWorker]
      BY <1>6 DEF Release
    <2>2. held[c] \in Workers /\ r \in Regions
      BY <1>0, <2>1, WorkersPartition DEF LeaseOK, CreditedRegion
    <2>3. Demand[c] = NoRegion
      BY <2>1 DEF Demand
    <2>4. WakeUpNext(c, "out", r, permits[r] + 1)
      <3>1. pc'[c] # "raised"
        BY DEF LeaseOK
      <3>2. QED BY <1>6, <3>1 DEF Release, TypeOK
    <2>5. Demand' = [Demand EXCEPT ![c] = NoRegion]
      <3>1. permits[r] + 1 \in Nat
        BY <2>2 DEF TypeOK
      <3>2. \A d \in Callers : d # c => asked'[d] = asked[d]
        BY <1>6 DEF Release, TypeOK
      <3>3. QED BY <2>1, <2>2, <2>4, <3>1, <3>2, WakeUpNextDemand
    <2>6. Demand = [Demand EXCEPT ![c] = NoRegion]
      BY <2>3 DEF Demand
    <2>7. Demand' = Demand
      BY <2>5, <2>6
    <2>8. QED BY <2>1, <2>2, <2>7, NoWorkerAssumption DEF Abstract!Return
  <1>7. QED BY <1>1, <1>2, <1>3, <1>4, <1>5, <1>6

(* The pool keeps the safety half of ImplementsLeasePool: behind its        *)
(* semaphores, queues and flags every step is one of the abstract pool's,   *)
(* or none.                                                                 *)
THEOREM ImplementsLeases == Spec => Abstract!Init /\ [][Abstract!Next]_(Abstract!vars)
  <1>1. Init => Abstract!Init
    BY DEF Init, Abstract!Init, Demand
  <1>2. IInv /\ IInv' /\ [Next]_vars => [Abstract!Next]_(Abstract!vars)
    <2> SUFFICES ASSUME IInv, IInv', [Next]_vars
                 PROVE  Abstract!Next \/ UNCHANGED <<held, Demand>>
      BY DEF Abstract!vars
    <2>1. CASE Next
      BY <2>1, StepImplements DEF Next, Abstract!Next
    <2>2. CASE UNCHANGED vars
      BY <2>2 DEF vars, Demand, Region
    <2>3. QED BY <2>1, <2>2
  <1>3. QED BY <1>1, <1>2, Invariance, PTL DEF Spec

-------------------------------------------------------------------------------
(* The order of service: every waiting caller is in the queue of its       *)
(* region, the converse of QueueOK.                                        *)
WaitersQueued ==
    \A c \in Callers : pc[c] = "waiting" =>
        \E i \in 1 .. Len(queue[Region(c)]) : queue[Region(c)][i] = c

(* Whoever waits, before and after, for what d is given was behind d. *)
ServedInTurn(d) ==
    \A c \in Callers :
        pc[c] = "waiting" /\ pc'[c] = "waiting" /\ Region(c) = Region(d) => Ahead(d, c)

(* WakeUpNext wakes the first of the queue and leaves the others there. *)
LEMMA WakeUpNextInTurn ==
    ASSUME IInv, WaitersQueued, NEW c \in Callers, NEW at \in {"out", "leased"},
           NEW r \in Regions, NEW value \in Nat,
           pc[c] # "waiting",
           WakeUpNext(c, at, r, value),
           \A d \in Callers : d # c => asked'[d] = asked[d]
    PROVE  /\ WaitersQueued'
           /\ \A d \in Callers : pc[d] # pc'[d] /\ d # c => ServedInTurn(d)
  <1> USE DEF IInv, TypeOK
  <1>0. /\ queue[r] \in Seq(Callers) /\ Len(queue[r]) \in Nat
        /\ \A d \in Callers : d # c => Region(d)' = Region(d)
        /\ \A d \in Callers : Region(d) \in Regions
    BY Routed DEF Region, Normalize
  <1>1. CASE value > 0 /\ queue[r] # <<>>
    <2> DEFINE head == queue[r][1]
    <2>1. /\ head \in Callers /\ Head(queue[r]) = head
          /\ pc[head] = "waiting" /\ Region(head) = r
          /\ 1 \in 1 .. Len(queue[r])
      BY <1>0, <1>1 DEF QueueOK
    <2>2. /\ Len(Tail(queue[r])) = Len(queue[r]) - 1
          /\ \A i \in 2 .. Len(queue[r]) :
               i - 1 \in 1 .. Len(queue[r]) - 1 /\ Tail(queue[r])[i - 1] = queue[r][i]
      BY <1>0, <1>1
    <2> HIDE DEF head
    <2>3. /\ pc' = [pc EXCEPT ![head] = "granted", ![c] = at]
          /\ queue' = [queue EXCEPT ![r] = Tail(queue[r])]
      BY <1>1, <2>1 DEF WakeUpNext
    <2>4. /\ queue'[r] = Tail(queue[r])
          /\ \A s \in Regions : s # r => queue'[s] = queue[s]
          /\ \A d \in Callers : d # c /\ d # head => pc'[d] = pc[d]
          /\ pc'[c] # "waiting" /\ pc'[head] # "waiting"
      BY <2>1, <2>3
    <2>5. ASSUME NEW x \in Callers, pc[x] = "waiting", Region(x) = r, x # head
          PROVE  \E i \in 2 .. Len(queue[r]) : queue[r][i] = x
      <3>1. PICK i \in 1 .. Len(queue[r]) : queue[r][i] = x
        BY <2>5 DEF WaitersQueued
      <3>2. i # 1
        BY <2>5, <3>1 DEF head
      <3>3. QED BY <1>0, <3>1, <3>2
    <2>6. WaitersQueued'
      <3> SUFFICES ASSUME NEW x \in Callers, pc'[x] = "waiting"
                   PROVE  \E i \in 1 .. Len(queue'[Region(x)']) : queue'[Region(x)'][i] = x
        BY DEF WaitersQueued
      <3>1. x # c /\ x # head /\ pc[x] = "waiting" /\ Region(x)' = Region(x)
        BY <1>0, <2>4
      <3>2. CASE Region(x) = r
        <4>1. PICK i \in 2 .. Len(queue[r]) : queue[r][i] = x
          BY <2>5, <3>1, <3>2
        <4>2. i - 1 \in 1 .. Len(queue'[r]) /\ queue'[r][i - 1] = x
          BY <2>2, <2>4, <4>1
        <4>3. QED BY <3>1, <3>2, <4>2
      <3>3. CASE Region(x) # r
        <4>1. PICK i \in 1 .. Len(queue[Region(x)]) : queue[Region(x)][i] = x
          BY <3>1 DEF WaitersQueued
        <4>2. queue'[Region(x)] = queue[Region(x)]
          BY <1>0, <2>4, <3>3
        <4>3. QED BY <3>1, <4>1, <4>2
      <3>4. QED BY <3>2, <3>3
    <2>7. ASSUME NEW d \in Callers, pc[d] # pc'[d], d # c PROVE ServedInTurn(d)
      <3>1. d = head
        BY <2>4, <2>7
      <3> SUFFICES ASSUME NEW x \in Callers, pc[x] = "waiting", pc'[x] = "waiting", Region(x) = r
                   PROVE  Ahead(d, x)
        BY <2>1, <3>1 DEF ServedInTurn
      <3>2. PICK i \in 2 .. Len(queue[r]) : queue[r][i] = x
        BY <2>4, <2>5
      <3>3. 1 \in DOMAIN queue[r] /\ i \in DOMAIN queue[r] /\ 1 < i
        BY <1>0, <2>1
      <3>4. QED BY <3>1, <3>2, <3>3 DEF Ahead, head
    <2>8. QED BY <2>6, <2>7
  <1>2. CASE ~(value > 0 /\ queue[r] # <<>>)
    <2>1. pc' = [pc EXCEPT ![c] = at] /\ queue' = queue
      BY <1>2 DEF WakeUpNext
    <2>2. \A d \in Callers : d # c => pc'[d] = pc[d]
      BY <2>1
    <2>3. WaitersQueued'
      <3> SUFFICES ASSUME NEW x \in Callers, pc'[x] = "waiting"
                   PROVE  \E i \in 1 .. Len(queue'[Region(x)']) : queue'[Region(x)'][i] = x
        BY DEF WaitersQueued
      <3>1. x # c /\ pc[x] = "waiting" /\ Region(x)' = Region(x)
        BY <1>0, <2>1
      <3>2. PICK i \in 1 .. Len(queue[Region(x)]) : queue[Region(x)][i] = x
        BY <3>1 DEF WaitersQueued
      <3>3. QED BY <2>1, <3>1, <3>2
    <2>4. QED BY <2>2, <2>3
  <1>3. QED BY <1>1, <1>2

LEMMA TakeWorkerInTurn ==
    ASSUME IInv, IInv', WaitersQueued, NEW c \in Callers, NEW r \in Regions, NEW value \in Nat,
           pc[c] # "waiting",
           TakeWorker(c, r, value),
           \A d \in Callers : d # c => asked'[d] = asked[d]
    PROVE  /\ WaitersQueued'
           /\ \A d \in Callers : pc[d] # pc'[d] /\ d # c => ServedInTurn(d)
  <1>1. WakeUpNext(c, "leased", r, value)
    BY WokenNotRaised DEF TakeWorker
  <1>2. QED BY <1>1, WakeUpNextInTurn

(* A step that only moves c, to or from the queue of its region. *)
LEMMA AcquireWaitsInTurn ==
    ASSUME IInv, WaitersQueued, NEW c \in Callers, NEW a \in Regions \union {UnknownRegion},
           AcquireWaits(c, a)
    PROVE  WaitersQueued'
  <1> USE DEF IInv, TypeOK
  <1> DEFINE r == Normalize(a)
  <1>1. /\ pc[c] = "out" /\ pc' = [pc EXCEPT ![c] = "waiting"]
        /\ asked' = [asked EXCEPT ![c] = a]
        /\ queue' = [queue EXCEPT ![r] = Append(queue[r], c)]
    BY DEF AcquireWaits
  <1>2. r \in Regions /\ Region(c)' = r /\ \A d \in Callers : Region(d) \in Regions
    BY <1>1, Routed DEF Region
  <1> HIDE DEF r
  <1>3. /\ Len(queue[r]) \in Nat
        /\ Len(Append(queue[r], c)) = Len(queue[r]) + 1
        /\ \A i \in 1 .. Len(queue[r]) : Append(queue[r], c)[i] = queue[r][i]
        /\ Append(queue[r], c)[Len(queue[r]) + 1] = c
    BY <1>2, AppendProperties
  <1>4. /\ queue'[r] = Append(queue[r], c)
        /\ \A s \in Regions : s # r => queue'[s] = queue[s]
    BY <1>1, <1>2
  <1> SUFFICES ASSUME NEW x \in Callers, pc'[x] = "waiting"
               PROVE  \E i \in 1 .. Len(queue'[Region(x)']) : queue'[Region(x)'][i] = x
    BY DEF WaitersQueued
  <1>5. CASE x = c
    <2>1. Len(queue[r]) + 1 \in 1 .. Len(queue'[r]) /\ queue'[r][Len(queue[r]) + 1] = x
      BY <1>3, <1>4, <1>5
    <2>2. QED BY <1>2, <1>5, <2>1
  <1>6. CASE x # c
    <2>1. pc[x] = "waiting" /\ Region(x)' = Region(x)
      BY <1>1, <1>6 DEF Region
    <2>2. PICK i \in 1 .. Len(queue[Region(x)]) : queue[Region(x)][i] = x
      BY <2>1 DEF WaitersQueued
    <2>3. i \in 1 .. Len(queue'[Region(x)]) /\ queue'[Region(x)][i] = x
      <3>1. CASE Region(x) = r
        <4>1. i \in 1 .. Len(queue[r]) /\ queue[r][i] = x
          BY <2>2, <3>1
        <4>2. i \in 1 .. Len(Append(queue[r], c)) /\ Append(queue[r], c)[i] = x
          BY <1>3, <4>1
        <4>3. QED BY <1>4, <3>1, <4>2
      <3>2. CASE Region(x) # r
        BY <1>2, <1>4, <2>2, <3>2
      <3>3. QED BY <3>1, <3>2
    <2>4. QED BY <2>1, <2>3
  <1>7. QED BY <1>5, <1>6

LEMMA CancelWaitingInTurn ==
    ASSUME IInv, WaitersQueued, NEW c \in Callers, CancelWaiting(c)
    PROVE  WaitersQueued'
  <1> USE DEF IInv, TypeOK
  <1> DEFINE r == Region(c)
  <1>1. pc' = [pc EXCEPT ![c] = "out"] /\ asked' = [asked EXCEPT ![c] = NoRegion]
    BY DEF CancelWaiting
  <1>2. PICK k \in DOMAIN queue[r] :
          queue[r][k] = c /\ queue' = [queue EXCEPT ![r] = RemoveAt(queue[r], k)]
    BY DEF CancelWaiting
  <1>3. \A d \in Callers : Region(d) \in Regions
    BY Routed DEF Region
  <1>4. r \in Regions
    BY <1>3
  <1> HIDE DEF r
  <1>5. queue[r] \in Seq(Callers) /\ Len(queue[r]) \in Nat /\ k \in 1 .. Len(queue[r])
    BY <1>2, <1>4
  <1>6. /\ queue'[r] = RemoveAt(queue[r], k)
        /\ \A s \in Regions : s # r => queue'[s] = queue[s]
    BY <1>2, <1>4
  <1>7. /\ Len(queue'[r]) = Len(queue[r]) - 1
        /\ \A j \in 1 .. Len(queue[r]) - 1 :
             queue'[r][j] = IF j < k THEN queue[r][j] ELSE queue[r][j + 1]
    <2> DEFINE q == queue[r]
    <2>1. q \in Seq(Callers) /\ k \in 1 .. Len(q) /\ queue'[r] = RemoveAt(q, k)
      BY <1>5, <1>6
    <2> SUFFICES /\ Len(queue'[r]) = Len(q) - 1
                 /\ \A j \in 1 .. Len(q) - 1 :
                      queue'[r][j] = IF j < k THEN q[j] ELSE q[j + 1]
      OBVIOUS
    <2> HIDE DEF q
    <2>2. QED BY <2>1, RemoveAtProperties
  <1> SUFFICES ASSUME NEW x \in Callers, pc'[x] = "waiting"
               PROVE  \E i \in 1 .. Len(queue'[Region(x)']) : queue'[Region(x)'][i] = x
    BY DEF WaitersQueued
  <1>8. x # c /\ pc[x] = "waiting" /\ Region(x)' = Region(x)
    BY <1>1 DEF Region
  <1>9. PICK i \in 1 .. Len(queue[Region(x)]) : queue[Region(x)][i] = x
    BY <1>8 DEF WaitersQueued
  <1>10. CASE Region(x) = r
    <2>1. i # k /\ i \in 1 .. Len(queue[r])
      BY <1>2, <1>8, <1>9, <1>10
    <2>2. CASE i < k
      <3>1. i \in 1 .. Len(queue[r]) - 1
        BY <1>5, <2>1, <2>2
      <3>2. queue'[r][i] = x
        BY <1>7, <1>9, <1>10, <2>2, <3>1
      <3>3. QED BY <1>7, <1>8, <1>10, <3>1, <3>2
    <2>3. CASE k < i
      <3>1. i - 1 \in 1 .. Len(queue[r]) - 1 /\ ~(i - 1 < k) /\ (i - 1) + 1 = i
        BY <1>5, <2>1, <2>3
      <3>2. queue'[r][i - 1] = x
        BY <1>7, <1>9, <1>10, <3>1
      <3>3. QED BY <1>7, <1>8, <1>10, <3>1, <3>2
    <2>4. QED BY <1>5, <2>1, <2>2, <2>3
  <1>11. CASE Region(x) # r
    BY <1>3, <1>6, <1>8, <1>9, <1>11
  <1>12. QED BY <1>10, <1>11

(* What every step does for the order of service. *)
LEMMA StepInTurn ==
    ASSUME IInv, IInv', WaitersQueued, [Next]_vars
    PROVE  /\ WaitersQueued'
           /\ \A d \in Callers : ~Served(d) /\ Served(d)' =>
                \A c \in Callers : pc[c] = "waiting" /\ pc'[c] = "waiting"
                                   /\ Region(d)' = Region(c) => Ahead(d, c)
  <1> USE DEF IInv, TypeOK
  <1> DEFINE Goal == /\ WaitersQueued'
                     /\ \A d \in Callers : ~Served(d) /\ Served(d)' =>
                          \A c \in Callers : pc[c] = "waiting" /\ pc'[c] = "waiting"
                                             /\ Region(d)' = Region(c) => Ahead(d, c)
  <1>0. \A d \in Callers : Region(d) \in Regions
    BY Routed DEF Region
  <1>1. ASSUME NEW e \in Callers, WaitersQueued',
               \A d \in Callers : pc[d] # pc'[d] /\ d # e => ServedInTurn(d),
               \A d \in Callers : d # e => asked'[d] = asked[d],
               Served(e) \/ ~Served(e)'
        PROVE  Goal
    <2> SUFFICES ASSUME NEW d \in Callers, ~Served(d), Served(d)',
                        NEW c \in Callers, pc[c] = "waiting", pc'[c] = "waiting",
                        Region(d)' = Region(c)
                 PROVE  Ahead(d, c)
      BY <1>1
    <2>1. d # e /\ pc[d] # pc'[d]
      BY <1>1 DEF Served
    <2>2. Region(d)' = Region(d)
      BY <1>1, <2>1 DEF Region
    <2>3. QED BY <1>1, <2>1, <2>2 DEF ServedInTurn
  <1>2. ASSUME NEW e \in Callers, NEW a \in Regions \union {UnknownRegion}, AcquireAtOnce(e, a)
        PROVE  Goal
    <2> DEFINE r == Normalize(a)
    <2>1. /\ pc[e] = "out" /\ permits[r] # 0 /\ queue[r] = <<>>
          /\ asked' = [asked EXCEPT ![e] = a]
          /\ TakeWorker(e, r, permits[r] - 1)
      BY <1>2 DEF AcquireAtOnce, Locked
    <2>2. r \in Regions /\ permits[r] - 1 \in Nat
      BY <2>1, Routed
    <2>3. \A d \in Callers : d # e => asked'[d] = asked[d]
      BY <2>1
    <2>4. /\ WaitersQueued'
          /\ \A d \in Callers : pc[d] # pc'[d] /\ d # e => ServedInTurn(d)
      BY <2>1, <2>2, <2>3, TakeWorkerInTurn
    <2>5. Region(e)' = r
      BY <2>1 DEF Region
    <2>6. \A c \in Callers : pc[c] = "waiting" => Region(c) # r
      BY <2>1 DEF WaitersQueued
    <2> SUFFICES ASSUME NEW d \in Callers, ~Served(d), Served(d)',
                        NEW c \in Callers, pc[c] = "waiting", pc'[c] = "waiting",
                        Region(d)' = Region(c)
                 PROVE  Ahead(d, c)
      BY <2>4
    <2>7. d # e /\ pc[d] # pc'[d]
      BY <2>5, <2>6 DEF Served
    <2>8. Region(d)' = Region(d)
      BY <2>3, <2>7 DEF Region
    <2>9. QED BY <2>4, <2>7, <2>8 DEF ServedInTurn
  <1>3. ASSUME NEW e \in Callers, NEW a \in Regions \union {UnknownRegion}, AcquireWaits(e, a)
        PROVE  Goal
    <2>1. pc' = [pc EXCEPT ![e] = "waiting"]
      BY <1>3 DEF AcquireWaits
    <2>2. \A d \in Callers : Served(d)' => Served(d)
      BY <2>1 DEF Served
    <2>3. QED BY <1>3, <2>2, AcquireWaitsInTurn
  <1>4. ASSUME NEW e \in Callers, Resume(e) PROVE Goal
    <2>1. pc[e] = "granted" /\ asked' = asked /\ TakeWorker(e, Region(e), permits[Region(e)])
      BY <1>4 DEF Resume
    <2>2. permits[Region(e)] \in Nat
      BY <1>0
    <2>3. /\ WaitersQueued'
          /\ \A d \in Callers : pc[d] # pc'[d] /\ d # e => ServedInTurn(d)
      BY <1>0, <2>1, <2>2, TakeWorkerInTurn
    <2>4. QED BY <1>1, <2>1, <2>3 DEF Served
  <1>5. ASSUME NEW e \in Callers, CancelWaiting(e) PROVE Goal
    <2>1. pc' = [pc EXCEPT ![e] = "out"]
      BY <1>5 DEF CancelWaiting
    <2>2. \A d \in Callers : Served(d)' => Served(d)
      BY <2>1 DEF Served
    <2>3. QED BY <1>5, <2>2, CancelWaitingInTurn
  <1>6. ASSUME NEW e \in Callers, NEW s \in Regions, pc[e] # "waiting",
               WakeUpNext(e, "out", s, permits[s] + 1),
               asked' = [asked EXCEPT ![e] = NoRegion]
        PROVE  Goal
    <2>1. permits[s] + 1 \in Nat /\ \A d \in Callers : d # e => asked'[d] = asked[d]
      BY <1>6
    <2>2. /\ WaitersQueued'
          /\ \A d \in Callers : pc[d] # pc'[d] /\ d # e => ServedInTurn(d)
      BY <1>6, <2>1, WakeUpNextInTurn
    <2>3. pc'[e] = "out"
      BY <1>6 DEF WakeUpNext
    <2>4. QED BY <1>1, <2>1, <2>2, <2>3 DEF Served
  <1>7. ASSUME NEW e \in Callers, CancelGranted(e) PROVE Goal
    BY <1>0, <1>6, <1>7 DEF CancelGranted
  <1>8. ASSUME NEW e \in Callers, Release(e) PROVE Goal
    <2>1. pc[e] = "leased" /\ asked' = [asked EXCEPT ![e] = NoRegion] /\ pc'[e] # "raised"
      BY <1>8 DEF Release, LeaseOK
    <2>2. CreditedRegion(e) \in Regions
      BY <1>0, <2>1 DEF LeaseOK, CreditedRegion
    <2>3. WakeUpNext(e, "out", CreditedRegion(e), permits[CreditedRegion(e)] + 1)
      BY <1>8, <2>1 DEF Release
    <2>4. QED BY <1>6, <2>1, <2>2, <2>3
  <1>9. CASE UNCHANGED vars
    BY <1>9 DEF vars, WaitersQueued, Region, Served
  <1>10. QED BY <1>2, <1>3, <1>4, <1>5, <1>7, <1>8, <1>9 DEF Next

(* Waiters of a region are served in the order of their arrival: neither a *)
(* newcomer nor a release, a cancellation or a late wake-up lets anybody   *)
(* pass.                                                                   *)
THEOREM ServedInOrder == Spec => NoOvertaking
  <1>1. Init => WaitersQueued
    BY DEF Init, WaitersQueued
  <1>2. IInv /\ IInv' /\ WaitersQueued /\ [Next]_vars => WaitersQueued'
    BY StepInTurn
  <1>3. Spec => []WaitersQueued
    BY <1>1, <1>2, Invariance, PTL DEF Spec
  <1> DEFINE InTurn ==
        \A c, d \in Callers :
           /\ pc[c] = "waiting" /\ pc'[c] = "waiting"
           /\ ~Served(d) /\ Served(d)'
           /\ Region(d)' = Region(c)
           => Ahead(d, c)
  <1>4. IInv /\ IInv' /\ WaitersQueued /\ [Next]_vars => InTurn
    BY StepInTurn
  <1>5. QED BY <1>3, <1>4, Invariance, PTL DEF Spec, NoOvertaking
===============================================================================
