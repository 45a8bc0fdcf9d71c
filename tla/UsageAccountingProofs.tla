------------------------- MODULE UsageAccountingProofs -------------------------
(***************************************************************************)
(* The PostgreSQL rate limiter alone, then the usage rows, their rollup    *)
(* and the overage check around it: for any number of requests, keys,      *)
(* units and days and every limit and allowance.                           *)
(*                                                                         *)
(* The overshoot is bounded by one step, the admission: the rows counted   *)
(* and the batch that fits make at most Limit, the other requests may add  *)
(* at most MaxUnits rows each.  Every other step moves an item from what   *)
(* is outstanding to the rows, or drops it.                                *)
(*                                                                         *)
(* The rollup and the overage check rest on one fact: a rollup never       *)
(* exceeds the rows of its day, because rows are only added and the job    *)
(* works on a day that is over.  The steps around the limiter are its own, *)
(* so its invariant holds there too.                                       *)
(***************************************************************************)
EXTENDS UsageAccounting, FiniteSetTheorems, TLAPS

ActiveOK == \A r \in Requests : pc[r] # "idle" => key[r] \in Keys /\ items[r] >= 1

IInv == TypeOK /\ ActiveOK /\ LockHeldByChecker /\ OvershootBounded

Slack == (Cardinality(Requests) - 1) * MaxUnits

(* Slack is the number of rows the other requests may add. *)
LEMMA SlackType == Slack \in Nat /\ Cardinality(Requests) \in Nat
  <1>1. Cardinality(Requests) \in Nat /\ Cardinality(Requests) # 0
    BY PostgresRateLimiterAssumption, FS_CardinalityType, FS_EmptySet
  <1>2. Cardinality(Requests) - 1 \in Nat
    BY <1>1
  <1>3. \A m, n \in Nat : m * n \in Nat
    OBVIOUS
  <1>4. QED BY <1>1, <1>2, <1>3, PostgresRateLimiterAssumption DEF Slack

(* There are finitely many units. *)
LEMMA PairsFinite == IsFiniteSet(Requests \X (1 .. MaxUnits))
  <1>1. IsFiniteSet(Requests) /\ IsFiniteSet(1 .. MaxUnits)
    BY PostgresRateLimiterAssumption, FS_Interval
  <1>2. QED BY <1>1, FS_Product, Zenon

(* What is outstanding can be counted, before a step ... *)
LEMMA OutstandingFinite ==
    ASSUME NEW k
    PROVE  IsFiniteSet(Outstanding(k)) /\ Cardinality(Outstanding(k)) \in Nat
  <1>1. Outstanding(k) \subseteq Requests \X (1 .. MaxUnits)
    BY DEF Outstanding
  <1>2. IsFiniteSet(Outstanding(k))
    BY <1>1, PairsFinite, FS_Subset
  <1>3. QED BY <1>2, FS_CardinalityType

(* ... and after it. *)
LEMMA OutstandingFinitePrime ==
    ASSUME NEW k
    PROVE  IsFiniteSet(Outstanding(k)') /\ Cardinality(Outstanding(k)') \in Nat
  <1>1. Outstanding(k)' \subseteq Requests \X (1 .. MaxUnits)
    BY DEF Outstanding
  <1>2. IsFiniteSet(Outstanding(k)')
    BY <1>1, PairsFinite, FS_Subset
  <1>3. QED BY <1>2, FS_CardinalityType

(* A batch of n items has n units. *)
LEMMA UnitsCounted ==
    ASSUME NEW n \in Nat
    PROVE  IsFiniteSet(1 .. n) /\ Cardinality(1 .. n) = n
  <1>1. \A m \in Int : IsFiniteSet(m .. n) /\ Cardinality(m .. n) = IF m > n THEN 0 ELSE n - m + 1
    BY FS_Interval
  <1>2. QED BY <1>1

(* One request has as many units outstanding as it has items, the others   *)
(* have at most Slack together.                                            *)
LEMMA OthersBounded ==
    ASSUME NEW r \in Requests, NEW n \in 0 .. MaxUnits,
           NEW S, S \subseteq ((Requests \ {r}) \X (1 .. MaxUnits)) \union ({r} \X (1 .. n))
    PROVE  IsFiniteSet(S) /\ Cardinality(S) <= n + Slack
  <1> DEFINE Others == (Requests \ {r}) \X (1 .. MaxUnits)
             Own == {r} \X (1 .. n)
  <1>1. /\ IsFiniteSet(Requests \ {r})
        /\ Cardinality(Requests \ {r}) = Cardinality(Requests) - 1
    BY PostgresRateLimiterAssumption, FS_RemoveElement
  <1>2. /\ IsFiniteSet(1 .. MaxUnits) /\ Cardinality(1 .. MaxUnits) = MaxUnits
        /\ IsFiniteSet(1 .. n) /\ Cardinality(1 .. n) = n
    BY PostgresRateLimiterAssumption, FS_Interval
  <1>3. IsFiniteSet(Others) /\ Cardinality(Others) = Slack
    <2>1. /\ IsFiniteSet(Others)
          /\ Cardinality(Others) = Cardinality(Requests \ {r}) * Cardinality(1 .. MaxUnits)
      BY <1>1, <1>2, FS_Product, Zenon
    <2> HIDE DEF Others
    <2>2. QED BY <1>1, <1>2, <2>1 DEF Slack
  <1>4. IsFiniteSet(Own) /\ Cardinality(Own) = n
    <2>1. IsFiniteSet({r}) /\ Cardinality({r}) = 1
      BY FS_Singleton
    <2>2. IsFiniteSet(Own) /\ Cardinality(Own) = Cardinality({r}) * Cardinality(1 .. n)
      BY <2>1, <1>2, FS_Product, Zenon
    <2> HIDE DEF Own
    <2>3. QED BY <1>2, <2>1, <2>2
  <1>5. /\ IsFiniteSet(Others \union Own)
        /\ Cardinality(Others \union Own) =
             Cardinality(Others) + Cardinality(Own) - Cardinality(Others \intersect Own)
    BY <1>3, <1>4, FS_Union
  <1>6. Cardinality(Others \intersect Own) \in Nat
    BY <1>3, FS_Subset, FS_CardinalityType
  <1>7. IsFiniteSet(S) /\ Cardinality(S) <= Cardinality(Others \union Own)
    BY <1>5, FS_Subset
  <1>8. Cardinality(S) \in Nat
    BY <1>7, FS_CardinalityType
  <1> HIDE DEF Others, Own
  <1>9. QED BY <1>3, <1>4, <1>5, <1>6, <1>7, <1>8, SlackType

(* What a key has used: the rows counted, and the items that may still add *)
(* one.                                                                    *)
Used(k) == rows[k] + Cardinality(Outstanding(k))

LEMMA UsedType ==
    ASSUME TypeOK, TypeOK', NEW k \in Keys
    PROVE  Used(k) \in Nat /\ Used(k)' \in Nat
  <1>1. rows[k] \in Nat /\ rows'[k] \in Nat
    BY DEF TypeOK
  <1>2. Cardinality(Outstanding(k)) \in Nat /\ Cardinality(Outstanding(k)') \in Nat
    BY OutstandingFinite, OutstandingFinitePrime
  <1>3. QED BY <1>1, <1>2 DEF Used

(* A step that adds neither a row nor an item uses nothing. *)
LEMMA ShrinkUsesNothing ==
    ASSUME TypeOK, TypeOK', NEW k \in Keys,
           rows'[k] <= rows[k], Outstanding(k)' \subseteq Outstanding(k)
    PROVE  Used(k)' <= Used(k)
  <1>1. Cardinality(Outstanding(k)') <= Cardinality(Outstanding(k))
    BY OutstandingFinite, FS_Subset
  <1>2. /\ Cardinality(Outstanding(k)) \in Nat
        /\ Cardinality(Outstanding(k)') \in Nat
    BY OutstandingFinite, OutstandingFinitePrime
  <1>3. rows[k] \in Nat /\ rows'[k] \in Nat
    BY DEF TypeOK
  <1>4. QED BY <1>1, <1>2, <1>3 DEF Used

(* A step in which no key uses more keeps the bound. *)
LEMMA UseKeepsBound ==
    ASSUME TypeOK, TypeOK', OvershootBounded, \A k \in Keys : Used(k)' <= Used(k)
    PROVE  OvershootBounded'
  <1> SUFFICES ASSUME NEW k \in Keys PROVE Used(k)' <= Limit + Slack
    BY DEF OvershootBounded, Slack, Used
  <1>1. Used(k) <= Limit + Slack
    BY DEF OvershootBounded, Slack, Used
  <1>2. QED BY <1>1, UsedType, SlackType, PostgresRateLimiterAssumption

-------------------------------------------------------------------------------
(* The invariant. *)

(* Initially no key has rows, and no request has been admitted. *)
LEMMA InitIInv == Init => IInv
  <1> SUFFICES ASSUME Init PROVE IInv
    OBVIOUS
  <1> USE PostgresRateLimiterAssumption DEF Init
  <1>1. TypeOK /\ ActiveOK /\ LockHeldByChecker
    BY DEF TypeOK, Steps, ActiveOK, LockHeldByChecker
  <1>2. OvershootBounded
    <2> SUFFICES ASSUME NEW k \in Keys
                 PROVE  rows[k] + Cardinality(Outstanding(k)) <= Limit + Slack
      BY DEF OvershootBounded, Slack
    <2>1. Outstanding(k) = {}
      BY DEF Outstanding, Admitted
    <2>2. rows[k] + Cardinality(Outstanding(k)) = 0
      BY <2>1, FS_EmptySet
    <2>3. QED BY <2>2, SlackType
  <1>3. QED BY <1>1, <1>2 DEF IInv

(* The locks: taken free, kept while counting, given back by the holder.   *)
LEMMA TypesAndLocks ==
    ASSUME IInv, [Next]_vars
    PROVE  TypeOK' /\ ActiveOK' /\ LockHeldByChecker'
  <1> USE PostgresRateLimiterAssumption
      DEF IInv, TypeOK, Steps, ActiveOK, LockHeldByChecker, Goto
  <1>1. ASSUME NEW r \in Requests, NEW k \in Keys, NEW n \in 1 .. MaxUnits, Begin(r, k, n)
        PROVE  TypeOK' /\ ActiveOK' /\ LockHeldByChecker'
    BY <1>1 DEF Begin
  <1>2. ASSUME NEW r \in Requests, CheckOverage(r) \/ LockFails(r)
        PROVE  TypeOK' /\ ActiveOK' /\ LockHeldByChecker'
    BY <1>2 DEF CheckOverage, LockFails, Refused
  <1>3. ASSUME NEW r \in Requests, TryLock(r)
        PROVE  TypeOK' /\ ActiveOK' /\ LockHeldByChecker'
    <2>1. TypeOK' /\ ActiveOK'
      BY <1>3 DEF TryLock, Refused
    <2>2. LockHeldByChecker'
      <3>1. CASE lock[key[r]] = NoRequest
        BY <1>3, <3>1 DEF TryLock
      <3>2. CASE lock[key[r]] # NoRequest
        BY <1>3, <3>2 DEF TryLock, Refused
      <3>3. QED BY <3>1, <3>2
    <2>3. QED BY <2>1, <2>2
  <1>4. ASSUME NEW r \in Requests, Count(r)
        PROVE  TypeOK' /\ ActiveOK' /\ LockHeldByChecker'
    BY <1>4 DEF Count
  <1>5. ASSUME NEW r \in Requests, Unlock(r)
        PROVE  TypeOK' /\ ActiveOK' /\ LockHeldByChecker'
    <2>1. TypeOK' /\ ActiveOK'
      BY <1>5 DEF Unlock, Refused
    <2>2. LockHeldByChecker'
      BY <1>5 DEF Unlock, Refused
    <2>3. QED BY <2>1, <2>2
  <1>6. ASSUME NEW r \in Requests, Record(r) \/ EndUnrecorded(r)
        PROVE  TypeOK' /\ ActiveOK' /\ LockHeldByChecker'
    BY <1>6 DEF Record, EndUnrecorded, ItemEnds
  <1>7. ASSUME NEW k \in Keys, Expire(k)
        PROVE  TypeOK' /\ ActiveOK' /\ LockHeldByChecker'
    BY <1>7 DEF Expire, request
  <1>8. CASE UNCHANGED vars
    BY <1>8 DEF vars, request
  <1>9. QED BY <1>1, <1>2, <1>3, <1>4, <1>5, <1>6, <1>7, <1>8 DEF Next, Check

(* An admission: what was counted and the batch make at most Limit.        *)
LEMMA CountKeepsBound ==
    ASSUME IInv, TypeOK', NEW r \in Requests, Count(r)
    PROVE  OvershootBounded'
  <1>1. /\ pc[r] = "count"
        /\ UNCHANGED <<key, items, lock, rows>>
    BY DEF Count
  <1>2. CASE Fits(key[r], items[r]) /\ Goto(r, "admit")
    <2> SUFFICES ASSUME NEW k \in Keys
                 PROVE  rows'[k] + Cardinality(Outstanding(k)') <= Limit + Slack
      BY DEF OvershootBounded, Slack
    <2>1. CASE k = key[r]
      <3>1. items[r] \in 0 .. MaxUnits /\ rows[k] \in Nat
        BY DEF IInv, TypeOK
      <3>2. Outstanding(k)' \subseteq
              ((Requests \ {r}) \X (1 .. MaxUnits)) \union ({r} \X (1 .. items[r]))
        BY <1>1, <3>1 DEF Outstanding
      <3>3. Cardinality(Outstanding(k)') <= items[r] + Slack
        BY <3>1, <3>2, OthersBounded
      <3>4. Limit - rows[k] >= items[r]
        BY <1>2, <2>1 DEF Fits
      <3>5. rows'[k] = rows[k] /\ Cardinality(Outstanding(k)') \in Nat
        BY <1>1, OutstandingFinitePrime
      <3>6. QED BY <3>1, <3>3, <3>4, <3>5, SlackType, PostgresRateLimiterAssumption
    <2>2. CASE k # key[r]
      <3>1. Outstanding(k)' = Outstanding(k)
        BY <1>1, <1>2, <2>2 DEF Outstanding, Admitted, Goto, IInv, TypeOK
      <3>2. QED BY <1>1, <3>1 DEF IInv, OvershootBounded, Slack
    <2>3. QED BY <2>1, <2>2
  <1>3. CASE Goto(r, "refuse")
    <2>1. \A k \in Keys : Outstanding(k)' \subseteq Outstanding(k)
      BY <1>1, <1>3 DEF Outstanding, Admitted, Goto, IInv, TypeOK
    <2>2. \A k \in Keys : rows'[k] <= rows[k]
      BY <1>1 DEF IInv, TypeOK
    <2>3. QED BY <2>1, <2>2, ShrinkUsesNothing, UseKeepsBound DEF IInv
  <1>4. QED BY <1>2, <1>3 DEF Count

(* An item that ends is outstanding no more: its last unit is gone.        *)
LEMMA ItemEndsShrinks ==
    ASSUME IInv, NEW r \in Requests, ItemEnds(r), NEW k \in Keys
    PROVE  /\ <<r, items[r]>> \in Outstanding(key[r])
           /\ Outstanding(k)' \subseteq Outstanding(k) \ {<<r, items[r]>>}
  <1>1. /\ pc[r] = "run" /\ key[r] \in Keys
        /\ items[r] \in 1 .. MaxUnits
    BY DEF ItemEnds, IInv, TypeOK, ActiveOK
  <1>2. <<r, items[r]>> \in Outstanding(key[r])
    BY <1>1 DEF Outstanding, Admitted
  <1>3. items' = [items EXCEPT ![r] = items[r] - 1]
    BY DEF ItemEnds
  <1>4. ASSUME NEW p \in Outstanding(k)'
        PROVE  p \in Outstanding(k) \ {<<r, items[r]>>}
    <2>1. /\ p \in Requests \X (1 .. MaxUnits)
          /\ p[1] \in Requests /\ p[2] \in 1 .. MaxUnits
          /\ key'[p[1]] = k /\ pc'[p[1]] \in {"admit", "run"}
          /\ p[2] <= items'[p[1]]
      BY <1>4 DEF Outstanding, Admitted
    <2>2. CASE p[1] = r
      <3>1. p[2] <= items[r] - 1
        BY <1>3, <2>1, <2>2 DEF IInv, TypeOK
      <3>2. key[r] = k
        BY <2>1, <2>2, PostgresRateLimiterAssumption DEF ItemEnds, IInv, TypeOK
      <3>3. p[2] <= items[r] /\ p[2] # items[r]
        BY <1>1, <2>1, <3>1
      <3>4. p # <<r, items[r]>>
        BY <3>3
      <3>5. QED BY <1>1, <2>1, <2>2, <3>2, <3>3, <3>4 DEF Outstanding, Admitted
    <2>3. CASE p[1] # r
      <3>1. key[p[1]] = k /\ pc[p[1]] \in {"admit", "run"} /\ p[2] <= items[p[1]]
        BY <1>3, <2>1, <2>3 DEF ItemEnds, Goto, IInv, TypeOK
      <3>2. p # <<r, items[r]>>
        BY <2>3
      <3>3. QED BY <2>1, <3>1, <3>2 DEF Outstanding, Admitted
    <2>4. QED BY <2>2, <2>3
  <1>5. QED BY <1>2, <1>4

(* A row is added and an item removed. *)
LEMMA RecordUsesNothing ==
    ASSUME IInv, TypeOK', NEW r \in Requests, Record(r), NEW k \in Keys
    PROVE  Used(k)' <= Used(k)
  <1>1. ItemEnds(r) /\ rows' = [rows EXCEPT ![key[r]] = rows[key[r]] + 1]
    BY DEF Record
  <1>2. /\ <<r, items[r]>> \in Outstanding(key[r])
        /\ Outstanding(k)' \subseteq Outstanding(k) \ {<<r, items[r]>>}
    BY <1>1, ItemEndsShrinks
  <1>3. /\ IsFiniteSet(Outstanding(k)) /\ Cardinality(Outstanding(k)) \in Nat
        /\ Cardinality(Outstanding(k)') \in Nat
    BY OutstandingFinite, OutstandingFinitePrime
  <1>4. /\ IsFiniteSet(Outstanding(k) \ {<<r, items[r]>>})
        /\ Cardinality(Outstanding(k) \ {<<r, items[r]>>}) =
             IF <<r, items[r]>> \in Outstanding(k)
             THEN Cardinality(Outstanding(k)) - 1 ELSE Cardinality(Outstanding(k))
    BY <1>3, FS_RemoveElement
  <1>5. Cardinality(Outstanding(k)') <= Cardinality(Outstanding(k) \ {<<r, items[r]>>})
    BY <1>2, <1>4, FS_Subset
  <1>6. rows[k] \in Nat
    BY DEF IInv, TypeOK
  <1>7. CASE k = key[r]
    <2>1. rows'[k] = rows[k] + 1
      BY <1>1, <1>7 DEF IInv, TypeOK
    <2>2. Cardinality(Outstanding(k)') <= Cardinality(Outstanding(k)) - 1
      BY <1>2, <1>4, <1>5, <1>7
    <2>3. QED BY <1>3, <1>6, <2>1, <2>2 DEF Used
  <1>8. CASE k # key[r]
    <2>1. rows'[k] = rows[k]
      BY <1>1, <1>8 DEF IInv, TypeOK
    <2>2. Cardinality(Outstanding(k)') <= Cardinality(Outstanding(k))
      BY <1>3, <1>4, <1>5
    <2>3. QED BY <1>3, <1>6, <2>1, <2>2 DEF Used
  <1>9. QED BY <1>7, <1>8

(* An item that ends without a row adds neither a row nor an item. *)
LEMMA EndUnrecordedShrinks ==
    ASSUME IInv, NEW r \in Requests, EndUnrecorded(r), NEW k \in Keys
    PROVE  rows'[k] <= rows[k] /\ Outstanding(k)' \subseteq Outstanding(k)
  <1>1. ItemEnds(r) /\ rows' = rows
    BY DEF EndUnrecorded
  <1>2. Outstanding(k)' \subseteq Outstanding(k) \ {<<r, items[r]>>}
    BY <1>1, ItemEndsShrinks
  <1>3. rows[k] \in Nat
    BY DEF IInv, TypeOK
  <1>4. QED BY <1>1, <1>2, <1>3

(* Every other step adds neither a row nor an item. *)
LEMMA OtherStepsShrink ==
    ASSUME IInv,
           \/ \E r \in Requests :
                \/ \E k \in Keys, n \in 1 .. MaxUnits : Begin(r, k, n)
                \/ CheckOverage(r) \/ TryLock(r) \/ LockFails(r) \/ Unlock(r)
                \/ EndUnrecorded(r)
           \/ \E k \in Keys : Expire(k)
           \/ UNCHANGED vars
    PROVE  \A k \in Keys : rows'[k] <= rows[k] /\ Outstanding(k)' \subseteq Outstanding(k)
  <1> SUFFICES ASSUME NEW k \in Keys
               PROVE  rows'[k] <= rows[k] /\ Outstanding(k)' \subseteq Outstanding(k)
    OBVIOUS
  <1>1. ASSUME NEW r \in Requests, EndUnrecorded(r)
        PROVE  rows'[k] <= rows[k] /\ Outstanding(k)' \subseteq Outstanding(k)
    BY <1>1, EndUnrecordedShrinks
  <1> USE DEF IInv, TypeOK, Outstanding, Admitted, Goto
  <1>2. ASSUME NEW r \in Requests, NEW d \in Keys, NEW n \in 1 .. MaxUnits, Begin(r, d, n)
        PROVE  rows'[k] <= rows[k] /\ Outstanding(k)' \subseteq Outstanding(k)
    BY <1>2 DEF Begin
  <1>3. ASSUME NEW r \in Requests, CheckOverage(r) \/ TryLock(r) \/ LockFails(r)
        PROVE  rows'[k] <= rows[k] /\ Outstanding(k)' \subseteq Outstanding(k)
    BY <1>3 DEF CheckOverage, TryLock, LockFails, Refused
  <1>4. ASSUME NEW r \in Requests, Unlock(r)
        PROVE  rows'[k] <= rows[k] /\ Outstanding(k)' \subseteq Outstanding(k)
    BY <1>4 DEF Unlock, Refused
  <1>5. ASSUME NEW d \in Keys, Expire(d)
        PROVE  rows'[k] <= rows[k] /\ Outstanding(k)' \subseteq Outstanding(k)
    BY <1>5 DEF Expire, request
  <1>6. CASE UNCHANGED vars
    BY <1>6 DEF vars, request
  <1>7. QED BY <1>1, <1>2, <1>3, <1>4, <1>5, <1>6

(* No step but a count uses anything. *)
LEMMA OnlyCountUses ==
    ASSUME IInv, TypeOK', [Next]_vars, ~\E r \in Requests : Count(r), NEW k \in Keys
    PROVE  Used(k)' <= Used(k)
  <1>1. ASSUME NEW r \in Requests, Record(r) PROVE Used(k)' <= Used(k)
    BY <1>1, RecordUsesNothing
  <1>2. CASE ~\E r \in Requests : Record(r)
    <2>1. rows'[k] <= rows[k] /\ Outstanding(k)' \subseteq Outstanding(k)
      BY <1>2, OtherStepsShrink DEF Next, Check
    <2>2. QED BY <2>1, ShrinkUsesNothing DEF IInv
  <1>3. QED BY <1>1, <1>2

(* Every step keeps the invariant. *)
LEMMA NextIInv == IInv /\ [Next]_vars => IInv'
  <1> SUFFICES ASSUME IInv, [Next]_vars PROVE IInv'
    OBVIOUS
  <1>1. TypeOK' /\ ActiveOK' /\ LockHeldByChecker'
    BY TypesAndLocks
  <1>2. OvershootBounded'
    <2>1. ASSUME NEW r \in Requests, Count(r) PROVE OvershootBounded'
      BY <1>1, <2>1, CountKeepsBound
    <2>2. CASE ~\E r \in Requests : Count(r)
      BY <1>1, <2>2, OnlyCountUses, UseKeepsBound DEF IInv
    <2>3. QED BY <2>1, <2>2
  <1>3. QED BY <1>1, <1>2 DEF IInv

(* The invariant holds in every reachable state of the limiter. *)
THEOREM Invariance == Spec => []IInv
  BY InitIInv, NextIInv, PTL DEF Spec

-------------------------------------------------------------------------------
(* The variables of the limiter keep their types. *)
THEOREM TypeCorrect == Spec => []TypeOK
  <1>1. IInv => TypeOK
    BY DEF IInv
  <1>2. QED BY <1>1, Invariance, PTL

(* The lock of a key is held exactly by the request that counts its rows:  *)
(* no check leaks it, whatever it ends with.                               *)
THEOREM LocksHeld == Spec => []LockHeldByChecker
  <1>1. IInv => LockHeldByChecker
    BY DEF IInv
  <1>2. QED BY <1>1, Invariance, PTL

(* The rows of a key never exceed its limit by more than the other         *)
(* requests in flight may add.                                             *)
THEOREM OvershootLimited == Spec => []OvershootBounded
  <1>1. IInv => OvershootBounded
    BY DEF IInv
  <1>2. QED BY <1>1, Invariance, PTL

(* With one request in flight at a time, the quota is never exceeded.      *)
THEOREM ExactWhenSequential ==
    Cardinality(Requests) = 1 /\ Spec => []QuotaRespected
  <1>1. ASSUME Cardinality(Requests) = 1 PROVE IInv => QuotaRespected
    <2> SUFFICES ASSUME IInv, NEW k \in Keys PROVE rows[k] <= Limit
      BY DEF QuotaRespected
    <2>1. Slack = 0
      BY <1>1, PostgresRateLimiterAssumption DEF Slack
    <2>2. rows[k] + Cardinality(Outstanding(k)) <= Limit + Slack
      BY DEF IInv, OvershootBounded, Slack
    <2>3. rows[k] \in Nat /\ Cardinality(Outstanding(k)) \in Nat
      BY OutstandingFinite DEF IInv, TypeOK
    <2>4. QED BY <2>1, <2>2, <2>3, PostgresRateLimiterAssumption
  <1>2. ASSUME Cardinality(Requests) = 1 PROVE Spec => []QuotaRespected
    BY <1>1, <1>2, Invariance, PTL
  <1>3. QED BY <1>2

-------------------------------------------------------------------------------
(* The limiter is a quota. *)

(* A count that admits uses the units of its batch, of its own key.        *)
LEMMA AdmissionUses ==
    ASSUME IInv, NEW r \in Requests, Count(r), Goto(r, "admit"),
           NEW k \in Keys, k = key[r], NEW n \in 1 .. MaxUnits, n = items[r]
    PROVE  /\ Used(k)' = Used(k) + n
           /\ \A l \in Keys : l # k => Used(l)' = Used(l)
  <1>1. /\ pc[r] = "count" /\ UNCHANGED <<key, items, lock, rows>>
        /\ \A q \in Requests : pc'[q] = IF q = r THEN "admit" ELSE pc[q]
    BY DEF Count, Goto, IInv, TypeOK
  <1>2. rows[k] \in Nat /\ n \in Nat
    BY PostgresRateLimiterAssumption DEF IInv, TypeOK
  <1> DEFINE Own == {r} \X (1 .. n)
  <1>3. IsFiniteSet(Own) /\ Cardinality(Own) = n
    <2>1. IsFiniteSet({r}) /\ Cardinality({r}) = 1
      BY FS_Singleton
    <2>2. IsFiniteSet(1 .. n) /\ Cardinality(1 .. n) = n
      BY <1>2, UnitsCounted
    <2>3. IsFiniteSet(Own) /\ Cardinality(Own) = Cardinality({r}) * Cardinality(1 .. n)
      BY <2>1, <2>2, FS_Product, Zenon
    <2> HIDE DEF Own
    <2>4. QED BY <1>2, <2>1, <2>2, <2>3
  <1>4. Outstanding(k)' = Outstanding(k) \union Own
    <2>1. Admitted(k)' = Admitted(k) \union {r}
      BY <1>1 DEF Admitted
    <2>2. \A i \in 1 .. MaxUnits : i <= items[r] <=> i \in 1 .. n
      BY <1>2, PostgresRateLimiterAssumption
    <2>3. \A i \in 1 .. n : i \in 1 .. MaxUnits
      BY <1>2, PostgresRateLimiterAssumption
    <2>4. QED BY <1>1, <2>1, <2>2, <2>3 DEF Outstanding
  <1>5. Cardinality(Outstanding(k) \intersect Own) = 0
    <2>1. Outstanding(k) \intersect Own = {}
      BY <1>1 DEF Outstanding, Admitted
    <2>2. QED BY <2>1, FS_EmptySet
  <1>6. Cardinality(Outstanding(k)') = Cardinality(Outstanding(k)) + n
    <2>1. IsFiniteSet(Outstanding(k)) /\ Cardinality(Outstanding(k)) \in Nat
      BY OutstandingFinite
    <2> HIDE DEF Own
    <2>2. Cardinality(Outstanding(k) \union Own) =
            Cardinality(Outstanding(k)) + Cardinality(Own)
              - Cardinality(Outstanding(k) \intersect Own)
      BY <1>3, <2>1, FS_Union
    <2>3. QED BY <1>2, <1>3, <1>4, <1>5, <2>1, <2>2
  <1>7. Used(k)' = Used(k) + n
    BY <1>1, <1>2, <1>6, OutstandingFinite DEF Used
  <1>8. ASSUME NEW l \in Keys, l # k PROVE Used(l)' = Used(l)
    <2>1. Outstanding(l)' = Outstanding(l)
      BY <1>1, <1>8 DEF Outstanding, Admitted
    <2>2. QED BY <1>1, <2>1 DEF Used
  <1>9. QED BY <1>7, <1>8

(* An admission of the limiter is one of the quota; every other step lets  *)
(* what is used expire, or leaves it alone.                                *)
LEMMA StepsOfLooseQuota ==
    ASSUME IInv, [Next]_vars
    PROVE  [Promise!Next]_([k \in Keys |-> rows[k] + Cardinality(Outstanding(k))])
  <1> DEFINE spent == [k \in Keys |-> rows[k] + Cardinality(Outstanding(k))]
             spentNext == [k \in Keys |-> rows'[k] + Cardinality(Outstanding(k)')]
  <1>1. IInv'
    BY NextIInv
  <1>2. spent' = spentNext /\ \A k \in Keys : spent[k] = Used(k) /\ spentNext[k] = Used(k)'
    BY DEF Used
  <1>3. \A k \in Keys : Used(k) \in Nat /\ Used(k)' \in Nat
    BY <1>1, UsedType DEF IInv
  <1> HIDE DEF spentNext
  <1>4. ASSUME \A k \in Keys : Used(k)' <= Used(k) PROVE Promise!Next
    <2>1. spentNext \in [Keys -> Nat] /\ \A k \in Keys : spentNext[k] <= spent[k]
      BY <1>2, <1>3, <1>4 DEF spentNext
    <2>2. Promise!Expire
      BY <1>2, <2>1 DEF Promise!Expire
    <2>3. QED BY <2>2 DEF Promise!Next
  <1>5. ASSUME NEW r \in Requests, Count(r) PROVE Promise!Next
    <2>1. CASE Goto(r, "admit")
      <3>1. PICK k \in Keys, n \in 1 .. MaxUnits : k = key[r] /\ n = items[r]
        BY <1>5 DEF Count, IInv, TypeOK, ActiveOK
      <3>2. /\ Used(k)' = Used(k) + n
            /\ \A l \in Keys : l # k => Used(l)' = Used(l)
        BY <1>5, <2>1, <3>1, AdmissionUses
      <3>3. Used(k)' <= Limit + (Cardinality(Requests) - 1) * MaxUnits
        BY <1>1 DEF IInv, OvershootBounded, Used
      <3>4. spentNext = [spent EXCEPT ![k] = @ + n]
        BY <1>2, <3>2 DEF spentNext
      <3>5. Promise!Admit(k, n)
        BY <1>2, <3>2, <3>3, <3>4 DEF Promise!Admit, Promise!Room
      <3>6. QED BY <3>5 DEF Promise!Next
    <2>2. CASE Goto(r, "refuse")
      <3>1. \A k \in Keys : Outstanding(k)' \subseteq Outstanding(k) /\ rows'[k] <= rows[k]
        BY <1>5, <2>2 DEF Count, Outstanding, Admitted, Goto, IInv, TypeOK
      <3>2. \A k \in Keys : Used(k)' <= Used(k)
        BY <1>1, <3>1, ShrinkUsesNothing DEF IInv
      <3>3. QED BY <1>4, <3>2
    <2>3. QED BY <1>5, <2>1, <2>2 DEF Count
  <1>6. CASE ~\E r \in Requests : Count(r)
    <2>1. \A k \in Keys : Used(k)' <= Used(k)
      BY <1>1, <1>6, OnlyCountUses DEF IInv
    <2>2. QED BY <1>4, <2>1
  <1>7. QED BY <1>5, <1>6

(* The limiter starts as the quota does. *)
LEMMA InitOfLooseQuota == Init => Promise!Init
  <1> SUFFICES ASSUME Init PROVE Promise!Init
    OBVIOUS
  <1>1. ASSUME NEW k \in Keys PROVE rows[k] + Cardinality(Outstanding(k)) = 0
    <2>1. Outstanding(k) = {}
      BY DEF Init, Outstanding, Admitted
    <2>2. rows[k] = 0
      BY DEF Init
    <2>3. QED BY <2>1, <2>2, FS_EmptySet
  <1>2. QED BY <1>1 DEF Promise!Init

(* The limiter is a quota of the limit and the slack of the others that    *)
(* are in flight: with one request at a time, of the limit itself.         *)
THEOREM LimiterIsLooseQuota == Spec => ImplementsLooseQuota
  <1>1. IInv /\ [Next]_vars
          => [Promise!Next]_([k \in Keys |-> rows[k] + Cardinality(Outstanding(k))])
    BY StepsOfLooseQuota
  <1>2. QED BY <1>1, InitOfLooseQuota, Invariance, PTL
         DEF Spec, ImplementsLooseQuota, Promise!Spec

-------------------------------------------------------------------------------
(* The usage around the limiter. *)

UsageTypeOK ==
    /\ today \in Days
    /\ asof \in [Requests -> Days \union {NoDay}]
    /\ missed \subseteq {r \in Requests : pc[r] = "overage" /\ asof[r] # NoDay}
    /\ stamp \in [Requests -> Days \union {NoDay}]
    /\ recorded \in [Keys -> [Days -> Nat]]
    /\ daily \in [Keys -> [Days -> Nat]]
    /\ job \in Days \union {NoDay}

(* Only a paid tier is looked up, and the job's day is over.               *)
DatesOK ==
    /\ \A r \in Requests : asof[r] # NoDay => Billed
    /\ job # NoDay => job < today

UInv == IInv /\ UsageTypeOK /\ DatesOK /\ RollupsTrue

-------------------------------------------------------------------------------
(* Every step is a step of the limiter, or leaves it alone. *)
LEMMA StepsOfLimiter == [UsageNext]_allVars => [Next]_vars
  <1> SUFFICES ASSUME UsageNext PROVE [Next]_vars
    BY DEF allVars
  <1>1. ASSUME NEW r \in Requests, CheckStep(r) PROVE [Next]_vars
    BY <1>1 DEF CheckStep, LookUpRollup, CountRows, SkipOverage, Judge, Next, Check
  <1>2. ASSUME NEW r \in Requests, RunStep(r) PROVE [Next]_vars
    BY <1>2 DEF RunStep, StartInsert, Insert, NotInserted, Next
  <1>3. ASSUME NEW r \in Requests, NEW k \in Keys, NEW n \in 1 .. MaxUnits, BeginCheck(r, k, n)
        PROVE  [Next]_vars
    BY <1>3 DEF BeginCheck, Next
  <1>4. ASSUME Midnight \/ StartJob \/ RunJob PROVE [Next]_vars
    BY <1>4 DEF Midnight, StartJob, RunJob
  <1>5. QED BY <1>1, <1>2, <1>3, <1>4 DEF UsageNext, Next

(* Initially nothing is recorded, and no job runs. *)
LEMMA InitUInv == UsageInit => UInv
  <1> SUFFICES ASSUME UsageInit PROVE UInv
    OBVIOUS
  <1>1. IInv
    BY InitIInv DEF UsageInit
  <1>2. UsageTypeOK /\ DatesOK /\ RollupsTrue
    BY UsageAccountingAssumption
       DEF UsageInit, UsageTypeOK, DatesOK, RollupsTrue, Days, NoDay, NoRow
  <1>3. QED BY <1>1, <1>2 DEF UInv

(* A step that changes neither the days nor what is recorded or rolled up. *)
LEMMA BooksKept ==
    ASSUME UInv, UNCHANGED <<today, stamp, recorded, daily, job>>
    PROVE  RollupsTrue' /\ (job' # NoDay => job' < today')
  BY DEF UInv, RollupsTrue, DatesOK

(* The overage check of a request, up to its verdict. *)
LEMMA JudgeKeeps ==
    ASSUME UInv, NEW r \in Requests, NEW over, Judge(r, over)
    PROVE  UsageTypeOK' /\ DatesOK' /\ RollupsTrue'
  <1>1. /\ asof' = [asof EXCEPT ![r] = NoDay]
        /\ missed' = missed \ {r}
        /\ UNCHANGED <<today, stamp, recorded, daily, job>>
    BY DEF Judge
  <1>2. \A q \in Requests \ {r} : pc'[q] = pc[q]
    BY DEF Judge, CheckOverage, Refused, Goto, UInv, IInv, TypeOK
  <1>3. UsageTypeOK'
    BY <1>1, <1>2 DEF UInv, UsageTypeOK
  <1>4. DatesOK' /\ RollupsTrue'
    BY <1>1, BooksKept DEF UInv, DatesOK, UsageTypeOK
  <1>5. QED BY <1>3, <1>4

(* A step of the limiter beside the usage: only who waits for a check is   *)
(* left as it was.                                                         *)
LEMMA LimiterKeeps ==
    ASSUME UInv, UNCHANGED usage,
           \A q \in Requests : pc[q] = "overage" => pc'[q] = "overage"
    PROVE  UsageTypeOK' /\ DatesOK' /\ RollupsTrue'
  BY DEF UInv, usage, UsageTypeOK, DatesOK, RollupsTrue

(* A row is inserted, or is not. *)
LEMMA RunKeeps ==
    ASSUME UInv, NEW r \in Requests, RunStep(r)
    PROVE  UsageTypeOK' /\ DatesOK' /\ RollupsTrue'
  <1> USE DEF UInv, UsageTypeOK, DatesOK, RollupsTrue
  <1>1. CASE StartInsert(r)
    BY <1>1 DEF StartInsert, vars, request
  <1>2. ASSUME ItemEnds(r)
        PROVE  \A q \in Requests : pc[q] = "overage" => pc'[q] = "overage"
    BY <1>2 DEF ItemEnds, Goto, IInv, TypeOK
  <1>3. CASE Insert(r)
    <2>1. key[r] \in Keys /\ stamp[r] \in Days
      BY <1>3 DEF Insert, Record, ItemEnds, IInv, ActiveOK
    <2>2. /\ recorded' = [recorded EXCEPT ![key[r]][stamp[r]] = recorded[key[r]][stamp[r]] + 1]
          /\ stamp' = [stamp EXCEPT ![r] = NoDay]
          /\ UNCHANGED <<today, asof, missed, daily, job>>
          /\ ItemEnds(r)
      BY <1>3 DEF Insert, Record
    <2>3. /\ recorded' \in [Keys -> [Days -> Nat]]
          /\ \A k \in Keys, d \in Days : recorded[k][d] <= recorded'[k][d]
      BY <2>1, <2>2
    <2>4. UsageTypeOK'
      BY <1>2, <2>2, <2>3
    <2>5. DatesOK'
      BY <2>2
    <2>6. RollupsTrue'
      BY <2>2, <2>3, <2>4
    <2>7. QED BY <2>4, <2>5, <2>6
  <1>4. CASE NotInserted(r)
    BY <1>2, <1>4 DEF NotInserted, EndUnrecorded
  <1>5. QED BY <1>1, <1>3, <1>4 DEF RunStep

(* The day ends; the job begins with the day before; the job ends.         *)
LEMMA JobKeeps ==
    ASSUME UInv, Midnight \/ StartJob \/ RunJob
    PROVE  UsageTypeOK' /\ DatesOK' /\ RollupsTrue'
  <1> USE UsageAccountingAssumption DEF UInv, UsageTypeOK, DatesOK, RollupsTrue, Days, NoDay
  <1>1. CASE Midnight
    BY <1>1 DEF Midnight, vars, request
  <1>2. CASE StartJob
    BY <1>2 DEF StartJob, vars, request
  <1>3. CASE RunJob
    <2>1. /\ job \in Days /\ job < today /\ job' = NoDay
          /\ UNCHANGED <<vars, today, asof, missed, stamp, recorded>>
      BY <1>3 DEF RunJob
    <2>2. \/ daily' = [k \in Keys |-> [daily[k] EXCEPT ![job] = recorded[k][job]]]
          \/ UNCHANGED daily
      BY <1>3 DEF RunJob, RolledUp
    <2>3. UsageTypeOK'
      <3>1. daily' \in [Keys -> [Days -> Nat]]
        <4>1. \A k \in Keys : [daily[k] EXCEPT ![job] = recorded[k][job]] \in [Days -> Nat]
          BY <2>1
        <4>2. CASE daily' = [k \in Keys |-> [daily[k] EXCEPT ![job] = recorded[k][job]]]
          BY <4>1, <4>2
        <4>3. CASE UNCHANGED daily
          BY <4>3
        <4>4. QED BY <2>2, <4>2, <4>3
      <3>2. pc' = pc
        BY <2>1 DEF vars, request
      <3>3. QED BY <2>1, <3>1, <3>2
    <2>4. DatesOK'
      BY <2>1
    <2>5. RollupsTrue'
      <3> SUFFICES ASSUME NEW k \in Keys, NEW d \in Days, daily'[k][d] # NoRow
                   PROVE  d < today /\ daily'[k][d] <= recorded[k][d]
        BY <2>1
      <3>1. CASE daily'[k][d] = daily[k][d]
        BY <3>1
      <3>2. CASE daily'[k][d] # daily[k][d]
        <4>1. d = job /\ daily'[k][d] = recorded[k][d]
          BY <2>1, <2>2, <3>2
        <4>2. QED BY <2>1, <4>1
      <3>3. QED BY <3>1, <3>2
    <2>6. QED BY <2>3, <2>4, <2>5
  <1>4. QED BY <1>1, <1>2, <1>3

(* Every step keeps the invariant. *)
LEMMA NextUInv == UInv /\ [UsageNext]_allVars => UInv'
  <1> SUFFICES ASSUME UInv, [UsageNext]_allVars PROVE UInv'
    OBVIOUS
  <1>1. IInv'
    BY StepsOfLimiter, NextIInv DEF UInv
  <1>2. ASSUME NEW r \in Requests, NEW k \in Keys, NEW n \in 1 .. MaxUnits, BeginCheck(r, k, n)
        PROVE  UsageTypeOK' /\ DatesOK' /\ RollupsTrue'
    <2>1. /\ asof' = [asof EXCEPT ![r] = IF Billed THEN today ELSE NoDay]
          /\ UNCHANGED <<today, missed, stamp, recorded, daily, job>>
          /\ pc[r] = "idle" /\ \A q \in Requests \ {r} : pc'[q] = pc[q]
      BY <1>2 DEF BeginCheck, Begin, Goto, UInv, IInv, TypeOK
    <2>2. UsageTypeOK'
      BY <2>1 DEF UInv, UsageTypeOK
    <2>3. DatesOK' /\ RollupsTrue'
      BY <2>1, BooksKept DEF UInv, DatesOK, UsageTypeOK
    <2>4. QED BY <2>2, <2>3
  <1>3. ASSUME NEW r \in Requests, CheckStep(r)
        PROVE  UsageTypeOK' /\ DatesOK' /\ RollupsTrue'
    <2>1. CASE CountRows(r) \/ SkipOverage(r)
      BY <2>1, JudgeKeeps DEF CountRows, SkipOverage
    <2>2. CASE LookUpRollup(r)
      <3>1. CASE daily[key[r]][asof[r]] # NoRow
        BY <2>2, <3>1, JudgeKeeps DEF LookUpRollup
      <3>2. CASE daily[key[r]][asof[r]] = NoRow
        BY <2>2, <3>2 DEF LookUpRollup, UInv, UsageTypeOK, DatesOK, RollupsTrue, vars, request
      <3>3. QED BY <3>1, <3>2
    <2>3. CASE (TryLock(r) \/ Count(r) \/ Unlock(r)) /\ UNCHANGED usage
      <3>1. \A q \in Requests : pc[q] = "overage" => pc'[q] = "overage"
        BY <2>3 DEF TryLock, Count, Unlock, Refused, Goto, UInv, IInv, TypeOK
      <3>2. QED BY <2>3, <3>1, LimiterKeeps
    <2>4. QED BY <1>3, <2>1, <2>2, <2>3 DEF CheckStep
  <1>4. ASSUME NEW r \in Requests, LockFails(r), UNCHANGED usage
        PROVE  UsageTypeOK' /\ DatesOK' /\ RollupsTrue'
    <2>1. \A q \in Requests : pc[q] = "overage" => pc'[q] = "overage"
      BY <1>4 DEF LockFails, Refused, Goto, UInv, IInv, TypeOK
    <2>2. QED BY <1>4, <2>1, LimiterKeeps
  <1>5. ASSUME NEW k \in Keys, Expire(k), UNCHANGED usage
        PROVE  UsageTypeOK' /\ DatesOK' /\ RollupsTrue'
    BY <1>5, LimiterKeeps DEF Expire, request
  <1>6. ASSUME UNCHANGED allVars
        PROVE  UsageTypeOK' /\ DatesOK' /\ RollupsTrue'
    <2>1. UNCHANGED usage /\ pc' = pc
      BY <1>6 DEF allVars, vars, request
    <2>2. \A q \in Requests : pc[q] = "overage" => pc'[q] = "overage"
      BY <2>1
    <2>3. QED BY <2>1, <2>2, LimiterKeeps
  <1>7. UsageTypeOK' /\ DatesOK' /\ RollupsTrue'
    <2>1. ASSUME NEW r \in Requests, RunStep(r)
          PROVE  UsageTypeOK' /\ DatesOK' /\ RollupsTrue'
      BY <2>1, RunKeeps
    <2>2. ASSUME Midnight \/ StartJob \/ RunJob
          PROVE  UsageTypeOK' /\ DatesOK' /\ RollupsTrue'
      BY <2>2, JobKeeps
    <2>3. CASE UsageNext
      BY <1>2, <1>3, <1>4, <1>5, <2>1, <2>2, <2>3 DEF UsageNext
    <2>4. QED BY <1>6, <2>3 DEF allVars
  <1>8. QED BY <1>1, <1>7 DEF UInv

(* The invariant holds in every reachable state. *)
THEOREM UsageInvariance == UsageSpec => []UInv
  BY InitUInv, NextUInv, PTL DEF UsageSpec

-------------------------------------------------------------------------------
(* A rollup counts rows that are there, of a day that is over, none twice. *)
THEOREM RollupsCorrect == UsageSpec => []RollupsTrue
  <1>1. UInv => RollupsTrue
    BY DEF UInv
  <1>2. QED BY <1>1, UsageInvariance, PTL

(* The composition implements the limiter: usage and rollup only watch or  *)
(* choose among its steps.                                                 *)
THEOREM ImplementsLimiter == UsageSpec => Init /\ [][Next]_vars
  BY StepsOfLimiter, PTL DEF UsageSpec, UsageInit

(* So it keeps the limiter's bound on what a key may scrape. *)
THEOREM OvershootLimitedWithUsage == UsageSpec => []OvershootBounded
  <1>1. UInv => OvershootBounded
    BY DEF UInv, IInv
  <1>2. QED BY <1>1, UsageInvariance, PTL

(* The request whose check of the overage ends is the one that judges.     *)
LEMMA RefusedByOwnCheck ==
    ASSUME UInv, UsageNext, NEW r \in Requests, pc[r] = "overage", pc'[r] = "idle"
    PROVE  LookUpRollup(r) \/ CountRows(r) \/ SkipOverage(r)
  <1> USE DEF UInv, IInv, TypeOK, Goto, Refused
  <1>1. ASSUME NEW q \in Requests, CheckStep(q)
        PROVE  LookUpRollup(r) \/ CountRows(r) \/ SkipOverage(r)
    <2>1. CASE q = r
      BY <1>1, <2>1 DEF CheckStep, TryLock, Count, Unlock
    <2>2. CASE q # r
      <3>1. pc'[r] = pc[r]
        BY <1>1, <2>2 DEF CheckStep, LookUpRollup, CountRows, SkipOverage, Judge,
                          CheckOverage, TryLock, Count, Unlock, vars, request
      <3>2. QED BY <3>1
    <2>3. QED BY <2>1, <2>2
  <1>2. ASSUME NEW q \in Requests, RunStep(q) PROVE FALSE
    BY <1>2 DEF RunStep, StartInsert, Insert, NotInserted, Record, EndUnrecorded, ItemEnds,
                vars, request
  <1>3. ASSUME NEW q \in Requests, LockFails(q) PROVE FALSE
    BY <1>3 DEF LockFails
  <1>4. ASSUME NEW q \in Requests, NEW k \in Keys, NEW n \in 1 .. MaxUnits, BeginCheck(q, k, n)
        PROVE  FALSE
    BY <1>4 DEF BeginCheck, Begin
  <1>5. ASSUME (\E k \in Keys : Expire(k)) \/ Midnight \/ StartJob \/ RunJob PROVE FALSE
    BY <1>5 DEF Expire, Midnight, StartJob, RunJob, vars, request
  <1>6. QED BY <1>1, <1>2, <1>3, <1>4, <1>5 DEF UsageNext

(* A request is refused for overage only when its key is over: a rollup    *)
(* may be behind the rows of its day, never ahead of them.                 *)
THEOREM OverageJust == UsageSpec => OverageIsDue
  <1> DEFINE Due == \A r \in Requests : pc[r] = "overage" /\ pc'[r] = "idle" =>
                      Billed /\ recorded[key[r]][asof[r]] > Allowance
  <1>1. UInv /\ [UsageNext]_allVars => [Due]_allVars
    <2> SUFFICES ASSUME UInv, UsageNext,
                        NEW r \in Requests, pc[r] = "overage", pc'[r] = "idle"
                 PROVE  Billed /\ recorded[key[r]][asof[r]] > Allowance
      OBVIOUS
    <2>1. LookUpRollup(r) \/ CountRows(r)
      BY RefusedByOwnCheck DEF SkipOverage, Judge
    <2>2. key[r] \in Keys /\ asof[r] \in Days /\ Billed
      BY <2>1 DEF LookUpRollup, CountRows, UInv, UsageTypeOK, DatesOK, IInv, ActiveOK
    <2>3. CASE CountRows(r)
      BY <2>2, <2>3 DEF CountRows, Judge, LiveTotal
    <2>4. CASE LookUpRollup(r)
      <3>1. daily[key[r]][asof[r]] # NoRow /\ daily[key[r]][asof[r]] > Allowance
        BY <2>4 DEF LookUpRollup, Judge, vars, request
      <3>2. daily[key[r]][asof[r]] <= recorded[key[r]][asof[r]]
        BY <2>2, <3>1 DEF UInv, RollupsTrue
      <3>3. /\ daily[key[r]][asof[r]] \in Nat
            /\ recorded[key[r]][asof[r]] \in Nat
        BY <2>2 DEF UInv, UsageTypeOK
      <3>4. QED BY <2>2, <3>1, <3>2, <3>3, UsageAccountingAssumption
    <2>5. QED BY <2>1, <2>3, <2>4
  <1>2. QED BY <1>1, UsageInvariance, PTL DEF UsageSpec, OverageIsDue

(* The composition is such a quota too: nothing the usage rows, midnight   *)
(* and the rollup do lets a key use more than it is granted.               *)
THEOREM LooseQuotaWithUsage == UsageSpec => ImplementsLooseQuota
  <1>1. IInv /\ [Next]_vars
          => [Promise!Next]_([k \in Keys |-> rows[k] + Cardinality(Outstanding(k))])
    BY StepsOfLooseQuota
  <1>2. UInv => IInv
    BY DEF UInv
  <1>3. UsageInit => Promise!Init
    BY InitOfLooseQuota DEF UsageInit
  <1>4. QED BY <1>1, <1>2, <1>3, StepsOfLimiter, UsageInvariance, PTL
         DEF UsageSpec, ImplementsLooseQuota, Promise!Spec
-------------------------------------------------------------------------------
(* How many steps a check takes from where it is, at most. *)
StepsLeft ==
    [idle |-> 0, run |-> 0, refuse |-> 1, admit |-> 1, count |-> 2, relock |-> 3, lock |-> 4,
     overage |-> 5]
Left(r) == StepsLeft[pc[r]] + IF pc[r] = "overage" /\ r \notin missed THEN 1 ELSE 0

(* A step of a check brings it nearer to its answer, and no step of        *)
(* another request, of the rollup job or of the clock takes it back.       *)
Advances ==
    \A r \in Requests :
        /\ CheckStep(r) => Left(r)' < Left(r)
        /\ pc[r] \notin {"idle", "run"} => Left(r)' <= Left(r)

(* So a check is answered after at most six steps of its own, although it  *)
(* tries for a lock that others hold: it tries twice and is refused.  This *)
(* is the safety half of CheckAnswers; that every such step can be taken   *)
(* shows in its guard, which asks for the request's place alone.           *)
THEOREM ChecksAdvance == UsageSpec => [][Advances]_allVars
  <1>1. UInv /\ [UsageNext]_allVars => [Advances]_allVars
    <2> SUFFICES ASSUME UInv, UsageNext PROVE Advances
      OBVIOUS
    <2> USE DEF Left, StepsLeft, Goto, Refused
    <2>0. /\ pc \in [Requests -> Steps] /\ missed \subseteq Requests
          /\ \A q \in missed : pc[q] = "overage"
      BY DEF UInv, IInv, TypeOK, UsageTypeOK, DatesOK
    <2>1. ASSUME NEW r \in Requests, CheckStep(r)
          PROVE  Left(r)' < Left(r) /\ Left(r)' <= Left(r)
      <3>1. CASE LookUpRollup(r) \/ CountRows(r) \/ SkipOverage(r)
        BY <2>0, <3>1 DEF LookUpRollup, CountRows, SkipOverage, Judge, CheckOverage, Steps, vars, request
      <3>2. CASE (TryLock(r) \/ Count(r) \/ Unlock(r)) /\ UNCHANGED usage
        BY <2>0, <3>2 DEF TryLock, Count, Unlock, usage, Steps
      <3>3. QED BY <2>1, <3>1, <3>2 DEF CheckStep
    <2>2. ASSUME NEW r \in Requests, pc[r] \notin {"idle", "run"}, ~CheckStep(r)
          PROVE  Left(r)' <= Left(r)
      <3>1. CASE LockFails(r) /\ UNCHANGED usage
        BY <2>0, <3>1 DEF LockFails, usage, Steps
      <3>2. CASE pc'[r] = pc[r] /\ (r \in missed' <=> r \in missed)
        BY <2>0, <3>2 DEF Steps
      <3>3. ASSUME NEW q \in Requests, q # r, CheckStep(q) \/ (LockFails(q) /\ UNCHANGED usage)
            PROVE  pc'[r] = pc[r] /\ (r \in missed' <=> r \in missed)
        BY <2>0, <3>3 DEF CheckStep, LookUpRollup, CountRows, SkipOverage, Judge, CheckOverage,
                          TryLock, Count, Unlock, LockFails, usage, vars, request
      <3>4. ASSUME NEW q \in Requests,
                   \/ \E k \in Keys, n \in 1 .. MaxUnits : BeginCheck(q, k, n)
                   \/ RunStep(q)
            PROVE  pc'[r] = pc[r] /\ (r \in missed' <=> r \in missed)
        BY <2>0, <2>2, <3>4 DEF BeginCheck, Begin, RunStep, StartInsert, Insert, NotInserted, Record,
                          EndUnrecorded, ItemEnds, vars, request
      <3>5. ASSUME (\E k \in Keys : Expire(k) /\ UNCHANGED usage) \/ Midnight \/ StartJob \/ RunJob
            PROVE  pc'[r] = pc[r] /\ (r \in missed' <=> r \in missed)
        BY <3>5 DEF Expire, Midnight, StartJob, RunJob, usage, vars, request
      <3>6. QED BY <2>2, <3>1, <3>2, <3>3, <3>4, <3>5 DEF UsageNext
    <2>3. QED BY <2>1, <2>2 DEF Advances
  <1>2. QED BY <1>1, UsageInvariance, PTL DEF UsageSpec
===============================================================================
