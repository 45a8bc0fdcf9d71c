---------------------------- MODULE BulkScrapeProofs ----------------------------
(***************************************************************************)
(* The in-memory limiter and the two scrape routes over it, for any number *)
(* of keys, tiers and calls, any limits and windows, and batches of any    *)
(* size.                                                                   *)
(*                                                                         *)
(* The limiter rests on one fact: the ages of a window are in order, the   *)
(* oldest first, so that pruning, which stops at the first entry it keeps, *)
(* leaves exactly what is live.  The routes rest on the limiter's steps    *)
(* being theirs, and on the balance of the slots of a call.                *)
(***************************************************************************)
EXTENDS BulkScrape, FiniteSetTheorems, SequenceTheorems, WellFoundedInduction, TLAPS

-------------------------------------------------------------------------------
(* Sets of natural numbers and windows. *)

(* A set of natural numbers that is not empty has a least element: Min. *)
LEMMA LeastElement ==
    ASSUME NEW S \in SUBSET Nat, S # {}
    PROVE  Min(S) \in S /\ \A x \in S : Min(S) <= x
  <1> DEFINE Less == {p \in Nat \X Nat : p[1] < p[2]}
  <1>1. IsWellFoundedOn(Less, Nat)
    <2>1. Less = OpToRel(<, Nat)
      BY Zenon DEF OpToRel
    <2>2. QED BY <2>1, NatLessThanWellFounded, Zenon
  <1>2. PICK m \in S : \A y \in S : ~(<<y, m>> \in Less)
    <2> HIDE DEF Less
    <2> QED BY <1>1, WFMin
  <1>3. \A y \in S : m <= y
    <2> SUFFICES ASSUME NEW y \in S PROVE m <= y
      OBVIOUS
    <2>1. ~(y < m)
      BY <1>2
    <2>2. QED BY <2>1
  <1>4. QED BY <1>3 DEF Min

(* An interval from 1 has its end as its size. *)
LEMMA CountTo ==
    ASSUME NEW m \in Int, NEW n \in Int, m <= n + 1
    PROVE  IsFiniteSet(m .. n) /\ Cardinality(m .. n) = n - m + 1
  <1>1. /\ IsFiniteSet(m .. n)
        /\ Cardinality(m .. n) = IF m > n THEN 0 ELSE n - m + 1
    BY FS_Interval
  <1>2. QED BY <1>1

Sorted(s) == \A i, j \in DOMAIN s : i <= j => s[j] <= s[i]

Fresh(k, s) == \A i \in DOMAIN s : ~Stale(k, s[i])

(* What is live in a window is a finite number of its entries. *)
LEMMA LiveType ==
    ASSUME NEW k, NEW s \in Seq(Nat)
    PROVE  /\ IsFiniteSet({i \in DOMAIN s : ~Stale(k, s[i])})
           /\ Live(k, s) \in Nat /\ Live(k, s) <= Len(s)
  <1> DEFINE L == {i \in DOMAIN s : ~Stale(k, s[i])}
  <1>1. L \subseteq 1 .. Len(s) /\ Len(s) \in Nat
    OBVIOUS
  <1>2. IsFiniteSet(1 .. Len(s)) /\ Cardinality(1 .. Len(s)) = Len(s)
    <2>1. \A n \in Nat : IsFiniteSet(1 .. n) /\ Cardinality(1 .. n) = n
      BY CountTo
    <2>2. QED BY <1>1, <2>1
  <1>3. IsFiniteSet(L) /\ Cardinality(L) <= Len(s)
    <2> HIDE DEF L
    <2> QED BY <1>1, <1>2, FS_Subset
  <1>4. QED BY <1>3, FS_CardinalityType DEF Live

(* Every entry of a fresh window is live. *)
LEMMA LiveOfFresh ==
    ASSUME NEW k, NEW s \in Seq(Nat), Fresh(k, s)
    PROVE  Live(k, s) = Len(s)
  <1>1. {i \in DOMAIN s : ~Stale(k, s[i])} = 1 .. Len(s) /\ Len(s) \in Nat
    BY DEF Fresh
  <1>2. \A n \in Nat : Cardinality(1 .. n) = n
    BY CountTo
  <1>3. QED BY <1>1, <1>2 DEF Live

(* Pruning keeps what is live, in its order, and nothing else. *)
LEMMA PruneKeepsLive ==
    ASSUME NEW k \in Keys, NEW s \in Seq(Nat), Sorted(s)
    PROVE  /\ Prune(k, s) \in Seq(Nat)
           /\ Sorted(Prune(k, s)) /\ Fresh(k, Prune(k, s))
           /\ Len(Prune(k, s)) = Live(k, s)
           /\ Live(k, Prune(k, s)) = Live(k, s)
  <1> DEFINE kept == {i \in DOMAIN s : ~Stale(k, s[i])}
  <1>0. Windows[k] \in Nat
    BY SlidingWindowAssumption
  <1>1. CASE kept = {}
    <2>1. Prune(k, s) = <<>>
      BY <1>1 DEF Prune
    <2>2. Live(k, s) = 0 /\ Live(k, <<>>) = 0
      <3>1. {i \in DOMAIN <<>> : ~Stale(k, <<>>[i])} = {}
        OBVIOUS
      <3>2. QED BY <1>1, <3>1, FS_EmptySet DEF Live
    <2>3. QED BY <2>1, <2>2 DEF Sorted, Fresh
  <1>2. CASE kept # {}
    <2> DEFINE m == Min(kept)
               p == SubSeq(s, m, Len(s))
    <2>1. m \in kept /\ \A i \in kept : m <= i
      <3>1. kept \in SUBSET Nat
        OBVIOUS
      <3> HIDE DEF kept
      <3>2. QED BY <1>2, <3>1, LeastElement
    <2>2. m \in 1 .. Len(s) /\ Len(s) \in Nat /\ ~Stale(k, s[m])
      BY <2>1
    <2>3. \A i \in m .. Len(s) : i \in DOMAIN s /\ ~Stale(k, s[i])
      BY <1>0, <2>2 DEF Sorted, Stale
    <2>4. kept = m .. Len(s)
      <3>1. kept \subseteq m .. Len(s)
        BY <2>1
      <3>2. m .. Len(s) \subseteq kept
        BY <2>3
      <3>3. QED BY <3>1, <3>2
    <2>5. Prune(k, s) = p
      BY <1>2 DEF Prune
    <2> HIDE DEF m, kept
    <2>6. /\ p \in Seq(Nat)
          /\ Len(p) = Len(s) - m + 1
          /\ \A i \in 1 .. Len(s) - m + 1 : p[i] = s[m + i - 1]
      BY <2>2, <2>3, SubSeqProperties
    <2>7. Len(p) = Live(k, s)
      <3>1. Cardinality(m .. Len(s)) = Len(s) - m + 1
        BY <2>2, CountTo
      <3>2. QED BY <2>4, <2>6, <3>1 DEF Live, kept
    <2> HIDE DEF p
    <2>8. \A i \in DOMAIN p : /\ m + i - 1 \in DOMAIN s /\ m + i - 1 \in m .. Len(s)
                              /\ p[i] = s[m + i - 1]
      <3>1. DOMAIN p = 1 .. Len(s) - m + 1
        BY <2>2, <2>6
      <3>2. \A i \in 1 .. Len(s) - m + 1 : m + i - 1 \in 1 .. Len(s) /\ m + i - 1 \in m .. Len(s)
        BY <2>2
      <3>3. QED BY <2>6, <3>1, <3>2
    <2>9. Sorted(p) /\ Fresh(k, p)
      <3>1. \A i, j \in DOMAIN p : i <= j => m + i - 1 <= m + j - 1
        BY <2>2, <2>6
      <3>2. QED BY <2>3, <2>8, <3>1 DEF Sorted, Fresh
    <2>10. QED BY <2>5, <2>6, <2>7, <2>8, <2>9, LiveOfFresh
  <1>3. QED BY <1>1, <1>2

(* The entries of a batch that is admitted now join what is live. *)
LEMMA AddEntries ==
    ASSUME NEW k \in Keys, NEW s \in Seq(Nat), Sorted(s), Fresh(k, s), NEW n \in Nat
    PROVE  /\ s \o Entries(n) \in Seq(Nat)
           /\ Sorted(s \o Entries(n))
           /\ Live(k, s \o Entries(n)) = Len(s) + n
  <1> DEFINE t == s \o Entries(n)
  <1>1. Entries(n) \in Seq(Nat) /\ Len(Entries(n)) = n /\ \A i \in 1 .. n : Entries(n)[i] = 0
    BY DEF Entries
  <1>2. /\ t \in Seq(Nat) /\ Len(t) = Len(s) + n
        /\ \A i \in 1 .. Len(s) + n : t[i] = IF i <= Len(s) THEN s[i] ELSE 0
    <2> HIDE DEF t
    <2>1. /\ s \o Entries(n) \in Seq(Nat)
          /\ Len(s \o Entries(n)) = Len(s) + n
          /\ \A i \in 1 .. Len(s) + n : (s \o Entries(n))[i] =
               IF i <= Len(s) THEN s[i] ELSE Entries(n)[i - Len(s)]
      BY <1>1, ConcatProperties
    <2>2. \A i \in 1 .. Len(s) + n : i > Len(s) => i - Len(s) \in 1 .. n
      OBVIOUS
    <2>3. QED BY <1>1, <2>1, <2>2 DEF t
  <1> HIDE DEF t
  <1>3. Sorted(t)
    <2> SUFFICES ASSUME NEW i \in DOMAIN t, NEW j \in DOMAIN t, i <= j PROVE t[j] <= t[i]
      BY DEF Sorted
    <2>1. i \in 1 .. Len(s) + n /\ j \in 1 .. Len(s) + n
      BY <1>2
    <2>2. \A l \in DOMAIN s : s[l] \in Nat
      OBVIOUS
    <2>3. CASE j <= Len(s)
      <3>1. i \in DOMAIN s /\ j \in DOMAIN s
        BY <2>1, <2>3
      <3>2. s[j] <= s[i]
        BY <3>1 DEF Sorted
      <3>3. i <= Len(s) /\ t[i] = s[i] /\ t[j] = s[j]
        BY <1>2, <2>1, <2>3
      <3>4. QED BY <3>2, <3>3
    <2>4. CASE j > Len(s)
      BY <1>2, <2>1, <2>2, <2>4
    <2>5. QED BY <2>1, <2>3, <2>4
  <1>4. Fresh(k, t)
    <2>1. ~Stale(k, 0)
      BY SlidingWindowAssumption DEF Stale
    <2>2. \A i \in 1 .. Len(s) : ~Stale(k, s[i])
      BY DEF Fresh
    <2>3. QED BY <1>2, <2>1, <2>2 DEF Fresh
  <1>5. QED BY <1>2, <1>3, <1>4, LiveOfFresh DEF t

(* Time only takes entries out of the window. *)
LEMMA OlderKeeps ==
    ASSUME NEW k \in Keys, NEW s \in Seq(Nat), Sorted(s)
    PROVE  /\ Older(k, s) \in Seq(Nat) /\ Sorted(Older(k, s))
           /\ Live(k, Older(k, s)) <= Live(k, s)
  <1> DEFINE t == Older(k, s)
  <1>0. Windows[k] \in Nat
    BY SlidingWindowAssumption
  <1>1. /\ t \in Seq(Nat) /\ DOMAIN t = DOMAIN s
        /\ \A i \in DOMAIN s : t[i] = IF Stale(k, s[i]) THEN s[i] ELSE s[i] + 1
    BY DEF Older
  <1> HIDE DEF t
  <1>2. Sorted(t)
    BY <1>0, <1>1 DEF Sorted, Stale
  <1>3. {i \in DOMAIN t : ~Stale(k, t[i])} \subseteq {i \in DOMAIN s : ~Stale(k, s[i])}
    BY <1>0, <1>1 DEF Stale
  <1>4. Live(k, t) <= Live(k, s)
    <2>1. IsFiniteSet({i \in DOMAIN s : ~Stale(k, s[i])})
      BY LiveType
    <2>2. QED BY <1>3, <2>1, FS_Subset DEF Live
  <1>5. QED BY <1>1, <1>2, <1>4 DEF t

-------------------------------------------------------------------------------
(* The limiter. *)

LimiterInv ==
    /\ TypeOK
    /\ \A k \in Keys : Sorted(windows[k])
    /\ \A k \in Metered : Live(k, windows[k]) <= Limits[k]

Aged(k, s) == \A i \in DOMAIN s : s[i] <= Windows[k] + 1

(* No window and no batch changes an age but time. *)
LEMMA AgesKept ==
    ASSUME NEW k \in Keys, NEW s \in Seq(Nat), Sorted(s), Aged(k, s), NEW n \in Nat
    PROVE  /\ Aged(k, Prune(k, s))
           /\ Aged(k, Prune(k, s) \o Entries(n))
           /\ Aged(k, Older(k, s))
  <1>0. Windows[k] \in Nat
    BY SlidingWindowAssumption
  <1>1. Prune(k, s) \in Seq(Nat) /\ Fresh(k, Prune(k, s))
    BY PruneKeepsLive
  <1>2. Aged(k, Prune(k, s))
    BY <1>0, <1>1 DEF Aged, Fresh, Stale
  <1>3. Aged(k, Prune(k, s) \o Entries(n))
    <2>1. Entries(n) \in Seq(Nat) /\ DOMAIN Entries(n) = 1 .. n
          /\ \A i \in 1 .. n : Entries(n)[i] = 0
      BY DEF Entries
    <2>2. QED BY <1>0, <1>1, <1>2, <2>1, ConcatProperties DEF Aged
  <1>4. Aged(k, Older(k, s))
    BY <1>0 DEF Aged, Older, Stale
  <1>5. QED BY <1>2, <1>3, <1>4

(* What a check does to the window of its key, and what it answers.        *)
LEMMA CheckEffect ==
    ASSUME LimiterInv, NEW k \in Keys, NEW count \in Nat, Check(k, count)
    PROVE  /\ LimiterInv'
           /\ \A l \in Keys : l # k => windows'[l] = windows[l]
           /\ answer'.key = k /\ answer'.units = Units(count) /\ Units(count) \in Nat \ {0}
           /\ k \notin Metered => answer'.allowed /\ windows' = windows
           /\ k \in Metered =>
                /\ answer'.remaining = Limits[k] - Live(k, windows'[k])
                /\ IF answer'.allowed
                   THEN Live(k, windows'[k]) = Live(k, windows[k]) + Units(count)
                   ELSE /\ Live(k, windows'[k]) = Live(k, windows[k])
                        /\ Live(k, windows[k]) + Units(count) > Limits[k]
  <1> DEFINE n == Units(count)
             s == windows[k]
             fresh == Prune(k, s)
  <1>1. n \in Nat \ {0}
    BY DEF Units
  <1>2. s \in Seq(Nat) /\ Sorted(s) /\ Aged(k, s)
    BY DEF LimiterInv, TypeOK, Aged
  <1>3. /\ fresh \in Seq(Nat) /\ Sorted(fresh) /\ Fresh(k, fresh)
        /\ Len(fresh) = Live(k, s) /\ Live(k, fresh) = Live(k, s)
    BY <1>2, PruneKeepsLive
  <1>4. Live(k, s) \in Nat /\ Len(fresh) \in Nat
    BY <1>2, <1>3, LiveType
  <1>5. /\ fresh \o Entries(n) \in Seq(Nat) /\ Sorted(fresh \o Entries(n))
        /\ Live(k, fresh \o Entries(n)) = Live(k, s) + n
    BY <1>1, <1>3, AddEntries
  <1>6. Aged(k, fresh) /\ Aged(k, fresh \o Entries(n))
    BY <1>1, <1>2, AgesKept
  <1>7. k \in Metered => Limits[k] \in Nat /\ Live(k, s) <= Limits[k]
    BY SlidingWindowAssumption DEF Metered, LimiterInv
  <1>8. windows \in [Keys -> Seq(Nat)] /\ \A l \in Keys : Aged(l, windows[l])
    BY DEF LimiterInv, TypeOK, Aged
  <1> HIDE DEF n, fresh
  <1>9. CASE Limits[k] = Unlimited
    <2>1. /\ answer' = [key |-> k, units |-> n, allowed |-> TRUE, remaining |-> Unlimited]
          /\ windows' = windows /\ k \notin Metered
      BY <1>9 DEF Check, n, Metered
    <2>2. TypeOK'
      BY <2>1 DEF LimiterInv, TypeOK, NoAnswer
    <2>3. QED BY <1>1, <2>1, <2>2 DEF LimiterInv, n
  <1>10. CASE Limits[k] # Unlimited
    <2>1. k \in Metered
      BY <1>10 DEF Metered
    <2>2. PICK t \in {fresh, fresh \o Entries(n)}, allowed \in BOOLEAN, left \in Int :
            /\ windows' = [windows EXCEPT ![k] = t]
            /\ answer' = [key |-> k, units |-> n, allowed |-> allowed, remaining |-> left]
            /\ left = Limits[k] - Live(k, t) /\ Live(k, t) <= Limits[k]
            /\ IF allowed THEN Live(k, t) = Live(k, s) + n
               ELSE Live(k, t) = Live(k, s) /\ Live(k, s) + n > Limits[k]
      <3>1. CASE Denied(k, fresh, n)
        <4>1. /\ windows' = [windows EXCEPT ![k] = fresh]
              /\ answer' = [key |-> k, units |-> n, allowed |-> FALSE,
                            remaining |-> IF Limits[k] - Len(fresh) > 0
                                          THEN Limits[k] - Len(fresh) ELSE 0]
          BY <1>10, <3>1 DEF Check, n, fresh
        <4>2. Live(k, s) + n > Limits[k]
          BY <1>1, <1>3, <1>4, <1>7, <2>1, <3>1 DEF Denied
        <4>3. (IF Limits[k] - Len(fresh) > 0 THEN Limits[k] - Len(fresh) ELSE 0)
                = Limits[k] - Live(k, fresh)
          BY <1>3, <1>4, <1>7, <2>1
        <4>4. Limits[k] - Live(k, fresh) \in Int
          BY <1>3, <1>4, <1>7, <2>1
        <4>5. QED BY <1>3, <1>7, <2>1, <4>1, <4>2, <4>3, <4>4
      <3>2. CASE ~Denied(k, fresh, n)
        <4>1. /\ windows' = [windows EXCEPT ![k] = fresh \o Entries(n)]
              /\ answer' = [key |-> k, units |-> n, allowed |-> TRUE,
                            remaining |-> Limits[k] - Len(fresh) - n]
          BY <1>10, <3>2 DEF Check, n, fresh
        <4>2. Live(k, s) + n <= Limits[k]
          BY <1>1, <1>3, <1>4, <1>7, <2>1, <3>2 DEF Denied
        <4>3. /\ Limits[k] - Len(fresh) - n = Limits[k] - Live(k, fresh \o Entries(n))
              /\ Limits[k] - Len(fresh) - n \in Int
          BY <1>1, <1>3, <1>4, <1>5, <1>7, <2>1
        <4>4. QED BY <1>5, <4>1, <4>2, <4>3
      <3>3. QED BY <3>1, <3>2
    <2>3. t \in Seq(Nat) /\ Sorted(t) /\ Aged(k, t) /\ Live(k, t) \in Nat
      BY <1>3, <1>5, <1>6, LiveType
    <2>4. windows'[k] = t /\ \A l \in Keys : l # k => windows'[l] = windows[l]
      BY <1>8, <2>2
    <2>5. TypeOK'
      <3>1. windows' \in [Keys -> Seq(Nat)]
        BY <1>8, <2>2, <2>3
      <3>2. \A l \in Keys : Aged(l, windows'[l])
        BY <1>8, <2>3, <2>4
      <3>3. left \in Nat
        BY <1>7, <2>1, <2>2, <2>3
      <3>4. QED BY <2>2, <3>1, <3>2, <3>3 DEF TypeOK, Aged
    <2>6. LimiterInv'
      BY <1>7, <2>2, <2>3, <2>4, <2>5 DEF LimiterInv
    <2>7. QED BY <1>1, <2>1, <2>2, <2>4, <2>6 DEF n
  <1>11. QED BY <1>9, <1>10

(* What time does to the windows. *)
LEMMA TickEffect ==
    ASSUME LimiterInv, Tick
    PROVE  /\ LimiterInv'
           /\ \A k \in Keys : Live(k, windows'[k]) <= Live(k, windows[k])
  <1>1. /\ windows \in [Keys -> Seq(Nat)] /\ \A k \in Keys : Aged(k, windows[k])
        /\ \A k \in Keys : Sorted(windows[k])
    BY DEF LimiterInv, TypeOK, Aged
  <1>2. answer' = answer /\ \A k \in Keys : windows'[k] = Older(k, windows[k])
    BY DEF Tick
  <1>3. \A k \in Keys : /\ Older(k, windows[k]) \in Seq(Nat)
                        /\ Sorted(Older(k, windows[k]))
                        /\ Live(k, Older(k, windows[k])) <= Live(k, windows[k])
    BY <1>1, OlderKeeps
  <1>4. \A k \in Keys : Aged(k, Older(k, windows[k]))
    BY <1>1, AgesKept
  <1>5. TypeOK'
    <2>1. windows' \in [Keys -> Seq(Nat)]
      BY <1>3 DEF Tick
    <2>2. \A k \in Keys : Aged(k, windows'[k])
      BY <1>2, <1>4
    <2>3. QED BY <1>2, <2>1, <2>2 DEF LimiterInv, TypeOK, Aged
  <1>6. \A k \in Metered : Live(k, windows'[k]) <= Limits[k]
    <2> SUFFICES ASSUME NEW k \in Metered PROVE Live(k, windows'[k]) <= Limits[k]
      OBVIOUS
    <2>1. k \in Keys /\ Limits[k] \in Nat
      BY SlidingWindowAssumption DEF Metered
    <2>2. Live(k, windows[k]) \in Nat /\ Live(k, windows'[k]) \in Nat
      BY <1>1, <1>2, <1>3, <2>1, LiveType
    <2>3. QED BY <1>2, <1>3, <2>1, <2>2 DEF LimiterInv
  <1>7. QED BY <1>2, <1>3, <1>5, <1>6 DEF LimiterInv

(* Initially every window is empty. *)
LEMMA InitLimiterInv == Init => LimiterInv
  <1> SUFFICES ASSUME Init PROVE LimiterInv
    OBVIOUS
  <1>1. \A k \in Keys : windows[k] = <<>> /\ Live(k, windows[k]) = 0
    <2>1. \A k : {i \in DOMAIN <<>> : ~Stale(k, <<>>[i])} = {}
      OBVIOUS
    <2>2. QED BY <2>1, FS_EmptySet DEF Init, Live
  <1>2. TypeOK
    BY <1>1 DEF Init, TypeOK
  <1>3. \A k \in Metered : k \in Keys /\ 0 <= Limits[k]
    BY SlidingWindowAssumption DEF Metered
  <1>4. QED BY <1>1, <1>2, <1>3 DEF LimiterInv, Sorted

(* Every step of the limiter keeps the invariant. *)
LEMMA NextLimiterInv == LimiterInv /\ [Next]_vars => LimiterInv'
  <1> SUFFICES ASSUME LimiterInv, [Next]_vars PROVE LimiterInv'
    OBVIOUS
  <1>1. ASSUME NEW k \in Keys, NEW count \in Batches, Check(k, count) PROVE LimiterInv'
    BY <1>1, CheckEffect, SlidingWindowAssumption
  <1>2. CASE Tick
    BY <1>2, TickEffect
  <1>3. CASE UNCHANGED vars
    BY <1>3 DEF vars, LimiterInv, TypeOK
  <1>4. QED BY <1>1, <1>2, <1>3 DEF Next

(* A check is an admission of the quota or leaves its count alone; time    *)
(* lets requests expire.                                                   *)
LEMMA StepsOfQuota ==
    ASSUME LimiterInv, [Next]_vars
    PROVE  [Promise!Next]_([k \in Metered |-> Live(k, windows[k])])
  <1> DEFINE spent == [k \in Metered |-> Live(k, windows[k])]
             spentNext == [k \in Metered |-> Live(k, windows'[k])]
  <1>1. \A k \in Metered : k \in Keys /\ Limits[k] \in Nat
    BY SlidingWindowAssumption DEF Metered
  <1>2. \A k \in Metered : Live(k, windows[k]) \in Nat /\ Live(k, windows'[k]) \in Nat
    BY <1>1, NextLimiterInv, LiveType DEF LimiterInv, TypeOK
  <1>3. spent' = spentNext
    OBVIOUS
  <1>4. ASSUME NEW k \in Keys, NEW count \in Batches, Check(k, count)
        PROVE  Promise!Next \/ spentNext = spent
    <2>1. count \in Nat
      BY SlidingWindowAssumption
    <2>2. LimiterInv' /\ \A l \in Keys : l # k => windows'[l] = windows[l]
      BY <1>4, <2>1, CheckEffect
    <2>3. CASE k \notin Metered \/ ~answer'.allowed
      <3>1. \A l \in Metered : Live(l, windows'[l]) = Live(l, windows[l])
        BY <1>1, <1>4, <2>1, <2>2, <2>3, CheckEffect
      <3>2. QED BY <3>1
    <2>4. CASE k \in Metered /\ answer'.allowed
      <3>1. Live(k, windows'[k]) = Live(k, windows[k]) + Units(count)
        BY <1>4, <2>1, <2>4, CheckEffect
      <3>2. Live(k, windows[k]) + Units(count) <= Limits[k]
        BY <2>2, <2>4, <3>1 DEF LimiterInv
      <3>3. spentNext = [spent EXCEPT ![k] = @ + Units(count)]
        BY <1>1, <2>2, <2>4, <3>1
      <3>4. Promise!Admit(k, Units(count))
        BY <1>3, <2>4, <3>2, <3>3 DEF Promise!Admit, Promise!Room
      <3>5. QED BY <2>4, <3>4 DEF Promise!Next
    <2>5. QED BY <2>3, <2>4
  <1>5. CASE Tick
    <2>1. \A k \in Metered : Live(k, windows'[k]) <= Live(k, windows[k])
      BY <1>1, <1>5, TickEffect
    <2>2. Promise!Expire
      BY <1>2, <2>1 DEF Promise!Expire
    <2>3. QED BY <2>2 DEF Promise!Next
  <1>6. CASE UNCHANGED vars
    BY <1>6 DEF vars
  <1>7. QED BY <1>3, <1>4, <1>5, <1>6 DEF Next

(* The limiter starts as the quota does. *)
LEMMA InitOfQuota == Init => Promise!Init
  <1> SUFFICES ASSUME Init PROVE Promise!Init
    OBVIOUS
  <1>1. \A k \in Metered : Live(k, windows[k]) = 0
    <2>1. \A k : {i \in DOMAIN <<>> : ~Stale(k, <<>>[i])} = {}
      OBVIOUS
    <2>2. QED BY <2>1, FS_EmptySet DEF Init, Live, Metered
  <1>2. QED BY <1>1 DEF Promise!Init

(* A check that answers is a check of the key it answers. *)
LEMMA AnswerIsCheck ==
    ASSUME LimiterInv, [Next]_vars, answer' # answer, NEW k \in Keys, answer'.key = k
    PROVE  \E count \in Nat : Check(k, count)
  <1>1. PICK l \in Keys, count \in Batches : Check(l, count)
    BY DEF Next, Tick, vars
  <1>2. count \in Nat
    BY SlidingWindowAssumption
  <1>3. answer'.key = l
    BY <1>1, <1>2, CheckEffect
  <1>4. QED BY <1>1, <1>2, <1>3

RefusalDue ==
    \A k \in Metered :
        answer' # answer /\ answer'.key = k /\ ~answer'.allowed =>
            Live(k, windows[k]) + answer'.units > Limits[k]
RemainderTrue ==
    \A k \in Metered :
        answer' # answer /\ answer'.key = k =>
            answer'.remaining = Limits[k] - Live(k, windows'[k])

LEMMA StepsAnswer ==
    ASSUME LimiterInv, [Next]_vars
    PROVE  RefusalDue /\ RemainderTrue
  <1> SUFFICES ASSUME NEW k \in Metered, answer' # answer, answer'.key = k
               PROVE  /\ ~answer'.allowed => Live(k, windows[k]) + answer'.units > Limits[k]
                      /\ answer'.remaining = Limits[k] - Live(k, windows'[k])
    BY DEF RefusalDue, RemainderTrue
  <1>1. k \in Keys
    BY DEF Metered
  <1>2. PICK count \in Nat : Check(k, count)
    BY <1>1, AnswerIsCheck
  <1>3. QED BY <1>1, <1>2, CheckEffect

(* The limiter alone, whoever calls it, is a quota of the requests         *)
(* admitted in the last window: pruning late or early never admits one too *)
(* many, and a batch is admitted as a whole or not at all.                 *)
THEOREM LimiterIsQuota == Spec => ImplementsQuota
  <1>1. Spec => []LimiterInv
    BY InitLimiterInv, NextLimiterInv, PTL DEF Spec
  <1>2. LimiterInv /\ [Next]_vars => [Promise!Next]_([k \in Metered |-> Live(k, windows[k])])
    BY StepsOfQuota
  <1>3. QED BY <1>1, <1>2, InitOfQuota, PTL DEF Spec, ImplementsQuota, Promise!Spec

-------------------------------------------------------------------------------
(* The calls. *)

ItemStates == {Waiting, Running} \union Results \union Faults

CallsInv ==
    /\ caller \in [Calls -> Keys \union {NoKey}]
    /\ bulk \in [Calls -> BOOLEAN]
    /\ items \in [Calls -> Seq(ItemStates)]
    /\ slots \in [Calls -> Nat]
    /\ \A c \in Calls : caller[c] = NoKey => ~bulk[c] /\ items[c] = <<>>

BulkInv == LimiterInv /\ CallsInv /\ SlotsBalance

(* The exceptions of a URL. *)
LEMMA UrlFaultsNamed == AllUrlFaults \subseteq {NoUrl, BadScheme, PrivateNetwork}
  BY DEF AllUrlFaults, UrlFaults

(* What ends an item is no longer a state of an item on its way. *)
LEMMA OutcomesEnd ==
    ASSUME NEW outcome \in Results \union Faults
    PROVE  Ended(outcome)
  <1>1. CASE outcome \in Results
    BY <1>1 DEF Results, Result, Ended, Waiting, Running
  <1>2. CASE outcome \in Faults
    <2>1. outcome \in {NoUrl, BadScheme, PrivateNetwork, NotInitialized,
                       SessionMissing, SessionOfAnother, Crash}
      BY <1>2, UrlFaultsNamed, BulkScrapeAssumption
    <2>2. "http" \in DOMAIN outcome
      <3>1. /\ "http" \in DOMAIN NoUrl /\ "http" \in DOMAIN BadScheme
            /\ "http" \in DOMAIN PrivateNetwork /\ "http" \in DOMAIN NotInitialized
            /\ "http" \in DOMAIN SessionMissing
        BY DEF NoUrl, BadScheme, PrivateNetwork, NotInitialized, SessionMissing, Structured
      <3>2. "http" \in DOMAIN SessionOfAnother /\ "http" \in DOMAIN Crash
        BY DEF SessionOfAnother, Plain, Crash
      <3>3. QED BY <2>1, <3>1, <3>2, Zenon
    <2>3. "http" \notin DOMAIN Waiting /\ "http" \notin DOMAIN Running
      BY DEF Waiting, Running
    <2>4. QED BY <2>2, <2>3 DEF Ended
  <1>3. QED BY <1>1, <1>2

(* The number of slots of a batch. *)
LEMMA ConcurrencyBounds ==
    ASSUME NEW asked \in Asked
    PROVE  Concurrency(asked) \in 1 .. MaxConcurrency
  <1> DEFINE wanted == IF asked = 0 THEN Default ELSE asked
             low == Min({wanted, MaxConcurrency})
  <1>1. wanted \in Int /\ MaxConcurrency \in Nat \ {0}
    BY BulkScrapeAssumption
  <1> HIDE DEF wanted
  <1>2. low \in {wanted, MaxConcurrency} /\ low <= MaxConcurrency
    <2>1. \E x \in {wanted, MaxConcurrency} : \A y \in {wanted, MaxConcurrency} : x <= y
      BY <1>1
    <2>2. QED BY <2>1 DEF Min
  <1> HIDE DEF low
  <1>3. Max({1, low}) \in {1, low} /\ Max({1, low}) >= 1
    <2>1. \E x \in {1, low} : \A y \in {1, low} : x >= y
      BY <1>1, <1>2
    <2>2. QED BY <2>1 DEF Max
  <1>4. QED BY <1>1, <1>2, <1>3 DEF Concurrency, low, wanted

(* The items of a call that run are finitely many. *)
LEMMA RunningFinite ==
    ASSUME CallsInv, NEW c \in Calls
    PROVE  /\ RunningItems(c) \subseteq DOMAIN items[c]
           /\ IsFiniteSet(RunningItems(c)) /\ Cardinality(RunningItems(c)) \in Nat
  <1>1. items[c] \in Seq(ItemStates)
    BY DEF CallsInv
  <1>2. DOMAIN items[c] = 1 .. Len(items[c]) /\ Len(items[c]) \in Nat
    BY <1>1
  <1>3. IsFiniteSet(DOMAIN items[c])
    BY <1>2, CountTo
  <1>4. RunningItems(c) \subseteq DOMAIN items[c]
    BY DEF RunningItems
  <1>5. QED BY <1>3, <1>4, FS_Subset, FS_CardinalityType

(* A call that is refused leaves the calls as they are. *)
LEMMA CallsUnchanged ==
    ASSUME CallsInv, SlotsBalance, UNCHANGED calls
    PROVE  CallsInv' /\ SlotsBalance'
  BY DEF CallsInv, SlotsBalance, RunningItems, calls

(* A call that is admitted has all its slots, and nothing of it runs.      *)
LEMMA AdmitKeeps ==
    ASSUME BulkInv, NEW c \in Calls, NEW k \in Keys, NEW isBulk \in BOOLEAN,
           NEW n \in 1 .. MaxItems, NEW permits \in 1 .. MaxConcurrency,
           caller[c] = NoKey, Admit(c, k, isBulk, n, permits)
    PROVE  BulkInv'
  <1>1. n \in Nat /\ permits \in Nat
    BY BulkScrapeAssumption
  <1>2. LimiterInv'
    BY <1>1, CheckEffect DEF BulkInv, Admit, Charge
  <1>3. CASE ~answer'.allowed
    BY <1>2, <1>3, CallsUnchanged DEF BulkInv, Admit, Refuse
  <1>4. CASE answer'.allowed
    <2> DEFINE batch == [i \in 1 .. n |-> Waiting]
    <2>1. /\ caller' = [caller EXCEPT ![c] = k]
          /\ bulk' = [bulk EXCEPT ![c] = isBulk]
          /\ items' = [items EXCEPT ![c] = batch]
          /\ slots' = [slots EXCEPT ![c] = permits]
      BY <1>4 DEF Admit
    <2>2. batch \in Seq(ItemStates)
      BY <1>1 DEF ItemStates
    <2>3. \A i \in DOMAIN batch : batch[i] # Running
      BY DEF Waiting, Running
    <2> HIDE DEF batch
    <2>4. k # NoKey
      BY BulkScrapeAssumption
    <2>5. CallsInv'
      BY <1>1, <2>1, <2>2, <2>4 DEF BulkInv, CallsInv
    <2>6. SlotsBalance'
      <3> SUFFICES ASSUME NEW d \in Calls, caller'[d] # NoKey
                   PROVE  slots'[d] + Cardinality(RunningItems(d)') \in 1 .. MaxConcurrency
        BY DEF SlotsBalance
      <3>1. CASE d = c
        <4>1. RunningItems(d)' = {}
          BY <2>1, <2>3, <3>1 DEF RunningItems, BulkInv, CallsInv
        <4>2. slots'[d] = permits
          BY <2>1, <3>1 DEF BulkInv, CallsInv
        <4>3. QED BY <1>1, <4>1, <4>2, FS_EmptySet
      <3>2. CASE d # c
        BY <2>1, <3>2 DEF RunningItems, BulkInv, CallsInv, SlotsBalance
      <3>3. QED BY <3>1, <3>2
    <2>7. QED BY <1>2, <2>5, <2>6 DEF BulkInv
  <1>5. QED BY <1>3, <1>4

(* An item that starts takes a slot. *)
LEMMA StartItemKeeps ==
    ASSUME BulkInv, NEW c \in Calls, NEW i \in DOMAIN items[c], StartItem(c, i)
    PROVE  BulkInv'
  <1>1. /\ items[c][i] = Waiting /\ slots[c] > 0
        /\ slots' = [slots EXCEPT ![c] = @ - 1]
        /\ items' = [items EXCEPT ![c][i] = Running]
        /\ UNCHANGED <<vars, caller, bulk>>
    BY DEF StartItem
  <1>2. items[c] \in Seq(ItemStates) /\ slots[c] \in Nat
    BY DEF BulkInv, CallsInv
  <1>3. items'[c] = [items[c] EXCEPT ![i] = Running]
        /\ \A d \in Calls : d # c => items'[d] = items[d] /\ slots'[d] = slots[d]
    BY <1>1 DEF BulkInv, CallsInv
  <1>4. items'[c] \in Seq(ItemStates) /\ DOMAIN items'[c] = DOMAIN items[c]
    BY <1>2, <1>3 DEF ItemStates
  <1>5. LimiterInv'
    BY <1>1, NextLimiterInv DEF BulkInv, vars
  <1>6. CallsInv'
    <2>1. items' \in [Calls -> Seq(ItemStates)]
      BY <1>1, <1>4 DEF BulkInv, CallsInv
    <2>2. caller[c] # NoKey
      BY DEF BulkInv, CallsInv
    <2>3. QED BY <1>1, <1>2, <1>3, <2>1, <2>2 DEF BulkInv, CallsInv
  <1>7. RunningItems(c)' = RunningItems(c) \union {i} /\ i \notin RunningItems(c)
    BY <1>1, <1>3, <1>4 DEF RunningItems, Waiting, Running
  <1>8. Cardinality(RunningItems(c)') = Cardinality(RunningItems(c)) + 1
    BY <1>7, RunningFinite, FS_AddElement DEF BulkInv
  <1>9. SlotsBalance'
    <2> SUFFICES ASSUME NEW d \in Calls, caller'[d] # NoKey
                 PROVE  slots'[d] + Cardinality(RunningItems(d)') \in 1 .. MaxConcurrency
      BY DEF SlotsBalance
    <2>1. CASE d = c
      <3>1. slots'[c] = slots[c] - 1
        BY <1>1 DEF BulkInv, CallsInv
      <3>2. Cardinality(RunningItems(c)) \in Nat
        BY RunningFinite DEF BulkInv
      <3>3. slots[c] + Cardinality(RunningItems(c)) \in 1 .. MaxConcurrency
        BY <1>1, <2>1 DEF BulkInv, SlotsBalance
      <3>4. QED BY <1>2, <1>8, <2>1, <3>1, <3>2, <3>3
    <2>2. CASE d # c
      BY <1>1, <1>3, <2>2 DEF RunningItems, BulkInv, SlotsBalance
    <2>3. QED BY <2>1, <2>2
  <1>10. QED BY <1>5, <1>6, <1>9 DEF BulkInv

(* An item that ends, whatever ended it, gives its slot back. *)
LEMMA EndItemKeeps ==
    ASSUME BulkInv, NEW c \in Calls, NEW i \in DOMAIN items[c], EndItem(c, i)
    PROVE  BulkInv'
  <1>1. PICK outcome \in Results \union Faults :
          /\ items[c][i] = Running
          /\ items' = [items EXCEPT ![c][i] = outcome]
          /\ slots' = [slots EXCEPT ![c] = @ + 1]
          /\ UNCHANGED <<vars, caller, bulk>>
    BY DEF EndItem, SlotBack
  <1>2. items[c] \in Seq(ItemStates) /\ slots[c] \in Nat
    BY DEF BulkInv, CallsInv
  <1>3. items'[c] = [items[c] EXCEPT ![i] = outcome]
        /\ \A d \in Calls : d # c => items'[d] = items[d] /\ slots'[d] = slots[d]
    BY <1>1 DEF BulkInv, CallsInv
  <1>4. items'[c] \in Seq(ItemStates) /\ DOMAIN items'[c] = DOMAIN items[c]
    BY <1>2, <1>3 DEF ItemStates
  <1>5. LimiterInv'
    BY <1>1, NextLimiterInv DEF BulkInv, vars
  <1>6. CallsInv'
    <2>1. items' \in [Calls -> Seq(ItemStates)]
      BY <1>1, <1>4 DEF BulkInv, CallsInv
    <2>2. caller[c] # NoKey
      BY DEF BulkInv, CallsInv
    <2>3. QED BY <1>1, <1>2, <1>3, <2>1, <2>2 DEF BulkInv, CallsInv
  <1>7. RunningItems(c)' = RunningItems(c) \ {i} /\ i \in RunningItems(c)
    <2>1. outcome # Running
      BY OutcomesEnd DEF Ended
    <2>2. QED BY <1>1, <1>3, <1>4, <2>1 DEF RunningItems
  <1>8. Cardinality(RunningItems(c)') = Cardinality(RunningItems(c)) - 1
    BY <1>7, RunningFinite, FS_RemoveElement DEF BulkInv
  <1>9. SlotsBalance'
    <2> SUFFICES ASSUME NEW d \in Calls, caller'[d] # NoKey
                 PROVE  slots'[d] + Cardinality(RunningItems(d)') \in 1 .. MaxConcurrency
      BY DEF SlotsBalance
    <2>1. CASE d = c
      <3>1. slots'[c] = slots[c] + 1
        BY <1>1 DEF BulkInv, CallsInv
      <3>2. Cardinality(RunningItems(c)) \in Nat
        BY RunningFinite DEF BulkInv
      <3>3. slots[c] + Cardinality(RunningItems(c)) \in 1 .. MaxConcurrency
        BY <1>1, <2>1 DEF BulkInv, SlotsBalance
      <3>4. QED BY <1>2, <1>8, <2>1, <3>1, <3>2, <3>3
    <2>2. CASE d # c
      BY <1>1, <1>3, <2>2 DEF RunningItems, BulkInv, SlotsBalance
    <2>3. QED BY <2>1, <2>2
  <1>10. QED BY <1>5, <1>6, <1>9 DEF BulkInv

(* A call that is answered is over. *)
LEMMA AnswerKeeps ==
    ASSUME BulkInv, NEW c \in Calls, Answer(c)
    PROVE  BulkInv'
  <1>1. /\ caller' = [caller EXCEPT ![c] = NoKey]
        /\ bulk' = [bulk EXCEPT ![c] = FALSE]
        /\ items' = [items EXCEPT ![c] = <<>>]
        /\ slots' = [slots EXCEPT ![c] = 0]
        /\ UNCHANGED vars
    BY DEF Answer
  <1>2. LimiterInv'
    BY <1>1, NextLimiterInv DEF BulkInv
  <1>3. CallsInv'
    BY <1>1 DEF BulkInv, CallsInv
  <1>4. SlotsBalance'
    BY <1>1 DEF BulkInv, CallsInv, SlotsBalance, RunningItems
  <1>5. QED BY <1>2, <1>3, <1>4 DEF BulkInv

(* The two routes admit a call in the same way. *)
LEMMA RouteAdmits ==
    ASSUME NEW c \in Calls, NEW k \in Keys,
           \/ Scrape(c, k)
           \/ \E n \in 0 .. MaxItems + 1, asked \in Asked : BulkScrape(c, k, n, asked)
    PROVE  /\ caller[c] = NoKey
           /\ \/ UNCHANGED <<vars, calls>> /\ \E e : Refuse(c, e)
              \/ \E isBulk \in BOOLEAN, n \in 1 .. MaxItems, permits \in 1 .. MaxConcurrency :
                   Admit(c, k, isBulk, n, permits)
  <1>1. CASE Scrape(c, k)
    <2>1. 1 \in 1 .. MaxItems /\ 1 \in 1 .. MaxConcurrency
      BY BulkScrapeAssumption
    <2>2. QED BY <1>1, <2>1 DEF Scrape, Refuse
  <1>2. ASSUME NEW n \in 0 .. MaxItems + 1, NEW asked \in Asked, BulkScrape(c, k, n, asked)
        PROVE  /\ caller[c] = NoKey
               /\ \/ UNCHANGED <<vars, calls>> /\ \E e : Refuse(c, e)
                  \/ \E m \in 1 .. MaxItems, permits \in 1 .. MaxConcurrency :
                       Admit(c, k, TRUE, m, permits)
    <2>1. Concurrency(asked) \in 1 .. MaxConcurrency
      BY ConcurrencyBounds
    <2>2. QED BY <1>2, <2>1 DEF BulkScrape, Refuse
  <1>3. QED BY <1>1, <1>2

(* Every step of the routes is a step of the limiter, or leaves it alone.  *)
LEMMA StepsOfLimiter == [BulkNext]_bulkVars => [Next]_vars
  <1> SUFFICES ASSUME BulkNext PROVE [Next]_vars
    BY DEF bulkVars
  <1>1. ASSUME NEW c \in Calls, NEW k \in Keys,
               \/ Scrape(c, k)
               \/ \E n \in 0 .. MaxItems + 1, asked \in Asked : BulkScrape(c, k, n, asked)
        PROVE  [Next]_vars
    <2>1. UNCHANGED vars \/ \E n \in 1 .. MaxItems : Check(k, n)
      BY <1>1, RouteAdmits DEF Admit, Charge
    <2>2. QED BY <2>1, BulkScrapeAssumption DEF Next
  <1>2. ASSUME NEW c \in Calls, Unauthorized(c) \/ RunItems(c) \/ Answer(c) PROVE [Next]_vars
    BY <1>2 DEF Unauthorized, RunItems, StartItem, EndItem, Answer
  <1>3. CASE Tick
    BY <1>3 DEF Next
  <1>4. QED BY <1>1, <1>2, <1>3 DEF BulkNext

(* Initially no call runs. *)
LEMMA InitBulkInv == BulkInit => BulkInv
  <1> SUFFICES ASSUME BulkInit PROVE BulkInv
    OBVIOUS
  <1>1. LimiterInv
    BY InitLimiterInv DEF BulkInit
  <1>2. CallsInv /\ SlotsBalance
    BY DEF BulkInit, CallsInv, SlotsBalance
  <1>3. QED BY <1>1, <1>2 DEF BulkInv

(* Every step of the routes keeps the invariant. *)
LEMMA NextBulkInv == BulkInv /\ [BulkNext]_bulkVars => BulkInv'
  <1> SUFFICES ASSUME BulkInv, [BulkNext]_bulkVars PROVE BulkInv'
    OBVIOUS
  <1>1. LimiterInv'
    BY StepsOfLimiter, NextLimiterInv DEF BulkInv
  <1>2. ASSUME UNCHANGED calls PROVE BulkInv'
    BY <1>1, <1>2, CallsUnchanged DEF BulkInv
  <1>3. ASSUME NEW c \in Calls, NEW k \in Keys,
               \/ Scrape(c, k)
               \/ \E n \in 0 .. MaxItems + 1, asked \in Asked : BulkScrape(c, k, n, asked)
        PROVE  BulkInv'
    <2>1. CASE UNCHANGED <<vars, calls>>
      BY <1>2, <2>1
    <2>2. ASSUME NEW isBulk \in BOOLEAN, NEW n \in 1 .. MaxItems,
                 NEW permits \in 1 .. MaxConcurrency, Admit(c, k, isBulk, n, permits)
          PROVE  BulkInv'
      BY <1>3, <2>2, RouteAdmits, AdmitKeeps
    <2>3. QED BY <1>3, <2>1, <2>2, RouteAdmits
  <1>4. ASSUME NEW c \in Calls, RunItems(c) PROVE BulkInv'
    BY <1>4, StartItemKeeps, EndItemKeeps DEF RunItems
  <1>5. ASSUME NEW c \in Calls, Answer(c) PROVE BulkInv'
    BY <1>5, AnswerKeeps
  <1>6. ASSUME NEW c \in Calls, Unauthorized(c) PROVE BulkInv'
    BY <1>2, <1>6 DEF Unauthorized, Refuse
  <1>7. CASE Tick /\ UNCHANGED calls
    BY <1>2, <1>7
  <1>8. CASE UNCHANGED bulkVars
    BY <1>2, <1>8 DEF bulkVars
  <1>9. QED BY <1>3, <1>4, <1>5, <1>6, <1>7, <1>8 DEF BulkNext

(* The windows are in order and within their limits, and every call has    *)
(* the slots it was given, in every reachable state of the routes.         *)
THEOREM BulkInvariance == BulkSpec => []BulkInv
  BY InitBulkInv, NextBulkInv, PTL DEF BulkSpec

-------------------------------------------------------------------------------
(* No batch of POST /v1/bulk-scrape runs more items at a time than the     *)
(* server allows, and no end of an item, an exception included, loses or   *)
(* makes up a slot.                                                        *)
THEOREM SlotsConserved == BulkSpec => []SlotsBalance
  <1>1. BulkInv => SlotsBalance
    BY DEF BulkInv
  <1>2. QED BY <1>1, BulkInvariance, PTL

(* A call that runs always has a next step of its own: what is left for    *)
(* its answer, beyond this, is that the event loop and the scrapes go on.  *)
THEOREM NeverStranded == BulkSpec => []NoneStranded
  <1>1. BulkInv => NoneStranded
    <2> SUFFICES ASSUME BulkInv, NEW c \in Calls, caller[c] # NoKey, RunningItems(c) = {},
                        NEW i \in DOMAIN items[c], ~Ended(items[c][i])
                 PROVE  /\ slots[c] > 0
                        /\ \E l \in DOMAIN items[c] :
                             items[c][l] = Waiting /\ \A j \in 1 .. l - 1 : items[c][j] # Waiting
      BY DEF NoneStranded
    <2> DEFINE waiting == {l \in DOMAIN items[c] : items[c][l] = Waiting}
    <2>1. items[c] \in Seq(ItemStates) /\ slots[c] \in Nat
      BY DEF BulkInv, CallsInv
    <2>2. slots[c] > 0
      <3>1. Cardinality(RunningItems(c)) = 0
        BY FS_EmptySet
      <3>2. slots[c] + Cardinality(RunningItems(c)) \in 1 .. MaxConcurrency
        BY DEF BulkInv, SlotsBalance
      <3>3. QED BY <2>1, <3>1, <3>2, BulkScrapeAssumption
    <2>3. i \in waiting
      BY DEF Ended, RunningItems
    <2>4. waiting \in SUBSET Nat
      BY <2>1
    <2>5. Min(waiting) \in waiting /\ \A j \in waiting : Min(waiting) <= j
      <3> HIDE DEF waiting
      <3> QED BY <2>3, <2>4, LeastElement
    <2>6. PICK l \in waiting : \A j \in waiting : l <= j
      <3> HIDE DEF waiting
      <3> QED BY <2>5
    <2>7. \A j \in 1 .. l - 1 : items[c][j] # Waiting
      BY <2>1, <2>6
    <2>8. QED BY <2>2, <2>6, <2>7
  <1>2. QED BY <1>1, BulkInvariance, PTL

(* How far an item is from its end. *)
StepsLeft(item) == IF item = Waiting THEN 2 ELSE IF item = Running THEN 1 ELSE 0

(* One item of a call is nearer to its end, and no other is farther.       *)
ItemAdvances(c) ==
    \E i \in DOMAIN items[c] :
        /\ StepsLeft(items'[c][i]) < StepsLeft(items[c][i])
        /\ \A j \in DOMAIN items[c] \ {i} : items'[c][j] = items[c][j]

(* A step of a call ends it or advances one of its items, and no step of   *)
(* another call, of the clock or of the limiter touches it.                *)
CallsAdvance ==
    \A c \in Calls : caller[c] # NoKey =>
        /\ RunItems(c) => caller'[c] = caller[c] /\ ItemAdvances(c)
        /\ Answer(c) => caller'[c] = NoKey
        /\ \/ RunItems(c) \/ Answer(c)
           \/ caller'[c] = caller[c] /\ items'[c] = items[c] /\ slots'[c] = slots[c]

(* So a call of n items is answered after 2n + 1 steps of its own: with    *)
(* NeverStranded, the safety half of CallEnds.                             *)
THEOREM CallsProgress == BulkSpec => [][CallsAdvance]_bulkVars
  <1>1. BulkInv /\ [BulkNext]_bulkVars => [CallsAdvance]_bulkVars
    <2> SUFFICES ASSUME BulkInv, BulkNext, NEW c \in Calls, caller[c] # NoKey
                 PROVE  /\ RunItems(c) => caller'[c] = caller[c] /\ ItemAdvances(c)
                        /\ Answer(c) => caller'[c] = NoKey
                        /\ \/ RunItems(c) \/ Answer(c)
                           \/ caller'[c] = caller[c] /\ items'[c] = items[c] /\ slots'[c] = slots[c]
      BY DEF CallsAdvance
    <2>1. /\ caller \in [Calls -> Keys \union {NoKey}]
          /\ items \in [Calls -> Seq(ItemStates)]
          /\ slots \in [Calls -> Nat]
      BY DEF BulkInv, CallsInv
    <2>2. ASSUME NEW i \in DOMAIN items[c], StartItem(c, i)
          PROVE  caller'[c] = caller[c] /\ ItemAdvances(c)
      <3>1. items'[c] = [items[c] EXCEPT ![i] = Running]
        BY <2>1, <2>2 DEF StartItem
      <3>2. StepsLeft(items'[c][i]) < StepsLeft(items[c][i])
        BY <2>1, <2>2, <3>1 DEF StartItem, StepsLeft, Waiting, Running
      <3>3. QED BY <2>2, <3>1, <3>2 DEF StartItem, ItemAdvances
    <2>3. ASSUME NEW i \in DOMAIN items[c], EndItem(c, i)
          PROVE  caller'[c] = caller[c] /\ ItemAdvances(c)
      <3>1. PICK outcome \in Results \union Faults : items' = [items EXCEPT ![c][i] = outcome]
        BY <2>3 DEF EndItem
      <3>2. items'[c] = [items[c] EXCEPT ![i] = outcome]
        BY <2>1, <3>1
      <3>3. StepsLeft(outcome) = 0 /\ StepsLeft(Running) = 1
        BY OutcomesEnd DEF Ended, StepsLeft, Waiting, Running
      <3>4. StepsLeft(items'[c][i]) < StepsLeft(items[c][i])
        BY <2>1, <2>3, <3>2, <3>3 DEF EndItem
      <3>5. QED BY <2>3, <3>2, <3>4 DEF EndItem, ItemAdvances
    <2>4. RunItems(c) => caller'[c] = caller[c] /\ ItemAdvances(c)
      BY <2>2, <2>3 DEF RunItems
    <2>5. Answer(c) => caller'[c] = NoKey
      BY <2>1 DEF Answer
    <2>6. ASSUME NEW d \in Calls \ {c}, RunItems(d) \/ Answer(d)
          PROVE  caller'[c] = caller[c] /\ items'[c] = items[c] /\ slots'[c] = slots[c]
      BY <2>1, <2>6 DEF RunItems, StartItem, EndItem, SlotBack, Answer
    <2>7. ASSUME NEW d \in Calls, NEW k \in Keys,
                 \/ Scrape(d, k)
                 \/ \E n \in 0 .. MaxItems + 1, asked \in Asked : BulkScrape(d, k, n, asked)
          PROVE  caller'[c] = caller[c] /\ items'[c] = items[c] /\ slots'[c] = slots[c]
      BY <2>1, <2>7, RouteAdmits DEF Admit, Refuse, calls
    <2>8. ASSUME NEW d \in Calls, Unauthorized(d)
          PROVE  caller'[c] = caller[c] /\ items'[c] = items[c] /\ slots'[c] = slots[c]
      BY <2>8 DEF Unauthorized, Refuse, calls
    <2>9. CASE Tick /\ UNCHANGED calls
      BY <2>4, <2>5, <2>9 DEF calls
    <2>10. QED BY <2>4, <2>5, <2>6, <2>7, <2>8, <2>9 DEF BulkNext
  <1>2. QED BY <1>1, BulkInvariance, PTL DEF BulkSpec

(* The limiter under the two routes is a quota. *)
THEOREM QuotaImplemented == BulkSpec => ImplementsQuota
  <1>1. LimiterInv /\ [Next]_vars => [Promise!Next]_([k \in Metered |-> Live(k, windows[k])])
    BY StepsOfQuota
  <1>2. BulkInv => LimiterInv
    BY DEF BulkInv
  <1>3. BulkInit => Promise!Init
    BY InitOfQuota DEF BulkInit
  <1>4. QED BY <1>1, <1>2, <1>3, StepsOfLimiter, BulkInvariance, PTL
         DEF BulkSpec, ImplementsQuota, Promise!Spec

(* No call is refused for requests that have left the window of its key.   *)
THEOREM RefusedWhenFull == BulkSpec => RefusesOnlyWhenFull
  <1>1. BulkInv /\ [BulkNext]_bulkVars => [RefusalDue]_vars
    BY StepsOfLimiter, StepsAnswer DEF BulkInv
  <1>2. QED BY <1>1, BulkInvariance, PTL DEF BulkSpec, RefusesOnlyWhenFull, RefusalDue

(* The number a client is told it has left is what the limiter would still *)
(* admit.                                                                  *)
THEOREM RemainderReported == BulkSpec => RemainingIsTrue
  <1>1. BulkInv /\ [BulkNext]_bulkVars => [RemainderTrue]_vars
    BY StepsOfLimiter, StepsAnswer DEF BulkInv
  <1>2. QED BY <1>1, BulkInvariance, PTL DEF BulkSpec, RemainingIsTrue, RemainderTrue

-------------------------------------------------------------------------------
(* What a call pays. *)
PaysNow ==
    /\ \A c \in Calls : Began(c) => answer'.allowed /\ answer'.units = Len(items'[c])
    /\ \A k \in Metered :
         LET paid == Live(k, windows'[k]) - Live(k, windows[k]) IN
         paid > 0 => \E c \in Calls : Began(c) /\ caller'[c] = k /\ Len(items'[c]) = paid

(* A step that leaves the windows alone and starts no call pays nothing.   *)
LEMMA NothingPaid ==
    ASSUME BulkInv, UNCHANGED windows, \A c \in Calls : caller'[c] \in {caller[c], NoKey}
    PROVE  PaysNow
  <1>1. \A c \in Calls : ~Began(c)
    BY DEF Began
  <1>2. \A k \in Metered : Live(k, windows[k]) \in Nat
    BY LiveType DEF BulkInv, LimiterInv, TypeOK, Metered
  <1>3. \A k \in Metered : ~(Live(k, windows'[k]) - Live(k, windows[k]) > 0)
    BY <1>2
  <1>4. QED BY <1>1, <1>3 DEF PaysNow

(* A batch that is admitted is paid for in its own key, item for item; one *)
(* that is refused pays nothing.                                           *)
LEMMA AdmissionPays ==
    ASSUME BulkInv, NEW c \in Calls, NEW k \in Keys, NEW isBulk \in BOOLEAN,
           NEW n \in 1 .. MaxItems, NEW permits \in 1 .. MaxConcurrency,
           caller[c] = NoKey, Admit(c, k, isBulk, n, permits)
    PROVE  PaysNow
  <1>1. n \in Nat /\ Units(n) = n
    BY BulkScrapeAssumption DEF Units
  <1>2. /\ answer'.units = n
        /\ \A l \in Keys : l # k => windows'[l] = windows[l]
        /\ k \in Metered => IF answer'.allowed
                             THEN Live(k, windows'[k]) = Live(k, windows[k]) + n
                             ELSE Live(k, windows'[k]) = Live(k, windows[k])
    BY <1>1, CheckEffect DEF BulkInv, Admit, Charge
  <1>3. \A l \in Metered : l \in Keys /\ Live(l, windows[l]) \in Nat
    BY LiveType DEF BulkInv, LimiterInv, TypeOK, Metered
  <1>4. \A l \in Metered : l # k => ~(Live(l, windows'[l]) - Live(l, windows[l]) > 0)
    BY <1>2, <1>3
  <1>5. CASE ~answer'.allowed
    <2>1. \A d \in Calls : ~Began(d)
      BY <1>5 DEF Admit, Refuse, calls, Began
    <2>2. k \in Metered => ~(Live(k, windows'[k]) - Live(k, windows[k]) > 0)
      BY <1>2, <1>3, <1>5
    <2>3. QED BY <1>4, <2>1, <2>2 DEF PaysNow
  <1>6. CASE answer'.allowed
    <2>1. /\ caller' = [caller EXCEPT ![c] = k]
          /\ items' = [items EXCEPT ![c] = [i \in 1 .. n |-> Waiting]]
      BY <1>6 DEF Admit
    <2>2. caller'[c] = k /\ k # NoKey /\ \A d \in Calls : d # c => caller'[d] = caller[d]
      BY <2>1, BulkScrapeAssumption DEF BulkInv, CallsInv
    <2>3. Len(items'[c]) = n
      <3>1. items'[c] = [i \in 1 .. n |-> Waiting]
        BY <2>1 DEF BulkInv, CallsInv
      <3>2. QED BY <1>1, <3>1
    <2>4. Began(c) /\ \A d \in Calls : Began(d) => d = c
      BY <2>2 DEF Began
    <2>5. \A d \in Calls : Began(d) => answer'.allowed /\ answer'.units = Len(items'[d])
      BY <1>2, <1>6, <2>3, <2>4
    <2>6. k \in Metered => Live(k, windows'[k]) - Live(k, windows[k]) = n
      BY <1>1, <1>2, <1>3, <1>6
    <2>7. QED BY <1>4, <2>2, <2>3, <2>4, <2>5, <2>6 DEF PaysNow
  <1>7. QED BY <1>5, <1>6

(* No item runs unpaid, no unit is taken for an item that does not run,    *)
(* and no refusal leaves a batch partly paid.                              *)
THEOREM PaidPerItem == BulkSpec => PaysPerItem
  <1>1. BulkInv /\ [BulkNext]_bulkVars => [PaysNow]_bulkVars
    <2> SUFFICES ASSUME BulkInv, BulkNext PROVE PaysNow
      OBVIOUS
    <2>1. ASSUME NEW c \in Calls, NEW k \in Keys,
                 \/ Scrape(c, k)
                 \/ \E n \in 0 .. MaxItems + 1, asked \in Asked : BulkScrape(c, k, n, asked)
          PROVE  PaysNow
      <3>1. CASE UNCHANGED <<vars, calls>>
        BY <3>1, NothingPaid DEF vars, calls
      <3>2. QED BY <2>1, <3>1, RouteAdmits, AdmissionPays
    <2>2. ASSUME NEW c \in Calls, RunItems(c) PROVE PaysNow
      BY <2>2, NothingPaid DEF RunItems, StartItem, EndItem, vars
    <2>3. ASSUME NEW c \in Calls, Answer(c) PROVE PaysNow
      <3>1. UNCHANGED windows /\ \A d \in Calls : caller'[d] \in {caller[d], NoKey}
        BY <2>3 DEF Answer, vars, BulkInv, CallsInv
      <3>2. QED BY <3>1, NothingPaid
    <2>4. ASSUME NEW c \in Calls, Unauthorized(c) PROVE PaysNow
      BY <2>4, NothingPaid DEF Unauthorized, Refuse, vars, calls
    <2>5. CASE Tick /\ UNCHANGED calls
      <3>1. \A c \in Calls : ~Began(c)
        BY <2>5 DEF Began, calls
      <3>2. \A k \in Metered : k \in Keys /\ Live(k, windows[k]) \in Nat
                               /\ Live(k, windows'[k]) \in Nat
        BY <2>5, TickEffect, LiveType DEF BulkInv, LimiterInv, TypeOK, Metered
      <3>3. \A k \in Metered : ~(Live(k, windows'[k]) - Live(k, windows[k]) > 0)
        BY <2>5, <3>2, TickEffect DEF BulkInv
      <3>4. QED BY <3>1, <3>3 DEF PaysNow
    <2>6. QED BY <2>1, <2>2, <2>3, <2>4, <2>5 DEF BulkNext
  <1>2. QED BY <1>1, BulkInvariance, PTL DEF BulkSpec, PaysPerItem, PaysNow

(* The answers. *)
AnswersNow ==
    \A c \in Calls : bulk[c] /\ reply'.call = c =>
        /\ DOMAIN reply'.results = DOMAIN items[c]
        /\ reply'.succeeded + reply'.failed = Len(items[c])
        /\ \A i \in DOMAIN items[c] :
             LET outcome == items[c][i] IN
             IF outcome \in Results THEN reply'.results[i] = outcome
             ELSE \/ reply'.results[i].code = Refusal(c, outcome).code
                  \/ outcome \in {SessionOfAnother, Crash}

(* An exception with a code of its own has it on both routes. *)
LEMMA CodesAgree ==
    ASSUME NEW e \in Faults
    PROVE  e \in {SessionOfAnother, Crash} \/ ItemCode(e) = CallCode(e)
  <1>1. e \in {NoUrl, BadScheme, PrivateNetwork, NotInitialized, SessionMissing,
               SessionOfAnother, Crash}
    BY UrlFaultsNamed, BulkScrapeAssumption
  <1>2. \A status : \A code \in {"BAD_REQUEST", "INVALID_URL_SCHEME", "PRIVATE_NETWORK_BLOCKED",
                                 "SERVICE_NOT_INITIALIZED", "SESSION_NOT_FOUND"} :
          ItemCode(Structured(status, code)) = CallCode(Structured(status, code))
    BY DEF ItemCode, CallCode, Structured, None
  <1>3. QED BY <1>1, <1>2 DEF NoUrl, BadScheme, PrivateNetwork, NotInitialized, SessionMissing

(* The answer of a batch. *)
LEMMA BatchAnswered ==
    ASSUME BulkInv, NEW c \in Calls, Answer(c), bulk[c]
    PROVE  AnswersNow
  <1>1. items[c] \in Seq(ItemStates) /\ reply' = BatchAnswer(c)
    BY DEF Answer, BulkInv, CallsInv
  <1>2. \A i \in DOMAIN items[c] : items[c][i] \in Results \union Faults
    BY <1>1 DEF Answer, Ended, ItemStates
  <1>3. reply'.call = c
    BY <1>1 DEF BatchAnswer
  <1>4. /\ DOMAIN reply'.results = DOMAIN items[c]
        /\ \A i \in DOMAIN items[c] : reply'.results[i] = ItemAnswer(items[c][i])
    BY <1>1 DEF BatchAnswer
  <1>5. reply'.succeeded + reply'.failed = Len(items[c])
    <2>1. DOMAIN items[c] = 1 .. Len(items[c]) /\ Len(items[c]) \in Nat
      BY <1>1
    <2>2. IsFiniteSet(DOMAIN items[c])
      BY <2>1, CountTo
    <2>3. Cardinality(Succeeded(c)) \in Nat
      BY <2>2, FS_Subset, FS_CardinalityType DEF Succeeded
    <2>4. QED BY <1>1, <2>1, <2>3 DEF BatchAnswer
  <1>6. ASSUME NEW i \in DOMAIN items[c], items[c][i] \notin Results,
               items[c][i] \notin {SessionOfAnother, Crash}
        PROVE  reply'.results[i].code = Refusal(c, items[c][i]).code
    <2>1. reply'.results[i] = [code |-> ItemCode(items[c][i])]
      BY <1>4, <1>6 DEF ItemAnswer
    <2>2. ItemCode(items[c][i]) = CallCode(items[c][i])
      BY <1>2, <1>6, CodesAgree
    <2>3. QED BY <2>1, <2>2 DEF Refusal
  <1>7. \A i \in DOMAIN items[c] : items[c][i] \in Results => reply'.results[i] = items[c][i]
    BY <1>4 DEF ItemAnswer
  <1>8. QED BY <1>3, <1>4, <1>5, <1>6, <1>7 DEF AnswersNow

(* A batch is answered item for item, in its order, with the codes of the  *)
(* single scrape.                                                          *)
THEOREM AnswersCorrect == BulkSpec => AnswersMatch
  <1>1. BulkInv /\ [BulkNext]_bulkVars => [AnswersNow]_bulkVars
    <2> SUFFICES ASSUME BulkInv, BulkNext PROVE AnswersNow
      OBVIOUS
    <2>1. ASSUME reply' = NoReply PROVE AnswersNow
      <3>1. reply'.call = "none"
        BY <2>1 DEF NoReply
      <3>2. QED BY <3>1, BulkScrapeAssumption DEF AnswersNow
    <2>2. ASSUME NEW c \in Calls, NEW e, Refuse(c, e), ~bulk[c] PROVE AnswersNow
      <3>1. reply'.call = c
        BY <2>2 DEF Refuse, Refusal
      <3>2. QED BY <2>2, <3>1 DEF AnswersNow
    <2>3. \A c \in Calls : caller[c] = NoKey => ~bulk[c]
      BY DEF BulkInv, CallsInv
    <2>4. ASSUME NEW c \in Calls, NEW k \in Keys,
                 \/ Scrape(c, k)
                 \/ \E n \in 0 .. MaxItems + 1, asked \in Asked : BulkScrape(c, k, n, asked)
          PROVE  AnswersNow
      <3>1. ~bulk[c]
        BY <2>3, <2>4, RouteAdmits
      <3>2. reply' = NoReply \/ \E e : Refuse(c, e)
        BY <2>4, RouteAdmits DEF Admit
      <3>3. QED BY <2>1, <2>2, <3>1, <3>2
    <2>5. ASSUME NEW c \in Calls, RunItems(c) PROVE AnswersNow
      BY <2>1, <2>5 DEF RunItems, StartItem, EndItem
    <2>6. ASSUME NEW c \in Calls, Answer(c) PROVE AnswersNow
      <3>1. CASE bulk[c]
        BY <2>6, <3>1, BatchAnswered
      <3>2. CASE ~bulk[c]
        <4>1. reply'.call = c
          BY <2>6, <3>2 DEF Answer, Refusal
        <4>2. QED BY <3>2, <4>1 DEF AnswersNow
      <3>3. QED BY <3>1, <3>2
    <2>7. ASSUME NEW c \in Calls, Unauthorized(c) PROVE AnswersNow
      BY <2>2, <2>3, <2>7 DEF Unauthorized
    <2>8. CASE Tick /\ reply' = NoReply
      BY <2>1, <2>8
    <2>9. QED BY <2>4, <2>5, <2>6, <2>7, <2>8 DEF BulkNext
  <1>2. QED BY <1>1, BulkInvariance, PTL DEF BulkSpec, AnswersMatch, AnswersNow
===============================================================================
