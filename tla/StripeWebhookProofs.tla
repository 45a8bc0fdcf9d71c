-------------------------- MODULE StripeWebhookProofs --------------------------
(***************************************************************************)
(* The webhook applies an event at most once, billing moves only what was  *)
(* bought, and every event that is lost is lost for one of the reasons     *)
(* LossesExplained names: for any number of deliveries at a time, of keys  *)
(* and of purchases, and any number of crashes and failures.               *)
(*                                                                         *)
(* The first rests on the atomic insert: an event in stripe_events is      *)
(* applied, is being applied by one delivery, or is lost; one that is not  *)
(* there is none of these.  What the event does to api_keys plays a part   *)
(* only in the others.                                                     *)
(***************************************************************************)
EXTENDS StripeWebhook, WellFoundedInduction, TLAPS

(* Deliveries under way, and the events that have been applied. *)
HandlersOK ==
    /\ pc \in [Handlers -> {"idle", "apply", "reply"}]
    /\ event \in [Handlers -> Events \union {NoEvent}]
    /\ applied \in [Events -> Nat]
    /\ stripeEvents \subseteq Events

(* A delivery that will apply an event is the only one, and the first. *)
ApplierUnique ==
    \A h \in Handlers : pc[h] = "apply" =>
        /\ event[h] \in stripeEvents
        /\ applied[event[h]] = 0
        /\ \A g \in Handlers : pc[g] = "apply" /\ event[g] = event[h] => g = h

OnlyRecordedApplied ==
    \A e \in Events : applied[e] <= 1 /\ (applied[e] # 0 => e \in stripeEvents)

OnceInv == HandlersOK /\ ApplierUnique /\ OnlyRecordedApplied

-------------------------------------------------------------------------------
(* Initially nothing is delivered. *)
LEMMA InitOnce == Init => OnceInv
  BY DEF Init, OnceInv, HandlersOK, ApplierUnique, OnlyRecordedApplied

(* The statement of a delivery is counted when it finds a row.             *)
LEMMA ApplyCounts ==
    ASSUME NEW h \in Handlers, Apply(h)
    PROVE  /\ pc[h] = "apply" /\ Effect(event[h][1], event[h][2])
           /\ \/ Matched(event[h][1], event[h][2]) = {} /\ applied' = applied
              \/ /\ Matched(event[h][1], event[h][2]) # {}
                 /\ applied' = [applied EXCEPT ![event[h]] = applied[event[h]] + 1]
           /\ pc' = [pc EXCEPT ![h] = "reply"]
           /\ UNCHANGED <<purchases, acked, stripeEvents, event, trouble>>
  BY DEF Apply, Execute

(* Only a delivery's own steps touch what the invariant is about. *)
LEMMA NextOnce == OnceInv /\ [Next]_vars => OnceInv'
  <1> SUFFICES ASSUME OnceInv, [Next]_vars PROVE OnceInv'
    OBVIOUS
  <1> USE DEF OnceInv, HandlersOK, ApplierUnique, OnlyRecordedApplied
  <1>1. ASSUME NEW h \in Handlers, NEW e \in Events, Record(h, e) PROVE OnceInv'
    BY <1>1 DEF Record
  <1>2. ASSUME NEW h \in Handlers, NEW e \in Events, Duplicate(h, e) PROVE OnceInv'
    BY <1>2 DEF Duplicate, db, handler
  <1>3. ASSUME NEW h \in Handlers, Apply(h) PROVE OnceInv'
    <2>1. /\ pc[h] = "apply" /\ event[h] \in Events
          /\ \/ applied' = applied
             \/ applied' = [applied EXCEPT ![event[h]] = applied[event[h]] + 1]
          /\ pc' = [pc EXCEPT ![h] = "reply"]
          /\ UNCHANGED <<stripeEvents, event>>
      BY <1>3, ApplyCounts
    <2>2. CASE applied' = applied
      BY <2>1, <2>2
    <2>3. CASE applied' = [applied EXCEPT ![event[h]] = applied[event[h]] + 1]
      BY <2>1, <2>3
    <2>4. QED BY <2>1, <2>2, <2>3
  <1>4. ASSUME NEW h \in Handlers, Reply(h) \/ Fail(h) PROVE OnceInv'
    BY <1>4 DEF Reply, Fail, Stop, db
  <1>5. CASE Crash
    BY <1>5 DEF Crash, db
  <1>6. ASSUME UNCHANGED <<stripeEvents, applied, handler>> PROVE OnceInv'
    BY <1>6 DEF handler
  <1>7. ASSUME NEW k, RevokeKey(k) \/ (\E b : Checkout(b, k)) PROVE OnceInv'
    BY <1>6, <1>7 DEF RevokeKey, Checkout, Purchase, db
  <1>8. ASSUME NEW email, (\E tier : CreateKey(tier, email)) \/ LicenseCheckout(email)
        PROVE  OnceInv'
    BY <1>6, <1>8 DEF CreateKey, LicenseCheckout, Purchase, db
  <1>9. CASE UNCHANGED vars
    BY <1>6, <1>9 DEF vars, db
  <1>10. QED BY <1>1, <1>2, <1>3, <1>4, <1>5, <1>7, <1>8, <1>9 DEF Next

(* No event changes the database twice. *)
THEOREM AppliedOnce == Spec => []AppliedAtMostOnce
  <1>1. OnceInv => AppliedAtMostOnce
    BY DEF OnceInv, OnlyRecordedApplied, AppliedAtMostOnce
  <1>2. QED BY <1>1, InitOnce, NextOnce, PTL DEF Spec

-------------------------------------------------------------------------------
(* Who has bought what. *)

Rows == [tier : Tiers, email : Emails, revoked : BOOLEAN, customer : Nat, subscription : Nat,
         status : {"none", "active", "updated", "past_due", "canceled"}, license : Nat]
Purchases == [buyer : Nat, key : Nat] \union [email : Emails]

BooksOK ==
    /\ apiKeys \in Seq(Rows)
    /\ purchases \in Seq(Purchases)
    /\ \A h \in Handlers : pc[h] = "apply" => event[h] \in Issued
    /\ \A n \in DOMAIN purchases : ~IsLicense(n) => purchases[n].buyer = purchases[n].key

(* The customer of a key bought a subscription for it, and while the key   *)
(* has a paid tier that subscription is the one it holds.                  *)
CustomerIsBuyer ==
    \A k \in DOMAIN apiKeys :
        LET n == apiKeys[k].customer
        IN  n # 0 => /\ n \in DOMAIN purchases /\ ~IsLicense(n) /\ purchases[n].buyer = k
                     /\ apiKeys[k].tier # "free" => apiKeys[k].subscription = n

(* A licence on a key has been applied, and was bought by its address.     *)
LicenseIsApplied ==
    \A k \in DOMAIN apiKeys :
        LET n == apiKeys[k].license
        IN  n # 0 => /\ n \in DOMAIN purchases /\ IsLicense(n)
                     /\ <<n, "license">> \in Events /\ applied[<<n, "license">>] # 0

BillingInv ==
    OnceInv /\ BooksOK /\ CustomerIsBuyer /\ LicenseIsApplied /\ LicenseOnOneKey

(* A key that is new has no customer and no licence. *)
LEMMA NewKeyIsRow ==
    ASSUME NEW tier \in Tiers, NEW email \in Emails
    PROVE  NewKey(tier, email) \in Rows
  BY DEF NewKey, Rows

(* The keys of the start are new. *)
LEMMA InitBilling == Init => BillingInv
  <1> SUFFICES ASSUME Init PROVE BillingInv
    OBVIOUS
  <1>1. apiKeys \in Seq({NewKey(tier, email) : tier \in Tiers, email \in Emails})
    BY StripeWebhookAssumption DEF Init
  <1>2. \A k \in DOMAIN apiKeys : /\ apiKeys[k] \in Rows
                                 /\ apiKeys[k].customer = 0 /\ apiKeys[k].license = 0
    BY <1>1, NewKeyIsRow DEF NewKey
  <1>3. apiKeys \in Seq(Rows)
    BY <1>1, <1>2
  <1>4. BooksOK
    BY <1>3 DEF Init, BooksOK
  <1>5. CustomerIsBuyer /\ LicenseIsApplied /\ LicenseOnOneKey
    BY <1>2 DEF CustomerIsBuyer, LicenseIsApplied, LicenseOnOneKey
  <1>6. QED BY <1>4, <1>5, InitOnce DEF BillingInv

(* Nothing but what the handlers do, and they leave the books alone. *)
LEMMA BooksUntouched ==
    ASSUME BillingInv, OnceInv', UNCHANGED <<apiKeys, purchases, applied>>,
           \A h \in Handlers : pc'[h] = "apply" => event'[h] \in Issued
    PROVE  BillingInv'
  BY DEF BillingInv, BooksOK, CustomerIsBuyer, LicenseIsApplied, LicenseOnOneKey, IsLicense, Issued

(* A purchase is added: those made stay as they are. *)
LEMMA PurchaseKeeps ==
    ASSUME BillingInv, OnceInv', NEW p \in Purchases, Purchase(p),
           "email" \notin DOMAIN p => p.buyer = p.key
    PROVE  BillingInv'
  <1>1. /\ purchases' = Append(purchases, p)
        /\ UNCHANGED <<apiKeys, applied, pc, event>>
    BY DEF Purchase, db, handler
  <1>2. /\ purchases' \in Seq(Purchases)
        /\ DOMAIN purchases' = 1 .. Len(purchases) + 1
        /\ DOMAIN purchases = 1 .. Len(purchases)
        /\ \A n \in DOMAIN purchases : n \in DOMAIN purchases' /\ purchases'[n] = purchases[n]
        /\ purchases'[Len(purchases) + 1] = p
        /\ Len(purchases) \in Nat
    BY <1>1 DEF BillingInv, BooksOK
  <1>3. \A n \in DOMAIN purchases : IsLicense(n)' <=> IsLicense(n)
    BY <1>2 DEF IsLicense
  <1>4. Issued \subseteq Issued'
    BY <1>2, <1>3 DEF Issued
  <1>5. BooksOK'
    BY <1>1, <1>2, <1>3, <1>4 DEF BillingInv, BooksOK, IsLicense
  <1>6. CustomerIsBuyer' /\ LicenseIsApplied'
    BY <1>1, <1>2, <1>3 DEF BillingInv, CustomerIsBuyer, LicenseIsApplied
  <1>7. LicenseOnOneKey'
    BY <1>1, <1>2 DEF BillingInv, LicenseOnOneKey, LicenseIsApplied
  <1>8. QED BY <1>5, <1>6, <1>7 DEF BillingInv

(* A key is created, without a customer or a licence. *)
LEMMA CreateKeeps ==
    ASSUME BillingInv, OnceInv', NEW tier \in Tiers, NEW email \in Emails, CreateKey(tier, email)
    PROVE  BillingInv'
  <1>1. /\ apiKeys' = Append(apiKeys, NewKey(tier, email))
        /\ UNCHANGED <<purchases, applied, pc, event>>
    BY DEF CreateKey, Create, handler
  <1>2. /\ apiKeys' \in Seq(Rows)
        /\ DOMAIN apiKeys' = 1 .. Len(apiKeys) + 1
        /\ DOMAIN apiKeys = 1 .. Len(apiKeys)
        /\ \A k \in DOMAIN apiKeys : apiKeys'[k] = apiKeys[k]
        /\ apiKeys'[Len(apiKeys) + 1] = NewKey(tier, email)
        /\ Len(apiKeys) \in Nat
    BY <1>1, NewKeyIsRow DEF BillingInv, BooksOK
  <1>3. /\ apiKeys'[Len(apiKeys) + 1].customer = 0
        /\ apiKeys'[Len(apiKeys) + 1].license = 0
    BY <1>2 DEF NewKey
  <1>4. BooksOK'
    BY <1>1, <1>2 DEF BillingInv, BooksOK, Issued, IsLicense
  <1>5. CustomerIsBuyer' /\ LicenseIsApplied'
    BY <1>1, <1>2, <1>3 DEF BillingInv, CustomerIsBuyer, LicenseIsApplied, IsLicense
  <1>6. LicenseOnOneKey'
    BY <1>1, <1>2, <1>3 DEF BillingInv, LicenseOnOneKey
  <1>7. QED BY <1>4, <1>5, <1>6 DEF BillingInv

-------------------------------------------------------------------------------
(* The statements of the key store. *)

(* What a step of a delivery or of the store leaves to be shown. *)
LEMMA RestKeeps ==
    ASSUME BillingInv, OnceInv', UNCHANGED purchases, apiKeys' \in Seq(Rows),
           \A h \in Handlers : pc'[h] = "apply" => event'[h] \in Issued,
           CustomerIsBuyer', LicenseIsApplied', LicenseOnOneKey'
    PROVE  BillingInv'
  BY DEF BillingInv, BooksOK, IsLicense, Issued

(* Licences stay valid where neither they nor the addresses change.        *)
LEMMA LicensesKept ==
    ASSUME BillingInv, UNCHANGED purchases, DOMAIN apiKeys' = DOMAIN apiKeys,
           \A e \in Events : applied[e] # 0 => applied'[e] # 0,
           \A k \in DOMAIN apiKeys : /\ apiKeys'[k].license = apiKeys[k].license
                                    /\ apiKeys'[k].email = apiKeys[k].email
    PROVE  LicenseIsApplied' /\ LicenseOnOneKey'
  BY DEF BillingInv, LicenseIsApplied, LicenseOnOneKey, IsLicense

(* So does the customer, unless it changes or a tier is given back.        *)
LEMMA CustomersKept ==
    ASSUME BillingInv, UNCHANGED purchases, DOMAIN apiKeys' = DOMAIN apiKeys,
           \A k \in DOMAIN apiKeys :
             /\ apiKeys'[k].customer = apiKeys[k].customer
             /\ \/ apiKeys'[k].tier = "free"
                \/ /\ apiKeys'[k].tier = apiKeys[k].tier
                   /\ apiKeys'[k].subscription = apiKeys[k].subscription
    PROVE  CustomerIsBuyer'
  BY DEF BillingInv, CustomerIsBuyer, IsLicense

(* An UPDATE keeps the table a table. *)
LEMMA TableKept ==
    ASSUME apiKeys \in Seq(Rows), NEW ks, NEW g \in [Rows -> Rows],
           apiKeys' = [k \in DOMAIN apiKeys |-> IF k \in ks THEN g[apiKeys[k]] ELSE apiKeys[k]]
    PROVE  apiKeys' \in Seq(Rows) /\ DOMAIN apiKeys' = DOMAIN apiKeys
  <1>1. DOMAIN apiKeys = 1 .. Len(apiKeys) /\ Len(apiKeys) \in Nat
    OBVIOUS
  <1>2. \A k \in DOMAIN apiKeys : apiKeys[k] \in Rows
    OBVIOUS
  <1>3. apiKeys' \in [1 .. Len(apiKeys) -> Rows]
    <2>1. \A k \in 1 .. Len(apiKeys) :
            (IF k \in ks THEN g[apiKeys[k]] ELSE apiKeys[k]) \in Rows
      BY <1>1, <1>2
    <2>2. QED BY <1>1, <2>1
  <1>4. \A n \in Nat : \A f \in [1 .. n -> Rows] : f \in Seq(Rows)
    OBVIOUS
  <1>5. QED BY <1>1, <1>3, <1>4

(* revoke() *)
LEMMA RevokeRows ==
    ASSUME apiKeys \in Seq(Rows), NEW j, Revoke(j)
    PROVE  /\ apiKeys' \in Seq(Rows) /\ DOMAIN apiKeys' = DOMAIN apiKeys
           /\ \A k \in DOMAIN apiKeys :
                apiKeys'[k] = IF k \in {j}
                              THEN [apiKeys[k] EXCEPT !.revoked = TRUE]
                              ELSE apiKeys[k]
  <1> DEFINE g == [r \in Rows |-> [r EXCEPT !.revoked = TRUE]]
  <1>1. apiKeys' = [k \in DOMAIN apiKeys |->
                      IF k \in {j}
                      THEN [apiKeys[k] EXCEPT !.revoked = TRUE]
                      ELSE apiKeys[k]]
    BY DEF Revoke, Update
  <1>2. g \in [Rows -> Rows]
    BY DEF Rows
  <1>3. \A k \in DOMAIN apiKeys : g[apiKeys[k]] = [apiKeys[k] EXCEPT !.revoked = TRUE]
    <2>1. \A k \in DOMAIN apiKeys : apiKeys[k] \in Rows
      OBVIOUS
    <2>2. QED BY <2>1, Zenon
  <1>4. apiKeys' = [k \in DOMAIN apiKeys |->
                      IF k \in {j} THEN g[apiKeys[k]] ELSE apiKeys[k]]
    BY <1>1, <1>3
  <1> HIDE DEF g
  <1>5. apiKeys' \in Seq(Rows) /\ DOMAIN apiKeys' = DOMAIN apiKeys
    BY <1>2, <1>4, TableKept
  <1>6. QED BY <1>1, <1>5

(* update_subscription_status() *)
LEMMA StatusRows ==
    ASSUME apiKeys \in Seq(Rows), NEW c,
           NEW status \in {"active", "updated", "past_due"}, UpdateSubscriptionStatus(c, status)
    PROVE  /\ apiKeys' \in Seq(Rows) /\ DOMAIN apiKeys' = DOMAIN apiKeys
           /\ \A k \in DOMAIN apiKeys :
                apiKeys'[k] = IF k \in OfCustomer(c)
                              THEN [apiKeys[k] EXCEPT !.status = status]
                              ELSE apiKeys[k]
  <1> DEFINE g == [r \in Rows |-> [r EXCEPT !.status = status]]
  <1>1. apiKeys' = [k \in DOMAIN apiKeys |->
                      IF k \in OfCustomer(c)
                      THEN [apiKeys[k] EXCEPT !.status = status]
                      ELSE apiKeys[k]]
    BY DEF UpdateSubscriptionStatus, Update
  <1>2. g \in [Rows -> Rows]
    BY DEF Rows
  <1>3. \A k \in DOMAIN apiKeys : g[apiKeys[k]] = [apiKeys[k] EXCEPT !.status = status]
    <2>1. \A k \in DOMAIN apiKeys : apiKeys[k] \in Rows
      OBVIOUS
    <2>2. QED BY <2>1, Zenon
  <1>4. apiKeys' = [k \in DOMAIN apiKeys |->
                      IF k \in OfCustomer(c) THEN g[apiKeys[k]] ELSE apiKeys[k]]
    BY <1>1, <1>3
  <1> HIDE DEF g
  <1>5. apiKeys' \in Seq(Rows) /\ DOMAIN apiKeys' = DOMAIN apiKeys
    BY <1>2, <1>4, TableKept
  <1>6. QED BY <1>1, <1>5

(* downgrade_to_free() *)
LEMMA DowngradeRows ==
    ASSUME apiKeys \in Seq(Rows), NEW c, DowngradeToFree(c)
    PROVE  /\ apiKeys' \in Seq(Rows) /\ DOMAIN apiKeys' = DOMAIN apiKeys
           /\ \A k \in DOMAIN apiKeys :
                apiKeys'[k] = IF k \in OfCustomer(c)
                              THEN [apiKeys[k] EXCEPT !.tier = "free", !.subscription = 0, !.status = "canceled"]
                              ELSE apiKeys[k]
  <1> DEFINE g == [r \in Rows |-> [r EXCEPT !.tier = "free", !.subscription = 0, !.status = "canceled"]]
  <1>1. apiKeys' = [k \in DOMAIN apiKeys |->
                      IF k \in OfCustomer(c)
                      THEN [apiKeys[k] EXCEPT !.tier = "free", !.subscription = 0, !.status = "canceled"]
                      ELSE apiKeys[k]]
    BY DEF DowngradeToFree, Update
  <1>2. g \in [Rows -> Rows]
    BY DEF Rows, Tiers
  <1>3. \A k \in DOMAIN apiKeys : g[apiKeys[k]] = [apiKeys[k] EXCEPT !.tier = "free", !.subscription = 0, !.status = "canceled"]
    <2>1. \A k \in DOMAIN apiKeys : apiKeys[k] \in Rows
      OBVIOUS
    <2>2. QED BY <2>1, Zenon
  <1>4. apiKeys' = [k \in DOMAIN apiKeys |->
                      IF k \in OfCustomer(c) THEN g[apiKeys[k]] ELSE apiKeys[k]]
    BY <1>1, <1>3
  <1> HIDE DEF g
  <1>5. apiKeys' \in Seq(Rows) /\ DOMAIN apiKeys' = DOMAIN apiKeys
    BY <1>2, <1>4, TableKept
  <1>6. QED BY <1>1, <1>5

(* upgrade_tier() *)
LEMMA UpgradeRows ==
    ASSUME apiKeys \in Seq(Rows), NEW j, NEW n \in Nat, UpgradeTier(j, "pro", n)
    PROVE  /\ apiKeys' \in Seq(Rows) /\ DOMAIN apiKeys' = DOMAIN apiKeys
           /\ \A k \in DOMAIN apiKeys :
                apiKeys'[k] = IF k \in {j}
                              THEN [apiKeys[k] EXCEPT !.tier = "pro", !.subscription = n, !.customer = n, !.status = "active"]
                              ELSE apiKeys[k]
  <1> DEFINE g == [r \in Rows |-> [r EXCEPT !.tier = "pro", !.subscription = n, !.customer = n, !.status = "active"]]
  <1>1. apiKeys' = [k \in DOMAIN apiKeys |->
                      IF k \in {j}
                      THEN [apiKeys[k] EXCEPT !.tier = "pro", !.subscription = n, !.customer = n, !.status = "active"]
                      ELSE apiKeys[k]]
    BY DEF UpgradeTier, Update
  <1>2. g \in [Rows -> Rows]
    BY DEF Rows, Tiers
  <1>3. \A k \in DOMAIN apiKeys : g[apiKeys[k]] = [apiKeys[k] EXCEPT !.tier = "pro", !.subscription = n, !.customer = n, !.status = "active"]
    <2>1. \A k \in DOMAIN apiKeys : apiKeys[k] \in Rows
      OBVIOUS
    <2>2. QED BY <2>1, Zenon
  <1>4. apiKeys' = [k \in DOMAIN apiKeys |->
                      IF k \in {j} THEN g[apiKeys[k]] ELSE apiKeys[k]]
    BY <1>1, <1>3
  <1> HIDE DEF g
  <1>5. apiKeys' \in Seq(Rows) /\ DOMAIN apiKeys' = DOMAIN apiKeys
    BY <1>2, <1>4, TableKept
  <1>6. QED BY <1>1, <1>5

(* add_license(): of the keys of an address at most one is the newest. *)
LEMMA LicenseRows ==
    ASSUME apiKeys \in Seq(Rows), NEW email, NEW n \in Nat, AddLicense(email, n)
    PROVE  /\ apiKeys' \in Seq(Rows) /\ DOMAIN apiKeys' = DOMAIN apiKeys
           /\ \A k \in DOMAIN apiKeys :
                apiKeys'[k] = IF k \in LicensedKeys(email)
                              THEN [apiKeys[k] EXCEPT !.license = n]
                              ELSE apiKeys[k]
           /\ \A k \in LicensedKeys(email) :
                k \in DOMAIN apiKeys /\ apiKeys[k].email = email
           /\ \A k, l \in LicensedKeys(email) : k = l
  <1> DEFINE g == [r \in Rows |-> [r EXCEPT !.license = n]]
  <1>1. apiKeys' = [k \in DOMAIN apiKeys |->
                      IF k \in LicensedKeys(email)
                      THEN [apiKeys[k] EXCEPT !.license = n]
                      ELSE apiKeys[k]]
    BY DEF AddLicense, Update
  <1>2. g \in [Rows -> Rows]
    BY DEF Rows
  <1>3. \A k \in DOMAIN apiKeys : g[apiKeys[k]] = [apiKeys[k] EXCEPT !.license = n]
    <2>1. \A k \in DOMAIN apiKeys : apiKeys[k] \in Rows
      OBVIOUS
    <2>2. QED BY <2>1, Zenon
  <1>4. apiKeys' = [k \in DOMAIN apiKeys |->
                      IF k \in LicensedKeys(email) THEN g[apiKeys[k]] ELSE apiKeys[k]]
    BY <1>1, <1>3
  <1> HIDE DEF g
  <1>5. apiKeys' \in Seq(Rows) /\ DOMAIN apiKeys' = DOMAIN apiKeys
    BY <1>2, <1>4, TableKept
  <1>6. DOMAIN apiKeys = 1 .. Len(apiKeys) /\ Len(apiKeys) \in Nat
    OBVIOUS
  <1>7. /\ \A k \in LicensedKeys(email) : k \in DOMAIN apiKeys /\ apiKeys[k].email = email
        /\ \A k, l \in LicensedKeys(email) : k = l
    BY <1>6 DEF LicensedKeys, Valid
  <1>8. QED BY <1>1, <1>5, <1>7

-------------------------------------------------------------------------------
(* A delivery applies its event. *)

(* The event it applies: issued, of its purchase, and not applied before.  *)
LEMMA AppliedEvent ==
    ASSUME BillingInv, NEW h \in Handlers, pc[h] = "apply", NEW n, NEW type, event[h] = <<n, type>>
    PROVE  /\ n \in 1 .. MaxPurchases /\ n \in DOMAIN purchases
           /\ <<n, type>> \in Events /\ applied[<<n, type>>] = 0
           /\ IsLicense(n) <=> type = "license"
  <1>1. <<n, type>> \in Issued
    BY DEF BillingInv, BooksOK
  <1>2. <<n, type>> \in Events /\ n \in DOMAIN purchases /\ (IsLicense(n) <=> type = "license")
    BY <1>1 DEF Issued
  <1>3. n \in 1 .. MaxPurchases
    BY <1>2 DEF Events
  <1>4. applied[<<n, type>>] = 0
    BY DEF BillingInv, OnceInv, ApplierUnique
  <1>5. QED BY <1>2, <1>3, <1>4

(* What is not a licence has a buyer and a key: the same.                  *)
LEMMA OwnPurchase ==
    ASSUME BillingInv, NEW n \in DOMAIN purchases
    PROVE  /\ ~IsLicense(n) => purchases[n].buyer = purchases[n].key
           /\ IsLicense(n) => purchases[n].email \in Emails
  <1>1. purchases[n] \in Purchases
    BY DEF BillingInv, BooksOK
  <1>2. IsLicense(n) => purchases[n] \in [email : Emails]
    BY <1>1 DEF Purchases, IsLicense
  <1>3. QED BY <1>2 DEF BillingInv, BooksOK

LEMMA ApplyKeeps ==
    ASSUME BillingInv, OnceInv', NEW h \in Handlers, Apply(h)
    PROVE  BillingInv'
  <1>1. /\ pc[h] = "apply" /\ UNCHANGED <<purchases, event>>
        /\ \/ Matched(event[h][1], event[h][2]) = {} /\ applied' = applied
           \/ applied' = [applied EXCEPT ![event[h]] = applied[event[h]] + 1]
        /\ pc' = [pc EXCEPT ![h] = "reply"]
        /\ apiKeys \in Seq(Rows)
    BY ApplyCounts DEF BillingInv, BooksOK
  <1>2. PICK n \in 1 .. MaxPurchases, type \in Types \union {"license"} : event[h] = <<n, type>>
    BY <1>1 DEF BillingInv, BooksOK, Issued, Events
  <1>3. /\ n \in DOMAIN purchases /\ n \in Nat /\ n # 0
        /\ <<n, type>> \in Events /\ applied[<<n, type>>] = 0
        /\ IsLicense(n) <=> type = "license"
    BY <1>1, <1>2, AppliedEvent, StripeWebhookAssumption
  <1>4. /\ \A g \in Handlers : pc'[g] = "apply" => event'[g] \in Issued
        /\ \A e \in Events : applied[e] # 0 => applied'[e] # 0
        /\ Matched(n, type) # {} => applied'[<<n, type>>] # 0
    <2>1. /\ applied \in [Events -> Nat] /\ event[h] = <<n, type>> /\ event[h] \in Events
          /\ \A g \in Handlers : pc'[g] = "apply" => event'[g] \in Issued
      BY <1>1, <1>2, <1>3 DEF BillingInv, BooksOK, OnceInv, HandlersOK
    <2>2. CASE Matched(n, type) = {} /\ applied' = applied
      BY <2>1, <2>2
    <2>3. CASE applied' = [applied EXCEPT ![event[h]] = applied[event[h]] + 1]
      BY <2>1, <2>3
    <2>4. event[h][1] = n /\ event[h][2] = type
      BY <1>2
    <2>5. QED BY <1>1, <2>2, <2>3, <2>4
  <1>5. Effect(n, type)
    BY <1>2, ApplyCounts
  <1>6. ASSUME NEW status \in {"active", "updated", "past_due"},
               UpdateSubscriptionStatus(n, status)
        PROVE  BillingInv'
    <2>1. /\ apiKeys' \in Seq(Rows) /\ DOMAIN apiKeys' = DOMAIN apiKeys
          /\ \A k \in DOMAIN apiKeys :
               apiKeys'[k] = IF k \in OfCustomer(n) THEN [apiKeys[k] EXCEPT !.status = status]
                             ELSE apiKeys[k]
      BY <1>1, <1>6, StatusRows
    <2>2. \A k \in DOMAIN apiKeys : apiKeys[k] \in Rows
      BY <1>1
    <2>3. \A k \in DOMAIN apiKeys :
            /\ apiKeys'[k].customer = apiKeys[k].customer
            /\ apiKeys'[k].subscription = apiKeys[k].subscription
            /\ apiKeys'[k].tier = apiKeys[k].tier
            /\ apiKeys'[k].license = apiKeys[k].license
            /\ apiKeys'[k].email = apiKeys[k].email
      BY <2>1, <2>2 DEF Rows
    <2>4. QED BY <1>1, <1>4, <2>1, <2>3, LicensesKept, CustomersKept, RestKeeps
  <1>7. CASE type = "deleted"
    <2>0. DowngradeToFree(n)
      BY <1>5, <1>7 DEF Effect
    <2>1. /\ apiKeys' \in Seq(Rows) /\ DOMAIN apiKeys' = DOMAIN apiKeys
          /\ \A k \in DOMAIN apiKeys :
               apiKeys'[k] = IF k \in OfCustomer(n)
                             THEN [apiKeys[k] EXCEPT !.tier = "free", !.subscription = 0,
                                                     !.status = "canceled"]
                             ELSE apiKeys[k]
      BY <1>1, <2>0, DowngradeRows
    <2>2. \A k \in DOMAIN apiKeys : apiKeys[k] \in Rows
      BY <1>1
    <2>3. \A k \in DOMAIN apiKeys :
            /\ apiKeys'[k].customer = apiKeys[k].customer
            /\ \/ apiKeys'[k].tier = "free"
               \/ /\ apiKeys'[k].tier = apiKeys[k].tier
                  /\ apiKeys'[k].subscription = apiKeys[k].subscription
            /\ apiKeys'[k].license = apiKeys[k].license
            /\ apiKeys'[k].email = apiKeys[k].email
      BY <2>1, <2>2 DEF Rows
    <2>4. QED BY <1>1, <1>4, <2>1, <2>3, LicensesKept, CustomersKept, RestKeeps
  <1>8. CASE type = "checkout"
    <2> DEFINE j == purchases[n].key
    <2>0. UpgradeTier(j, "pro", n)
      BY <1>5, <1>8 DEF Effect
    <2>1. /\ apiKeys' \in Seq(Rows) /\ DOMAIN apiKeys' = DOMAIN apiKeys
          /\ \A k \in DOMAIN apiKeys :
               apiKeys'[k] = IF k \in {j}
                             THEN [apiKeys[k] EXCEPT !.tier = "pro", !.subscription = n,
                                                     !.customer = n, !.status = "active"]
                             ELSE apiKeys[k]
      BY <1>1, <1>3, <2>0, UpgradeRows
    <2>2. \A k \in DOMAIN apiKeys : apiKeys[k] \in Rows
      BY <1>1
    <2>3. \A k \in DOMAIN apiKeys :
            /\ apiKeys'[k].license = apiKeys[k].license
            /\ apiKeys'[k].email = apiKeys[k].email
            /\ k = j => apiKeys'[k].customer = n /\ apiKeys'[k].subscription = n
            /\ k # j => apiKeys'[k] = apiKeys[k]
      <3> SUFFICES ASSUME NEW k \in DOMAIN apiKeys
                   PROVE  /\ apiKeys'[k].license = apiKeys[k].license
                          /\ apiKeys'[k].email = apiKeys[k].email
                          /\ k = j => apiKeys'[k].customer = n /\ apiKeys'[k].subscription = n
                          /\ k # j => apiKeys'[k] = apiKeys[k]
        OBVIOUS
      <3>1. CASE k = j
        <4>1. apiKeys'[k] = [apiKeys[k] EXCEPT !.tier = "pro", !.subscription = n,
                                               !.customer = n, !.status = "active"]
          BY <2>1, <3>1
        <4>2. apiKeys[k] \in Rows
          BY <2>2
        <4>3. QED BY <3>1, <4>1, <4>2 DEF Rows
      <3>2. CASE k # j
        BY <2>1, <3>2
      <3>3. QED BY <3>1, <3>2
    <2>4. CustomerIsBuyer'
      <3>1. ~IsLicense(n) /\ purchases[n].buyer = j
        BY <1>3, <1>8, OwnPurchase
      <3> HIDE DEF j
      <3>2. SUFFICES ASSUME NEW k \in DOMAIN apiKeys, apiKeys'[k].customer # 0
                     PROVE  LET m == apiKeys'[k].customer
                            IN  /\ m \in DOMAIN purchases /\ ~IsLicense(m)
                                /\ purchases[m].buyer = k
                                /\ apiKeys'[k].tier # "free" => apiKeys'[k].subscription = m
        BY <1>1, <2>1 DEF CustomerIsBuyer, IsLicense
      <3>3. CASE k = j
        BY <1>3, <2>3, <3>1, <3>3
      <3>4. CASE k # j
        BY <2>3, <3>2, <3>4 DEF BillingInv, CustomerIsBuyer
      <3>5. QED BY <3>3, <3>4
    <2>5. QED BY <1>1, <1>4, <2>1, <2>3, <2>4, LicensesKept, RestKeeps
  <1>9. CASE type = "license"
    <2> DEFINE email == purchases[n].email
    <2>0. AddLicense(email, n)
      BY <1>5, <1>9 DEF Effect
    <2> HIDE DEF email
    <2>1. /\ apiKeys' \in Seq(Rows) /\ DOMAIN apiKeys' = DOMAIN apiKeys
          /\ \A k \in DOMAIN apiKeys :
               apiKeys'[k] = IF k \in LicensedKeys(email)
                             THEN [apiKeys[k] EXCEPT !.license = n] ELSE apiKeys[k]
          /\ \A k \in LicensedKeys(email) : k \in DOMAIN apiKeys /\ apiKeys[k].email = email
          /\ \A k, l \in LicensedKeys(email) : k = l
      BY <1>1, <1>3, <2>0, LicenseRows
    <2>2. \A k \in DOMAIN apiKeys : apiKeys[k] \in Rows
      BY <1>1
    <2>3. \A k \in DOMAIN apiKeys :
            /\ apiKeys'[k].customer = apiKeys[k].customer
            /\ apiKeys'[k].subscription = apiKeys[k].subscription
            /\ apiKeys'[k].tier = apiKeys[k].tier
            /\ apiKeys'[k].email = apiKeys[k].email
            /\ k \in LicensedKeys(email) => apiKeys'[k].license = n
            /\ k \notin LicensedKeys(email) => apiKeys'[k].license = apiKeys[k].license
      BY <2>1, <2>2 DEF Rows
    <2>4. \A k \in DOMAIN apiKeys : apiKeys[k].license # n
      BY <1>3, <1>9 DEF BillingInv, LicenseIsApplied
    <2>5. LicenseIsApplied'
      <3>1. SUFFICES ASSUME NEW k \in DOMAIN apiKeys, apiKeys'[k].license # 0
                     PROVE  LET m == apiKeys'[k].license
                            IN  /\ m \in DOMAIN purchases /\ IsLicense(m)
                                /\ <<m, "license">> \in Events /\ applied'[<<m, "license">>] # 0
        BY <1>1, <2>1 DEF LicenseIsApplied, IsLicense
      <3>2. CASE k \in LicensedKeys(email)
        <4>1. Matched(n, type) # {}
          BY <1>9, <3>2 DEF Matched, email
        <4>2. QED BY <1>3, <1>4, <1>9, <2>3, <3>2, <4>1
      <3>3. CASE k \notin LicensedKeys(email)
        BY <1>4, <2>3, <3>1, <3>3 DEF BillingInv, LicenseIsApplied
      <3>4. QED BY <3>2, <3>3
    <2>6. LicenseOnOneKey'
      BY <1>1, <2>1, <2>3, <2>4 DEF BillingInv, LicenseOnOneKey, email
    <2>7. CustomerIsBuyer'
      BY <1>1, <2>1, <2>3, CustomersKept
    <2>8. QED BY <1>1, <1>4, <2>1, <2>5, <2>6, <2>7, RestKeeps
  <1>10. QED BY <1>2, <1>5, <1>6, <1>7, <1>8, <1>9 DEF Effect, Types

(* Every step keeps the invariant. *)
LEMMA NextBilling == BillingInv /\ [Next]_vars => BillingInv'
  <1> SUFFICES ASSUME BillingInv, [Next]_vars PROVE BillingInv'
    OBVIOUS
  <1>1. OnceInv'
    BY NextOnce DEF BillingInv
  <1>2. ASSUME NEW h \in Handlers, NEW e \in Events, Record(h, e) \/ Duplicate(h, e)
        PROVE  BillingInv'
    <2>1. UNCHANGED <<apiKeys, purchases, applied>>
      BY <1>2 DEF Record, Duplicate, db
    <2>2. \A g \in Handlers : pc'[g] = "apply" => event'[g] \in Issued
      BY <1>2 DEF Record, Duplicate, handler, BillingInv, BooksOK, OnceInv, HandlersOK
    <2>3. QED BY <1>1, <2>1, <2>2, BooksUntouched
  <1>3. ASSUME NEW h \in Handlers, Reply(h) \/ Fail(h)
        PROVE  BillingInv'
    <2>1. UNCHANGED <<apiKeys, purchases, applied>>
      BY <1>3 DEF Reply, Fail, db
    <2>2. \A g \in Handlers : pc'[g] = "apply" => event'[g] \in Issued
      BY <1>3 DEF Reply, Fail, Stop, BillingInv, BooksOK, OnceInv, HandlersOK
    <2>3. QED BY <1>1, <2>1, <2>2, BooksUntouched
  <1>4. CASE Crash
    BY <1>1, <1>4, BooksUntouched DEF Crash, db
  <1>5. ASSUME NEW h \in Handlers, Apply(h) PROVE BillingInv'
    BY <1>1, <1>5, ApplyKeeps
  <1>6. ASSUME NEW k \in DOMAIN apiKeys, RevokeKey(k) PROVE BillingInv'
    <2>1. /\ apiKeys \in Seq(Rows) /\ Revoke(k)
          /\ UNCHANGED <<purchases, applied, pc, event>>
      BY <1>6 DEF RevokeKey, handler, BillingInv, BooksOK
    <2>2. /\ apiKeys' \in Seq(Rows) /\ DOMAIN apiKeys' = DOMAIN apiKeys
          /\ \A j \in DOMAIN apiKeys :
               apiKeys'[j] = IF j \in {k} THEN [apiKeys[j] EXCEPT !.revoked = TRUE]
                             ELSE apiKeys[j]
      BY <2>1, RevokeRows
    <2>3. \A j \in DOMAIN apiKeys : apiKeys[j] \in Rows
      BY <2>1
    <2>4. \A j \in DOMAIN apiKeys :
            /\ apiKeys'[j].customer = apiKeys[j].customer
            /\ apiKeys'[j].subscription = apiKeys[j].subscription
            /\ apiKeys'[j].tier = apiKeys[j].tier
            /\ apiKeys'[j].license = apiKeys[j].license
            /\ apiKeys'[j].email = apiKeys[j].email
      BY <2>2, <2>3 DEF Rows
    <2>5. \A g \in Handlers : pc'[g] = "apply" => event'[g] \in Issued
      BY <2>1 DEF BillingInv, BooksOK
    <2>6. QED BY <1>1, <2>1, <2>2, <2>4, <2>5, LicensesKept, CustomersKept, RestKeeps
  <1>7. ASSUME NEW b \in DOMAIN apiKeys, NEW k \in DOMAIN apiKeys, Checkout(b, k)
        PROVE  BillingInv'
    <2>1. /\ k = b /\ b \in Nat
          /\ Purchase([buyer |-> b, key |-> k])
          /\ [buyer |-> b, key |-> k] \in Purchases
      BY <1>7 DEF Checkout, Purchases, BillingInv, BooksOK
    <2>2. QED BY <1>1, <2>1, PurchaseKeeps
  <1>8. ASSUME NEW email \in Emails, LicenseCheckout(email) PROVE BillingInv'
    <2>1. [email |-> email] \in Purchases /\ "email" \in DOMAIN [email |-> email]
      BY DEF Purchases
    <2>2. QED BY <1>1, <1>8, <2>1, PurchaseKeeps DEF LicenseCheckout
  <1>9. ASSUME NEW email \in Emails, NEW tier \in {"free", "enterprise"}, CreateKey(tier, email)
        PROVE  BillingInv'
    <2>1. tier \in Tiers
      BY DEF Tiers
    <2>2. QED BY <1>1, <1>9, <2>1, CreateKeeps
  <1>10. CASE UNCHANGED vars
    <2>1. UNCHANGED <<apiKeys, purchases, applied, pc, event>>
      BY <1>10 DEF vars, db, handler
    <2>2. \A g \in Handlers : pc'[g] = "apply" => event'[g] \in Issued
      BY <2>1 DEF BillingInv, BooksOK
    <2>3. QED BY <1>1, <2>1, <2>2, BooksUntouched
  <1>11. QED BY <1>2, <1>3, <1>4, <1>5, <1>6, <1>7, <1>8, <1>9, <1>10 DEF Next

(* The invariant holds in every reachable state. *)
THEOREM BillingInvariance == Spec => []BillingInv
  BY InitBilling, NextBilling, PTL DEF Spec

(* A licence is on one key at most, of the address that bought it.         *)
THEOREM LicensesUnique == Spec => []LicenseOnOneKey
  <1>1. BillingInv => LicenseOnOneKey
    BY DEF BillingInv
  <1>2. QED BY <1>1, BillingInvariance, PTL

-------------------------------------------------------------------------------
(* The reason a tier changes, of a key k. *)
Bought(k) ==
    \E n \in DOMAIN purchases :
       /\ ~IsLicense(n) /\ purchases[n].buyer = k
       /\ LET type == IF apiKeys'[k].tier = "free" THEN "deleted" ELSE "checkout"
          IN  applied[<<n, type>>] = 0 /\ applied'[<<n, type>>] = 1
       /\ apiKeys'[k].tier = "free" => apiKeys[k].subscription = n

(* Only a delivery that applies its event changes the tier of a key.       *)
LEMMA OthersKeepTier ==
    ASSUME BillingInv, Next, ~\E h \in Handlers : Apply(h), NEW k \in DOMAIN apiKeys
    PROVE  apiKeys'[k].tier = apiKeys[k].tier
  <1>1. apiKeys \in Seq(Rows)
    BY DEF BillingInv, BooksOK
  <1>2. ASSUME NEW j \in DOMAIN apiKeys, RevokeKey(j) PROVE apiKeys'[k].tier = apiKeys[k].tier
    <2>1. apiKeys[k] \in Rows
      BY <1>1
    <2>2. apiKeys'[k] = IF k \in {j} THEN [apiKeys[k] EXCEPT !.revoked = TRUE] ELSE apiKeys[k]
      BY <1>1, <1>2, RevokeRows DEF RevokeKey
    <2>3. QED BY <2>1, <2>2 DEF Rows
  <1>3. ASSUME NEW tier, NEW email, CreateKey(tier, email) PROVE apiKeys'[k].tier = apiKeys[k].tier
    BY <1>1, <1>3 DEF CreateKey, Create
  <1>4. ASSUME apiKeys' = apiKeys PROVE apiKeys'[k].tier = apiKeys[k].tier
    BY <1>4
  <1>5. QED
    BY <1>2, <1>3, <1>4
       DEF Next, Record, Duplicate, Reply, Fail, Crash, Checkout, LicenseCheckout, Purchase, db

(* The event a delivery applies explains every tier it changes.            *)
LEMMA ApplyExplained ==
    ASSUME BillingInv, NEW h \in Handlers, Apply(h),
           NEW k \in DOMAIN apiKeys, apiKeys'[k].tier # apiKeys[k].tier
    PROVE  Bought(k)
  <1>1. /\ pc[h] = "apply" /\ apiKeys \in Seq(Rows) /\ apiKeys[k] \in Rows
        /\ \/ Matched(event[h][1], event[h][2]) = {}
           \/ applied' = [applied EXCEPT ![event[h]] = applied[event[h]] + 1]
        /\ applied \in [Events -> Nat]
    <2>1. /\ pc[h] = "apply"
          /\ \/ Matched(event[h][1], event[h][2]) = {}
             \/ applied' = [applied EXCEPT ![event[h]] = applied[event[h]] + 1]
      BY ApplyCounts
    <2>2. apiKeys \in Seq(Rows) /\ applied \in [Events -> Nat]
      BY DEF BillingInv, BooksOK, OnceInv, HandlersOK
    <2>3. apiKeys[k] \in Rows
      BY <2>2
    <2>4. QED BY <2>1, <2>2, <2>3
  <1>2. PICK n \in 1 .. MaxPurchases, type \in Types \union {"license"} : event[h] = <<n, type>>
    BY <1>1 DEF BillingInv, BooksOK, Issued, Events
  <1>3. /\ n \in DOMAIN purchases /\ n \in Nat /\ n # 0
        /\ <<n, type>> \in Events /\ applied[<<n, type>>] = 0
        /\ IsLicense(n) <=> type = "license"
    BY <1>1, <1>2, AppliedEvent, StripeWebhookAssumption
  <1>4. Matched(n, type) # {} => applied'[<<n, type>>] = 1
    BY <1>1, <1>2, <1>3
  <1>5. Effect(n, type)
    BY <1>2, ApplyCounts
  <1>6. ~\E status \in {"active", "updated", "past_due"} : UpdateSubscriptionStatus(n, status)
    <2> SUFFICES ASSUME NEW status \in {"active", "updated", "past_due"},
                        UpdateSubscriptionStatus(n, status)
                 PROVE  FALSE
      OBVIOUS
    <2>1. apiKeys'[k] = IF k \in OfCustomer(n) THEN [apiKeys[k] EXCEPT !.status = status]
                        ELSE apiKeys[k]
      BY <1>1, StatusRows
    <2>2. QED BY <1>1, <2>1 DEF Rows
  <1>7. type # "license"
    <2> SUFFICES ASSUME AddLicense(purchases[n].email, n) PROVE FALSE
      BY <1>5 DEF Effect
    <2>1. apiKeys'[k] = IF k \in LicensedKeys(purchases[n].email)
                        THEN [apiKeys[k] EXCEPT !.license = n] ELSE apiKeys[k]
      BY <1>1, <1>3, LicenseRows
    <2>2. QED BY <1>1, <2>1 DEF Rows
  <1>8. CASE type = "checkout"
    <2>1. UpgradeTier(purchases[n].key, "pro", n)
      BY <1>5, <1>8 DEF Effect
    <2>2. apiKeys'[k] = IF k \in {purchases[n].key}
                        THEN [apiKeys[k] EXCEPT !.tier = "pro", !.subscription = n,
                                                !.customer = n, !.status = "active"]
                        ELSE apiKeys[k]
      BY <1>1, <1>3, <2>1, UpgradeRows
    <2>3. k = purchases[n].key /\ apiKeys'[k].tier = "pro"
      BY <1>1, <2>2 DEF Rows
    <2>4. ~IsLicense(n) /\ purchases[n].buyer = k
      BY <1>3, <1>8, <2>3, OwnPurchase
    <2>5. Matched(n, type) # {}
      BY <1>8, <2>3 DEF Matched
    <2>6. QED BY <1>3, <1>4, <1>8, <2>3, <2>4, <2>5 DEF Bought
  <1>9. CASE type = "deleted"
    <2>1. DowngradeToFree(n)
      BY <1>5, <1>9 DEF Effect
    <2>2. apiKeys'[k] = IF k \in OfCustomer(n)
                        THEN [apiKeys[k] EXCEPT !.tier = "free", !.subscription = 0,
                                                !.status = "canceled"]
                        ELSE apiKeys[k]
      BY <1>1, <2>1, DowngradeRows
    <2>3. k \in OfCustomer(n) /\ apiKeys'[k].tier = "free"
      BY <1>1, <2>2 DEF Rows
    <2>4. /\ ~IsLicense(n) /\ purchases[n].buyer = k
          /\ apiKeys[k].subscription = n
      BY <1>3, <2>3 DEF OfCustomer, BillingInv, CustomerIsBuyer
    <2>5. Matched(n, type) # {}
      BY <1>9, <2>3 DEF Matched
    <2>6. QED BY <1>3, <1>4, <1>9, <2>3, <2>4, <2>5 DEF Bought
  <1>10. QED BY <1>2, <1>5, <1>6, <1>7, <1>8, <1>9 DEF Effect, Types

(* The tier of a key follows what the key itself bought.                   *)
THEOREM TiersBought == Spec => TierFollowsPurchases
  <1> DEFINE Explained == \A k \in DOMAIN apiKeys :
                            apiKeys'[k].tier # apiKeys[k].tier => Bought(k)
  <1>1. BillingInv /\ [Next]_vars => [Explained]_vars
    <2> SUFFICES ASSUME BillingInv, Next,
                        NEW k \in DOMAIN apiKeys, apiKeys'[k].tier # apiKeys[k].tier
                 PROVE  Bought(k)
      OBVIOUS
    <2>1. PICK h \in Handlers : Apply(h)
      BY OthersKeepTier
    <2>2. QED BY <2>1, ApplyExplained
  <1>2. QED BY <1>1, BillingInvariance, PTL DEF Spec, TierFollowsPurchases, Bought

-------------------------------------------------------------------------------
(* What a checkout leaves in the row of its key, and that rows stay.       *)
UpgradesInv ==
    /\ stripeEvents \subseteq Issued
    /\ \A n \in DOMAIN purchases : ~IsLicense(n) =>
          /\ purchases[n].key \in DOMAIN apiKeys
          /\ Upgraded(n) => apiKeys[purchases[n].key].customer # 0
    /\ \A k \in DOMAIN apiKeys :
          /\ apiKeys[k].subscription \in {0, apiKeys[k].customer}
          /\ apiKeys[k].customer # 0 => Upgraded(apiKeys[k].customer)

(* A key that is new has neither a customer nor a subscription. *)
LEMMA InitUpgrades == Init => UpgradesInv
  <1> SUFFICES ASSUME Init PROVE UpgradesInv
    OBVIOUS
  <1>1. apiKeys \in Seq({NewKey(tier, email) : tier \in Tiers, email \in Emails})
    BY StripeWebhookAssumption DEF Init
  <1>2. \A k \in DOMAIN apiKeys : apiKeys[k].customer = 0 /\ apiKeys[k].subscription = 0
    BY <1>1 DEF NewKey
  <1>3. QED BY <1>2 DEF Init, UpgradesInv

(* It holds on where no customer changes and subscriptions only end.       *)
LEMMA UpgradesKept ==
    ASSUME UpgradesInv, UNCHANGED <<purchases, stripeEvents>>, DOMAIN apiKeys' = DOMAIN apiKeys,
           \A m : Upgraded(m)' <=> Upgraded(m),
           \A k \in DOMAIN apiKeys :
             /\ apiKeys'[k].customer = apiKeys[k].customer
             /\ apiKeys'[k].subscription \in {0, apiKeys[k].subscription}
    PROVE  UpgradesInv'
  <1>1. /\ Issued' = Issued
        /\ \A n : IsLicense(n)' <=> IsLicense(n)
    BY DEF Issued, IsLicense
  <1>2. QED BY <1>1 DEF UpgradesInv

(* The statement of a delivery. *)
LEMMA ApplyUpgrades ==
    ASSUME BillingInv, UpgradesInv, NEW h \in Handlers, Apply(h)
    PROVE  UpgradesInv'
  <1>1. /\ pc[h] = "apply" /\ UNCHANGED <<purchases, stripeEvents>>
        /\ apiKeys \in Seq(Rows) /\ applied \in [Events -> Nat]
    BY ApplyCounts DEF BillingInv, BooksOK, OnceInv, HandlersOK
  <1>2. PICK n \in 1 .. MaxPurchases, type \in Types \union {"license"} : event[h] = <<n, type>>
    BY <1>1 DEF BillingInv, BooksOK, Issued, Events
  <1>3. /\ n \in DOMAIN purchases /\ n \in Nat /\ n # 0
        /\ <<n, type>> \in Events /\ applied[<<n, type>>] = 0
        /\ IsLicense(n) <=> type = "license"
    BY <1>1, <1>2, AppliedEvent, StripeWebhookAssumption
  <1>4. /\ Effect(n, type)
        /\ \/ Matched(n, type) = {} /\ applied' = applied
           \/ Matched(n, type) # {} /\ applied' = [applied EXCEPT ![<<n, type>>] = 1]
    BY <1>2, <1>3, ApplyCounts
  <1>5. \A m : <<m, "checkout">> # <<n, type>> => (Upgraded(m)' <=> Upgraded(m))
    BY <1>1, <1>3, <1>4 DEF Upgraded
  <1>6. \A k \in DOMAIN apiKeys : apiKeys[k] \in Rows
    BY <1>1
  <1>7. ASSUME NEW status \in {"active", "updated", "past_due"},
               UpdateSubscriptionStatus(n, status), type # "checkout"
        PROVE  UpgradesInv'
    <2>1. /\ DOMAIN apiKeys' = DOMAIN apiKeys
          /\ \A k \in DOMAIN apiKeys :
               apiKeys'[k] = IF k \in OfCustomer(n) THEN [apiKeys[k] EXCEPT !.status = status]
                             ELSE apiKeys[k]
      BY <1>1, <1>7, StatusRows
    <2>2. \A k \in DOMAIN apiKeys : /\ apiKeys'[k].customer = apiKeys[k].customer
                                   /\ apiKeys'[k].subscription = apiKeys[k].subscription
      BY <1>6, <2>1 DEF Rows
    <2>3. \A m : Upgraded(m)' <=> Upgraded(m)
      BY <1>5, <1>7
    <2>4. QED BY <1>1, <2>1, <2>2, <2>3, UpgradesKept
  <1>8. CASE type = "deleted"
    <2>1. DowngradeToFree(n)
      BY <1>4, <1>8 DEF Effect
    <2>2. /\ DOMAIN apiKeys' = DOMAIN apiKeys
          /\ \A k \in DOMAIN apiKeys :
               apiKeys'[k] = IF k \in OfCustomer(n)
                             THEN [apiKeys[k] EXCEPT !.tier = "free", !.subscription = 0,
                                                     !.status = "canceled"]
                             ELSE apiKeys[k]
      BY <1>1, <2>1, DowngradeRows
    <2>3. \A k \in DOMAIN apiKeys : /\ apiKeys'[k].customer = apiKeys[k].customer
                                   /\ apiKeys'[k].subscription \in {0, apiKeys[k].subscription}
      BY <1>6, <2>2 DEF Rows
    <2>4. \A m : Upgraded(m)' <=> Upgraded(m)
      BY <1>5, <1>8
    <2>5. QED BY <1>1, <2>2, <2>3, <2>4, UpgradesKept
  <1>9. CASE type = "license"
    <2>1. AddLicense(purchases[n].email, n)
      BY <1>4, <1>9 DEF Effect
    <2>2. /\ DOMAIN apiKeys' = DOMAIN apiKeys
          /\ \A k \in DOMAIN apiKeys :
               apiKeys'[k] = IF k \in LicensedKeys(purchases[n].email)
                             THEN [apiKeys[k] EXCEPT !.license = n] ELSE apiKeys[k]
      BY <1>1, <1>3, <2>1, LicenseRows
    <2>3. \A k \in DOMAIN apiKeys : /\ apiKeys'[k].customer = apiKeys[k].customer
                                   /\ apiKeys'[k].subscription = apiKeys[k].subscription
      BY <1>6, <2>2 DEF Rows
    <2>4. \A m : Upgraded(m)' <=> Upgraded(m)
      BY <1>5, <1>9
    <2>5. QED BY <1>1, <2>2, <2>3, <2>4, UpgradesKept
  <1>10. CASE type = "checkout"
    <2> DEFINE j == purchases[n].key
    <2>1. UpgradeTier(j, "pro", n)
      BY <1>4, <1>10 DEF Effect
    <2>2. ~IsLicense(n) /\ j \in DOMAIN apiKeys
      BY <1>3, <1>10 DEF UpgradesInv
    <2>3. Upgraded(n)'
      BY <1>1, <1>3, <1>4, <1>10, <2>2 DEF Upgraded, Matched
    <2>4. /\ DOMAIN apiKeys' = DOMAIN apiKeys
          /\ \A k \in DOMAIN apiKeys :
               apiKeys'[k] = IF k \in {j}
                             THEN [apiKeys[k] EXCEPT !.tier = "pro", !.subscription = n,
                                                     !.customer = n, !.status = "active"]
                             ELSE apiKeys[k]
      BY <1>1, <1>3, <2>1, UpgradeRows
    <2>5. /\ apiKeys'[j].customer = n /\ apiKeys'[j].subscription = n
          /\ \A k \in DOMAIN apiKeys \ {j} : apiKeys'[k] = apiKeys[k]
      <3>1. apiKeys'[j] = [apiKeys[j] EXCEPT !.tier = "pro", !.subscription = n,
                                             !.customer = n, !.status = "active"]
        BY <2>2, <2>4
      <3>2. QED BY <1>6, <2>2, <2>4, <3>1 DEF Rows
    <2> HIDE DEF j
    <2>6. /\ Issued' = Issued
          /\ \A m : IsLicense(m)' <=> IsLicense(m)
      BY <1>1 DEF Issued, IsLicense
    <2>7. \A m : m # n => (Upgraded(m)' <=> Upgraded(m))
      BY <1>5
    <2>8. ASSUME NEW m \in DOMAIN purchases, ~IsLicense(m)
          PROVE  /\ purchases[m].key \in DOMAIN apiKeys
                 /\ Upgraded(m)' => apiKeys'[purchases[m].key].customer # 0
      BY <1>3, <2>2, <2>5, <2>7, <2>8 DEF UpgradesInv, j
    <2>9. ASSUME NEW k \in DOMAIN apiKeys
          PROVE  /\ apiKeys'[k].subscription \in {0, apiKeys'[k].customer}
                 /\ apiKeys'[k].customer # 0 => Upgraded(apiKeys[k].customer)'
      <3>1. CASE k = j
        BY <2>3, <2>5, <3>1 DEF Upgraded
      <3>2. CASE k # j
        <4>1. apiKeys'[k] = apiKeys[k]
          BY <2>5, <3>2
        <4>2. Upgraded(apiKeys[k].customer) => Upgraded(apiKeys[k].customer)'
          BY <2>3, <2>7, <4>1 DEF Upgraded
        <4>3. QED BY <4>1, <4>2 DEF UpgradesInv
      <3>3. QED BY <3>1, <3>2
    <2>10. QED BY <1>1, <2>4, <2>6, <2>8, <2>9 DEF UpgradesInv
  <1>11. QED BY <1>2, <1>4, <1>7, <1>8, <1>9, <1>10 DEF Effect, Types

(* Every step keeps it. *)
LEMMA NextUpgrades == BillingInv /\ UpgradesInv /\ [Next]_vars => UpgradesInv'
  <1> SUFFICES ASSUME BillingInv, UpgradesInv, [Next]_vars PROVE UpgradesInv'
    OBVIOUS
  <1>1. ASSUME UNCHANGED <<apiKeys, purchases, applied>>, stripeEvents' \subseteq Issued
        PROVE  UpgradesInv'
    <2>1. /\ Issued' = Issued
          /\ \A n : (IsLicense(n)' <=> IsLicense(n)) /\ (Upgraded(n)' <=> Upgraded(n))
      BY <1>1 DEF Issued, IsLicense, Upgraded
    <2>2. \A k \in DOMAIN apiKeys :
            Upgraded(apiKeys[k].customer) => Upgraded(apiKeys[k].customer)'
      BY <1>1 DEF Upgraded
    <2>3. QED BY <1>1, <2>1, <2>2 DEF UpgradesInv
  <1>2. ASSUME NEW h \in Handlers, NEW e \in Events,
               Record(h, e) \/ Duplicate(h, e) \/ Reply(h) \/ Fail(h)
        PROVE  UpgradesInv'
    BY <1>1, <1>2 DEF Record, Duplicate, Reply, Fail, db, UpgradesInv
  <1>3. ASSUME NEW h \in Handlers, Reply(h) \/ Fail(h) PROVE UpgradesInv'
    BY <1>1, <1>3 DEF Reply, Fail, db, UpgradesInv
  <1>4. CASE Crash
    BY <1>1, <1>4 DEF Crash, db, UpgradesInv
  <1>5. ASSUME NEW h \in Handlers, Apply(h) PROVE UpgradesInv'
    BY <1>5, ApplyUpgrades
  <1>6. ASSUME NEW j \in DOMAIN apiKeys, RevokeKey(j) PROVE UpgradesInv'
    <2>1. /\ apiKeys \in Seq(Rows) /\ Revoke(j)
          /\ UNCHANGED <<purchases, applied, stripeEvents>>
      BY <1>6 DEF RevokeKey, BillingInv, BooksOK
    <2>2. /\ DOMAIN apiKeys' = DOMAIN apiKeys
          /\ \A k \in DOMAIN apiKeys :
               apiKeys'[k] = IF k \in {j} THEN [apiKeys[k] EXCEPT !.revoked = TRUE]
                             ELSE apiKeys[k]
      BY <2>1, RevokeRows
    <2>3. \A k \in DOMAIN apiKeys : apiKeys[k] \in Rows
      BY <2>1
    <2>4. \A k \in DOMAIN apiKeys : /\ apiKeys'[k].customer = apiKeys[k].customer
                                   /\ apiKeys'[k].subscription = apiKeys[k].subscription
      BY <2>2, <2>3 DEF Rows
    <2>5. \A m : Upgraded(m)' <=> Upgraded(m)
      BY <2>1 DEF Upgraded
    <2>6. QED BY <2>1, <2>2, <2>4, <2>5, UpgradesKept
  <1>7. ASSUME NEW p \in Purchases, Purchase(p),
               "email" \notin DOMAIN p => p.key \in DOMAIN apiKeys
        PROVE  UpgradesInv'
    <2>0. PICK new : new = Len(purchases) + 1
      OBVIOUS
    <2>1. /\ purchases' = Append(purchases, p)
          /\ UNCHANGED <<apiKeys, applied, stripeEvents>>
      BY <1>7 DEF Purchase, db
    <2>2. /\ DOMAIN purchases' = DOMAIN purchases \union {new}
          /\ new \notin DOMAIN purchases
          /\ \A n \in DOMAIN purchases : purchases'[n] = purchases[n]
          /\ purchases'[new] = p
      BY <2>0, <2>1 DEF BillingInv, BooksOK
    <2>3. /\ \A n \in DOMAIN purchases : IsLicense(n)' <=> IsLicense(n)
          /\ IsLicense(new)' <=> "email" \in DOMAIN p
          /\ \A n : Upgraded(n)' <=> Upgraded(n)
      BY <2>1, <2>2 DEF IsLicense, Upgraded
    <2>4. Issued \subseteq Issued'
      BY <2>2, <2>3 DEF Issued
    <2>5. ~Upgraded(new)
      <3>1. \A e \in stripeEvents : e[1] \in DOMAIN purchases
        BY DEF UpgradesInv, Issued
      <3>2. \A e \in Events : applied[e] # 0 => e \in stripeEvents
        BY DEF BillingInv, OnceInv, OnlyRecordedApplied
      <3>3. <<new, "checkout">>[1] = new
        OBVIOUS
      <3>4. QED BY <2>2, <3>1, <3>2, <3>3 DEF Upgraded
    <2>6. \A k \in DOMAIN apiKeys :
            Upgraded(apiKeys[k].customer) => Upgraded(apiKeys[k].customer)'
      BY <2>1 DEF Upgraded
    <2>7. QED BY <1>7, <2>1, <2>2, <2>3, <2>4, <2>5, <2>6 DEF UpgradesInv
  <1>8. ASSUME NEW b \in DOMAIN apiKeys, NEW k \in DOMAIN apiKeys, Checkout(b, k)
        PROVE  UpgradesInv'
    <2>1. Purchase([buyer |-> b, key |-> k]) /\ [buyer |-> b, key |-> k] \in Purchases
      BY <1>8 DEF Checkout, Purchases, BillingInv, BooksOK
    <2>2. QED BY <1>7, <2>1
  <1>9. ASSUME NEW email \in Emails, LicenseCheckout(email) PROVE UpgradesInv'
    <2>1. [email |-> email] \in Purchases /\ "email" \in DOMAIN [email |-> email]
      BY DEF Purchases
    <2>2. QED BY <1>7, <1>9, <2>1 DEF LicenseCheckout
  <1>10. ASSUME NEW email \in Emails, NEW tier, CreateKey(tier, email) PROVE UpgradesInv'
    <2> DEFINE new == Len(apiKeys) + 1
    <2>1. /\ apiKeys' = Append(apiKeys, NewKey(tier, email))
          /\ UNCHANGED <<purchases, applied, stripeEvents>>
      BY <1>10 DEF CreateKey, Create
    <2>2. /\ DOMAIN apiKeys' = DOMAIN apiKeys \union {new}
          /\ \A k \in DOMAIN apiKeys : apiKeys'[k] = apiKeys[k]
          /\ apiKeys'[new] = NewKey(tier, email)
      BY <2>1 DEF BillingInv, BooksOK
    <2>3. apiKeys'[new].customer = 0 /\ apiKeys'[new].subscription = 0
      BY <2>2 DEF NewKey
    <2> HIDE DEF new
    <2>4. /\ Issued' = Issued
          /\ \A n : (IsLicense(n)' <=> IsLicense(n)) /\ (Upgraded(n)' <=> Upgraded(n))
      BY <2>1 DEF Issued, IsLicense, Upgraded
    <2>5. \A k \in DOMAIN apiKeys :
            Upgraded(apiKeys[k].customer) => Upgraded(apiKeys[k].customer)'
      BY <2>1, <2>2 DEF Upgraded
    <2>6. QED BY <2>1, <2>2, <2>3, <2>4, <2>5 DEF UpgradesInv
  <1>11. CASE UNCHANGED vars
    BY <1>1, <1>11 DEF vars, db, UpgradesInv
  <1>12. QED
    BY <1>2, <1>3, <1>4, <1>5, <1>6, <1>8, <1>9, <1>10, <1>11 DEF Next

-------------------------------------------------------------------------------
(* Losses. *)

(* Without trouble an event is lost by the statement of its delivery only. *)
LEMMA OnlyApplyLoses ==
    ASSUME OnceInv, [Next]_vars, trouble' = trouble, trouble \in Nat, NEW e \in Lost' \ Lost
    PROVE  \E h \in Handlers : Apply(h) /\ event[h] = e /\ applied'[e] = 0
  <1> USE DEF OnceInv, HandlersOK, ApplierUnique, OnlyRecordedApplied
  <1>1. /\ e \in stripeEvents' /\ applied'[e] = 0
        /\ \A h \in Handlers : pc'[h] = "apply" => event'[h] # e
        /\ ~(/\ e \in stripeEvents /\ applied[e] = 0
             /\ \A h \in Handlers : pc[h] = "apply" => event[h] # e)
    BY DEF Lost
  <1>2. ASSUME NEW h \in Handlers, NEW x \in Events, Record(h, x) PROVE FALSE
    BY <1>1, <1>2 DEF Record
  <1>3. ASSUME NEW h \in Handlers, NEW x \in Events, Duplicate(h, x) PROVE FALSE
    BY <1>1, <1>3 DEF Duplicate, db, handler
  <1>4. ASSUME NEW h \in Handlers, Apply(h)
        PROVE  Apply(h) /\ event[h] = e /\ applied'[e] = 0
    <2>1. /\ pc[h] = "apply" /\ event[h] \in Events
          /\ \/ applied' = applied
             \/ applied' = [applied EXCEPT ![event[h]] = applied[event[h]] + 1]
          /\ pc' = [pc EXCEPT ![h] = "reply"]
          /\ UNCHANGED <<stripeEvents, event>>
      BY <1>4, ApplyCounts
    <2>2. applied[e] = 0
      BY <1>1, <2>1
    <2>3. QED BY <1>1, <1>4, <2>1, <2>2
  <1>5. ASSUME NEW h \in Handlers, Reply(h) PROVE FALSE
    BY <1>1, <1>5 DEF Reply, Stop, db
  <1>6. ASSUME NEW h \in Handlers, Fail(h) PROVE FALSE
    BY <1>6 DEF Fail
  <1>7. CASE Crash
    BY <1>7 DEF Crash
  <1>8. ASSUME UNCHANGED <<stripeEvents, applied, handler>> PROVE FALSE
    BY <1>1, <1>8 DEF handler
  <1>9. ASSUME NEW k, RevokeKey(k) \/ (\E b : Checkout(b, k)) PROVE FALSE
    BY <1>8, <1>9 DEF RevokeKey, Checkout, Purchase, db
  <1>10. ASSUME NEW email, (\E tier : CreateKey(tier, email)) \/ LicenseCheckout(email)
         PROVE  FALSE
    BY <1>8, <1>10 DEF CreateKey, LicenseCheckout, Purchase, db
  <1>11. CASE UNCHANGED vars
    BY <1>8, <1>11 DEF vars, db
  <1>12. QED BY <1>2, <1>3, <1>4, <1>5, <1>6, <1>7, <1>9, <1>10, <1>11 DEF Next

(* The newest key is missing only where there is none. *)
LEMMA NewestKey ==
    ASSUME apiKeys \in Seq(Rows), NEW email, LicensedKeys(email) = {}
    PROVE  \A k \in Valid : apiKeys[k].email # email
  <1> DEFINE own == {k \in Valid : apiKeys[k].email = email}
             Age(k) == Len(apiKeys) - k
             Less == {p \in Nat \X Nat : p[1] < p[2]}
  <1>1. Len(apiKeys) \in Nat /\ \A k \in own : k \in 1 .. Len(apiKeys)
    BY DEF Valid
  <1>2. SUFFICES ASSUME own # {} PROVE FALSE
    OBVIOUS
  <1>3. IsWellFoundedOn(Less, Nat)
    <2>1. Less = OpToRel(<, Nat)
      BY Zenon DEF OpToRel
    <2>2. QED BY <2>1, NatLessThanWellFounded, Zenon
  <1>4. {Age(k) : k \in own} \subseteq Nat /\ {Age(k) : k \in own} # {}
    BY <1>1, <1>2
  <1>5. PICK a \in {Age(k) : k \in own} : \A b \in {Age(k) : k \in own} : ~(<<b, a>> \in Less)
    <2> HIDE DEF Less, own
    <2> QED BY <1>3, <1>4, WFMin
  <1>6. PICK k \in own : a = Age(k)
    BY <1>5
  <1>7. \A l \in own : l <= k
    <2> SUFFICES ASSUME NEW l \in own, ~(l <= k) PROVE FALSE
      OBVIOUS
    <2>1. <<Age(l), a>> \in Less
      BY <1>1, <1>6
    <2>2. QED BY <1>5, <2>1
  <1>8. QED BY <1>6, <1>7 DEF LicensedKeys

(* Why a statement has found no row. *)
LEMMA LossOfApply ==
    ASSUME BillingInv, UpgradesInv, NEW h \in Handlers, Apply(h), applied'[event[h]] = 0
    PROVE  LET n == event[h][1] IN
           /\ event[h][2] # "checkout"
           /\ IF event[h][2] = "license"
              THEN \A k \in Valid : apiKeys[k].email # purchases[n].email
              ELSE apiKeys[purchases[n].key].subscription # n /\ ~OnlyUpgrade(n)
  <1>1. /\ pc[h] = "apply" /\ apiKeys \in Seq(Rows) /\ applied \in [Events -> Nat]
    BY ApplyCounts DEF BillingInv, BooksOK, OnceInv, HandlersOK
  <1>2. PICK n \in 1 .. MaxPurchases, type \in Types \union {"license"} : event[h] = <<n, type>>
    BY <1>1 DEF BillingInv, BooksOK, Issued, Events
  <1>3. /\ n \in DOMAIN purchases /\ n # 0
        /\ <<n, type>> \in Events /\ applied[<<n, type>>] = 0
        /\ IsLicense(n) <=> type = "license"
    BY <1>1, <1>2, AppliedEvent, StripeWebhookAssumption
  <1>4. Matched(n, type) = {}
    <2>1. event[h][1] = n /\ event[h][2] = type /\ applied'[<<n, type>>] = 0
      BY <1>2
    <2>2. ASSUME applied' = [applied EXCEPT ![<<n, type>>] = applied[<<n, type>>] + 1]
          PROVE  FALSE
      BY <1>1, <1>3, <2>1, <2>2
    <2>3. QED BY <1>2, <2>1, <2>2, ApplyCounts
  <1>5. type # "license" => purchases[n].key \in DOMAIN apiKeys
    BY <1>3 DEF UpgradesInv
  <1>6. type # "checkout"
    BY <1>4, <1>5 DEF Matched
  <1>7. CASE type = "license"
    BY <1>1, <1>2, <1>4, <1>7, NewestKey DEF Matched
  <1>8. CASE type # "license"
    <2> DEFINE j == purchases[n].key
    <2>1. j \in DOMAIN apiKeys /\ apiKeys[j].customer # n
      BY <1>4, <1>5, <1>6, <1>8 DEF Matched, OfCustomer
    <2>2. apiKeys[j].subscription # n
      BY <1>3, <2>1 DEF UpgradesInv
    <2>3. ASSUME OnlyUpgrade(n) PROVE FALSE
      <3>1. apiKeys[j].customer # 0
        BY <1>3, <1>8, <2>3 DEF UpgradesInv, OnlyUpgrade
      <3>2. PICK c : c = apiKeys[j].customer
        OBVIOUS
      <3>3. /\ c \in DOMAIN purchases /\ ~IsLicense(c) /\ purchases[c].buyer = j
            /\ Upgraded(c)
        BY <2>1, <3>1, <3>2 DEF BillingInv, CustomerIsBuyer, UpgradesInv
      <3>4. purchases[c].key = j /\ c # n
        BY <2>1, <3>2, <3>3, OwnPurchase
      <3>5. QED BY <2>3, <3>3, <3>4 DEF OnlyUpgrade
    <2>4. QED BY <1>2, <1>6, <1>8, <2>2, <2>3
  <1>9. QED BY <1>7, <1>8

(* Trouble is counted one by one. *)
LEMMA TroubleCounts ==
    ASSUME trouble \in Nat, [Next]_vars
    PROVE  trouble' \in {trouble, trouble + 1}
  <1>1. ASSUME NEW h, NEW e, Record(h, e) \/ Duplicate(h, e) \/ Apply(h) \/ Reply(h) \/ Fail(h)
        PROVE  trouble' \in {trouble, trouble + 1}
    BY <1>1 DEF Record, Duplicate, Apply, Reply, Fail
  <1>2. ASSUME NEW h, Apply(h) \/ Reply(h) \/ Fail(h) PROVE trouble' \in {trouble, trouble + 1}
    BY <1>2 DEF Apply, Reply, Fail
  <1>3. CASE Crash
    BY <1>3 DEF Crash
  <1>4. ASSUME NEW k, RevokeKey(k) \/ \E b : Checkout(b, k) PROVE trouble' = trouble
    BY <1>4 DEF RevokeKey, Checkout, Purchase
  <1>5. ASSUME NEW email, (\E tier : CreateKey(tier, email)) \/ LicenseCheckout(email)
        PROVE  trouble' = trouble
    BY <1>5 DEF CreateKey, LicenseCheckout, Purchase
  <1>6. CASE UNCHANGED vars
    BY <1>6 DEF vars
  <1>7. QED BY <1>1, <1>2, <1>3, <1>4, <1>5, <1>6 DEF Next

LossInv == BillingInv /\ UpgradesInv /\ trouble \in Nat

(* The invariant holds in every reachable state. *)
THEOREM LossInvariance == Spec => []LossInv
  <1>1. Init => LossInv
    BY InitBilling, InitUpgrades DEF Init, LossInv
  <1>2. LossInv /\ [Next]_vars => LossInv'
    <2> SUFFICES ASSUME LossInv, [Next]_vars PROVE LossInv'
      OBVIOUS
    <2>1. trouble' \in Nat
      BY TroubleCounts DEF LossInv
    <2>2. QED BY <2>1, NextBilling, NextUpgrades DEF LossInv
  <1>3. QED BY <1>1, <1>2, PTL DEF Spec

(* Without trouble a checkout is never lost, a licence only when no key of *)
(* its address is valid, and another event of a subscription only when its *)
(* key does not hold that subscription, because the event has overtaken    *)
(* the checkout or another purchase of the key has come between.           *)
THEOREM LossesAccounted == Spec => LossesExplained
  <1> DEFINE Reason(e) == LET n == e[1] IN
               /\ e[2] # "checkout"
               /\ IF e[2] = "license"
                  THEN \A k \in Valid : apiKeys[k].email # purchases[n].email
                  ELSE apiKeys[purchases[n].key].subscription # n /\ ~OnlyUpgrade(n)
             Explained == trouble' = trouble => \A e \in Lost' \ Lost : Reason(e)
  <1>1. LossInv /\ [Next]_vars => [Explained]_vars
    <2> SUFFICES ASSUME LossInv, Next, trouble' = trouble, NEW e \in Lost' \ Lost
                 PROVE  Reason(e)
      OBVIOUS
    <2>1. PICK h \in Handlers : Apply(h) /\ event[h] = e /\ applied'[e] = 0
      BY OnlyApplyLoses DEF LossInv, BillingInv
    <2>2. QED BY <2>1, LossOfApply DEF LossInv
  <1>2. QED BY <1>1, LossInvariance, PTL DEF Spec, LossesExplained

-------------------------------------------------------------------------------
(* Until there is trouble, a recorded checkout has upgraded its key or is  *)
(* about to.                                                               *)
CheckoutsKept ==
    /\ acked \subseteq stripeEvents
    /\ \A h \in Handlers : pc[h] # "idle" => event[h] \in stripeEvents
    /\ trouble = 0 => \A e \in stripeEvents : e[2] = "checkout" => e \notin Lost

(* Every step keeps that: what is lost without trouble is no checkout.     *)
LEMMA NextCheckouts == LossInv /\ CheckoutsKept /\ [Next]_vars => CheckoutsKept'
  <1> SUFFICES ASSUME LossInv, CheckoutsKept, [Next]_vars PROVE CheckoutsKept'
    OBVIOUS
  <1>1. HandlersOK
    BY DEF LossInv, BillingInv, OnceInv
  <1>2. /\ acked' \subseteq stripeEvents'
        /\ \A h \in Handlers : pc'[h] # "idle" => event'[h] \in stripeEvents'
    <2> USE DEF CheckoutsKept, HandlersOK
    <2> DEFINE Kept == /\ acked' \subseteq stripeEvents'
                       /\ \A h \in Handlers : pc'[h] # "idle" => event'[h] \in stripeEvents'
    <2>1. ASSUME NEW h \in Handlers, NEW e \in Events, Record(h, e) PROVE Kept
      BY <1>1, <2>1 DEF Record
    <2>2. ASSUME NEW h \in Handlers, NEW e \in Events, Duplicate(h, e) PROVE Kept
      BY <1>1, <2>2 DEF Duplicate, db, handler
    <2>3. ASSUME NEW h \in Handlers, Apply(h) PROVE Kept
      <3>1. /\ pc[h] = "apply" /\ pc' = [pc EXCEPT ![h] = "reply"]
            /\ UNCHANGED <<acked, stripeEvents, event>>
        BY <2>3, ApplyCounts
      <3>2. QED BY <1>1, <3>1
    <2>4. ASSUME NEW h \in Handlers, Reply(h) PROVE Kept
      BY <1>1, <2>4 DEF Reply, Stop, db
    <2>5. ASSUME NEW h \in Handlers, Fail(h) PROVE Kept
      BY <1>1, <2>5 DEF Fail, Stop, db
    <2>6. CASE Crash
      BY <1>1, <2>6 DEF Crash, db
    <2>7. ASSUME UNCHANGED <<acked, stripeEvents, handler>> PROVE Kept
      BY <2>7 DEF handler
    <2>8. ASSUME NEW k, RevokeKey(k) \/ \E b : Checkout(b, k) PROVE Kept
      BY <2>7, <2>8 DEF RevokeKey, Checkout, Purchase, db
    <2>9. ASSUME NEW email, (\E tier : CreateKey(tier, email)) \/ LicenseCheckout(email)
          PROVE  Kept
      BY <2>7, <2>9 DEF CreateKey, LicenseCheckout, Purchase, db
    <2>10. CASE UNCHANGED vars
      BY <2>7, <2>10 DEF vars, db
    <2>11. QED BY <2>1, <2>2, <2>3, <2>4, <2>5, <2>6, <2>8, <2>9, <2>10 DEF Next
  <1>3. ASSUME trouble' = 0, NEW e \in stripeEvents', e[2] = "checkout", e \in Lost'
        PROVE  FALSE
    <2>1. trouble = 0
      BY <1>3, TroubleCounts DEF LossInv
    <2>2. e \notin Lost
      BY <1>3, <2>1 DEF CheckoutsKept, Lost
    <2>3. PICK h \in Handlers : Apply(h) /\ event[h] = e /\ applied'[e] = 0
      BY <1>3, <2>1, <2>2, OnlyApplyLoses DEF LossInv, BillingInv
    <2>4. QED BY <1>3, <2>3, LossOfApply DEF LossInv
  <1>4. QED BY <1>2, <1>3 DEF CheckoutsKept

(* Until the first failure or crash, a checkout that is acknowledged to    *)
(* Stripe has upgraded its key or is about to, which is what the           *)
(* documentation claims without that condition.                            *)
THEOREM CheckoutsAppliedWithoutTrouble == Spec => [](trouble = 0 => AckedIsApplied)
  <1>1. Init => CheckoutsKept
    BY DEF Init, CheckoutsKept
  <1>2. LossInv /\ CheckoutsKept => (trouble = 0 => AckedIsApplied)
    BY DEF LossInv, BillingInv, OnceInv, HandlersOK, CheckoutsKept, Lost, AckedIsApplied
  <1>3. QED BY <1>1, <1>2, LossInvariance, NextCheckouts, PTL DEF Spec
===============================================================================
