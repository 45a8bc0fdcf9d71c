----------------------------- MODULE StripeWebhook -----------------------------
(***************************************************************************)
(* Billing: the checkouts (api/routes/checkout.py), the events Stripe      *)
(* sends about them to POST /v1/billing/webhook (api/routes/webhooks.py),  *)
(* and the commands of admin.py, over the key store.  Stripe delivers      *)
(* every event until it is acknowledged: more than once, overlapping, in   *)
(* any order.  The handler records the event, drops it if it was recorded  *)
(* before, applies it to the rows of api_keys and acknowledges.  Between   *)
(* two of its steps the process may crash; each of them may fail.          *)
(***************************************************************************)
EXTENDS KeyStore, FiniteSets

CONSTANTS
    Handlers,       \* deliveries handled at the same time
    Emails,
    SubscriptionEvents,     \* the events of the n-th purchase, if a subscription
    InitialKeys,    \* api_keys at the start
    MaxKeys, MaxPurchases,
    MaxTrouble,     \* crashes and failures in a behaviour
    NoEvent

Types == {"checkout", "updated", "deleted", "failed", "paid"}

(* An event is its purchase and its type. *)
Events ==
    {e \in (1 .. MaxPurchases) \X (Types \union {"license"}) :
        e[2] \in SubscriptionEvents[e[1]] \union {"license"}}

Tiers == {"free", "starter", "pro", "enterprise"}

ASSUME StripeWebhookAssumption ==
    /\ InitialKeys \in Seq({NewKey(tier, email) : tier \in Tiers, email \in Emails})
    /\ SubscriptionEvents \in [1 .. MaxPurchases -> SUBSET Types]
    /\ IsFiniteSet(Handlers)
    /\ NoEvent \notin Events
    /\ MaxKeys \in Nat /\ MaxPurchases \in Nat /\ MaxTrouble \in Nat

VARIABLES
    purchases,      \* the completed checkouts, at Stripe
    acked,          \* acknowledged to Stripe: external
    stripeEvents,   \* the table stripe_events
    applied,        \* how often the statement of each event has found a row
    pc, event,      \* where each delivery is, and what it delivers
    trouble

handler == <<pc, event>>
db == <<stripeEvents, apiKeys, applied>>
vars == <<purchases, acked, db, handler, trouble>>

Init ==
    /\ apiKeys = InitialKeys
    /\ purchases = <<>>
    /\ acked = {}
    /\ stripeEvents = {}
    /\ applied = [e \in Events |-> 0]
    /\ pc = [h \in Handlers |-> "idle"]
    /\ event = [h \in Handlers |-> NoEvent]
    /\ trouble = 0

-------------------------------------------------------------------------------
(* create-key and revoke-key, in a process of their own. *)
CreateKey(tier, email) ==
    /\ Len(apiKeys) < MaxKeys
    /\ Create(tier, email)
    /\ UNCHANGED <<purchases, acked, stripeEvents, applied, handler, trouble>>

RevokeKey(k) ==
    /\ k \in Valid
    /\ Revoke(k)
    /\ UNCHANGED <<purchases, acked, stripeEvents, applied, handler, trouble>>

Purchase(p) ==
    /\ Len(purchases) < MaxPurchases
    /\ purchases' = Append(purchases, p)
    /\ UNCHANGED <<acked, db, handler, trouble>>

(* Mutant of Checkout: for any key. *)
CheckoutForAny(buyer, k) ==
    buyer \in Valid /\ Purchase([buyer |-> buyer, key |-> k])

(* A checkout is for the key that asks (403 otherwise); its customer pays  *)
(* at Stripe, now or later: the session and its completion are one step.   *)
Checkout(buyer, k) ==
    buyer \in Valid /\ k = buyer /\ Purchase([buyer |-> buyer, key |-> k])

(* Needs no key. *)
LicenseCheckout(email) == Purchase([email |-> email])

IsLicense(n) == "email" \in DOMAIN purchases[n]

(* What Stripe has to report. *)
Issued ==
    {e \in Events : /\ e[1] \in DOMAIN purchases
                    /\ IsLicense(e[1]) <=> e[2] = "license"}

-------------------------------------------------------------------------------
Stop(h) ==
    /\ pc' = [pc EXCEPT ![h] = "idle"]
    /\ event' = [event EXCEPT ![h] = NoEvent]

(* Mutant of Record: nothing is a duplicate.                               *)
RecordAlways(h, e) ==
    /\ pc[h] = "idle"
    /\ e \in Issued \ acked
    /\ stripeEvents' = stripeEvents \union {e}
    /\ pc' = [pc EXCEPT ![h] = "apply"]
    /\ event' = [event EXCEPT ![h] = e]
    /\ UNCHANGED <<purchases, acked, apiKeys, applied, trouble>>

(* A delivery with a valid signature runs INSERT ... ON CONFLICT DO        *)
(* NOTHING, and returned a row.  What fails before the statement changes   *)
(* nothing and is delivered again.                                         *)
Record(h, e) ==
    /\ pc[h] = "idle"
    /\ e \in Issued \ (acked \union stripeEvents)
    /\ stripeEvents' = stripeEvents \union {e}
    /\ pc' = [pc EXCEPT ![h] = "apply"]
    /\ event' = [event EXCEPT ![h] = e]
    /\ UNCHANGED <<purchases, acked, apiKeys, applied, trouble>>

(* It returned no row: the delivery is acknowledged at once.  (An answer   *)
(* that is lost changes nothing.)                                          *)
Duplicate(h, e) ==
    /\ pc[h] = "idle"
    /\ e \in Issued /\ e \in stripeEvents \ acked
    /\ acked' = acked \union {e}
    /\ UNCHANGED <<purchases, db, handler, trouble>>

(* The one statement of the event's type, on the object it carries.        *)
Effect(n, type) ==
    CASE type = "checkout" -> UpgradeTier(purchases[n].key, "pro", n)
      [] type = "license"  -> AddLicense(purchases[n].email, n)
      [] type = "updated"  -> UpdateSubscriptionStatus(n, "updated")
      [] type = "deleted"  -> DowngradeToFree(n)
      [] type = "failed"   -> UpdateSubscriptionStatus(n, "past_due")
      [] type = "paid"     -> UpdateSubscriptionStatus(n, "active")

(* The keys that statement is about.  There may be none: nobody looks at   *)
(* the number of rows it has changed.                                      *)
Matched(n, type) ==
    CASE type = "checkout" -> {purchases[n].key} \cap DOMAIN apiKeys
      [] type = "license"  -> LicensedKeys(purchases[n].email)
      [] OTHER             -> OfCustomer(n)

Execute(e) ==
    /\ Effect(e[1], e[2])
    /\ applied' = IF Matched(e[1], e[2]) = {} THEN applied
                  ELSE [applied EXCEPT ![e] = @ + 1]

Apply(h) ==
    /\ pc[h] = "apply"
    /\ Execute(event[h])
    /\ pc' = [pc EXCEPT ![h] = "reply"]
    /\ UNCHANGED <<purchases, acked, stripeEvents, event, trouble>>

(* {"received": True} *)
Reply(h) ==
    /\ pc[h] = "reply"
    /\ acked' = acked \union {event[h]}
    /\ Stop(h)
    /\ UNCHANGED <<purchases, db, trouble>>

(* A database call raises, or the answer is lost: Stripe gets no 200 and   *)
(* will deliver again.                                                     *)
Fail(h) ==
    /\ pc[h] # "idle"
    /\ trouble < MaxTrouble
    /\ trouble' = trouble + 1
    /\ Stop(h)
    /\ UNCHANGED <<purchases, acked, db>>

(* The process dies with all its handlers and is started again. *)
Crash ==
    /\ trouble < MaxTrouble
    /\ trouble' = trouble + 1
    /\ pc' = [h \in Handlers |-> "idle"]
    /\ event' = [h \in Handlers |-> NoEvent]
    /\ UNCHANGED <<purchases, acked, db>>

Next ==
    \/ \E h \in Handlers :
         \/ \E e \in Events : Record(h, e) \/ Duplicate(h, e)
         \/ Apply(h) \/ Reply(h) \/ Fail(h)
    \/ Crash
    \/ \E k \in DOMAIN apiKeys : RevokeKey(k) \/ \E b \in DOMAIN apiKeys : Checkout(b, k)
    \/ \E email \in Emails :
         (\E tier \in {"free", "enterprise"} : CreateKey(tier, email)) \/ LicenseCheckout(email)

Spec == Init /\ [][Next]_vars

-------------------------------------------------------------------------------
(* Every variable has its type; what is acknowledged has been recorded,    *)
(* and so has what is being applied.                                       *)
TypeOK ==
    /\ Len(apiKeys) <= MaxKeys /\ Len(purchases) <= MaxPurchases
    /\ stripeEvents \subseteq Issued
    /\ acked \subseteq stripeEvents
    /\ \A k \in DOMAIN apiKeys :
         apiKeys[k] \in [tier : Tiers, email : Emails, revoked : BOOLEAN,
                         customer : 0 .. MaxPurchases, subscription : 0 .. MaxPurchases,
                         status : {"none", "active", "updated", "past_due", "canceled"},
                         license : 0 .. MaxPurchases]
    /\ applied \in [Events -> Nat]
    /\ pc \in [Handlers -> {"idle", "apply", "reply"}]
    /\ \A h \in Handlers : /\ pc[h] = "idle" <=> event[h] = NoEvent
                           /\ pc[h] # "idle" => event[h] \in stripeEvents
    /\ trouble \in 0 .. MaxTrouble

(* An event changes the database at most once, however often and however   *)
(* concurrently it is delivered, across crashes and failures: a licence    *)
(* that was paid once is never drawn and stored a second time.             *)
AppliedAtMostOnce == \A e \in Events : applied[e] <= 1

(* A licence ends up on one key at most, and on a key of the address that  *)
(* paid for it, whatever keys are created and revoked in the meantime.     *)
LicenseOnOneKey ==
    \A k, l \in DOMAIN apiKeys :
        LET n == apiKeys[k].license
        IN  n # 0 => /\ apiKeys[k].email = purchases[n].email
                     /\ apiKeys[l].license = n => l = k

(* A key's tier follows what that key itself bought, and nothing else: it  *)
(* changes to the paid one with the first application of a checkout of its *)
(* own, and to "free" with the deletion of the subscription it holds.  No  *)
(* redelivery, no invoice that comes after the deletion, no purchase of    *)
(* another key and no older subscription moves it.                         *)
TierFollowsPurchases ==
    [][\A k \in DOMAIN apiKeys : apiKeys'[k].tier # apiKeys[k].tier =>
         \E n \in DOMAIN purchases :
            /\ ~IsLicense(n) /\ purchases[n].buyer = k
            /\ LET type == IF apiKeys'[k].tier = "free" THEN "deleted" ELSE "checkout"
               IN  applied[<<n, type>>] = 0 /\ applied'[<<n, type>>] = 1
            /\ apiKeys'[k].tier = "free" => apiKeys[k].subscription = n]_vars

(* The events that are recorded, and so dropped for good when they are     *)
(* delivered again, but have changed no row and will not.                  *)
Lost == {e \in stripeEvents :
            applied[e] = 0 /\ \A h \in Handlers : pc[h] = "apply" => event[h] # e}

(* The checkout of this purchase has upgraded its key. *)
Upgraded(n) == <<n, "checkout">> \in Events /\ applied[<<n, "checkout">>] > 0

(* And that of no other purchase has. *)
OnlyUpgrade(n) ==
    /\ Upgraded(n)
    /\ \A m \in DOMAIN purchases \ {n} :
         ~IsLicense(m) /\ purchases[m].key = purchases[n].key => ~Upgraded(m)

(* How an event is lost.  A failure or a crash may interrupt any.  Without *)
(* one a checkout never is; a licence is when no key of its address is     *)
(* valid at that moment; what else Stripe reports of a subscription is     *)
(* when the key does not hold that subscription, because the event has     *)
(* overtaken the checkout or another purchase of the key has come between. *)
LossesExplained ==
    [][trouble' = trouble =>
         \A e \in Lost' \ Lost :
            LET n == e[1] IN
            /\ e[2] # "checkout"
            /\ IF e[2] = "license"
               THEN \A k \in Valid : apiKeys[k].email # purchases[n].email
               ELSE apiKeys[purchases[n].key].subscription # n /\ ~OnlyUpgrade(n)]_vars

(* "checkout.session.completed with key_id and tier metadata: Upgrade the  *)
(* API key tier" (docs/BILLING_TEST_MODE.md:65): a checkout that is        *)
(* acknowledged has upgraded its key or is about to.                       *)
AckedIsApplied ==
    \A e \in acked : e[2] = "checkout" =>
        applied[e] > 0 \/ \E h \in Handlers : event[h] = e
===============================================================================
