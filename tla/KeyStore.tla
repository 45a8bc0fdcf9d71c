-------------------------------- MODULE KeyStore --------------------------------
(***************************************************************************)
(* The API keys (db/auth_store.py, PostgresKeyStore): the table api_keys   *)
(* and the statements that read and write it, each one transaction.  Rows  *)
(* are never deleted, so a key is the position of its row, in the order of *)
(* created_at.  Raw keys and hashes are left out: whoever holds a key can  *)
(* present it, and nobody else.                                            *)
(***************************************************************************)
EXTENDS Integers, Sequences

VARIABLE apiKeys

(* The columns billing writes: NULL is 0 (or "none"); a customer, a        *)
(* subscription and a licence carry the number of the purchase they come   *)
(* from, as Stripe names a new customer in every checkout.                 *)
NewKey(tier, email) ==
    [tier |-> tier, email |-> email, revoked |-> FALSE, customer |-> 0,
     subscription |-> 0, status |-> "none", license |-> 0]

Create(tier, email) == apiKeys' = Append(apiKeys, NewKey(tier, email))

(* UPDATE api_keys SET ... WHERE ...: the rows in ks, each through Set.    *)
Update(ks, Set(_)) ==
    apiKeys' = [k \in DOMAIN apiKeys |-> IF k \in ks THEN Set(apiKeys[k]) ELSE apiKeys[k]]

(* verify(): the keys that open the API. *)
Valid == {k \in DOMAIN apiKeys : ~apiKeys[k].revoked}

(* revoke() does not touch what billing wrote. *)
Revoke(k) == Update({k}, LAMBDA r : [r EXCEPT !.revoked = TRUE])

OfCustomer(c) == {k \in DOMAIN apiKeys : apiKeys[k].customer = c}

(* Mutant of UpgradeTier: COALESCE(stripe_customer_id, $3). *)
UpgradeTierOfFirst(k, tier, c) ==
    Update({k}, LAMBDA r : [r EXCEPT !.tier = tier, !.subscription = c,
                                     !.customer = IF @ = 0 THEN c ELSE @, !.status = "active"])

(* By key_id, revoked or not. *)
UpgradeTier(k, tier, c) ==
    Update({k}, LAMBDA r : [r EXCEPT !.tier = tier, !.subscription = c,
                                     !.customer = c, !.status = "active"])

UpdateSubscriptionStatus(c, status) ==
    Update(OfCustomer(c), LAMBDA r : [r EXCEPT !.status = status])

DowngradeToFree(c) ==
    Update(OfCustomer(c), LAMBDA r : [r EXCEPT !.tier = "free", !.subscription = 0,
                                               !.status = "canceled"])

(* Mutant of LicensedKeys: without the LIMIT. *)
EveryKeyOf(email) == {k \in Valid : apiKeys[k].email = email}

(* The newest valid key of the address; without one the statement changes  *)
(* no row.  (add_license() also takes a key_id; the licence checkout sends *)
(* none, and the webhook passes the address it was paid from.)             *)
LicensedKeys(email) ==
    LET own == {k \in Valid : apiKeys[k].email = email}
    IN  {k \in own : \A l \in own : l <= k}

AddLicense(email, license) ==
    Update(LicensedKeys(email), LAMBDA r : [r EXCEPT !.license = license])
===============================================================================
