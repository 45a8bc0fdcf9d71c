--------------------------- MODULE MCStripeWebhook ---------------------------
(* One key at first, and one more of the same or of another address; two   *)
(* purchases, each a subscription or a licence; the first subscription is  *)
(* also paid; two deliveries at a time.                                    *)
EXTENDS StripeWebhook, TLC

CONSTANTS h1, h2, a, b

MCSubscriptionEvents == <<{"checkout", "paid", "deleted"}, {"checkout", "deleted"}>>
MCInitialKeys == <<NewKey("free", a)>>
HandlersAlike == Permutations(Handlers)
==============================================================================
