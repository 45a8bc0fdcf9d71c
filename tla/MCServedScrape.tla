--------------------------- MODULE MCServedScrape ---------------------------
(* Two requests without a session (scrape_endpoint has them with one), two *)
(* workers, BrightData in front of Decodo with one proxy, two regions.     *)
(* Without sessions it does not matter where they would be stored.         *)
EXTENDS ServedScrape, TLC

CONSTANTS r1, r2, k1, w1, w2, bright, dec, p1, jp, us

MCCheckOrder == <<dec>>
Alike == Permutations({r1, r2}) \union Permutations({w1, w2})
OneStoreInit == ServedInit /\ persistent
OneStoreSpec == OneStoreInit /\ [][ServedNext]_servedVars
=============================================================================
