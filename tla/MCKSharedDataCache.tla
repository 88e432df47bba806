------------------------- MODULE MCKSharedDataCache -------------------------
(* Instances of KSharedDataCache for TLC.  Sizes are in bytes. *)
EXTENDS KSharedDataCache, TLC

CONSTANTS k1, k2, k3, small, medium, large

(* Of three slots, k1 and k2 have the same chain and another hash; k3 starts *)
(* one slot on.                                                            *)
MCHash == [k \in Keys |-> CASE k = k1 -> 3 [] k = k2 -> 6 [] k = k3 -> 1]

(* k1 and k3 have the same hash; k2 shares their chain. *)
CollidingHash == [k \in Keys |-> CASE k = k1 -> 3 [] k = k2 -> 6 [] k = k3 -> 3]

MCKeyLength == [k \in Keys |-> 1]

(* With a key of one byte: items of one, two and three pages of four bytes. *)
MCDataSize ==
    [v \in Values |-> CASE v = small -> 2 [] v = medium -> 4 [] v = large -> 10]
=============================================================================
