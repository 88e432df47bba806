----------------------------- MODULE LossyCache -----------------------------
(***************************************************************************)
(* What KSharedDataCache promises a client, without its tables: a cache    *)
(* that may forget anything at any write, but never invents, mixes up or   *)
(* tears data.  For every key it holds a set of values, because an         *)
(* overwrite may leave the old copy in another slot of the probe chain.    *)
(*                                                                         *)
(* A store that fails in one process spoils a key for the others that map   *)
(* the same segment: of that key, and no other, they may read anything      *)
(* until the entry is gone.                                                *)
(***************************************************************************)
CONSTANTS
    Keys, Values,
    Alike           \* the keys that are taken for each other but for their name

VARIABLES
    held,       \* the values stored under every key
    spoiled,    \* keys that have an entry whose data was never written
    reply       \* what the last operation returned

Nothing == [k \in Keys |-> {}]

(* g holds no more than f. *)
Forgets(f, g) == \A k \in Keys : g[k] \subseteq f[k]

Init == held = Nothing /\ spoiled = {} /\ reply = "none"

(* A successful insert stores the value; both kinds may evict.              *)
Insert(k, v) ==
    /\ held' \in [Keys -> SUBSET Values]
    /\ spoiled' \subseteq spoiled
    /\ \/ /\ reply' = "true"
          /\ v \in held'[k]
          /\ Forgets([held EXCEPT ![k] = @ \cup {v}], held')
       \/ /\ reply' = "false"
          /\ Forgets(held, held')

(* An insert that fails half-way, for the others: nothing is stored, and one  *)
(* key that may be taken for its own is spoiled.                           *)
Fail(k) ==
    /\ reply' = "corrupt"
    /\ held' \in [Keys -> SUBSET Values] /\ Forgets(held, held')
    /\ \E other \in Alike[k] : spoiled' \subseteq spoiled \cup {other}

(* The cache gives up its memory and starts empty. *)
Recover == reply' = "corrupt" /\ held' = Nothing /\ spoiled' = {}

(* A hit returns a value that was stored under this very key.  When it finds  *)
(* that it may not read the entry the others keep what they have.           *)
Find(k) ==
    /\ \/ reply' \in held[k] \cup {"false", "corrupt"}
       \/ k \in spoiled /\ reply' \in Values \cup {"torn"}
    /\ UNCHANGED <<held, spoiled>>

Contains(k) ==
    /\ reply' \in {"false"} \cup IF held[k] = {} /\ k \notin spoiled THEN {} ELSE {"true"}
    /\ UNCHANGED <<held, spoiled>>

(* A remove touches no other key, and takes at most one value of its own.  *)
Remove(k) ==
    \/ reply' = "false" /\ UNCHANGED <<held, spoiled>>
    \/ /\ reply' = "true"
       /\ \/ k \in spoiled /\ UNCHANGED held
          \/ \E v \in held[k] : held' \in {held, [held EXCEPT ![k] = @ \ {v}]}
       /\ spoiled' \in {spoiled, spoiled \ {k}}

Clear == reply' = "none" /\ held' = Nothing /\ spoiled' = {}

(* The operations on the header words. *)
SetHeader == reply' = "none" /\ UNCHANGED <<held, spoiled>>

Next ==
    \/ \E k \in Keys, v \in Values : Insert(k, v)
    \/ \E k \in Keys : Fail(k) \/ Find(k) \/ Contains(k) \/ Remove(k)
    \/ Recover \/ Clear \/ SetHeader

Spec == Init /\ [][Next]_<<held, spoiled, reply>>
=============================================================================
