-------------------------- MODULE KSharedDataCacheWin --------------------------
(***************************************************************************)
(* The cache where there is no shared memory (kshareddatacache_win.cpp),   *)
(* which keeps the items of one process in a QCache.  Every item has the   *)
(* cost 1, so that the size of the cache is a number of items.  Items are   *)
(* in the order in which they were last used, the least recent first.      *)
(***************************************************************************)
EXTENDS Integers, SequencesExt

None == "no value"

(* QCache: insert(), remove(), object() and contains(), as far as they are used *)
(* with a cost of 1.                                                       *)
Without(items, key) == SelectSeq(items, LAMBDA e : e.key # key)
HasKey(items, key) == \E i \in DOMAIN items : items[i].key = key
ValueOf(items, key) == (CHOOSE e \in ToSet(items) : e.key = key).value
QCacheInsert(items, maxCost, key, value) ==
    LET others == Without(items, key)
        room == SubSeq(others, Max({1, Len(others) - maxCost + 2}), Len(others))
    IN IF maxCost < 1 THEN others ELSE Append(room, [key |-> key, value |-> value])
QCacheUse(items, key) ==
    IF HasKey(items, key) THEN Append(Without(items, key), [key |-> key, value |-> ValueOf(items, key)])
    ELSE items

-----------------------------------------------------------------------------
KSharedDataCache(defaultCacheSize) == [items |-> <<>>, maxCost |-> defaultCacheSize, answer |-> None]

insert(c, key, value) ==
    [c EXCEPT !.items = QCacheInsert(@, c.maxCost, key, value), !.answer = c.maxCost >= 1]
remove(c, key) == [c EXCEPT !.items = Without(@, key), !.answer = HasKey(c.items, key)]
find(c, key) ==
    [c EXCEPT !.items = QCacheUse(@, key),
              !.answer = IF HasKey(c.items, key) THEN ValueOf(c.items, key) ELSE None]
clear(c) == [c EXCEPT !.items = <<>>]
contains(c, key) == HasKey(c.items, key)
totalSize(c) == c.maxCost
freeSize(c) == IF Len(c.items) < c.maxCost THEN c.maxCost - Len(c.items) ELSE 0

Called(c, call) ==
    CASE call.op = "insert" -> insert(c, call.key, call.value)
      [] call.op = "remove" -> remove(c, call.key)
      [] call.op = "find" -> find(c, call.key)
      [] call.op = "clear" -> clear(c)

After(size, history) == FoldLeft(Called, KSharedDataCache(size), history)

-----------------------------------------------------------------------------
(* The promise of the shared cache: what is found under a key is what was last  *)
(* inserted and not removed since; what was inserted as the last thing is     *)
(* found, the cache never holds more than its size, and an item is dropped   *)
(* only when as many as fit were used after it.                            *)
LastCall(history, key) ==
    LET calls == {i \in DOMAIN history :
                     \/ history[i].op = "clear"
                     \/ history[i].op \in {"insert", "remove"} /\ history[i].key = key}
    IN IF calls = {} THEN 0 ELSE Max(calls)
LastUse(size, history, key) ==
    Max({0} \cup {i \in DOMAIN history :
                     /\ history[i].op \in {"insert", "find"} /\ history[i].key = key
                     /\ contains(After(size, SubSeq(history, 1, i)), key)})

CachePromised(keys, size, history) ==
    LET c == After(size, history)
        Inserted(key) == LastCall(history, key) # 0 /\ history[LastCall(history, key)].op = "insert"
    IN /\ Len(c.items) + freeSize(c) = totalSize(c)
       /\ \A key \in keys :
             LET found == find(c, key).answer
             IN /\ contains(c, key) = (found # None)
                /\ found # None => Inserted(key) /\ found = history[LastCall(history, key)].value
                /\ Inserted(key) /\ found = None /\ size > 0 =>
                      Cardinality({k \in keys : LastUse(size, history, k) > LastUse(size, history, key)}) >= size
                /\ found # None =>
                      \A k \in keys :
                          Inserted(k) /\ LastCall(history, k) > LastUse(size, history, key) => contains(c, k)
       /\ history # <<>> /\ Last(history).op = "insert" =>
             c.answer = contains(c, Last(history).key) /\ c.answer = (size > 0)
=============================================================================
