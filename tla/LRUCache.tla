------------------------------ MODULE LRUCache ------------------------------
(***************************************************************************)
(* LRUCache of lru.h with the hash table under it, and the clients that    *)
(* share it: threads that look a key up, load its value with no lock held  *)
(* when it is not there, and insert it (as TableCache::FindTable and       *)
(* Table::BlockReader do; see the known issue in cache.cc).  One action is *)
(* one call on the cache, which the mutex of its shard makes atomic.       *)
(*                                                                         *)
(* The heap is a set of slots: an entry lives in one from Insert until it  *)
(* is freed, and the next Insert may get the same slot.  The hash table is *)
(* the function from keys to entries that its buckets stand for.           *)
(***************************************************************************)
EXTENDS Naturals, Sequences, FiniteSets, FiniteSetsExt, SequencesExt

CONSTANTS
  Slots,        \* where entries are allocated
  Keys,
  Threads,
  None,         \* NULL
  Capacities,   \* values of capacity_ to consider
  Charges,      \* what an entry may weigh
  MaxRefs       \* bound: references to one entry that one thread holds

ASSUME CacheAssumption ==
  /\ None \notin Slots \cup Keys
  /\ IsFiniteSet(Slots)
  /\ Capacities \subseteq Nat /\ Charges \subseteq Nat /\ MaxRefs \in Nat

VARIABLES
  capacity,     \* capacity_
  heap,         \* the live entries: key, charge, refs, in_cache
  inUse, lru,   \* the two lists; the oldest entry of lru_ comes first
  table,        \* table_
  usage, total, \* usage_ and total_usage_
  loading,      \* the key a thread has missed and is loading
  held          \* the references each thread owns

cacheVars == <<heap, inUse, lru, table, usage, total>>
lruVars == <<capacity, cacheVars, loading, held>>

\* The cache as a value: the private operations map one to the next.
Cache == [heap |-> heap, inUse |-> inUse, lru |-> lru, table |-> table,
          usage |-> usage, total |-> total]

Becomes(c) ==
  /\ heap' = c.heap /\ inUse' = c.inUse /\ lru' = c.lru
  /\ table' = c.table /\ usage' = c.usage /\ total' = c.total

-----------------------------------------------------------------------------
(* The private operations, on a cache c.                                   *)

Unlink(c, e) == [c EXCEPT !.inUse = @ \ {e}, !.lru = Remove(@, e)]

Free(c, e) == [Unlink(c, e) EXCEPT !.total = @ - c.heap[e].charge,
                                   !.heap = Restrict(@, DOMAIN @ \ {e})]

\* Drop a reference: the last one frees the entry, and the last one of a client
\* leaves a cached entry to the LRU list, as its newest.
Unref(c, e) ==
  LET d == [c EXCEPT !.heap[e].refs = @ - 1]
  IN  CASE d.heap[e].refs = 0 -> Free(d, e)
        [] d.heap[e].refs = 1 /\ d.heap[e].inCache ->
             [Unlink(d, e) EXCEPT !.lru = Append(@, e)]
        [] OTHER -> d

\* LRUCache::Remove: e has left the table, and now leaves the cache.
Discard(c, e) ==
  Unref([c EXCEPT !.usage = @ - c.heap[e].charge, !.heap[e].inCache = FALSE], e)

\* HashTable::Remove, and LRUCache::Remove of what it returns.
TakeOut(c, e) == Discard([c EXCEPT !.table[c.heap[e].key] = None], e)

\* Faulty variant: a reference to an entry in use is not counted.
RefFirstOnly(c, e) ==
  IF c.heap[e].refs = 1 /\ c.heap[e].inCache
  THEN [Unlink(c, e) EXCEPT !.inUse = @ \cup {e}, !.heap[e].refs = @ + 1] ELSE c

Ref(c, e) ==
  LET d == IF c.heap[e].refs = 1 /\ c.heap[e].inCache
           THEN [Unlink(c, e) EXCEPT !.inUse = @ \cup {e}] ELSE c
  IN  [d EXCEPT !.heap[e].refs = @ + 1]

\* The parts of Insert: the new entry, which only its client refers to ...
Create(c, e, k, w) ==
  [c EXCEPT !.heap = [x \in DOMAIN @ \cup {e} |->
                        IF x = e THEN [key |-> k, charge |-> w, refs |-> 1,
                                       inCache |-> FALSE]
                        ELSE @[x]],
            !.inUse = @ \cup {e}, !.total = @ + w]

\* ... its entry into the table, in the place of an older one of the same key ...
Enter(c, e) ==
  LET k == c.heap[e].key
      d == [c EXCEPT !.heap[e].refs = @ + 1, !.heap[e].inCache = TRUE,
                     !.usage = @ + c.heap[e].charge, !.table[k] = e]
  IN  IF c.table[k] # None THEN Discard(d, c.table[k]) ELSE d

\* Faulty variant: the newest idle entries go first.
ShrinkNewest(c) ==
  FoldLeft(LAMBDA d, x : IF d.usage > capacity THEN TakeOut(d, x) ELSE d,
           c, Reverse(c.lru))

\* ... and the removal of idle entries, oldest first, while usage_ is too high.
Shrink(c) ==
  FoldLeft(LAMBDA d, x : IF d.usage > capacity THEN TakeOut(d, x) ELSE d, c, c.lru)

\* The entry is ejected in the end if it still does not fit.
Fit(c, e) ==
  LET d == Shrink(Enter(c, e))
  IN  IF d.usage > capacity THEN TakeOut(d, e) ELSE d

-----------------------------------------------------------------------------
LruInit ==
  /\ capacity \in Capacities
  /\ heap = <<>> /\ inUse = {} /\ lru = <<>>
  /\ table = [k \in Keys |-> None]
  /\ usage = 0 /\ total = 0
  /\ loading = [t \in Threads |-> None]
  /\ held = [t \in Threads |-> [e \in Slots |-> 0]]

Gains(t, e) == held' = [held EXCEPT ![t][e] = @ + 1]
Loses(t, e) == held' = [held EXCEPT ![t][e] = @ - 1]

\* LRUCache::Lookup: a hit is a reference, a miss sends the thread to load k.
LookupHit(t, k) ==
  /\ loading[t] = None
  /\ table[k] # None /\ held[t][table[k]] < MaxRefs
  /\ Becomes(Ref(Cache, table[k]))
  /\ Gains(t, table[k])
  /\ UNCHANGED <<capacity, loading>>

LookupMiss(t, k) ==
  /\ loading[t] = None /\ table[k] = None
  /\ loading' = [loading EXCEPT ![t] = k]
  /\ UNCHANGED <<capacity, cacheVars, held>>

\* The value cannot be loaded: nothing is inserted.
LoadFails(t) ==
  /\ loading[t] # None
  /\ loading' = [loading EXCEPT ![t] = None]
  /\ UNCHANGED <<capacity, cacheVars, held>>

Insert(t) ==
  /\ loading[t] # None
  /\ \E e \in Slots \ DOMAIN heap, w \in Charges :
       LET c == Create(Cache, e, loading[t], w)
       IN  Becomes(IF capacity = 0 THEN c ELSE Fit(c, e)) /\ Gains(t, e)
  /\ loading' = [loading EXCEPT ![t] = None]
  /\ UNCHANGED capacity

Release(t, e) ==
  /\ held[t][e] > 0
  /\ Becomes(Unref(Cache, e))
  /\ Loses(t, e)
  /\ UNCHANGED <<capacity, loading>>

\* LRUCache::Erase by key, as TableCache::Evict calls it.
Erase(k) ==
  /\ table[k] # None
  /\ Becomes(TakeOut(Cache, table[k]))
  /\ UNCHANGED <<capacity, loading, held>>

\* LRUCache::Erase by handle: only if that very entry is in the table.
EraseHandle(t, e) ==
  /\ held[t][e] > 0
  /\ table[heap[e].key] = e
  /\ Becomes(TakeOut(Cache, e))
  /\ UNCHANGED <<capacity, loading, held>>

Prune ==
  /\ lru # <<>>
  /\ Becomes(FoldLeft(TakeOut, Cache, lru))
  /\ UNCHANGED <<capacity, loading, held>>

LruNext ==
  \/ \E t \in Threads :
       \/ \E k \in Keys : LookupHit(t, k) \/ LookupMiss(t, k)
       \/ LoadFails(t) \/ Insert(t)
       \/ \E e \in Slots : Release(t, e) \/ EraseHandle(t, e)
  \/ \E k \in Keys : Erase(k)
  \/ Prune

LruSpec == LruInit /\ [][LruNext]_lruVars

-----------------------------------------------------------------------------
(* Properties                                                              *)

Cached == {e \in DOMAIN heap : heap[e].inCache}
References(e) == MapThenSumSet(LAMBDA t : held[t][e], Threads)
Weight(S) == MapThenSumSet(LAMBDA e : heap[e].charge, S)

CacheTypeOK ==
  /\ capacity \in Capacities
  /\ DOMAIN heap \subseteq Slots
  /\ \A e \in DOMAIN heap :
       heap[e] \in [key : Keys, charge : Charges, refs : Nat, inCache : BOOLEAN]
  /\ inUse \subseteq Slots /\ lru \in Seq(Slots)
  /\ table \in [Keys -> Slots \cup {None}]
  /\ usage \in Nat /\ total \in Nat
  /\ loading \in [Threads -> Keys \cup {None}]
  /\ held \in [Threads -> [Slots -> 0..MaxRefs]]

\* An entry is freed by its last reference and not before: refs counts the
\* clients' references and the cache's own, whatever made the entry leave the
\* cache (eviction, replacement, Erase, Prune, ejection by its own Insert).
RefsExact ==
  /\ \A e \in DOMAIN heap :
       /\ heap[e].refs > 0
       /\ heap[e].refs = References(e) + IF heap[e].inCache THEN 1 ELSE 0
  /\ \A e \in Slots \ DOMAIN heap : References(e) = 0

\* Every live entry is on one list, once: on lru_ exactly when it is in the cache
\* and no client refers to it.  The table holds exactly the cached entries, each
\* under its key, so that none is in the cache twice.
ListsAndTable ==
  /\ IsInjective(lru) /\ inUse \cap ToSet(lru) = {}
  /\ inUse \cup ToSet(lru) = DOMAIN heap
  /\ ToSet(lru) = {e \in Cached : heap[e].refs = 1}
  /\ \A k \in Keys : table[k] # None => table[k] \in Cached /\ heap[table[k]].key = k
  /\ \A e \in Cached : table[heap[e].key] = e

\* usage_ and total_usage_ are what the entries in the cache, and all live ones,
\* weigh, and the cache never stays above its capacity.
UsageExact ==
  /\ usage = Weight(Cached) /\ total = Weight(DOMAIN heap)
  /\ usage <= capacity

\* Insert evicts idle entries from the least recently used on, and no more than
\* it must: without the last eviction usage_ would have been above the capacity.
EvictsOldest ==
  [][\A n \in DOMAIN heap' \ DOMAIN heap :
       LET kept == {i \in DOMAIN lru : lru[i] \in DOMAIN heap'}
           gone == {i \in DOMAIN lru \ kept : heap[lru[i]].key # heap'[n].key}
           ejected == IF capacity = 0 \/ heap'[n].inCache THEN 0 ELSE heap'[n].charge
       IN  /\ \A i \in gone, j \in kept : i < j
           /\ gone # {} => usage' + ejected + heap[lru[Max(gone)]].charge > capacity
    ]_lruVars
=============================================================================
