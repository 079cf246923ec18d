----------------------------- MODULE MCIndexes -----------------------------
(***************************************************************************)
(* The in-memory indexes for TLC: the LRU cache, the directory index of    *)
(* GIGA+, the entropy-coded trie and the ordered hash map.  They share     *)
(* nothing: a behaviour is one of one of them, while the others keep one   *)
(* of their initial states.                                                *)
(***************************************************************************)
EXTENDS LRUCache, Gigaplus, Ect, HashMap

CONSTANT Parts   \* the components to explore

VARIABLE part

ThreadSymmetry == Permutations(Threads)

\* Directories that split up to all eight partitions between two servers or three, one
\* of five partitions, and one that starts with all its four.
Config(n, v, all) == [servers |-> n, virtual |-> v, zs |-> 1, setAll |-> all]
MCConfigs == {Config(2, 8, FALSE), Config(3, 8, FALSE), Config(2, 5, FALSE), Config(2, 4, TRUE)}

\* Sets of few keys, of nearly all, and of any within the middle half.
MCKeySets == {S \in SUBSET (0..15) : Cardinality(S) \in 0..4 \cup 13..16}
               \cup {S \in SUBSET (0..15) : S \subseteq 4..11}

\* Two keys with one hash value, and others that share its bucket until the map grows.
MCHashVal == [a |-> 0, b |-> 4, c |-> 5, d |-> 5, e |-> 8]

Init ==
  /\ part \in Parts
  /\ IF part = "cache" THEN TRUE ELSE capacity = 0
  /\ IF part = "giga" THEN TRUE ELSE conf = CHOOSE c \in Configs : TRUE
  /\ IF part = "ect" THEN TRUE ELSE keys = {}
  /\ LruInit /\ GigaInit /\ EctInit /\ MapInit

CacheStep == part = "cache" /\ LruNext /\ UNCHANGED <<part, gigaVars, ectVars, mapVars>>
GigaStep  == part = "giga" /\ GigaNext /\ UNCHANGED <<part, lruVars, ectVars, mapVars>>
EctStep   == part = "ect" /\ EctNext /\ UNCHANGED <<part, lruVars, gigaVars, mapVars>>
MapStep   == part = "map" /\ MapNext /\ UNCHANGED <<part, lruVars, gigaVars, ectVars>>

Next == CacheStep \/ GigaStep \/ EctStep \/ MapStep

Spec == Init /\ [][Next]_<<part, lruVars, gigaVars, ectVars, mapVars>>

-----------------------------------------------------------------------------
(* Properties                                                              *)

\* LRUCache::Insert, Lookup, Release, Erase and Prune keep references, lists, hash table
\* and usage in step, whatever threads that load the same key at once do (cache.cc).
CacheExact == part = "cache" => CacheTypeOK /\ RefsExact /\ ListsAndTable /\ UsageExact

\* Servers and clients that split, merge and exchange directory indices (gigaplus.cc) keep
\* them sound, and a lookup with the oldest of them ends at its file.
DirIndexExact == part = "giga" => IndexSound /\ LookupsConverge

\* The codes, the vector, the walk of Find and the table of offsets of the entropy-coded
\* trie (ectrie) fit together: Find returns ranks, and offsets come back.
TrieExact == part = "ect" => RanksExact /\ VectorClean /\ TablesAgree /\ OffsetsKept

\* HashMap finds and visits the same entries through every Resize (hashmap.h).
HashMapExact == part = "map" => MapExact
=============================================================================
