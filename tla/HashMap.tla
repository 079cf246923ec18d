------------------------------ MODULE HashMap ------------------------------
(***************************************************************************)
(* The linked hash map of hashmap.h: a HashTable whose chains are found by *)
(* the low bits of a key's hash and which doubles when it holds more       *)
(* entries than chains, and the list that keeps a HashMap's entries in     *)
(* order.  Chains and list are sequences of the entries they link.         *)
(***************************************************************************)
EXTENDS Integers, Sequences, FiniteSets, Functions, SequencesExt

CONSTANTS
  MapKeys, HashVal,  \* keys, and the hash of each
  MapValues,
  MinLength          \* chains of an empty table, 4 in the code

VARIABLES
  hashTable,   \* [list: chains, elems: entries]
  linked,      \* the entries in the order of the list
  inserted     \* the last Insert of each key that was not erased, oldest first

mapVars == <<hashTable, linked, inserted>>

Length(t) == Cardinality(DOMAIN t.list)

Chain(t, k) == HashVal[k] % Length(t)

EmptyList(n) == [i \in 0..n - 1 |-> <<>>]

(* Where the search for k in its chain ends: at its entry, or after all.   *)
FindPointer(t, k) ==
  LET c == t.list[Chain(t, k)]
  IN IF \E i \in 1..Len(c) : c[i].key = k THEN CHOOSE i \in 1..Len(c) : c[i].key = k
     ELSE Len(c) + 1

NewLength[n \in 1..64, elems \in 0..64] == IF n < elems THEN NewLength[2 * n, elems] ELSE n

(* Resize: each entry goes to the head of its new chain.                   *)
TableResize(t) ==
  LET n == NewLength[MinLength, t.elems]
      entries == FlattenSeq([i \in 1..Length(t) |-> t.list[i - 1]])
  IN [t EXCEPT !.list =
        [b \in 0..n - 1 |-> Reverse(SelectSeq(entries, LAMBDA e : HashVal[e.key] % n = b))]]

(* Mutant: an entry that replaces another is counted as one more.          *)
InjectCounts(t, e) ==
  LET b == Chain(t, e.key)
      i == FindPointer(t, e.key)
      u == [list |-> [t.list EXCEPT ![b] = SubSeq(@, 1, i - 1) \o <<e>> \o SubSeq(@, i + 1, Len(@))],
            elems |-> t.elems + 1]
  IN IF i > Len(t.list[b]) /\ u.elems > Length(u) THEN TableResize(u) ELSE u

Inject(t, e) ==
  LET b == Chain(t, e.key)
      i == FindPointer(t, e.key)
      new == i > Len(t.list[b])
      u == [list |-> [t.list EXCEPT ![b] = SubSeq(@, 1, i - 1) \o <<e>> \o SubSeq(@, i + 1, Len(@))],
            elems |-> IF new THEN t.elems + 1 ELSE t.elems]
  IN IF new /\ u.elems > Length(u) THEN TableResize(u) ELSE u

TableRemove(t, k) ==
  LET b == Chain(t, k)
      i == FindPointer(t, k)
  IN IF i > Len(t.list[b]) THEN t
     ELSE [list |-> [t.list EXCEPT ![b] = RemoveAt(@, i)], elems |-> t.elems - 1]

(* HashMap::Lookup and Contains: the entry that the table finds.           *)
Looked(k) ==
  LET c == hashTable.list[Chain(hashTable, k)]
      i == FindPointer(hashTable, k)
  IN IF i > Len(c) THEN {} ELSE {c[i]}

Unlinked(s, k) == SelectSeq(s, LAMBDA e : e.key # k)

(* Insert: the new entry is linked last, and the one it replaces goes.     *)
MapInsert(k, v) ==
  LET e == [key |-> k, value |-> v]
  IN /\ hashTable' = Inject(hashTable, e)
     /\ linked' = Append(IF Looked(k) = {} THEN linked ELSE Unlinked(linked, k), e)
     /\ inserted' = Append(Unlinked(inserted, k), e)

MapErase(k) ==
  /\ hashTable' = TableRemove(hashTable, k)
  /\ linked' = IF Looked(k) = {} THEN linked ELSE Unlinked(linked, k)
  /\ inserted' = Unlinked(inserted, k)

MapInit ==
  /\ hashTable = [list |-> EmptyList(MinLength), elems |-> 0]
  /\ linked = <<>> /\ inserted = <<>>

MapNext ==
  \E k \in MapKeys : MapErase(k) \/ \E v \in MapValues : MapInsert(k, v)

MapSpec == MapInit /\ [][MapNext]_mapVars

-----------------------------------------------------------------------------
(* Properties.                                                             *)

(* The table and the list hold the same entries through every resize       *)
(* (Resize, Inject, Remove): Lookup finds the last value inserted for a    *)
(* key, VisitAll walks the keys in the order of their last Insert, and     *)
(* elems_ counts them, so that there are never more of them than chains.   *)
MapExact ==
  /\ linked = inserted
  /\ \A k \in MapKeys : Looked(k) = {inserted[i] : i \in {j \in 1..Len(inserted) : inserted[j].key = k}}
  /\ hashTable.elems = Len(inserted) /\ hashTable.elems <= Length(hashTable)
=============================================================================
