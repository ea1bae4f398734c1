------------------------------ MODULE HashMap ------------------------------
(***************************************************************************)
(* The hash map of hashmap.c: an array of slots, an entry in its home slot *)
(* or in the next free one behind it.  Insertion never looks for the key,  *)
(* and lookup never leaves the home slot.  So of two entries with one key  *)
(* the first to come is found, and an entry away from home is never found. *)
(*                                                                         *)
(* Only the slots in use are in the domain of elements; entry_count is the *)
(* number of them.  Values are whatever the callers store.                 *)
(***************************************************************************)
EXTENDS Naturals, FiniteSets

CONSTANTS
  Keys,        \* the keys that an instance tells apart in these two:
  Hash,        \* djb2 of each key,
  KeyOrder     \* and the place of each in the order of strcmp

ASSUME HashMapAssumption ==
  /\ Hash \in [Keys -> Nat]
  /\ KeyOrder \in [Keys -> Nat]
  /\ \A j, k \in Keys : KeyOrder[j] = KeyOrder[k] => j = k

\* Other keys, which may be any string of a file, all get the same hash and place.
hash_of(key) == IF key \in Keys THEN Hash[key] ELSE 0
place_of(key) == IF key \in Keys THEN KeyOrder[key] ELSE 0

hashmap_init(size) == [map_size |-> size, elements |-> <<>>]

\* The slot that is i steps behind the home of a key.
Probe(map, key, i) == (hash_of(key) + i) % map.map_size

Home(map, key) == Probe(map, key, 0)

\* How far from home the slots are that are free.
FreeProbes(map, key) ==
  {i \in 0 .. map.map_size - 1 : Probe(map, key, i) \notin DOMAIN map.elements}

\* hashmap_insert finds a slot.
HasRoom(map, key) == FreeProbes(map, key) # {}

\* The slot it finds: the first free one.
FreeSlot(map, key) ==
  LET free == FreeProbes(map, key)
  IN  Probe(map, key, CHOOSE i \in free : \A j \in free : i <= j)

\* An entry written to a slot, whether the slot was free or not.
WithEntry(map, slot, key, value) ==
  [map EXCEPT !.elements =
     [s \in DOMAIN @ \cup {slot} |->
        IF s = slot THEN [key |-> key, value |-> value] ELSE @[s]]]

hashmap_insert(map, key, value) == WithEntry(map, FreeSlot(map, key), key, value)

\* hashmap_get returns something.
Has(map, key) ==
  /\ Home(map, key) \in DOMAIN map.elements
  /\ map.elements[Home(map, key)].key = key

hashmap_get(map, key) == map.elements[Home(map, key)].value

-----------------------------------------------------------------------------
(***************************************************************************)
(* hashmap_entries with sort_by_key.  qsort says nothing of the order of   *)
(* equal keys: here it is the order of their slots, but seen from any      *)
(* start.  So each of them may come first, which is all that a reader of   *)
(* the result can tell.                                                    *)
(***************************************************************************)
\* Mutant: the entries are not sorted.
EarlierSlot(map, start, s, t) == s < t

\* Entry s comes before entry t.
Earlier(map, start, s, t) ==
  LET Rank(slot) == place_of(map.elements[slot].key)
      Turn(slot) == (slot + map.map_size - start) % map.map_size
  IN  \/ Rank(s) < Rank(t)
      \/ Rank(s) = Rank(t) /\ Turn(s) < Turn(t)

hashmap_entries(map, start) ==
  LET slots == DOMAIN map.elements
      place == [s \in slots |-> 1 + Cardinality({t \in slots : Earlier(map, start, t, s)})]
  IN  [k \in 1 .. Cardinality(slots) |->
         map.elements[CHOOSE s \in slots : place[s] = k]]

=============================================================================
