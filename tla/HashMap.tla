------------------------------ MODULE HashMap ------------------------------
(***************************************************************************)
(* map.c: a table of buckets, each a list_t of entries; and of list.c what *)
(* the buckets need.  A key is an object of its own: keys with one name    *)
(* are equal for the comparator, and the map destroys the keys it owns.    *)
(* The map is a sequential object, so a call is one step.                  *)
(***************************************************************************)
EXTENDS Naturals, FiniteSets, Sequences, SequencesExt

CONSTANTS Key,        \* key objects, each with a field name
          Val,        \* values
          NULL,       \* the null pointer
          N_BUCKETS,  \* number of buckets
          hash(_),    \* the hash of a name
          MaxSize     \* bound: value of the counter of entries

ASSUME MapAssumption == /\ N_BUCKETS \in Nat \ {0}
                        /\ MaxSize \in Nat
                        /\ NULL \notin Val
                        /\ \A k \in Key : hash(k.name) \in Nat

VARIABLES buckets,    \* list_t **buckets; an absent list is an empty one
          size,       \* size_t size
          allocated,  \* key objects handed to the map and not destroyed
          reply       \* the last call and what it returned

vars == <<buckets, size, allocated, reply>>

Name == {k.name : k \in Key}

Init == /\ buckets = [i \in 0..(N_BUCKETS - 1) |-> << >>]
        /\ size = 0
        /\ allocated = {}
        /\ reply = <<"create", NULL, NULL>>

-----------------------------------------------------------------------------
(* list.c.  Indexes count from zero.                                       *)

(* The index of the first entry whose key has the name, or the size.       *)
list_find(list, name) ==
    LET i == SelectInSeq(list, LAMBDA e : e.key.name = name)
    IN  IF i = 0 THEN Len(list) ELSE i - 1

list_get(list, i) == list[i + 1]

list_add(list, e) == Append(list, e)

(* Wrong: the element stays where another took its place.                  *)
list_remove_Last(list, i) == SubSeq(list, 1, Len(list) - 1)

list_remove(list, i) == RemoveAt(list, i + 1)

-----------------------------------------------------------------------------
map_get_bucket(name) == hash(name) % N_BUCKETS

Bucket(name) == buckets[map_get_bucket(name)]

(* Where the entry of a name is in its bucket, and whether there is one.   *)
Position(name) == list_find(Bucket(name), name)

Has(name) == Position(name) # Len(Bucket(name))

map_get_entry(name) == list_get(Bucket(name), Position(name))

Value(name) == IF Has(name) THEN map_get_entry(name).val ELSE NULL

map_get(name) ==
    /\ reply' = <<"get", name, Value(name)>>
    /\ UNCHANGED <<buckets, size, allocated>>

(* Wrong: the old key stays in the entry, and is destroyed.                *)
Replaced_KeepsKey(name, key, val) ==
    [Bucket(name) EXCEPT ![Position(name) + 1].val = val]

(* The entry of an equal key takes the new key and the new value.          *)
Replaced(name, key, val) ==
    [Bucket(name) EXCEPT ![Position(name) + 1] = [key |-> key, val |-> val]]

SetOld(key, val) ==
    LET name == key.name
    IN  /\ Has(name)
        /\ buckets' = [buckets EXCEPT ![map_get_bucket(name)] = Replaced(name, key, val)]
        /\ allocated' = (allocated \cup {key}) \ {map_get_entry(name).key}
        /\ reply' = <<"set", name, Value(name)>>
        /\ UNCHANGED size

SetNew(key, val) ==
    LET name == key.name
    IN  /\ ~ Has(name)
        /\ size < MaxSize
        /\ buckets' = [buckets EXCEPT ![map_get_bucket(name)] =
                                          list_add(@, [key |-> key, val |-> val])]
        /\ allocated' = allocated \cup {key}
        /\ size' = size + 1
        /\ reply' = <<"set", name, NULL>>

(* The caller hands over a key that is not in the map.                     *)
map_set(key, val) == /\ key \notin allocated
                     /\ SetOld(key, val) \/ SetNew(key, val)

(* The size is left as it is.                                              *)
map_remove(name) ==
    /\ reply' = <<"remove", name, Value(name)>>
    /\ IF Has(name)
       THEN /\ buckets' = [buckets EXCEPT ![map_get_bucket(name)] =
                                              list_remove(@, Position(name))]
            /\ allocated' = allocated \ {map_get_entry(name).key}
       ELSE UNCHANGED <<buckets, allocated>>
    /\ UNCHANGED size

Entries == UNION {ToSet(buckets[i]) : i \in DOMAIN buckets}

(* The map goes, with all its keys and values, and another is created.     *)
map_destroy ==
    /\ buckets' = [i \in 0..(N_BUCKETS - 1) |-> << >>]
    /\ size' = 0
    /\ allocated' = allocated \ {e.key : e \in Entries}
    /\ reply' = <<"create", NULL, NULL>>

Next == \/ \E n \in Name : map_get(n) \/ map_remove(n)
        \/ \E k \in Key, v \in Val : map_set(k, v)
        \/ map_destroy

Spec == Init /\ [][Next]_vars

-----------------------------------------------------------------------------
Entry == [key : Key, val : Val]

TypeOK == /\ buckets \in [0..(N_BUCKETS - 1) -> Seq(Entry)]
          /\ size \in 0..MaxSize
          /\ allocated \subseteq Key

(* No key is destroyed while an entry points to it, and none is lost: the  *)
(* keys handed over and not destroyed are those of the entries, one entry  *)
(* for each, though map_set puts a new key in the place of an equal one.   *)
KeysOwned ==
    /\ allocated = {e.key : e \in Entries}
    /\ \A i, j \in DOMAIN buckets :
         \A p \in DOMAIN buckets[i], q \in DOMAIN buckets[j] :
            buckets[i][p].key.name = buckets[j][q].key.name => i = j /\ p = q

(* The map implements a dictionary: hashing, collisions in a bucket, the   *)
(* entries that move up when one is removed and the keys that are replaced *)
(* are not seen from outside.                                              *)
Promise == INSTANCE Dictionary WITH value <- [n \in Name |-> Value(n)]
MapImplements == Promise!Spec
=============================================================================
