-------------------------- MODULE StructuresProofs --------------------------
(***************************************************************************)
(* Proofs about HashMap, Heap and BlockBody.                               *)
(*                                                                         *)
(* The map, for every set of keys and values, number of buckets and hash   *)
(* function: a bucket is a list in which no two entries have keys of one   *)
(* name (Distinct), so that what it says of a name depends only on the set *)
(* of its entries (ValueOfList): the lemmas about list_add, list_remove    *)
(* and the replacement of an entry say what they do to that set.  The      *)
(* inductive invariant adds that every entry is in the bucket of its name  *)
(* and that the keys of the entries are the keys that are allocated.       *)
(*                                                                         *)
(* The heap, for every set of elements, comparison and capacity: every     *)
(* pass of a loop leaves an array that is ordered but for the element that *)
(* moves (OrderedBut), which may belong further up (MayRise) or down       *)
(* (MaySink), and its index moves on, so that the loop ends within the     *)
(* passes it is given; a swap keeps the number of every element.           *)
(*                                                                         *)
(* The merkle root, for every set of transactions and number of them: a    *)
(* level determines the one below it, so two lists of a length that have   *)
(* one root are the same list; and the level above the two parts that      *)
(* Split makes of a row are the two parts of the level above, so the root  *)
(* made level by level is the root of the tree made from the top.          *)
(***************************************************************************)
EXTENDS Structures, Integers, WellFoundedInduction, SequenceTheorems, FiniteSetTheorems, TLAPS

-----------------------------------------------------------------------------
(* Natural numbers and loops.                                              *)
LEMMA LeastNumber ==
    ASSUME NEW D \in SUBSET Nat, D # {}
    PROVE  \E d \in D : \A e \in D : d <= e
<1>1. PICK d \in D : \A e \in D : <<e, d>> \notin OpToRel(<, Nat)
  BY WFMin, NatLessThanWellFounded
<1>2. \A e \in D : ~ (e < d)
  BY <1>1 DEF OpToRel
<1> QED
  BY <1>2

(* What holds of the first of n things and is handed on holds of them all. *)
LEMMA HandedOn ==
    ASSUME NEW n \in Nat, NEW H, 0 \in H, \A k \in 1..n : k - 1 \in H => k \in H
    PROVE  \A k \in 0..n : k \in H
<1> DEFINE D == {k \in 0..n : k \notin H}
<1>1. SUFFICES ASSUME NEW d \in D, \A e \in D : d <= e PROVE FALSE
  <2>1. D \in SUBSET Nat
    OBVIOUS
  <2> QED
    BY <2>1, LeastNumber
<1>2. d # 0 /\ d \in 1..n
  OBVIOUS
<1>3. d - 1 \in 0..n /\ ~ (d <= d - 1)
  BY <1>2
<1> QED
  BY <1>1, <1>2, <1>3

(* What holds of every pass of a loop that starts right.                   *)
LEMMA LoopInvariant ==
    ASSUME NEW n \in Nat, NEW S, NEW r, r[0] \in S,
           \A k \in 1..n : r[k - 1] \in S => r[k] \in S
    PROVE  \A k \in 0..n : r[k] \in S
<1> DEFINE H == {k \in 0..n : r[k] \in S}
<1>1. 0 \in H
  OBVIOUS
<1>2. ASSUME NEW k \in 1..n, k - 1 \in H PROVE k \in H
  BY <1>2
<1> HIDE DEF H
<1>3. \A k \in 0..n : k \in H
  BY <1>1, <1>2, HandedOn
<1> QED
  BY <1>3 DEF H

(* r is the run of a loop of n passes: its states are in S, and F is what  *)
(* a pass makes of a state.                                                *)
IsRun(r, n, S, base, F) ==
    /\ r \in [0..n -> S]
    /\ r[0] = base
    /\ \A k \in 1..n : r[k] = F[r[k - 1]]

(* A loop whose body leads from S to S runs.                               *)
LEMMA LoopRuns ==
    ASSUME NEW n \in Nat, NEW S, NEW base \in S, NEW F \in [S -> S]
    PROVE  \E r : IsRun(r, n, S, base, F)
<1> DEFINE H == {k \in 0..n : \E r : IsRun(r, k, S, base, F)}
<1>1. 0 \in H
  <2> DEFINE r == [i \in 0..0 |-> base]
  <2>1. r \in [0..0 -> S] /\ r[0] = base
    OBVIOUS
  <2>2. \A i \in 1..0 : r[i] = F[r[i - 1]]
    OBVIOUS
  <2>3. IsRun(r, 0, S, base, F)
    BY <2>1, <2>2 DEF IsRun
  <2> QED
    BY <2>3
<1>2. ASSUME NEW k \in 1..n, k - 1 \in H PROVE k \in H
  <2>1. PICK r : IsRun(r, k - 1, S, base, F)
    BY <1>2
  <2>2. /\ r \in [0..(k - 1) -> S] /\ r[0] = base
        /\ \A i \in 1..(k - 1) : r[i] = F[r[i - 1]]
    BY <2>1 DEF IsRun
  <2> DEFINE q == [i \in 0..k |-> IF i = k THEN F[r[k - 1]] ELSE r[i]]
  <2>3. F[r[k - 1]] \in S
    BY <2>2
  <2>4. q \in [0..k -> S]
    BY <2>2, <2>3
  <2>5. q[0] = base /\ \A i \in 1..k : q[i] = F[q[i - 1]]
    BY <2>2
  <2>6. IsRun(q, k, S, base, F)
    BY <2>4, <2>5 DEF IsRun
  <2> QED
    BY <2>6
<1> HIDE DEF H
<1>3. \A k \in 0..n : k \in H
  BY <1>1, <1>2, HandedOn
<1>4. n \in 0..n
  OBVIOUS
<1> QED
  BY <1>3, <1>4 DEF H

(* A number that falls in every pass until it is zero, which it is after   *)
(* as many passes.                                                         *)
LEMMA Falls ==
    ASSUME NEW n \in Nat, NEW m \in [0..n -> Nat], m[0] <= n,
           \A k \in 1..n : m[k] < m[k - 1] \/ m[k] = 0
    PROVE  m[n] = 0
<1> DEFINE H == {k \in 0..n : m[k] <= n - k}
<1>1. 0 \in H
  OBVIOUS
<1>2. ASSUME NEW k \in 1..n, k - 1 \in H PROVE k \in H
  <2>1. k - 1 \in 0..n /\ k \in 0..n
    OBVIOUS
  <2>2. m[k - 1] <= n - (k - 1)
    BY <1>2
  <2>3. m[k] \in Nat /\ m[k - 1] \in Nat
    BY <2>1
  <2> QED
    BY <2>1, <2>2, <2>3
<1> HIDE DEF H
<1>3. \A k \in 0..n : k \in H
  BY <1>1, <1>2, HandedOn
<1>4. m[n] <= n - n /\ m[n] \in Nat
  BY <1>3 DEF H
<1> QED
  BY <1>4

-----------------------------------------------------------------------------
(* The map.                                                                *)
Distinct(S) == \A e, f \in S : e.key.name = f.key.name => e = f

(* No entry of the list has the key of another, wherever they are.         *)
List(list) ==
    /\ list \in Seq(Entry)
    /\ \A p, q \in DOMAIN list : list[p].key.name = list[q].key.name => p = q

ListValue(list, name) ==
    IF list_find(list, name) # Len(list)
    THEN list_get(list, list_find(list, name)).val ELSE NULL

(* list_find finds the first entry, or none.                               *)
LEMMA FindFirst ==
    ASSUME NEW list \in Seq(Entry), NEW name
    PROVE  LET i == list_find(list, name)
           IN  \/ /\ i = Len(list)
                  /\ \A p \in DOMAIN list : list[p].key.name # name
               \/ /\ i \in 0..(Len(list) - 1)
                  /\ list[i + 1].key.name = name
<1> DEFINE I == {p \in 1..Len(list) : list[p].key.name = name}
           sel == IF I # {} THEN Min(I) ELSE 0
<1>1. Len(list) \in Nat /\ DOMAIN list = 1..Len(list)
  OBVIOUS
<1>2. SelectInSeq(list, LAMBDA e : e.key.name = name) = sel
  BY DEF SelectInSeq
<1>3. list_find(list, name) = IF sel = 0 THEN Len(list) ELSE sel - 1
  BY <1>2 DEF list_find
<1>4. CASE I = {}
  <2>1. \A p \in DOMAIN list : list[p].key.name # name
    BY <1>1, <1>4
  <2>2. list_find(list, name) = Len(list)
    BY <1>3, <1>4
  <2> QED
    BY <2>1, <2>2
<1>5. CASE I # {}
  <2>1. PICK m \in I : \A k \in I : m <= k
    <3>1. I \in SUBSET Nat
      BY <1>1
    <3> HIDE DEF I
    <3> QED
      BY <1>5, <3>1, LeastNumber
  <2>2. Min(I) \in I
    BY <2>1 DEF Min
  <2> QED
    BY <1>1, <1>3, <1>5, <2>2
<1> QED
  BY <1>4, <1>5

LEMMA IndexOfElement ==
    ASSUME NEW n \in Nat, NEW i \in 0..(n - 1)
    PROVE  i + 1 \in 1..n /\ i # n
OBVIOUS

(* What a list says of a name is what its entry for that name says.        *)
LEMMA ValueOfList ==
    ASSUME NEW list, List(list)
    PROVE  /\ Distinct(ToSet(list)) /\ ToSet(list) \subseteq Entry
           /\ \A e \in ToSet(list) : ListValue(list, e.key.name) = e.val
           /\ \A name : (\A e \in ToSet(list) : e.key.name # name)
                           => ListValue(list, name) = NULL
<1>1. list \in Seq(Entry) /\ Len(list) \in Nat /\ DOMAIN list = 1..Len(list)
  BY DEF List
<1>2. ToSet(list) \subseteq Entry
  BY <1>1 DEF ToSet
<1>3. Distinct(ToSet(list))
  BY DEF List, Distinct, ToSet
<1>4. ASSUME NEW e \in ToSet(list) PROVE ListValue(list, e.key.name) = e.val
  <2>1. PICK p \in DOMAIN list : list[p] = e
    BY DEF ToSet
  <2> DEFINE i == list_find(list, e.key.name)
  <2>2. i \in 0..(Len(list) - 1) /\ list[i + 1].key.name = e.key.name
    BY <1>1, <2>1, FindFirst
  <2> HIDE DEF i
  <2>3. i + 1 \in DOMAIN list /\ i # Len(list)
    BY <1>1, <2>2, IndexOfElement
  <2>4. list[i + 1] = e
    BY <2>1, <2>2, <2>3 DEF List
  <2> QED
    BY <2>3, <2>4 DEF ListValue, list_get, i
<1>5. ASSUME NEW name, \A e \in ToSet(list) : e.key.name # name
      PROVE  ListValue(list, name) = NULL
  <2> DEFINE i == list_find(list, name)
  <2>1. \A p \in DOMAIN list : list[p].key.name # name
    BY <1>5 DEF ToSet
  <2>2. \/ i = Len(list)
        \/ i \in 0..(Len(list) - 1) /\ list[i + 1].key.name = name
    BY <1>1, FindFirst
  <2> HIDE DEF i
  <2>3. i = Len(list)
    BY <1>1, <2>1, <2>2
  <2> QED
    BY <2>3 DEF ListValue, i
<1> QED
  BY <1>2, <1>3, <1>4, <1>5

-----------------------------------------------------------------------------
(* A new name is added to a list.                                          *)
LEMMA AddEntry ==
    ASSUME NEW list, List(list), NEW e \in Entry,
           \A f \in ToSet(list) : f.key.name # e.key.name
    PROVE  List(list_add(list, e)) /\ ToSet(list_add(list, e)) = ToSet(list) \cup {e}
<1> DEFINE a == list_add(list, e)
<1>1. /\ a \in Seq(Entry) /\ Len(a) = Len(list) + 1 /\ Len(list) \in Nat
      /\ DOMAIN a = 1..(Len(list) + 1) /\ DOMAIN list = 1..Len(list)
      /\ \A i \in 1..Len(list) : a[i] = list[i]
      /\ a[Len(list) + 1] = e
  BY AppendProperties DEF list_add, List
<1> HIDE DEF a
<1>2. \A i \in DOMAIN a : i \in DOMAIN list \/ i = Len(list) + 1
  BY <1>1
<1>3. DOMAIN list \subseteq DOMAIN a /\ Len(list) + 1 \in DOMAIN a
  BY <1>1
<1>4. ToSet(a) = ToSet(list) \cup {e}
  BY <1>1, <1>2, <1>3 DEF ToSet
<1>5. \A p \in DOMAIN list : list[p].key.name # e.key.name
  BY DEF ToSet
<1>6. ASSUME NEW p \in DOMAIN a, NEW q \in DOMAIN a, a[p].key.name = a[q].key.name
      PROVE  p = q
  <2>1. p \in DOMAIN list => a[p] = list[p]
    BY <1>1
  <2>2. q \in DOMAIN list => a[q] = list[q]
    BY <1>1
  <2> QED
    BY <1>1, <1>2, <1>5, <1>6, <2>1, <2>2 DEF List
<1> QED
  BY <1>1, <1>4, <1>6 DEF List, a

(* An entry takes the place of the one with the same name.                 *)
LEMMA ReplaceEntry ==
    ASSUME NEW list, List(list), NEW e \in Entry, NEW i \in DOMAIN list,
           list[i].key.name = e.key.name
    PROVE  /\ List([list EXCEPT ![i] = e])
           /\ ToSet([list EXCEPT ![i] = e]) = (ToSet(list) \ {list[i]}) \cup {e}
<1> DEFINE a == [list EXCEPT ![i] = e]
<1>1. /\ a \in Seq(Entry) /\ DOMAIN a = DOMAIN list
      /\ a[i] = e /\ \A j \in DOMAIN list \ {i} : a[j] = list[j]
  BY DEF List
<1> HIDE DEF a
<1>2. \A j \in DOMAIN list : a[j].key.name = list[j].key.name
  BY <1>1
<1>3. List(a)
  BY <1>1, <1>2 DEF List
<1>4. \A j \in DOMAIN list \ {i} : list[j] # list[i]
  BY DEF List
<1>5. ToSet(a) = (ToSet(list) \ {list[i]}) \cup {e}
  BY <1>1, <1>4 DEF ToSet
<1> QED
  BY <1>3, <1>5 DEF a

(* The entries behind the one that is removed move up.                     *)
LEMMA RemoveEntry ==
    ASSUME NEW list, List(list), NEW i \in 0..(Len(list) - 1)
    PROVE  /\ List(list_remove(list, i))
           /\ ToSet(list_remove(list, i)) = ToSet(list) \ {list[i + 1]}
<1> DEFINE n == Len(list)
           u == SubSeq(list, 1, i)
           w == SubSeq(list, i + 2, n)
           a == u \o w
<1>1. list \in Seq(Entry) /\ n \in Nat /\ DOMAIN list = 1..n /\ i \in Nat /\ i < n
  BY DEF List
<1>2. \A j \in 1..n : list[j] \in Entry
  BY <1>1
<1>3. u \in Seq(Entry) /\ Len(u) = i /\ \A j \in 1..i : u[j] = list[j]
  <2>1. \A j \in 1..i : list[j] \in Entry
    BY <1>1, <1>2
  <2> QED
    BY <1>1, <2>1, SubSeqProperties
<1>4. /\ w \in Seq(Entry) /\ Len(w) = n - i - 1
      /\ \A j \in 1..(n - i - 1) : w[j] = list[i + 1 + j]
  <2>1. \A j \in (i + 2)..n : list[j] \in Entry
    BY <1>1, <1>2
  <2>2. i + 2 \in Int /\ n \in Int
    BY <1>1
  <2>3. /\ w \in Seq(Entry)
        /\ Len(w) = IF i + 2 <= n THEN n - (i + 2) + 1 ELSE 0
        /\ \A j \in 1..(n - (i + 2) + 1) : w[j] = list[i + 2 + j - 1]
    BY <2>1, <2>2, SubSeqProperties
  <2> HIDE DEF w, n
  <2>4. n - (i + 2) + 1 = n - i - 1 /\ \A j \in 1..(n - i - 1) : i + 2 + j - 1 = i + 1 + j
    BY <1>1
  <2>5. Len(w) = n - i - 1
    BY <1>1, <2>3, <2>4
  <2> QED
    BY <2>3, <2>4, <2>5
<1> HIDE DEF u, w, n
<1>5. /\ a \in Seq(Entry) /\ Len(a) = n - 1 /\ DOMAIN a = 1..(n - 1)
      /\ \A j \in 1..(n - 1) : a[j] = IF j <= i THEN list[j] ELSE list[j + 1]
  <2>1. /\ a \in Seq(Entry) /\ Len(a) = Len(u) + Len(w)
        /\ \A j \in 1..(Len(u) + Len(w)) : a[j] = IF j <= Len(u) THEN u[j] ELSE w[j - Len(u)]
    BY <1>3, <1>4, ConcatProperties
  <2> HIDE DEF a
  <2>2. Len(u) + Len(w) = n - 1
    BY <1>1, <1>3, <1>4
  <2>3. ASSUME NEW j \in 1..(n - 1) PROVE a[j] = IF j <= i THEN list[j] ELSE list[j + 1]
    <3>1. a[j] = IF j <= i THEN u[j] ELSE w[j - i]
      BY <1>3, <2>1, <2>2
    <3>2. j <= i => u[j] = list[j]
      BY <1>1, <1>3
    <3>3. ~ (j <= i) => w[j - i] = list[j + 1]
      <4> SUFFICES ASSUME ~ (j <= i) PROVE w[j - i] = list[j + 1]
        OBVIOUS
      <4>1. j - i \in 1..(n - i - 1) /\ i + 1 + (j - i) = j + 1
        BY <1>1
      <4> QED
        BY <1>4, <4>1
    <3> QED
      BY <3>1, <3>2, <3>3
  <2> QED
    BY <2>1, <2>2, <2>3
<1>6. list_remove(list, i) = a
  <2> DEFINE k == i + 1
  <2>1. k - 1 = i /\ k + 1 = i + 2
    BY <1>1
  <2>2. list_remove(list, i) = RemoveAt(list, k)
    BY DEF list_remove
  <2> HIDE DEF k
  <2>3. RemoveAt(list, k) = SubSeq(list, 1, k - 1) \o SubSeq(list, k + 1, Len(list))
    BY DEF RemoveAt
  <2> QED
    BY <2>1, <2>2, <2>3, Zenon DEF a, u, w, n
<1> HIDE DEF a
<1> DEFINE Old(j) == IF j <= i THEN j ELSE j + 1
<1>7. \A j \in DOMAIN a : Old(j) \in DOMAIN list \ {i + 1} /\ a[j] = list[Old(j)]
  BY <1>1, <1>5
<1>8. \A j, k \in DOMAIN a : Old(j) = Old(k) => j = k
  BY <1>1, <1>5
<1>9. \A k \in DOMAIN list \ {i + 1} : \E j \in DOMAIN a : Old(j) = k
  <2> SUFFICES ASSUME NEW k \in DOMAIN list \ {i + 1} PROVE \E j \in DOMAIN a : Old(j) = k
    OBVIOUS
  <2>1. CASE k <= i
    BY <1>1, <1>5, <2>1
  <2>2. CASE ~ (k <= i)
    <3>1. k - 1 \in DOMAIN a /\ Old(k - 1) = k
      BY <1>1, <1>5, <2>2
    <3> QED
      BY <3>1
  <2> QED
    BY <2>1, <2>2
<1> HIDE DEF Old
<1>10. List(a)
  <2>1. \A j, k \in DOMAIN a : a[j].key.name = a[k].key.name => j = k
    BY <1>7, <1>8 DEF List
  <2> QED
    BY <1>5, <2>1 DEF List
<1>11. ToSet(a) = ToSet(list) \ {list[i + 1]}
  <2>1. i + 1 \in DOMAIN list
    BY <1>1
  <2>2. \A k \in DOMAIN list \ {i + 1} : list[k] # list[i + 1]
    BY <2>1 DEF List
  <2> QED
    BY <1>7, <1>9, <2>1, <2>2 DEF ToSet
<1> QED
  BY <1>6, <1>10, <1>11
-----------------------------------------------------------------------------
(* The buckets of a map, as a value bs of the variable buckets.            *)
Table(bs) ==
    /\ bs \in [0..(N_BUCKETS - 1) -> Seq(Entry)]
    /\ \A i \in 0..(N_BUCKETS - 1) :
          /\ List(bs[i])
          /\ \A e \in ToSet(bs[i]) : map_get_bucket(e.key.name) = i

All(bs) == UNION {ToSet(bs[i]) : i \in 0..(N_BUCKETS - 1)}

MapValue(bs, name) == ListValue(bs[map_get_bucket(name)], name)

Named(S, name) == {e \in S : e.key.name = name}

LEMMA BucketOfName ==
    ASSUME NEW name \in Name
    PROVE  map_get_bucket(name) \in 0..(N_BUCKETS - 1)
<1>1. hash(name) \in Nat /\ N_BUCKETS \in Nat \ {0}
  BY MapAssumption DEF Name
<1> QED
  BY <1>1 DEF map_get_bucket

LEMMA EntryName ==
    ASSUME NEW e \in Entry
    PROVE  e.key \in Key /\ e.val \in Val /\ e.key.name \in Name
  BY DEF Entry, Name

(* What a map says of a name depends only on its entries for that name, of *)
(* which there is at most one, in the bucket of the name.                  *)
LEMMA TableValues ==
    ASSUME NEW bs, Table(bs)
    PROVE  /\ Distinct(All(bs)) /\ All(bs) \subseteq Entry
           /\ \A name \in Name :
                 /\ Named(All(bs), name) = Named(ToSet(bs[map_get_bucket(name)]), name)
                 /\ \A e \in Named(All(bs), name) : MapValue(bs, name) = e.val
                 /\ Named(All(bs), name) = {} => MapValue(bs, name) = NULL
<1>1. ASSUME NEW i \in 0..(N_BUCKETS - 1)
      PROVE  /\ Distinct(ToSet(bs[i])) /\ ToSet(bs[i]) \subseteq Entry
             /\ \A e \in ToSet(bs[i]) : ListValue(bs[i], e.key.name) = e.val
             /\ \A name : (\A e \in ToSet(bs[i]) : e.key.name # name)
                             => ListValue(bs[i], name) = NULL
  BY ValueOfList DEF Table
<1>2. All(bs) \subseteq Entry
  BY <1>1 DEF All
<1>3. ASSUME NEW name \in Name
      PROVE  Named(All(bs), name) = Named(ToSet(bs[map_get_bucket(name)]), name)
  BY BucketOfName DEF All, Named, Table
<1>4. Distinct(All(bs))
  <2> SUFFICES ASSUME NEW e \in All(bs), NEW f \in All(bs), e.key.name = f.key.name
               PROVE  e = f
    BY DEF Distinct
  <2> DEFINE name == e.key.name
  <2>1. name \in Name
    BY <1>2, EntryName
  <2>2. e \in Named(All(bs), name) /\ f \in Named(All(bs), name)
    BY DEF Named
  <2>3. e \in ToSet(bs[map_get_bucket(name)]) /\ f \in ToSet(bs[map_get_bucket(name)])
    BY <1>3, <2>1, <2>2 DEF Named
  <2> QED
    BY <1>1, <2>1, <2>3, BucketOfName DEF Distinct
<1>5. ASSUME NEW name \in Name
      PROVE  /\ \A e \in Named(All(bs), name) : MapValue(bs, name) = e.val
             /\ Named(All(bs), name) = {} => MapValue(bs, name) = NULL
  <2> DEFINE i == map_get_bucket(name)
  <2>1. i \in 0..(N_BUCKETS - 1)
    BY BucketOfName
  <2>2. Named(All(bs), name) = Named(ToSet(bs[i]), name)
    BY <1>3
  <2>3. MapValue(bs, name) = ListValue(bs[i], name)
    BY DEF MapValue
  <2> HIDE DEF i
  <2> QED
    BY <1>1, <2>1, <2>2, <2>3 DEF Named
<1> QED
  BY <1>2, <1>3, <1>4, <1>5

LEMMA SameValue ==
    ASSUME NEW bs, Table(bs), NEW bs2, Table(bs2), NEW name \in Name,
           Named(All(bs), name) = Named(All(bs2), name)
    PROVE  MapValue(bs, name) = MapValue(bs2, name)
  BY TableValues

(* One bucket gets another list.                                           *)
LEMMA UpdateTable ==
    ASSUME NEW bs, Table(bs), NEW i \in 0..(N_BUCKETS - 1), NEW list, List(list),
           \A e \in ToSet(list) : map_get_bucket(e.key.name) = i
    PROVE  /\ Table([bs EXCEPT ![i] = list])
           /\ All([bs EXCEPT ![i] = list]) = (All(bs) \ ToSet(bs[i])) \cup ToSet(list)
<1> DEFINE bs2 == [bs EXCEPT ![i] = list]
<1>1. /\ bs2 \in [0..(N_BUCKETS - 1) -> Seq(Entry)]
      /\ bs2[i] = list /\ \A j \in 0..(N_BUCKETS - 1) : j # i => bs2[j] = bs[j]
  BY DEF Table, List
<1> HIDE DEF bs2
<1>2. Table(bs2)
  <2>1. ASSUME NEW j \in 0..(N_BUCKETS - 1)
        PROVE  List(bs2[j]) /\ \A e \in ToSet(bs2[j]) : map_get_bucket(e.key.name) = j
    <3>1. CASE j = i
      BY <1>1, <3>1
    <3>2. CASE j # i
      <4>1. bs2[j] = bs[j]
        BY <1>1, <3>2
      <4> QED
        BY <4>1 DEF Table
    <3> QED
      BY <3>1, <3>2
  <2> QED
    BY <1>1, <2>1 DEF Table
<1>3. \A j \in 0..(N_BUCKETS - 1) : \A e \in ToSet(bs[j]) : e \in ToSet(bs[i]) => j = i
  BY DEF Table
<1>4. All(bs2) = (All(bs) \ ToSet(bs[i])) \cup ToSet(list)
  <2>1. ASSUME NEW e \in All(bs2) PROVE e \in (All(bs) \ ToSet(bs[i])) \cup ToSet(list)
    <3>1. PICK j \in 0..(N_BUCKETS - 1) : e \in ToSet(bs2[j])
      BY DEF All
    <3>2. CASE j = i
      BY <1>1, <3>1, <3>2
    <3>3. CASE j # i
      BY <1>1, <1>3, <3>1, <3>3 DEF All
    <3> QED
      BY <3>2, <3>3
  <2>2. ASSUME NEW e \in ToSet(list) PROVE e \in All(bs2)
    BY <1>1 DEF All
  <2>3. ASSUME NEW e \in All(bs) \ ToSet(bs[i]) PROVE e \in All(bs2)
    <3>1. PICK j \in 0..(N_BUCKETS - 1) : e \in ToSet(bs[j])
      BY DEF All
    <3>2. j # i /\ e \in ToSet(bs2[j])
      BY <1>1, <3>1
    <3> QED
      BY <3>2 DEF All
  <2> QED
    BY <2>1, <2>2, <2>3
<1> QED
  BY <1>2, <1>4 DEF bs2

(* The look for a name in its bucket.                                      *)
LEMMA Lookup ==
    ASSUME Table(buckets), NEW name \in Name
    PROVE  /\ Has(name) => /\ Position(name) \in 0..(Len(Bucket(name)) - 1)
                           /\ Position(name) + 1 \in DOMAIN Bucket(name)
                           /\ map_get_entry(name) = Bucket(name)[Position(name) + 1]
                           /\ map_get_entry(name) \in ToSet(Bucket(name))
                           /\ Named(All(buckets), name) = {map_get_entry(name)}
           /\ ~ Has(name) => Named(All(buckets), name) = {}
           /\ Value(name) = MapValue(buckets, name)
<1> DEFINE list == Bucket(name)
           i == Position(name)
<1>1. List(list) /\ list \in Seq(Entry)
  BY BucketOfName DEF Table, Bucket
<1>2. Value(name) = MapValue(buckets, name)
  BY DEF Value, MapValue, ListValue, Has, Position, Bucket, map_get_entry
<1>3. /\ Named(All(buckets), name) = Named(ToSet(list), name)
      /\ Distinct(All(buckets))
  BY TableValues DEF Bucket
<1>4. \/ i = Len(list) /\ \A p \in DOMAIN list : list[p].key.name # name
      \/ i \in 0..(Len(list) - 1) /\ list[i + 1].key.name = name
  BY <1>1, FindFirst DEF Position
<1> DEFINE n == Len(list)
<1>5. n \in Nat /\ DOMAIN list = 1..n
  BY <1>1
<1>6. map_get_entry(name) = list[i + 1] /\ (Has(name) <=> i # n)
  BY DEF map_get_entry, list_get, Has
<1> HIDE DEF list, i
<1>7. CASE i = n /\ \A p \in DOMAIN list : list[p].key.name # name
  <2>1. Named(ToSet(list), name) = {}
    BY <1>7 DEF Named, ToSet
  <2> QED
    BY <1>2, <1>3, <1>6, <1>7, <2>1
<1>8. CASE i \in 0..(n - 1) /\ list[i + 1].key.name = name
  <2> HIDE DEF n
  <2>1. i + 1 \in DOMAIN list /\ i # n
    BY <1>5, <1>8, IndexOfElement
  <2>2. list[i + 1] \in ToSet(list)
    BY <2>1 DEF ToSet
  <2>3. Named(All(buckets), name) = {list[i + 1]}
    <3>1. list[i + 1] \in Named(All(buckets), name)
      BY <1>3, <1>8, <2>2 DEF Named
    <3> QED
      BY <1>3, <3>1 DEF Named, Distinct
  <2> QED
    BY <1>2, <1>6, <1>8, <2>1, <2>2, <2>3 DEF list, i, n
<1> QED
  BY <1>4, <1>7, <1>8
-----------------------------------------------------------------------------
(* The keys that the entries of a set point to.                            *)
Keys(S) == {e.key : e \in S}

IInv ==
    /\ Table(buckets)
    /\ size \in 0..MaxSize
    /\ allocated = Keys(All(buckets))

EmptyTable == [i \in 0..(N_BUCKETS - 1) |-> << >>]

LEMMA EmptyIsTable == Table(EmptyTable) /\ All(EmptyTable) = {}
<1>1. << >> \in Seq(Entry) /\ ToSet(<< >>) = {}
  BY DEF ToSet
<1>2. List(<< >>)
  BY DEF List
<1> QED
  BY <1>1, <1>2 DEF EmptyTable, Table, All

LEMMA AllEntries == Table(buckets) => Entries = All(buckets)
  BY DEF Entries, All, Table

(* The entry of an equal key takes the new key, and the old key goes.      *)
LEMMA SetOldStep ==
    ASSUME IInv, NEW key \in Key, NEW val \in Val, key \notin allocated, SetOld(key, val)
    PROVE  /\ IInv'
           /\ \A m \in Name : MapValue(buckets', m) =
                                 IF m = key.name THEN val ELSE MapValue(buckets, m)
           /\ reply' = <<"set", key.name, MapValue(buckets, key.name)>>
<1> DEFINE name == key.name
           i == map_get_bucket(name)
           list == Bucket(name)
           p == Position(name) + 1
           old == map_get_entry(name)
           new == [key |-> key, val |-> val]
           list2 == [list EXCEPT ![p] = new]
<1>1. /\ Table(buckets) /\ size \in 0..MaxSize /\ allocated = Keys(All(buckets))
      /\ name \in Name /\ new \in Entry
  BY DEF IInv, Name, Entry
<1>2. /\ p \in DOMAIN list /\ old = list[p] /\ old \in ToSet(list)
      /\ Named(All(buckets), name) = {old}
      /\ Value(name) = MapValue(buckets, name)
  BY <1>1, Lookup DEF SetOld
<1>3. /\ buckets' = [buckets EXCEPT ![i] = list2]
      /\ allocated' = (allocated \cup {key}) \ {old.key}
      /\ reply' = <<"set", name, Value(name)>> /\ size' = size
  BY DEF SetOld, Replaced
<1>4. i \in 0..(N_BUCKETS - 1) /\ list = buckets[i]
  BY <1>1, BucketOfName DEF Bucket
<1>5. old.key.name = name /\ new.key = key /\ new.key.name = name /\ new.val = val
  BY <1>2 DEF Named
<1>6. List(list) /\ \A e \in ToSet(list) : map_get_bucket(e.key.name) = i
  BY <1>1, <1>4 DEF Table
<1> HIDE DEF list, i, p, old, new, list2
<1>7. List(list2) /\ ToSet(list2) = (ToSet(list) \ {old}) \cup {new}
  <2>1. list[p].key.name = new.key.name
    BY <1>2, <1>5
  <2> QED
    BY <1>1, <1>2, <1>6, <2>1, ReplaceEntry DEF list2
<1>8. \A e \in ToSet(list2) : map_get_bucket(e.key.name) = i
  BY <1>5, <1>6, <1>7 DEF i
<1>9. Table(buckets') /\ All(buckets') = (All(buckets) \ ToSet(list)) \cup ToSet(list2)
  <2> DEFINE bs == [buckets EXCEPT ![i] = list2]
  <2>1. Table(bs) /\ All(bs) = (All(buckets) \ ToSet(buckets[i])) \cup ToSet(list2)
    <3>1. Table(buckets) /\ i \in 0..(N_BUCKETS - 1) /\ List(list2)
      BY <1>1, <1>4, <1>7
    <3> QED
      BY <1>8, <3>1, UpdateTable, ZenonT(40)
  <2> QED
    BY <1>3, <1>4, <2>1
<1>10. All(buckets') = (All(buckets) \ {old}) \cup {new}
  <2>1. ToSet(list) \subseteq All(buckets)
    BY <1>4 DEF All
  <2> QED
    BY <1>2, <1>7, <1>9, <2>1
<1>11. \A e \in All(buckets) : e.key = old.key => e = old
  BY <1>1, <1>2, <1>4, TableValues DEF Named
<1>12. allocated' = Keys(All(buckets'))
  <2>1. key # old.key
    BY <1>1, <1>2, <1>4 DEF Keys, All
  <2> QED
    BY <1>1, <1>3, <1>5, <1>10, <1>11, <2>1 DEF Keys
<1>13. ASSUME NEW m \in Name
       PROVE  MapValue(buckets', m) = IF m = name THEN val ELSE MapValue(buckets, m)
  <2>1. CASE m = name
    <3>1. new \in Named(All(buckets'), m)
      BY <1>5, <1>10, <2>1 DEF Named
    <3> QED
      BY <1>5, <1>9, <2>1, <3>1, TableValues
  <2>2. CASE m # name
    <3>1. Named(All(buckets), m) = Named(All(buckets'), m)
      BY <1>5, <1>10, <2>2 DEF Named
    <3> QED
      BY <1>1, <1>9, <2>2, <3>1, SameValue
  <2> QED
    BY <2>1, <2>2
<1> QED
  BY <1>1, <1>2, <1>3, <1>9, <1>12, <1>13 DEF IInv

LEMMA SetNewStep ==
    ASSUME IInv, NEW key \in Key, NEW val \in Val, SetNew(key, val)
    PROVE  /\ IInv'
           /\ \A m \in Name : MapValue(buckets', m) =
                                 IF m = key.name THEN val ELSE MapValue(buckets, m)
           /\ reply' = <<"set", key.name, MapValue(buckets, key.name)>>
<1> DEFINE name == key.name
           i == map_get_bucket(name)
           list == Bucket(name)
           new == [key |-> key, val |-> val]
           list2 == list_add(list, new)
<1>1. /\ Table(buckets) /\ size \in 0..MaxSize /\ allocated = Keys(All(buckets))
      /\ name \in Name /\ new \in Entry
  BY DEF IInv, Name, Entry
<1>2. /\ Named(All(buckets), name) = {}
      /\ MapValue(buckets, name) = NULL
  BY <1>1, Lookup, TableValues DEF SetNew
<1>3. i \in 0..(N_BUCKETS - 1) /\ list = buckets[i]
  BY <1>1, BucketOfName DEF Bucket
<1>4. /\ buckets' = [buckets EXCEPT ![i] = list2]
      /\ allocated' = allocated \cup {key}
      /\ reply' = <<"set", name, NULL>> /\ size' = size + 1 /\ size < MaxSize
  BY DEF SetNew, Bucket
<1>5. new.key = key /\ new.key.name = name /\ new.val = val
  OBVIOUS
<1>6. List(list) /\ \A e \in ToSet(list) : map_get_bucket(e.key.name) = i
  BY <1>1, <1>3 DEF Table
<1> HIDE DEF list, i, new, list2
<1>7. \A e \in ToSet(list) : e.key.name # name
  BY <1>2, <1>3 DEF Named, All
<1>8. List(list2) /\ ToSet(list2) = ToSet(list) \cup {new}
  BY <1>1, <1>5, <1>6, <1>7, AddEntry DEF list2
<1>9. \A e \in ToSet(list2) : map_get_bucket(e.key.name) = i
  BY <1>5, <1>6, <1>8 DEF i
<1>10. Table(buckets') /\ All(buckets') = All(buckets) \cup {new}
  <2>1. Table(buckets') /\ All(buckets') = (All(buckets) \ ToSet(list)) \cup ToSet(list2)
    <3> DEFINE bs == [buckets EXCEPT ![i] = list2]
    <3>1. Table(bs) /\ All(bs) = (All(buckets) \ ToSet(buckets[i])) \cup ToSet(list2)
      <4>1. Table(buckets) /\ i \in 0..(N_BUCKETS - 1) /\ List(list2)
        BY <1>1, <1>3, <1>8
      <4> QED
        BY <1>9, <4>1, UpdateTable
    <3> QED
      BY <1>3, <1>4, <3>1
  <2>2. ToSet(list) \subseteq All(buckets)
    BY <1>3 DEF All
  <2> QED
    BY <1>8, <2>1, <2>2
<1>11. allocated' = Keys(All(buckets'))
  BY <1>1, <1>4, <1>5, <1>10 DEF Keys
<1>12. size' \in 0..MaxSize
  BY <1>1, <1>4, MapAssumption
<1>13. ASSUME NEW m \in Name
       PROVE  MapValue(buckets', m) = IF m = name THEN val ELSE MapValue(buckets, m)
  <2>1. CASE m = name
    <3>1. new \in Named(All(buckets'), m)
      BY <1>5, <1>10, <2>1 DEF Named
    <3> QED
      BY <1>5, <1>10, <2>1, <3>1, TableValues
  <2>2. CASE m # name
    <3>1. Named(All(buckets), m) = Named(All(buckets'), m)
      BY <1>5, <1>10, <2>2 DEF Named
    <3> QED
      BY <1>1, <1>10, <2>2, <3>1, SameValue
  <2> QED
    BY <2>1, <2>2
<1> QED
  BY <1>2, <1>4, <1>10, <1>11, <1>12, <1>13 DEF IInv

LEMMA RemoveStep ==
    ASSUME IInv, NEW name \in Name, map_remove(name)
    PROVE  /\ IInv'
           /\ \A m \in Name : MapValue(buckets', m) =
                                 IF m = name THEN NULL ELSE MapValue(buckets, m)
           /\ reply' = <<"remove", name, MapValue(buckets, name)>>
<1>1. Table(buckets) /\ size \in 0..MaxSize /\ allocated = Keys(All(buckets))
  BY DEF IInv
<1>2. reply' = <<"remove", name, MapValue(buckets, name)>> /\ size' = size
  BY <1>1, Lookup DEF map_remove
<1>3. CASE Has(name)
  <2> DEFINE i == map_get_bucket(name)
             list == Bucket(name)
             old == map_get_entry(name)
             k == Position(name)
             list2 == list_remove(list, k)
  <2>1. /\ k \in 0..(Len(list) - 1) /\ old = list[k + 1] /\ old \in ToSet(list)
        /\ Named(All(buckets), name) = {old}
    BY <1>1, <1>3, Lookup
  <2>2. i \in 0..(N_BUCKETS - 1) /\ list = buckets[i]
    BY BucketOfName DEF Bucket
  <2>3. buckets' = [buckets EXCEPT ![i] = list2] /\ allocated' = allocated \ {old.key}
    BY <1>3 DEF map_remove, Bucket
  <2>4. List(list) /\ \A e \in ToSet(list) : map_get_bucket(e.key.name) = i
    BY <1>1, <2>2 DEF Table
  <2>5. old.key.name = name
    BY <2>1 DEF Named
  <2> HIDE DEF list, i, old, k, list2
  <2>6. List(list2) /\ ToSet(list2) = ToSet(list) \ {old}
    BY <2>1, <2>4, RemoveEntry DEF list2
  <2>7. \A e \in ToSet(list2) : map_get_bucket(e.key.name) = i
    BY <2>4, <2>6
  <2>8. Table(buckets') /\ All(buckets') = All(buckets) \ {old}
    <3>1. Table(buckets') /\ All(buckets') = (All(buckets) \ ToSet(list)) \cup ToSet(list2)
      BY <1>1, <2>2, <2>3, <2>6, <2>7, UpdateTable
    <3>2. ToSet(list) \subseteq All(buckets)
      BY <2>2 DEF All
    <3> QED
      BY <2>1, <2>6, <3>1, <3>2
  <2>9. \A e \in All(buckets) : e.key = old.key => e = old
    BY <2>1, <2>5 DEF Named
  <2>10. allocated' = Keys(All(buckets'))
    BY <1>1, <2>3, <2>8, <2>9 DEF Keys
  <2>11. ASSUME NEW m \in Name
         PROVE  MapValue(buckets', m) = IF m = name THEN NULL ELSE MapValue(buckets, m)
    <3>1. CASE m = name
      <4>1. Named(All(buckets'), m) = {}
        BY <2>1, <2>8, <3>1 DEF Named
      <4> QED
        BY <2>8, <3>1, <4>1, TableValues
    <3>2. CASE m # name
      <4>1. Named(All(buckets), m) = Named(All(buckets'), m)
        BY <2>5, <2>8, <3>2 DEF Named
      <4> QED
        BY <1>1, <2>8, <3>2, <4>1, SameValue
    <3> QED
      BY <3>1, <3>2
  <2> QED
    BY <1>1, <1>2, <2>8, <2>10, <2>11 DEF IInv
<1>4. CASE ~ Has(name)
  <2>1. buckets' = buckets /\ allocated' = allocated
    BY <1>4 DEF map_remove
  <2>2. MapValue(buckets, name) = NULL
    BY <1>1, <1>4, Lookup, TableValues
  <2> QED
    BY <1>1, <1>2, <2>1, <2>2 DEF IInv
<1> QED
  BY <1>3, <1>4
LEMMA InitIInv == Init => IInv
<1>1. 0 \in 0..MaxSize
  BY MapAssumption
<1> QED
  BY <1>1, EmptyIsTable DEF Init, IInv, Keys, EmptyTable

LEMMA DestroyStep ==
    ASSUME IInv, map_destroy
    PROVE  IInv' /\ \A m \in Name : MapValue(buckets', m) = NULL
<1>1. buckets' = EmptyTable /\ size' = 0 /\ allocated' = allocated \ Keys(Entries)
  BY DEF map_destroy, EmptyTable, Keys
<1>2. Table(buckets') /\ All(buckets') = {}
  BY <1>1, EmptyIsTable
<1>3. allocated' = Keys(All(buckets'))
  BY <1>1, <1>2, AllEntries DEF IInv, Keys
<1>4. 0 \in 0..MaxSize
  BY MapAssumption
<1>5. \A m \in Name : MapValue(buckets', m) = NULL
  BY <1>2, TableValues DEF Named
<1> QED
  BY <1>1, <1>2, <1>3, <1>4, <1>5 DEF IInv

LEMMA NextIInv == IInv /\ [Next]_vars => IInv'
<1> SUFFICES ASSUME IInv, [Next]_vars PROVE IInv'
  OBVIOUS
<1>1. ASSUME NEW n \in Name, map_get(n) PROVE IInv'
  BY <1>1 DEF map_get, IInv
<1>2. ASSUME NEW n \in Name, map_remove(n) PROVE IInv'
  BY <1>2, RemoveStep
<1>3. ASSUME NEW k \in Key, NEW v \in Val, map_set(k, v) PROVE IInv'
  BY <1>3, SetOldStep, SetNewStep DEF map_set
<1>4. CASE map_destroy
  BY <1>4, DestroyStep
<1>5. CASE UNCHANGED vars
  BY <1>5 DEF vars, IInv
<1> QED
  BY <1>1, <1>2, <1>3, <1>4, <1>5 DEF Next

LEMMA Invariance == Spec => []IInv
  BY InitIInv, NextIInv, PTL DEF Spec

(* The lists hold entries and the keys are those handed to the map         *)
(* (map_set, list_add).                                                    *)
THEOREM TypeCorrect == Spec => []TypeOK
<1>1. IInv => TypeOK
  <2> SUFFICES ASSUME IInv PROVE TypeOK
    OBVIOUS
  <2>1. Keys(All(buckets)) \subseteq Key
    BY TableValues, EntryName DEF IInv, Keys
  <2> QED
    BY <2>1 DEF IInv, TypeOK, Table
<1> QED
  BY <1>1, Invariance, PTL

(* The keys that map.c owns are those of its entries, one entry for each   *)
(* name: map_set destroys the old key and not the new one, map_remove and  *)
(* map_destroy free each key once.                                         *)
THEOREM KeysAlwaysOwned == Spec => []KeysOwned
<1>1. IInv => KeysOwned
  <2> SUFFICES ASSUME IInv PROVE KeysOwned
    OBVIOUS
  <2>1. Table(buckets) /\ DOMAIN buckets = 0..(N_BUCKETS - 1)
    BY DEF IInv, Table
  <2>2. allocated = {e.key : e \in Entries}
    BY <2>1, AllEntries DEF IInv, Keys
  <2>3. ASSUME NEW i \in DOMAIN buckets, NEW j \in DOMAIN buckets,
               NEW p \in DOMAIN buckets[i], NEW q \in DOMAIN buckets[j],
               buckets[i][p].key.name = buckets[j][q].key.name
        PROVE  i = j /\ p = q
    <3>1. /\ buckets[i][p] \in ToSet(buckets[i])
          /\ buckets[j][q] \in ToSet(buckets[j])
      BY DEF ToSet
    <3>2. i = j
      BY <2>1, <2>3, <3>1 DEF Table
    <3> QED
      BY <2>1, <2>3, <3>2 DEF Table, List
  <2> QED
    BY <2>2, <2>3 DEF KeysOwned
<1> QED
  BY <1>1, Invariance, PTL

(* map.c implements the dictionary that map.h promises: every call maps to *)
(* the call of the dictionary, with the same reply.                        *)
THEOREM Refinement == Spec => MapImplements
<1>1. Table(buckets) => [n \in Name |-> Value(n)] = [n \in Name |-> MapValue(buckets, n)]
  BY Lookup
<1>2. Init => Promise!Init
  <2> SUFFICES ASSUME Init PROVE Promise!Init
    OBVIOUS
  <2>1. buckets = EmptyTable /\ reply = <<"create", NULL, NULL>>
    BY DEF Init, EmptyTable
  <2>2. \A n \in Name : MapValue(buckets, n) = NULL
    BY <2>1, EmptyIsTable, TableValues DEF Named
  <2> QED
    BY <1>1, <2>1, <2>2, EmptyIsTable DEF Promise!Init, Promise!Empty
<1>3. IInv /\ IInv' /\ [Next]_vars => [Promise!Next]_(Promise!dictVars)
  <2> SUFFICES ASSUME IInv, IInv', [Next]_vars
               PROVE  Promise!Next \/ UNCHANGED Promise!dictVars
    BY DEF Promise!dictVars
  <2> DEFINE value == [n \in Name |-> MapValue(buckets, n)]
             value2 == [n \in Name |-> MapValue(buckets', n)]
  <2>1. [n \in Name |-> Value(n)] = value
    BY <1>1 DEF IInv
  <2>2. [n \in Name |-> Value(n)]' = value2
    <3>1. ASSUME NEW n \in Name PROVE Value(n)' = MapValue(buckets', n)
      BY DEF Value, MapValue, ListValue, Has, Position, Bucket, map_get_entry
    <3> QED
      BY <3>1
  <2>3. ASSUME NEW n \in Name, map_get(n) PROVE Promise!Get(n)
    <3>1. buckets' = buckets /\ reply' = <<"get", n, value[n]>>
      BY <2>3, Lookup DEF map_get, IInv
    <3>2. value2 = value
      BY <3>1
    <3> QED
      BY <2>1, <2>2, <3>1, <3>2 DEF Promise!Get
  <2>4. ASSUME NEW n \in Name, map_remove(n) PROVE Promise!Remove(n)
    <3>1. /\ \A m \in Name : MapValue(buckets', m) = IF m = n THEN NULL ELSE MapValue(buckets, m)
          /\ reply' = <<"remove", n, MapValue(buckets, n)>>
      BY <2>4, RemoveStep
    <3>2. value2 = [value EXCEPT ![n] = NULL] /\ reply' = <<"remove", n, value[n]>>
      BY <3>1
    <3> QED
      BY <2>1, <2>2, <3>2 DEF Promise!Remove
  <2>5. ASSUME NEW k \in Key, NEW v \in Val, map_set(k, v) PROVE Promise!Set(k.name, v)
    <3> DEFINE n == k.name
    <3>1. n \in Name
      BY DEF Name
    <3>2. /\ \A m \in Name : MapValue(buckets', m) = IF m = n THEN v ELSE MapValue(buckets, m)
          /\ reply' = <<"set", n, MapValue(buckets, n)>>
      BY <2>5, SetOldStep, SetNewStep DEF map_set
    <3> HIDE DEF n
    <3>3. value2 = [value EXCEPT ![n] = v] /\ reply' = <<"set", n, value[n]>>
      BY <3>1, <3>2
    <3> QED
      BY <2>1, <2>2, <3>3 DEF Promise!Set, n
  <2>6. CASE map_destroy
    <3>1. /\ \A m \in Name : MapValue(buckets', m) = NULL
          /\ reply' = <<"create", NULL, NULL>>
      BY <2>6, DestroyStep DEF map_destroy
    <3>2. value2 = [n \in Name |-> NULL]
      BY <3>1
    <3> QED
      BY <2>2, <3>1, <3>2 DEF Promise!Next, Promise!Clear, Promise!Empty
  <2>7. CASE UNCHANGED vars
    <3>1. buckets' = buckets /\ reply' = reply
      BY <2>7 DEF vars
    <3> QED
      BY <2>1, <2>2, <3>1 DEF Promise!dictVars
  <2>8. \A k \in Key : k.name \in Name
    BY DEF Name
  <2> QED
    BY <2>3, <2>4, <2>5, <2>6, <2>7, <2>8 DEF Next, Promise!Next
<1> QED
  BY <1>2, <1>3, Invariance, PTL DEF Spec, MapImplements, Promise!Spec

-----------------------------------------------------------------------------
(* The heap.                                                               *)

(* Indexes of the array d, and those of its elements that have a parent.   *)
Index(d) == 0..(Len(d) - 1)
Child(d) == 1..(Len(d) - 1)

Up(j) == TheHeap!parent(j)

At(d, i) == Rank(TheHeap!heap_get(d, i))

Count(d, e) == Cardinality({p \in DOMAIN d : d[p] = e})

SameElements(d, q) == \A e \in Elem : Count(q, e) = Count(d, e)

(* The order of the heap.                                                  *)
Ordered(d) == \A j \in Child(d) : At(d, Up(j)) <= At(d, j)

(* The order is right but for the element at i, whatever that is.          *)
OrderedBut(d, i) ==
    /\ \A j \in Child(d) : j # i /\ Up(j) # i => At(d, Up(j)) <= At(d, j)
    /\ i > 0 => \A j \in Child(d) : Up(j) = i => At(d, Up(i)) <= At(d, j)

(* The element at i may belong further up, or further down.                *)
MayRise(d, i) == OrderedBut(d, i) /\ \A j \in Child(d) : Up(j) = i => At(d, i) <= At(d, j)
MaySink(d, i) == OrderedBut(d, i) /\ (i > 0 => At(d, Up(i)) <= At(d, i))

LEMMA Parents ==
    /\ \A j \in Nat \ {0} : Up(j) \in Nat /\ Up(j) < j /\ Up(j) # j
    /\ \A i \in Nat : Up(2 * i + 1) = i /\ Up(2 * i + 2) = i
    /\ \A i \in Nat, j \in Nat \ {0} : Up(j) = i => j = 2 * i + 1 \/ j = 2 * i + 2
  BY DEF Up, TheHeap!parent

LEMMA Indexes ==
    ASSUME NEW d \in Seq(Elem)
    PROVE  /\ Len(d) \in Nat /\ Index(d) \subseteq Nat /\ Child(d) \subseteq Nat \ {0}
           /\ \A j \in Child(d) : j \in Index(d) /\ Up(j) \in Index(d)
           /\ \A i \in Index(d) : i = 0 \/ i \in Child(d)
           /\ \A i \in Index(d) : i + 1 \in DOMAIN d
           /\ \A i \in Index(d) : TheHeap!heap_get(d, i) \in Elem
           /\ TheHeap!HeapAssumption => \A i \in Index(d) : At(d, i) \in Int
<1>1. Len(d) \in Nat /\ DOMAIN d = 1..Len(d)
  OBVIOUS
<1>2. Index(d) \subseteq Nat /\ Child(d) \subseteq Nat \ {0} /\ \A j \in Child(d) : j \in Index(d)
  BY <1>1 DEF Index, Child
<1>3. ASSUME NEW j \in Child(d) PROVE Up(j) \in Index(d)
  <2>1. j \in Nat \ {0} /\ j <= Len(d) - 1
    BY <1>1 DEF Child
  <2>2. Up(j) \in Nat /\ Up(j) < j
    BY <2>1, Parents
  <2> QED
    BY <1>1, <2>1, <2>2 DEF Index
<1>4. /\ \A i \in Index(d) : i = 0 \/ i \in Child(d)
      /\ \A i \in Index(d) : i + 1 \in DOMAIN d
  BY <1>1 DEF Index, Child
<1>5. \A i \in Index(d) : TheHeap!heap_get(d, i) \in Elem
  BY <1>4 DEF TheHeap!heap_get
<1> QED
  BY <1>1, <1>2, <1>3, <1>4, <1>5 DEF At, TheHeap!HeapAssumption

LEMMA Swaps ==
    ASSUME NEW d \in Seq(Elem), NEW i \in Index(d), NEW j \in Index(d),
           NEW q, q = TheHeap!swap_element(d, i, j)
    PROVE  /\ q \in Seq(Elem) /\ Len(q) = Len(d) /\ Index(q) = Index(d) /\ Child(q) = Child(d)
           /\ TheHeap!heap_get(q, i) = TheHeap!heap_get(d, j)
           /\ TheHeap!heap_get(q, j) = TheHeap!heap_get(d, i)
           /\ \A k \in Index(d) : k # i /\ k # j => TheHeap!heap_get(q, k) = TheHeap!heap_get(d, k)
           /\ At(q, i) = At(d, j) /\ At(q, j) = At(d, i)
           /\ \A k \in Index(d) : k # i /\ k # j => At(q, k) = At(d, k)
           /\ SameElements(d, q)
<1>1. /\ Len(d) \in Nat /\ i + 1 \in DOMAIN d /\ j + 1 \in DOMAIN d /\ DOMAIN d = 1..Len(d)
      /\ i \in Nat /\ j \in Nat
  BY Indexes
<1>2. q = [d EXCEPT ![i + 1] = d[j + 1], ![j + 1] = d[i + 1]]
  BY DEF TheHeap!swap_element, TheHeap!heap_get
<1>3. /\ q \in Seq(Elem) /\ Len(q) = Len(d) /\ DOMAIN q = DOMAIN d
      /\ q[i + 1] = d[j + 1] /\ q[j + 1] = d[i + 1]
      /\ \A p \in DOMAIN d : p # i + 1 /\ p # j + 1 => q[p] = d[p]
  BY <1>1, <1>2
<1>4. \A k \in Index(d) : k # i /\ k # j => k + 1 \in DOMAIN d /\ k + 1 # i + 1 /\ k + 1 # j + 1
  BY <1>1 DEF Index
<1>5. /\ TheHeap!heap_get(q, i) = TheHeap!heap_get(d, j)
      /\ TheHeap!heap_get(q, j) = TheHeap!heap_get(d, i)
      /\ \A k \in Index(d) : k # i /\ k # j => TheHeap!heap_get(q, k) = TheHeap!heap_get(d, k)
  BY <1>3, <1>4 DEF TheHeap!heap_get
<1>6. SameElements(d, q)
  <2> SUFFICES ASSUME NEW e \in Elem PROVE Count(q, e) = Count(d, e)
    BY DEF SameElements
  <2> DEFINE S == {p \in DOMAIN d : d[p] = e}
             T == {p \in DOMAIN q : q[p] = e}
             f == [p \in S |-> IF p = i + 1 THEN j + 1 ELSE IF p = j + 1 THEN i + 1 ELSE p]
  <2>1. IsFiniteSet(S)
    <3>1. IsFiniteSet(DOMAIN d)
      BY <1>1, FS_Interval
    <3> QED
      BY <3>1, FS_Subset
  <2>2. f \in Bijection(S, T)
    <3>1. \A p \in S : f[p] \in T
      BY <1>1, <1>3
    <3>2. \A p, r \in S : f[p] = f[r] => p = r
      BY <1>1
    <3>3. \A t \in T : \E p \in S : f[p] = t
      BY <1>1, <1>3
    <3> QED
      BY <3>1, <3>2, <3>3 DEF Bijection, Injection, Surjection, IsInjective
  <2> HIDE DEF S, T, f
  <2>3. Cardinality(S) = Cardinality(T)
    BY <2>1, <2>2, FS_Bijection DEF ExistsBijection
  <2> QED
    BY <2>3 DEF Count, S, T
<1> QED
  BY <1>3, <1>5, <1>6 DEF At, Index, Child

LEMMA SameTransitive ==
    ASSUME NEW d, NEW q, NEW r, SameElements(d, q), SameElements(q, r)
    PROVE  SameElements(d, r)
  BY DEF SameElements

-----------------------------------------------------------------------------
(* One pass of a loop upward.                                              *)
LEMMA StepUp ==
    ASSUME TheHeap!HeapAssumption, NEW d \in Seq(Elem), NEW i \in Child(d), OrderedBut(d, i),
           NEW q, q = TheHeap!swap_element(d, i, Up(i))
    PROVE  /\ OrderedBut(q, Up(i))
           /\ MayRise(d, i) /\ TheHeap!Less(d, i, Up(i)) => MayRise(q, Up(i))
<1> DEFINE p == Up(i)
<1>1. /\ i \in Index(d) /\ p \in Index(d) /\ i \in Nat \ {0} /\ p \in Nat /\ p < i
      /\ \A j \in Child(d) : j \in Index(d) /\ Up(j) \in Index(d) /\ Up(j) # j /\ Up(j) < j
      /\ \A j \in Index(d) : j \in Nat /\ At(d, j) \in Int /\ (j = 0 \/ j \in Child(d))
  BY Indexes, Parents
<1>2. /\ Child(q) = Child(d) /\ At(q, i) = At(d, p) /\ At(q, p) = At(d, i)
      /\ \A k \in Index(d) : k # i /\ k # p => At(q, k) = At(d, k)
  BY <1>1, Swaps
<1>3. p > 0 => p \in Child(d) /\ Up(p) < p /\ Up(p) \in Index(d)
  BY <1>1
<1>4. ASSUME NEW j \in Child(q), j # p, Up(j) # p PROVE At(q, Up(j)) <= At(q, j)
  <2>1. /\ j \in Child(d) /\ j \in Index(d) /\ Up(j) \in Index(d) /\ j # i
        /\ Up(j) # j
    BY <1>1, <1>2, <1>4
  <2>2. CASE Up(j) = i
    <3>1. At(d, p) <= At(d, j)
      BY <1>1, <2>1, <2>2 DEF OrderedBut
    <3> QED
      BY <1>2, <1>4, <2>1, <2>2, <3>1
  <2>3. CASE Up(j) # i
    <3>1. At(d, Up(j)) <= At(d, j)
      BY <2>1, <2>3 DEF OrderedBut
    <3> QED
      BY <1>2, <1>4, <2>1, <2>3, <3>1
  <2> QED
    BY <2>2, <2>3
<1>5. ASSUME p > 0 PROVE At(d, Up(p)) <= At(d, p)
  <2>1. p \in Child(d) /\ p # i /\ Up(p) # i
    BY <1>1, <1>3, <1>5
  <2> QED
    BY <2>1 DEF OrderedBut
<1>6. ASSUME NEW j \in Child(q), Up(j) = p, j # i PROVE At(d, p) <= At(d, j) /\ At(q, j) = At(d, j)
  <2>1. j \in Child(d) /\ j \in Index(d) /\ j # p /\ Up(j) # i
    BY <1>1, <1>2, <1>6
  <2> QED
    BY <1>2, <1>6, <2>1 DEF OrderedBut
<1>7. ASSUME p > 0, NEW j \in Child(q), Up(j) = p PROVE At(q, Up(p)) <= At(q, j)
  <2>1. At(q, Up(p)) = At(d, Up(p)) /\ At(d, Up(p)) <= At(d, p)
    <3>1. Up(p) \in Index(d) /\ Up(p) # p /\ Up(p) # i
      BY <1>1, <1>3, <1>7
    <3> QED
      BY <1>2, <1>5, <1>7, <3>1
  <2>2. CASE j = i
    BY <1>2, <2>1, <2>2
  <2>3. CASE j # i
    <3>1. At(d, p) <= At(d, j) /\ At(q, j) = At(d, j) /\ j \in Index(d)
      BY <1>1, <1>2, <1>6, <1>7, <2>3
    <3>2. At(d, Up(p)) \in Int /\ At(d, p) \in Int /\ At(d, j) \in Int
      BY <1>1, <1>3, <1>7, <3>1
    <3> QED
      BY <2>1, <3>1, <3>2
  <2> QED
    BY <2>2, <2>3
<1>8. OrderedBut(q, p)
  BY <1>4, <1>7 DEF OrderedBut
<1>9. ASSUME TheHeap!Less(d, i, p), NEW j \in Child(q), Up(j) = p
      PROVE  At(q, p) <= At(q, j)
  <2>1. At(d, i) < At(d, p) /\ At(d, i) \in Int /\ At(d, p) \in Int
    BY <1>1, <1>9 DEF TheHeap!Less, At
  <2>2. CASE j = i
    BY <1>2, <2>1, <2>2
  <2>3. CASE j # i
    <3>1. At(d, p) <= At(d, j) /\ At(q, j) = At(d, j) /\ j \in Index(d)
      BY <1>1, <1>2, <1>6, <1>9, <2>3
    <3>2. At(d, j) \in Int
      BY <1>1, <3>1
    <3> QED
      BY <1>2, <2>1, <3>1, <3>2
  <2> QED
    BY <2>2, <2>3
<1> QED
  BY <1>8, <1>9 DEF MayRise

(* The least of an element and its children, as the calls of compare in    *)
(* shift_down find it.                                                     *)
LEMMA LeastOfFamily ==
    ASSUME TheHeap!HeapAssumption, NEW d \in Seq(Elem), NEW i \in Index(d),
           NEW c, c = TheHeap!SmallestOf(d, i)
    PROVE  /\ c \in Index(d) /\ (c = i \/ (c \in Child(d) /\ Up(c) = i))
           /\ \A j \in Child(d) : Up(j) = i => At(d, c) <= At(d, j)
           /\ At(d, c) <= At(d, i)
<1> DEFINE l == 2 * i + 1
           r == 2 * i + 2
           n == Len(d)
           family == {e \in {i, l, r} : e < n}
           Best(e) == \A f \in family \ {e} :
                        TheHeap!Less(d, e, f) \/ (~ TheHeap!Less(d, f, e) /\ e < f)
<1>1. n \in Nat /\ i \in Nat /\ l \in Nat /\ r \in Nat /\ i < l /\ l < r /\ i < n
  BY Indexes DEF Index
<1>2. family \subseteq Index(d) /\ i \in family
  BY <1>1 DEF Index
<1>3. \A e \in family : At(d, e) \in Int
  BY <1>2, Indexes
<1>4. \A e, f : TheHeap!Less(d, e, f) <=> At(d, e) < At(d, f)
  BY DEF TheHeap!Less, At
<1>5. c = CHOOSE e \in family : Best(e)
  BY DEF TheHeap!SmallestOf, TheHeap!left_child, TheHeap!right_child
<1>6. \E e \in family : Best(e)
  <2> DEFINE m == IF l \in family /\ At(d, l) < At(d, i) THEN l ELSE i
             k == IF r \in family /\ At(d, r) < At(d, m) THEN r ELSE m
  <2> HIDE DEF family
  <2>1. /\ m \in family /\ (m = i \/ (m = l /\ At(d, l) < At(d, i)))
        /\ l \in family => At(d, m) <= At(d, l)
        /\ At(d, m) <= At(d, i)
    BY <1>2, <1>3
  <2> HIDE DEF m
  <2>2. /\ k \in family /\ (k = m \/ (k = r /\ At(d, r) < At(d, m)))
        /\ r \in family => At(d, k) <= At(d, r)
        /\ At(d, k) <= At(d, m)
    BY <1>3, <2>1
  <2> HIDE DEF k
  <2>3. \A f \in family : f = i \/ f = l \/ f = r
    BY DEF family
  <2>4. ASSUME NEW f \in family \ {k} PROVE At(d, k) < At(d, f) \/ (~ (At(d, f) < At(d, k)) /\ k < f)
    <3>1. At(d, f) \in Int /\ At(d, k) \in Int /\ At(d, m) \in Int /\ At(d, i) \in Int
      BY <1>2, <1>3, <2>1, <2>2
    <3> QED
      BY <1>1, <2>1, <2>2, <2>3, <3>1
  <2> QED
    BY <1>4, <2>2, <2>4
<1>7. c \in family /\ Best(c)
  BY <1>5, <1>6
<1>8. ASSUME NEW j \in Child(d), Up(j) = i PROVE j \in family
  <2>1. j \in Nat \ {0} /\ j < n
    BY <1>1 DEF Child
  <2>2. j = l \/ j = r
    BY <1>1, <1>8, <2>1, Parents
  <2> QED
    BY <2>1, <2>2
<1>9. ASSUME NEW e \in family, e # i PROVE e \in Child(d) /\ Up(e) = i
  <2>1. e \in {l, r} /\ e < n
    BY <1>9
  <2>2. Up(l) = i /\ Up(r) = i
    BY <1>1, Parents
  <2>3. e \in 1..(n - 1)
    BY <1>1, <2>1
  <2> QED
    BY <2>1, <2>2, <2>3 DEF Child
<1> HIDE DEF family
<1>10. ASSUME NEW e \in family PROVE At(d, c) <= At(d, e)
  <2>1. At(d, c) \in Int /\ At(d, e) \in Int
    BY <1>3, <1>7
  <2> QED
    BY <1>4, <1>7, <2>1
<1>11. c \in Index(d) /\ At(d, c) <= At(d, i)
  BY <1>2, <1>7, <1>10
<1>12. c = i \/ (c \in Child(d) /\ Up(c) = i)
  BY <1>7, <1>9
<1>13. \A j \in Child(d) : Up(j) = i => At(d, c) <= At(d, j)
  BY <1>8, <1>10
<1> QED
  BY <1>11, <1>12, <1>13

(* One call of shift_down.                                                 *)
LEMMA StepDown ==
    ASSUME TheHeap!HeapAssumption, NEW d \in Seq(Elem), NEW i \in Index(d), MaySink(d, i),
           NEW c, c = TheHeap!SmallestOf(d, i),
           NEW q, q = TheHeap!swap_element(d, i, c)
    PROVE  /\ c = i => Ordered(d)
           /\ c # i => MaySink(q, c) /\ c \in Index(d) /\ i < c
<1>1. /\ i \in Nat
      /\ \A j \in Child(d) : j \in Index(d) /\ Up(j) \in Index(d) /\ Up(j) # j /\ Up(j) < j
                            /\ j \in Nat \ {0}
      /\ \A j \in Index(d) : j \in Nat /\ At(d, j) \in Int /\ (j = 0 \/ j \in Child(d))
  BY Indexes, Parents
<1>2. /\ c \in Index(d) /\ (c = i \/ (c \in Child(d) /\ Up(c) = i))
      /\ \A j \in Child(d) : Up(j) = i => At(d, c) <= At(d, j)
      /\ At(d, c) <= At(d, i)
  BY LeastOfFamily
<1>3. CASE c = i
  <2> SUFFICES ASSUME NEW j \in Child(d) PROVE At(d, Up(j)) <= At(d, j)
    BY <1>3 DEF Ordered
  <2>1. CASE Up(j) = i
    BY <1>2, <1>3, <2>1
  <2>2. CASE Up(j) # i /\ j = i
    BY <1>1, <2>2 DEF MaySink
  <2>3. CASE Up(j) # i /\ j # i
    BY <2>3 DEF MaySink, OrderedBut
  <2> QED
    BY <2>1, <2>2, <2>3
<1>4. CASE c # i
  <2>1. c \in Child(d) /\ Up(c) = i /\ i < c /\ c > 0
    BY <1>1, <1>2, <1>4
  <2>2. /\ Child(q) = Child(d) /\ At(q, i) = At(d, c) /\ At(q, c) = At(d, i)
        /\ \A k \in Index(d) : k # i /\ k # c => At(q, k) = At(d, k)
    BY <1>2, Swaps
  <2>3. ASSUME NEW j \in Child(q), j # c, Up(j) # c PROVE At(q, Up(j)) <= At(q, j)
    <3>1. j \in Child(d) /\ j \in Index(d) /\ Up(j) \in Index(d) /\ Up(j) # j
      BY <1>1, <2>2
    <3>2. CASE Up(j) = i
      BY <1>2, <2>2, <2>3, <3>1, <3>2
    <3>3. CASE Up(j) # i /\ j = i
      <4>1. i > 0
        BY <1>1, <3>1, <3>3
      <4>2. At(d, Up(i)) <= At(d, c)
        BY <2>1, <4>1 DEF MaySink, OrderedBut
      <4> QED
        BY <2>2, <2>3, <3>1, <3>3, <4>2
    <3>4. CASE Up(j) # i /\ j # i
      <4>1. At(d, Up(j)) <= At(d, j)
        BY <3>1, <3>4 DEF MaySink, OrderedBut
      <4> QED
        BY <2>2, <2>3, <3>1, <3>4, <4>1
    <3> QED
      BY <3>2, <3>3, <3>4
  <2>4. ASSUME NEW j \in Child(q), Up(j) = c PROVE At(q, Up(c)) <= At(q, j)
    <3>1. j \in Child(d) /\ j \in Index(d) /\ j # c /\ j # i
      BY <1>1, <2>1, <2>2, <2>4
    <3>2. At(d, c) <= At(d, j)
      BY <1>4, <2>4, <3>1 DEF MaySink, OrderedBut
    <3> QED
      BY <2>1, <2>2, <3>1, <3>2
  <2>5. At(q, Up(c)) <= At(q, c)
    BY <1>2, <2>1, <2>2
  <2>6. MaySink(q, c)
    BY <2>3, <2>4, <2>5 DEF MaySink, OrderedBut
  <2> QED
    BY <1>2, <1>4, <2>1, <2>6
<1> QED
  BY <1>3, <1>4

-----------------------------------------------------------------------------
(* What a loop of heap.c keeps while the array d changes to q: its length  *)
(* and its elements.                                                       *)
Rearranged(d, q) == q \in Seq(Elem) /\ Len(q) = Len(d) /\ SameElements(d, q)

LoopStates(d) == {s \in [data : Seq(Elem), at : Nat] :
                    Rearranged(d, s.data) /\ s.at \in Index(s.data)}

LEMMA LoopSwaps ==
    ASSUME NEW d \in Seq(Elem), NEW s \in LoopStates(d), NEW j \in Index(s.data),
           NEW t, t = TheHeap!Moved(s.data, s.at, j)
    PROVE  /\ t \in LoopStates(d) /\ t.at = j
           /\ t.data = TheHeap!swap_element(s.data, s.at, j)
           /\ TheHeap!heap_get(t.data, j) = TheHeap!heap_get(s.data, s.at)
<1>1. /\ s.data \in Seq(Elem) /\ s.at \in Index(s.data) /\ Rearranged(d, s.data)
  BY DEF LoopStates
<1>2. /\ t.data = TheHeap!swap_element(s.data, s.at, j) /\ t.at = j
      /\ t = [data |-> TheHeap!swap_element(s.data, s.at, j), at |-> j]
  BY DEF TheHeap!Moved
<1>3. /\ t.data \in Seq(Elem) /\ Len(t.data) = Len(s.data) /\ SameElements(s.data, t.data)
      /\ Index(t.data) = Index(s.data) /\ j \in Nat
      /\ TheHeap!heap_get(t.data, j) = TheHeap!heap_get(s.data, s.at)
  BY <1>1, <1>2, Swaps, Indexes
<1>4. Rearranged(d, t.data)
  BY <1>1, <1>3, SameTransitive DEF Rearranged
<1> QED
  BY <1>2, <1>3, <1>4 DEF LoopStates

(* A turn of the loop of shift_up, one of shift_down, and one of the loop  *)
(* of move_to_top.                                                         *)
LEMMA TurnUp ==
    ASSUME TheHeap!HeapAssumption, NEW d \in Seq(Elem), NEW s \in LoopStates(d), MayRise(s.data, s.at),
           s.at > 0, TheHeap!Less(s.data, s.at, Up(s.at)),
           NEW t, t = TheHeap!Moved(s.data, s.at, Up(s.at))
    PROVE  t \in LoopStates(d) /\ MayRise(t.data, t.at) /\ t.at < s.at
<1>1. s.data \in Seq(Elem) /\ s.at \in Index(s.data)
  BY DEF LoopStates
<1>2. s.at \in Child(s.data) /\ s.at \in Nat \ {0}
  BY <1>1, Indexes
<1>3. Up(s.at) \in Index(s.data) /\ Up(s.at) < s.at
  BY <1>1, <1>2, Indexes, Parents
<1>4. /\ t \in LoopStates(d) /\ t.at = Up(s.at)
      /\ t.data = TheHeap!swap_element(s.data, s.at, Up(s.at))
  <2>1. d \in Seq(Elem) /\ s \in LoopStates(d) /\ t = TheHeap!Moved(s.data, s.at, Up(s.at))
    OBVIOUS
  <2> QED
    BY ONLY <1>3, <2>1, LoopSwaps
<1>5. OrderedBut(s.data, s.at)
  BY DEF MayRise
<1>6. MayRise(t.data, t.at)
  BY <1>1, <1>2, <1>4, <1>5, StepUp
<1> QED
  BY <1>3, <1>4, <1>6

LEMMA TurnDown ==
    ASSUME TheHeap!HeapAssumption, NEW d \in Seq(Elem), NEW s \in LoopStates(d), MaySink(s.data, s.at),
           NEW c, c = TheHeap!SmallestOf(s.data, s.at),
           NEW t, t = TheHeap!Moved(s.data, s.at, c)
    PROVE  /\ c = s.at => Ordered(s.data)
           /\ c # s.at => t \in LoopStates(d) /\ MaySink(t.data, t.at) /\ s.at < t.at
<1>1. s.data \in Seq(Elem) /\ s.at \in Index(s.data)
  BY DEF LoopStates
<1> DEFINE q == TheHeap!swap_element(s.data, s.at, c)
<1>2. /\ c = s.at => Ordered(s.data)
      /\ c # s.at => MaySink(q, c) /\ c \in Index(s.data) /\ s.at < c
  <2> HIDE DEF q
  <2>1. q = TheHeap!swap_element(s.data, s.at, c)
    BY DEF q
  <2> QED
    BY <1>1, <2>1, StepDown
<1> HIDE DEF q
<1>3. ASSUME c \in Index(s.data)
      PROVE  /\ t \in LoopStates(d) /\ t.at = c
             /\ t.data = TheHeap!swap_element(s.data, s.at, c)
  <2>1. d \in Seq(Elem) /\ s \in LoopStates(d) /\ t = TheHeap!Moved(s.data, s.at, c)
    OBVIOUS
  <2> QED
    BY ONLY <1>3, <2>1, LoopSwaps
<1> QED
  BY <1>2, <1>3 DEF q

LEMMA TurnToTop ==
    ASSUME TheHeap!HeapAssumption, NEW d \in Seq(Elem), NEW s \in LoopStates(d), OrderedBut(s.data, s.at),
           s.at > 0,
           NEW t, t = TheHeap!Moved(s.data, s.at, Up(s.at))
    PROVE  /\ t \in LoopStates(d) /\ OrderedBut(t.data, t.at) /\ t.at < s.at
           /\ TheHeap!heap_get(t.data, t.at) = TheHeap!heap_get(s.data, s.at)
<1>1. s.data \in Seq(Elem) /\ s.at \in Index(s.data)
  BY DEF LoopStates
<1>2. s.at \in Child(s.data) /\ s.at \in Nat \ {0}
  BY <1>1, Indexes
<1>3. Up(s.at) \in Index(s.data) /\ Up(s.at) < s.at
  BY <1>1, <1>2, Indexes, Parents
<1>4. /\ t \in LoopStates(d) /\ t.at = Up(s.at)
      /\ t.data = TheHeap!swap_element(s.data, s.at, Up(s.at))
      /\ TheHeap!heap_get(t.data, Up(s.at)) = TheHeap!heap_get(s.data, s.at)
  BY <1>3, LoopSwaps
<1>5. OrderedBut(t.data, t.at)
  BY <1>1, <1>2, <1>4, StepUp
<1> QED
  BY <1>3, <1>4, <1>5

(* What the call of heap_add leaves is ordered.                            *)
LEMMA ShiftUp ==
    ASSUME TheHeap!HeapAssumption, NEW d \in Seq(Elem), NEW i \in Index(d), MayRise(d, i),
           NEW q, q = TheHeap!shift_up(d, i)
    PROVE  Rearranged(d, q) /\ Ordered(q)
<1> DEFINE S == {s \in LoopStates(d) : MayRise(s.data, s.at)}
           base == [data |-> d, at |-> i]
           Goes(s) == s.at > 0 /\ TheHeap!Less(s.data, s.at, TheHeap!parent(s.at))
           Turn(s) == IF Goes(s) THEN TheHeap!Moved(s.data, s.at, TheHeap!parent(s.at)) ELSE s
           pass == CHOOSE f : f = [k \in 0..i |-> IF k = 0 THEN base ELSE Turn(f[k - 1])]
           F == [s \in S |-> Turn(s)]
<1>1. q = pass[i].data
  BY DEF TheHeap!shift_up
<1>2. i \in Nat /\ base \in S
  BY Indexes DEF LoopStates, Rearranged, SameElements
<1>3. ASSUME NEW s \in S PROVE Turn(s) \in S /\ (Goes(s) => Turn(s).at < s.at)
  <2>1. CASE ~ Goes(s)
    BY <2>1
  <2>2. CASE Goes(s)
    <3>1. PICK t : t = TheHeap!Moved(s.data, s.at, Up(s.at)) /\ t = Turn(s)
      BY <2>2 DEF Up
    <3>2. t \in LoopStates(d) /\ MayRise(t.data, t.at) /\ t.at < s.at
      <4>1. s \in LoopStates(d) /\ MayRise(s.data, s.at)
        OBVIOUS
      <4>2. s.at > 0 /\ TheHeap!Less(s.data, s.at, Up(s.at))
        BY <2>2 DEF Up
      <4> HIDE DEF S, Turn, Goes
      <4> QED
        BY <3>1, <4>1, <4>2, TurnUp
    <3> QED
      BY <3>1, <3>2
  <2> QED
    BY <2>1, <2>2
<1> HIDE DEF S, base, Turn, Goes
<1>4. /\ \A k \in 0..i : pass[k] \in S
      /\ \A k \in 1..i : pass[k] = Turn(pass[k - 1])
      /\ pass[0] = base
  <2>1. F \in [S -> S]
    BY <1>3
  <2>2. PICK r : IsRun(r, i, S, base, F)
    <3> HIDE DEF F
    <3> QED
      BY <1>2, <2>1, LoopRuns
  <2>3. \A k \in 0..i : k = 0 \/ (k \in 1..i /\ k - 1 \in 0..i)
    BY <1>2
  <2>4. r = [k \in 0..i |-> IF k = 0 THEN base ELSE Turn(r[k - 1])]
    BY <2>2, <2>3 DEF IsRun
  <2>5. pass = [k \in 0..i |-> IF k = 0 THEN base ELSE Turn(pass[k - 1])]
    BY <2>4
  <2> HIDE DEF pass
  <2>6. pass[0] = base /\ \A k \in 1..i : pass[k] = Turn(pass[k - 1])
    BY <1>2, <2>5
  <2>7. \A k \in 0..i : pass[k] \in S
    BY <1>2, <1>3, <2>6, LoopInvariant
  <2> QED
    BY <2>6, <2>7
<1> HIDE DEF pass
<1>5. ~ Goes(pass[i])
  <2> DEFINE m == [k \in 0..i |-> IF Goes(pass[k]) THEN pass[k].at ELSE 0]
  <2>1. \A s \in S : s.at \in Nat /\ (Goes(s) => s.at # 0)
    BY DEF S, LoopStates, Goes
  <2>2. m \in [0..i -> Nat] /\ m[0] <= i
    BY <1>2, <1>4, <2>1 DEF base
  <2>3. ASSUME NEW k \in 1..i PROVE m[k] < m[k - 1] \/ m[k] = 0
    <3>1. k - 1 \in 0..i /\ k \in 0..i
      BY <1>2
    <3>2. pass[k - 1] \in S /\ pass[k] = Turn(pass[k - 1])
      BY <1>4, <3>1
    <3>3. CASE Goes(pass[k - 1])
      BY <1>3, <3>1, <3>2, <3>3
    <3>4. CASE ~ Goes(pass[k - 1])
      BY <3>1, <3>2, <3>4 DEF Turn
    <3> QED
      BY <3>3, <3>4
  <2> HIDE DEF m
  <2>4. m[i] = 0
    BY <1>2, <2>2, <2>3, Falls
  <2> QED
    BY <1>2, <1>4, <2>1, <2>4 DEF m
<1> DEFINE j == pass[i].at
<1>6. /\ q \in Seq(Elem) /\ j \in Index(q) /\ Rearranged(d, q) /\ MayRise(q, j)
      /\ ~ (j > 0 /\ TheHeap!Less(q, j, Up(j)))
  BY <1>1, <1>2, <1>4, <1>5 DEF S, LoopStates, Goes, Up
<1> HIDE DEF j
<1>7. ASSUME NEW k \in Child(q) PROVE At(q, Up(k)) <= At(q, k)
  <2>1. CASE k = j
    <3>1. j > 0 /\ At(q, j) \in Int /\ At(q, Up(j)) \in Int
      BY <1>6, <2>1, Indexes
    <3> QED
      BY <1>6, <2>1, <3>1 DEF TheHeap!Less, At
  <2>2. CASE k # j
    BY <1>6, <2>2 DEF MayRise, OrderedBut
  <2> QED
    BY <2>1, <2>2
<1> QED
  BY <1>6, <1>7 DEF Ordered
(* What the call of heap_pop leaves is ordered.                            *)
LEMMA ShiftDown ==
    ASSUME TheHeap!HeapAssumption, NEW d \in Seq(Elem), NEW i \in Index(d), MaySink(d, i),
           NEW q, q = TheHeap!shift_down(d, i)
    PROVE  Rearranged(d, q) /\ Ordered(q)
<1> DEFINE S == {s \in LoopStates(d) : MaySink(s.data, s.at)}
           base == [data |-> d, at |-> i]
           n == Len(d)
           Down(s) == TheHeap!SmallestOf(s.data, s.at)
           Goes(s) == Down(s) # s.at
           Turn(s) == IF Down(s) = s.at THEN s ELSE TheHeap!Moved(s.data, s.at, Down(s))
           call == CHOOSE f : f = [k \in 0..n |-> IF k = 0 THEN base ELSE Turn(f[k - 1])]
           F == [s \in S |-> Turn(s)]
<1>1. q = call[n].data
  BY DEF TheHeap!shift_down
<1>2. n \in Nat /\ base \in S
  BY Indexes DEF LoopStates, Rearranged, SameElements
<1>3. ASSUME NEW s \in S PROVE Turn(s) \in S /\ (Goes(s) => s.at < Turn(s).at)
  <2>1. CASE ~ Goes(s)
    BY <2>1
  <2>2. CASE Goes(s)
    <3>1. PICK c, t : /\ c = TheHeap!SmallestOf(s.data, s.at) /\ c # s.at
                      /\ t = TheHeap!Moved(s.data, s.at, c) /\ t = Turn(s)
      BY <2>2
    <3>2. t \in LoopStates(d) /\ MaySink(t.data, t.at) /\ s.at < t.at
      <4>1. s \in LoopStates(d) /\ MaySink(s.data, s.at)
        OBVIOUS
      <4> HIDE DEF S, Turn, Goes, Down
      <4> QED
        BY <3>1, <4>1, TurnDown
    <3> QED
      BY <3>1, <3>2
  <2> QED
    BY <2>1, <2>2
<1> HIDE DEF S, base, Turn, Goes, n
<1>4. /\ \A k \in 0..n : call[k] \in S
      /\ \A k \in 1..n : call[k] = Turn(call[k - 1])
      /\ call[0] = base
  <2>1. F \in [S -> S]
    BY <1>3
  <2>2. PICK r : IsRun(r, n, S, base, F)
    <3> HIDE DEF F
    <3> QED
      BY <1>2, <2>1, LoopRuns
  <2>3. \A k \in 0..n : k = 0 \/ (k \in 1..n /\ k - 1 \in 0..n)
    BY <1>2
  <2>4. r = [k \in 0..n |-> IF k = 0 THEN base ELSE Turn(r[k - 1])]
    BY <2>2, <2>3 DEF IsRun
  <2>5. call = [k \in 0..n |-> IF k = 0 THEN base ELSE Turn(call[k - 1])]
    BY <2>4
  <2> HIDE DEF call
  <2>6. call[0] = base /\ \A k \in 1..n : call[k] = Turn(call[k - 1])
    BY <1>2, <2>5
  <2>7. \A k \in 0..n : call[k] \in S
    BY <1>2, <1>3, <2>6, LoopInvariant
  <2> QED
    BY <2>6, <2>7
<1> HIDE DEF call
<1>5. ~ Goes(call[n])
  <2> DEFINE m == [k \in 0..n |-> IF Goes(call[k]) THEN n - call[k].at ELSE 0]
  <2>1. \A s \in S : s.at \in Nat /\ s.at < n
    BY <1>2 DEF S, LoopStates, Rearranged, Index, n
  <2>2. m \in [0..n -> Nat] /\ m[0] <= n
    BY <1>2, <1>4, <2>1 DEF base
  <2>3. ASSUME NEW k \in 1..n PROVE m[k] < m[k - 1] \/ m[k] = 0
    <3>1. k - 1 \in 0..n /\ k \in 0..n
      BY <1>2
    <3>2. call[k - 1] \in S /\ call[k] = Turn(call[k - 1])
      BY <1>4, <3>1
    <3>3. CASE Goes(call[k - 1])
      BY <1>2, <1>3, <1>4, <2>1, <3>1, <3>2, <3>3
    <3>4. CASE ~ Goes(call[k - 1])
      BY <3>1, <3>2, <3>4 DEF Turn, Goes
    <3> QED
      BY <3>3, <3>4
  <2> HIDE DEF m
  <2>4. m[n] = 0
    BY <1>2, <2>2, <2>3, Falls
  <2> QED
    BY <1>2, <1>4, <2>1, <2>4 DEF m
<1>6. call[n] \in S
  BY <1>2, <1>4
<1>7. /\ call[n] \in LoopStates(d) /\ MaySink(call[n].data, call[n].at)
      /\ TheHeap!SmallestOf(call[n].data, call[n].at) = call[n].at
  BY <1>5, <1>6 DEF S, Goes
<1>8. Ordered(call[n].data)
  BY <1>7, TurnDown
<1> QED
  BY <1>1, <1>7, <1>8 DEF LoopStates
(* heap_remove takes its element to the top, and the order stays but for   *)
(* that.                                                                   *)
LEMMA MoveToTop ==
    ASSUME TheHeap!HeapAssumption, NEW d \in Seq(Elem), NEW i \in Index(d), OrderedBut(d, i),
           NEW q, q = TheHeap!move_to_top(d, i)
    PROVE  /\ Rearranged(d, q) /\ OrderedBut(q, 0)
           /\ TheHeap!heap_get(q, 0) = TheHeap!heap_get(d, i)
<1> DEFINE S == {s \in LoopStates(d) : /\ OrderedBut(s.data, s.at)
                                   /\ TheHeap!heap_get(s.data, s.at) = TheHeap!heap_get(d, i)}
           base == [data |-> d, at |-> i]
           Goes(s) == s.at > 0
           Turn(s) == IF Goes(s) THEN TheHeap!Moved(s.data, s.at, TheHeap!parent(s.at)) ELSE s
           pass == CHOOSE f : f = [k \in 0..i |-> IF k = 0 THEN base ELSE Turn(f[k - 1])]
           F == [s \in S |-> Turn(s)]
<1>1. q = pass[i].data
  BY DEF TheHeap!move_to_top
<1>2. i \in Nat /\ base \in S
  BY Indexes DEF LoopStates, Rearranged, SameElements
<1>3. ASSUME NEW s \in S PROVE Turn(s) \in S /\ (Goes(s) => Turn(s).at < s.at)
  <2>1. CASE ~ Goes(s)
    BY <2>1
  <2>2. CASE Goes(s)
    <3>1. PICK t : t = TheHeap!Moved(s.data, s.at, Up(s.at)) /\ t = Turn(s)
      BY <2>2 DEF Up
    <3>2. /\ t \in LoopStates(d) /\ OrderedBut(t.data, t.at) /\ t.at < s.at
          /\ TheHeap!heap_get(t.data, t.at) = TheHeap!heap_get(s.data, s.at)
      <4>1. s \in LoopStates(d) /\ OrderedBut(s.data, s.at)
        OBVIOUS
      <4>2. s.at > 0
        BY <2>2
      <4> HIDE DEF S, Turn, Goes
      <4> QED
        BY <3>1, <4>1, <4>2, TurnToTop
    <3> QED
      BY <3>1, <3>2
  <2> QED
    BY <2>1, <2>2
<1> HIDE DEF S, base, Turn, Goes
<1>4. /\ \A k \in 0..i : pass[k] \in S
      /\ \A k \in 1..i : pass[k] = Turn(pass[k - 1])
      /\ pass[0] = base
  <2>1. F \in [S -> S]
    BY <1>3
  <2>2. PICK r : IsRun(r, i, S, base, F)
    <3> HIDE DEF F
    <3> QED
      BY <1>2, <2>1, LoopRuns
  <2>3. \A k \in 0..i : k = 0 \/ (k \in 1..i /\ k - 1 \in 0..i)
    BY <1>2
  <2>4. r = [k \in 0..i |-> IF k = 0 THEN base ELSE Turn(r[k - 1])]
    BY <2>2, <2>3 DEF IsRun
  <2>5. pass = [k \in 0..i |-> IF k = 0 THEN base ELSE Turn(pass[k - 1])]
    BY <2>4
  <2> HIDE DEF pass
  <2>6. pass[0] = base /\ \A k \in 1..i : pass[k] = Turn(pass[k - 1])
    BY <1>2, <2>5
  <2>7. \A k \in 0..i : pass[k] \in S
    BY <1>2, <1>3, <2>6, LoopInvariant
  <2> QED
    BY <2>6, <2>7
<1> HIDE DEF pass
<1>5. ~ Goes(pass[i])
  <2> DEFINE m == [k \in 0..i |-> IF Goes(pass[k]) THEN pass[k].at ELSE 0]
  <2>1. \A s \in S : s.at \in Nat /\ (Goes(s) => s.at # 0)
    BY DEF S, LoopStates, Goes
  <2>2. m \in [0..i -> Nat] /\ m[0] <= i
    BY <1>2, <1>4, <2>1 DEF base
  <2>3. ASSUME NEW k \in 1..i PROVE m[k] < m[k - 1] \/ m[k] = 0
    <3>1. k - 1 \in 0..i /\ k \in 0..i
      BY <1>2
    <3>2. pass[k - 1] \in S /\ pass[k] = Turn(pass[k - 1])
      BY <1>4, <3>1
    <3>3. CASE Goes(pass[k - 1])
      BY <1>3, <3>1, <3>2, <3>3
    <3>4. CASE ~ Goes(pass[k - 1])
      BY <3>1, <3>2, <3>4 DEF Turn
    <3> QED
      BY <3>3, <3>4
  <2> HIDE DEF m
  <2>4. m[i] = 0
    BY <1>2, <2>2, <2>3, Falls
  <2> QED
    BY <1>2, <1>4, <2>1, <2>4 DEF m
<1>6. pass[i] \in S /\ pass[i].at = 0
  <2>1. pass[i] \in S
    BY <1>2, <1>4
  <2>2. pass[i].at \in Nat
    BY <2>1 DEF S, LoopStates
  <2> QED
    BY <1>5, <2>1, <2>2 DEF Goes
<1> QED
  BY <1>1, <1>6 DEF S, LoopStates

-----------------------------------------------------------------------------
(* q has the elements of d and one e more.                                 *)
OneMore(d, e, q) == \A x \in Elem : /\ Count(q, x) = Count(d, x) + (IF x = e THEN 1 ELSE 0)
                                   /\ Count(d, x) \in Nat

Lengthened(d, e, q) ==
    /\ q \in Seq(Elem) /\ Len(q) = Len(d) + 1 /\ Len(d) \in Index(q)
    /\ \A k \in Index(d) : TheHeap!heap_get(q, k) = TheHeap!heap_get(d, k)
    /\ TheHeap!heap_get(q, Len(d)) = e

LEMMA Appends ==
    ASSUME NEW d \in Seq(Elem), NEW e \in Elem, NEW q, q = Append(d, e)
    PROVE  Lengthened(d, e, q) /\ OneMore(d, e, q)
<1>1. /\ Len(d) \in Nat /\ DOMAIN d = 1..Len(d) /\ q \in Seq(Elem) /\ Len(q) = Len(d) + 1
      /\ DOMAIN q = 1..(Len(d) + 1) /\ q[Len(d) + 1] = e
      /\ \A p \in 1..Len(d) : q[p] = d[p]
  OBVIOUS
<1>2. /\ Len(d) \in Index(q)
      /\ \A k \in Index(d) : k + 1 \in 1..Len(d)
  BY <1>1 DEF Index
<1>3. /\ \A k \in Index(d) : TheHeap!heap_get(q, k) = TheHeap!heap_get(d, k)
      /\ TheHeap!heap_get(q, Len(d)) = e
  BY <1>1, <1>2 DEF TheHeap!heap_get
<1>4. ASSUME NEW x \in Elem
      PROVE  /\ Count(q, x) = Count(d, x) + (IF x = e THEN 1 ELSE 0)
             /\ Count(d, x) \in Nat
  <2> DEFINE S == {p \in DOMAIN d : d[p] = x}
             T == {p \in DOMAIN q : q[p] = x}
             n == Len(d) + 1
  <2>1. IsFiniteSet(S)
    <3>1. IsFiniteSet(1..Len(d)) /\ S \subseteq 1..Len(d)
      BY <1>1, FS_Interval
    <3> QED
      BY <3>1, FS_Subset
  <2>2. n \notin S /\ T = (IF x = e THEN S \cup {n} ELSE S)
    BY <1>1
  <2> HIDE DEF S, T, n
  <2>3. Cardinality(S \cup {n}) = Cardinality(S) + 1 /\ Cardinality(S) \in Nat
    BY <2>1, <2>2, FS_AddElement, FS_CardinalityType
  <2>4. Cardinality(T) = Cardinality(S) + (IF x = e THEN 1 ELSE 0)
    BY <2>2, <2>3
  <2> QED
    BY <2>3, <2>4 DEF Count, S, T
<1> QED
  BY <1>1, <1>2, <1>3, <1>4 DEF Lengthened, OneMore

(* A new element at the end of an ordered heap may belong further up.      *)
LEMMA AppendRises ==
    ASSUME TheHeap!HeapAssumption, NEW d \in Seq(Elem), Ordered(d), NEW e \in Elem,
           NEW q, q = Append(d, e)
    PROVE  MayRise(q, Len(d))
<1>1. /\ q \in Seq(Elem) /\ Len(q) = Len(d) + 1 /\ Len(d) \in Nat
      /\ \A k \in Index(d) : TheHeap!heap_get(q, k) = TheHeap!heap_get(d, k)
  <2>1. Lengthened(d, e, q)
    BY Appends
  <2> QED
    BY <2>1 DEF Lengthened
<1>2. ASSUME NEW j \in Child(q) PROVE j \in Nat \ {0} /\ Up(j) \in Nat /\ Up(j) < j /\ j <= Len(d)
  <2>1. j \in Nat \ {0} /\ j <= Len(d)
    BY <1>1 DEF Child
  <2> QED
    BY <2>1, Parents
<1>3. ASSUME NEW j \in Child(q) PROVE Up(j) # Len(d)
  BY <1>1, <1>2
<1>4. ASSUME NEW j \in Child(q), j # Len(d) PROVE At(q, Up(j)) <= At(q, j)
  <2>1. j \in Child(d)
    BY <1>1, <1>2, <1>4 DEF Child
  <2>2. At(d, Up(j)) <= At(d, j) /\ j \in Index(d) /\ Up(j) \in Index(d)
    BY <2>1, Indexes DEF Ordered
  <2> QED
    BY <1>1, <2>2 DEF At
<1> QED
  BY <1>3, <1>4 DEF MayRise, OrderedBut

LEMMA OrderedButOne ==
    ASSUME TheHeap!HeapAssumption, NEW d \in Seq(Elem), Ordered(d), NEW i \in Index(d)
    PROVE  OrderedBut(d, i)
<1>1. ASSUME i > 0, NEW j \in Child(d), Up(j) = i PROVE At(d, Up(i)) <= At(d, j)
  <2>1. i \in Child(d) /\ Up(i) \in Index(d) /\ j \in Index(d)
    BY <1>1, Indexes
  <2>2. At(d, Up(i)) <= At(d, i) /\ At(d, i) <= At(d, j)
    BY <1>1, <2>1 DEF Ordered
  <2>3. At(d, Up(i)) \in Int /\ At(d, i) \in Int /\ At(d, j) \in Int
    BY <2>1, Indexes
  <2> QED
    BY <2>2, <2>3
<1> QED
  BY <1>1 DEF Ordered, OrderedBut

(* The element at the root of an ordered heap is the least.                *)
LEMMA RootIsLeast ==
    ASSUME TheHeap!HeapAssumption, NEW d \in Seq(Elem), Ordered(d), NEW i \in Index(d)
    PROVE  At(d, 0) <= At(d, i)
<1> DEFINE D == {j \in Index(d) : ~ (At(d, 0) <= At(d, j))}
<1>1. SUFFICES ASSUME NEW j \in D, \A e \in D : j <= e PROVE FALSE
  <2>1. D \in SUBSET Nat
    BY Indexes
  <2> QED
    BY <2>1, LeastNumber
<1>2. j \in Index(d) /\ 0 \in Index(d) /\ At(d, j) \in Int /\ At(d, 0) \in Int /\ j \in Nat
  <2>1. Len(d) \in Nat
    OBVIOUS
  <2>2. 0 \in Index(d)
    BY <2>1 DEF Index
  <2> QED
    BY <2>2, Indexes
<1>3. j \in Child(d)
  BY <1>2, Indexes
<1>4. /\ Up(j) \in Index(d) /\ At(d, Up(j)) \in Int /\ At(d, Up(j)) <= At(d, j)
      /\ Up(j) \in Nat /\ Up(j) < j
  BY <1>3, Indexes, Parents DEF Ordered
<1>5. ~ (At(d, 0) <= At(d, Up(j)))
  BY <1>2, <1>4
<1> QED
  BY <1>1, <1>2, <1>4, <1>5

(* heap_pop takes out the element at the root, whatever that is, and       *)
(* leaves the rest in order.                                               *)
LEMMA Pops ==
    ASSUME TheHeap!HeapAssumption, NEW d \in Seq(Elem), Len(d) # 0, OrderedBut(d, 0),
           NEW q, q = TheHeap!Popped(d)
    PROVE  /\ q \in Seq(Elem) /\ Len(q) <= Len(d) /\ Ordered(q)
           /\ OneMore(q, d[1], d)
<1> DEFINE n == Len(d)
<1>1. n \in Nat \ {0} /\ d[1] \in Elem /\ DOMAIN d = 1..n
  OBVIOUS
<1>2. CASE n = 1
  <2>1. q = << >> /\ q \in Seq(Elem) /\ Len(q) = 0
    BY <1>2 DEF TheHeap!Popped
  <2>2. d = Append(q, d[1])
    BY <1>1, <1>2, <2>1
  <2>3. OneMore(q, d[1], d)
    BY <1>1, <2>1, <2>2, Appends
  <2> QED
    BY <1>2, <2>1, <2>3 DEF Ordered, Child
<1>3. CASE n # 1
  <2> DEFINE w == [d EXCEPT ![1] = TheHeap!Last(d)]
             f == TheHeap!Front(w)
             r == TheHeap!swap_element(d, 0, n - 1)
  <2>1. /\ f \in Seq(Elem) /\ Len(f) = n - 1 /\ DOMAIN f = 1..(n - 1)
        /\ \A p \in 1..(n - 1) : f[p] = IF p = 1 THEN d[n] ELSE d[p]
    <3>1. w \in Seq(Elem) /\ Len(w) = n /\ \A p \in 1..n : w[p] = IF p = 1 THEN d[n] ELSE d[p]
      BY <1>1 DEF TheHeap!Last
    <3>2. f = SubSeq(w, 1, n - 1)
      BY <3>1 DEF TheHeap!Front
    <3> HIDE DEF w, f
    <3> QED
      BY <1>1, <1>3, <3>1, <3>2
  <2>2. 0 \in Index(d) /\ n - 1 \in Index(d) /\ 0 \in Index(f)
    BY <1>1, <1>3, <2>1 DEF Index
  <2> HIDE DEF w, f
  <2>3. r = Append(f, d[1])
    <3>1. /\ r \in Seq(Elem) /\ Len(r) = n
          /\ \A k \in Index(d) : TheHeap!heap_get(r, k) = IF k = 0 THEN TheHeap!heap_get(d, n - 1)
                                 ELSE IF k = n - 1 THEN TheHeap!heap_get(d, 0)
                                 ELSE TheHeap!heap_get(d, k)
      <4>1. \E v : v = r
        OBVIOUS
      <4>2. PICK v : v = TheHeap!swap_element(d, 0, n - 1) /\ v = r
        BY <4>1
      <4> HIDE DEF r, n
      <4>3. /\ v \in Seq(Elem) /\ Len(v) = Len(d)
            /\ TheHeap!heap_get(v, 0) = TheHeap!heap_get(d, n - 1)
            /\ TheHeap!heap_get(v, n - 1) = TheHeap!heap_get(d, 0)
            /\ \A k \in Index(d) : k # 0 /\ k # n - 1 => TheHeap!heap_get(v, k) = TheHeap!heap_get(d, k)
        BY <2>2, <4>2, Swaps
      <4> QED
        BY <4>2, <4>3 DEF n
    <3>2. r \in Seq(Elem) /\ Len(r) = n /\ \A p \in 1..n : r[p] = IF p = 1 THEN d[n] ELSE IF p = n THEN d[1] ELSE d[p]
      <4> HIDE DEF r
      <4>1. ASSUME NEW p \in 1..n PROVE r[p] = IF p = 1 THEN d[n] ELSE IF p = n THEN d[1] ELSE d[p]
        <5>1. p - 1 \in Index(d) /\ (p - 1) + 1 = p /\ (n - 1) + 1 = n /\ 0 + 1 = 1
              /\ (p - 1 = 0 <=> p = 1) /\ (p - 1 = n - 1 <=> p = n)
          BY <1>1 DEF Index
        <5> HIDE DEF n
        <5> QED
          BY <3>1, <5>1 DEF TheHeap!heap_get
      <4> QED
        BY <3>1, <4>1
    <3> HIDE DEF r
    <3> DEFINE t == Append(f, d[1])
    <3>3. t \in Seq(Elem) /\ Len(t) = n
      <4>1. (n - 1) + 1 = n /\ Len(f) = n - 1 /\ f \in Seq(Elem)
        BY <1>1, <2>1
      <4> HIDE DEF n
      <4> QED
        BY <1>1, <4>1
    <3>4. \A p \in 1..n : t[p] = IF p = n THEN d[1] ELSE f[p]
      <4>1. (n - 1) + 1 = n /\ Len(f) = n - 1 /\ f \in Seq(Elem)
        BY <1>1, <2>1
      <4> HIDE DEF n
      <4> QED
        BY <1>1, <4>1
    <3> HIDE DEF t
    <3>5. ASSUME NEW p \in 1..n PROVE r[p] = t[p]
      <4>1. n \in Nat \ {0} /\ p \in 1..n
        BY <1>1
      <4> HIDE DEF n
      <4>2. p # n => p \in 1..(n - 1)
        BY <4>1
      <4> QED
        BY <1>1, <1>3, <2>1, <3>2, <3>4, <4>2
    <3>6. r = t
      <4> HIDE DEF n
      <4> QED
        BY <3>2, <3>3, <3>5, SeqEqual
    <3> QED
      BY <3>6 DEF t
  <2>4. SameElements(d, r)
    <3>1. \E v : v = TheHeap!swap_element(d, 0, n - 1)
      OBVIOUS
    <3> HIDE DEF r, n
    <3>2. PICK v : v = TheHeap!swap_element(d, 0, n - 1)
      BY <3>1
    <3>3. SameElements(d, v)
      BY <2>2, <3>2, Swaps
    <3> QED
      BY <3>2, <3>3 DEF r
  <2>5. \A k \in Index(f) : k \in Index(d) /\ (k # 0 => At(f, k) = At(d, k))
    <3>1. ASSUME NEW k \in Index(f)
          PROVE  k \in Index(d) /\ (k # 0 => k + 1 \in 1..(n - 1) /\ k + 1 # 1)
      BY <1>1, <2>1 DEF Index
    <3> QED
      BY <2>1, <3>1 DEF At, TheHeap!heap_get
  <2>6. MaySink(f, 0)
    <3>1. ASSUME NEW j \in Child(f), j # 0, Up(j) # 0 PROVE At(f, Up(j)) <= At(f, j)
      <4>1. j \in Index(f) /\ Up(j) \in Index(f) /\ j \in Child(d)
        BY <1>1, <2>1, Indexes DEF Child
      <4>2. At(d, Up(j)) <= At(d, j)
        BY <3>1, <4>1 DEF OrderedBut
      <4> QED
        BY <2>5, <3>1, <4>1, <4>2
    <3> QED
      BY <3>1 DEF MaySink, OrderedBut
  <2>7. q = TheHeap!shift_down(f, 0)
    BY <1>3 DEF TheHeap!Popped, f, w
  <2>8. Rearranged(f, q) /\ Ordered(q)
    BY <2>1, <2>2, <2>6, <2>7, ShiftDown
  <2>9. q \in Seq(Elem) /\ Len(q) = n - 1 /\ SameElements(f, q)
    BY <2>1, <2>8 DEF Rearranged
  <2>10. OneMore(q, d[1], d)
    <3>1. OneMore(f, d[1], r)
      <4> HIDE DEF r
      <4> QED
        BY <1>1, <2>1, <2>3, Appends
    <3> HIDE DEF r
    <3>2. \A x \in Elem : Count(r, x) = Count(d, x) /\ Count(q, x) = Count(f, x)
      BY <2>4, <2>9 DEF SameElements
    <3> QED
      BY <3>1, <3>2 DEF OneMore
  <2> QED
    BY <1>1, <2>8, <2>9, <2>10
<1> QED
  BY <1>2, <1>3

-----------------------------------------------------------------------------
Counts(d) == [e \in Elem |-> Count(d, e)]

LEMMA OneMoreCounts ==
    ASSUME NEW d, NEW e \in Elem, NEW q, OneMore(d, e, q)
    PROVE  /\ Counts(q) = [Counts(d) EXCEPT ![e] = @ + 1]
           /\ Counts(d) = [Counts(q) EXCEPT ![e] = @ - 1]
<1>1. \A x \in Elem : /\ Count(q, x) = Count(d, x) + (IF x = e THEN 1 ELSE 0)
                      /\ Count(d, x) \in Nat
  BY DEF OneMore
<1>2. \A x \in Elem : /\ Count(q, x) = IF x = e THEN Count(d, x) + 1 ELSE Count(d, x)
                      /\ Count(d, x) = IF x = e THEN Count(q, x) - 1 ELSE Count(q, x)
  BY <1>1
<1> QED
  BY <1>2 DEF Counts

LEMMA SameCounts ==
    ASSUME NEW d, NEW q, SameElements(d, q)
    PROVE  Counts(q) = Counts(d)
  BY DEF SameElements, Counts

(* The elements that are counted are those in the array.                   *)
LEMMA Held ==
    ASSUME NEW d \in Seq(Elem), NEW x \in Elem
    PROVE  Count(d, x) > 0 <=> \E i \in Index(d) : TheHeap!heap_get(d, i) = x
<1> DEFINE S == {p \in DOMAIN d : d[p] = x}
<1>1. Len(d) \in Nat /\ DOMAIN d = 1..Len(d) /\ IsFiniteSet(1..Len(d))
  BY FS_Interval
<1>2. IsFiniteSet(S)
  BY <1>1, FS_Subset
<1>3. S # {} <=> \E i \in Index(d) : TheHeap!heap_get(d, i) = x
  <2>1. ASSUME NEW p \in S PROVE p - 1 \in Index(d) /\ TheHeap!heap_get(d, p - 1) = x
    <3>1. p \in 1..Len(d) /\ (p - 1) + 1 = p
      BY <1>1
    <3> QED
      BY <1>1, <3>1 DEF Index, TheHeap!heap_get
  <2>2. ASSUME NEW i \in Index(d), TheHeap!heap_get(d, i) = x PROVE i + 1 \in S
    BY <2>2, Indexes DEF TheHeap!heap_get
  <2> QED
    BY <2>1, <2>2
<1> HIDE DEF S
<1>4. Cardinality(S) \in Nat /\ (Cardinality(S) = 0 <=> S = {})
  BY <1>2, FS_EmptySet, FS_CardinalityType
<1> QED
  BY <1>3, <1>4 DEF Count, S

-----------------------------------------------------------------------------
HeapInv ==
    /\ data \in Seq(Elem)
    /\ capacity \in Nat \ {0}
    /\ Len(data) <= capacity
    /\ Ordered(data)

(* The refinement mapping.                                                 *)
LEMMA QueueCount ==
    /\ [e \in Elem |-> TheHeap!Cardinality({i \in DOMAIN data : data[i] = e})] = Counts(data)
    /\ [e \in Elem |-> TheHeap!Cardinality({i \in DOMAIN data : data[i] = e})]' = Counts(data')
<1>1. \A S : TheHeap!Cardinality(S) = Cardinality(S)
  BY DEF TheHeap!Cardinality, Cardinality
<1> QED
  BY <1>1 DEF Counts, Count

(* Who is in the queue, and who is the smallest.                           *)
LEMMA QueueWithin ==
    ASSUME TheHeap!HeapAssumption, HeapInv
    PROVE  /\ data = << >> => TheHeap!Promise!Within = {}
           /\ \A i \in Index(data) : TheHeap!heap_get(data, i) \in TheHeap!Promise!Within
           /\ data # << >> => TheHeap!heap_get(data, 0) \in TheHeap!Promise!Smallest
<1>1. data \in Seq(Elem) /\ Ordered(data) /\ Len(data) \in Nat
  BY DEF HeapInv
<1>2. TheHeap!Promise!Within = {e \in Elem : Count(data, e) > 0}
  <2>1. TheHeap!Promise!Within = {e \in Elem : Counts(data)[e] > 0}
    BY QueueCount DEF TheHeap!Promise!Within
  <2> QED
    BY <2>1 DEF Counts
<1>3. \A x \in Elem : x \in TheHeap!Promise!Within <=> \E i \in Index(data) : TheHeap!heap_get(data, i) = x
  BY <1>1, <1>2, Held
<1>4. \A i \in Index(data) : TheHeap!heap_get(data, i) \in TheHeap!Promise!Within
  BY <1>1, <1>3, Indexes
<1>5. ASSUME data = << >> PROVE TheHeap!Promise!Within = {}
  <2>1. Index(data) = {}
    BY <1>5 DEF Index
  <2> QED
    BY <1>2, <1>3, <2>1
<1>6. ASSUME data # << >> PROVE TheHeap!heap_get(data, 0) \in TheHeap!Promise!Smallest
  <2>1. 0 \in Index(data)
    BY <1>1, <1>6 DEF Index
  <2>2. TheHeap!heap_get(data, 0) \in TheHeap!Promise!Within
    BY <1>4, <2>1
  <2>3. ASSUME NEW f \in TheHeap!Promise!Within
        PROVE  Rank(TheHeap!heap_get(data, 0)) <= Rank(f)
    <3>1. f \in Elem
      BY <1>2
    <3>2. PICK i \in Index(data) : TheHeap!heap_get(data, i) = f
      BY <1>3, <3>1
    <3>3. At(data, 0) <= At(data, i)
      BY <1>1, RootIsLeast
    <3> QED
      BY <3>2, <3>3 DEF At
  <2> QED
    BY <2>2, <2>3 DEF TheHeap!Promise!Smallest
<1> QED
  BY <1>4, <1>5, <1>6

LEMMA InitHeap ==
    ASSUME TheHeap!HeapAssumption, TheHeap!Init
    PROVE  HeapInv /\ TheHeap!Promise!Init
<1>1. data = << >> /\ capacity = HEAP_DEFAULT_CAPACITY /\ heapReply = <<"create", NULL, NULL>>
  BY DEF TheHeap!Init
<1>2. data \in Seq(Elem) /\ Len(data) = 0
  BY <1>1
<1>3. HeapInv
  BY <1>1, <1>2 DEF HeapInv, TheHeap!HeapAssumption, Ordered, Child
<1>4. \A e \in Elem : Count(data, e) = 0
  BY <1>1, FS_EmptySet DEF Count
<1>5. Counts(data) = [e \in Elem |-> 0]
  BY <1>4 DEF Counts
<1>6. TheHeap!Promise!Init
  BY <1>1, <1>5, QueueCount DEF TheHeap!Promise!Init, TheHeap!Promise!Empty
<1> QED
  BY <1>3, <1>6

LEMMA HeapAdds ==
    ASSUME TheHeap!HeapAssumption, HeapInv, NEW e \in Elem, TheHeap!heap_add(e)
    PROVE  HeapInv' /\ TheHeap!Promise!Add(e)
<1> DEFINE n == Len(data)
<1>1. /\ data \in Seq(Elem) /\ Ordered(data) /\ n \in Nat /\ capacity \in Nat \ {0}
      /\ n <= capacity
  BY DEF HeapInv
<1>2. /\ capacity' = IF n = capacity THEN 2 * capacity ELSE capacity
      /\ data' = TheHeap!shift_up(Append(data, e), n)
      /\ heapReply' = <<"add", e, NULL>>
  BY DEF TheHeap!heap_add
<1>3. PICK q : q = Append(data, e)
  OBVIOUS
<1>4. Lengthened(data, e, q) /\ OneMore(data, e, q)
  BY <1>1, <1>3, Appends
<1>5. q \in Seq(Elem) /\ n \in Index(q) /\ Len(q) = n + 1
  BY <1>4 DEF Lengthened
<1>6. MayRise(q, n)
  BY <1>1, <1>3, AppendRises
<1>7. data' = TheHeap!shift_up(q, n)
  BY <1>2, <1>3
<1> HIDE DEF n
<1>8. Rearranged(q, data') /\ Ordered(data')
  BY <1>5, <1>6, <1>7, ShiftUp
<1>9. data' \in Seq(Elem) /\ Len(data') = n + 1 /\ SameElements(q, data')
  BY <1>5, <1>8 DEF Rearranged
<1>10. HeapInv'
  <2>1. capacity' \in Nat \ {0} /\ n + 1 <= capacity'
    BY <1>1, <1>2
  <2> QED
    BY <1>8, <1>9, <2>1 DEF HeapInv
<1>11. Counts(data') = [Counts(data) EXCEPT ![e] = @ + 1]
  <2>1. Counts(data') = Counts(q)
    BY <1>9, SameCounts
  <2>2. Counts(q) = [Counts(data) EXCEPT ![e] = @ + 1]
    BY <1>4, OneMoreCounts
  <2> QED
    BY <2>1, <2>2
<1>12. TheHeap!Promise!Add(e)
  BY <1>2, <1>11, QueueCount DEF TheHeap!Promise!Add
<1> QED
  BY <1>10, <1>12

(* What Popped leaves of an array that is ordered but for its root.        *)
LEMMA HeapLoses ==
    ASSUME TheHeap!HeapAssumption, HeapInv, NEW d \in Seq(Elem), Rearranged(data, d), OrderedBut(d, 0),
           data # << >>, data' = TheHeap!Popped(d), UNCHANGED capacity
    PROVE  /\ HeapInv' /\ TheHeap!heap_get(d, 0) \in Elem
           /\ Counts(data') = [Counts(data) EXCEPT ![TheHeap!heap_get(d, 0)] = @ - 1]
<1>1. /\ data \in Seq(Elem) /\ capacity \in Nat \ {0} /\ Len(data) <= capacity
      /\ Len(d) = Len(data) /\ Len(d) \in Nat /\ Len(d) # 0 /\ SameElements(data, d)
  BY DEF HeapInv, Rearranged
<1>2. /\ data' \in Seq(Elem) /\ Len(data') <= Len(d) /\ Ordered(data')
      /\ OneMore(data', d[1], d)
  BY <1>1, Pops
<1>3. HeapInv'
  <2>1. Len(data') \in Nat
    BY <1>2
  <2> QED
    BY <1>1, <1>2, <2>1 DEF HeapInv
<1>4. d[1] \in Elem /\ d[1] = TheHeap!heap_get(d, 0)
  BY <1>1 DEF TheHeap!heap_get
<1>5. Counts(data') = [Counts(d) EXCEPT ![d[1]] = @ - 1]
  BY <1>2, <1>4, OneMoreCounts
<1>6. Counts(d) = Counts(data)
  BY <1>1, SameCounts
<1> QED
  BY <1>3, <1>4, <1>5, <1>6

LEMMA HeapTops ==
    ASSUME TheHeap!HeapAssumption, HeapInv, TheHeap!heap_top
    PROVE  HeapInv' /\ (TheHeap!Promise!Top \/ TheHeap!Promise!Nothing)
<1>1. /\ data' = data /\ capacity' = capacity
      /\ heapReply' = <<"top", NULL, IF data = << >> THEN NULL ELSE TheHeap!heap_get(data, 0)>>
  BY DEF TheHeap!heap_top
<1>2. HeapInv'
  BY <1>1 DEF HeapInv
<1>3. Counts(data') = Counts(data)
  BY <1>1
<1>4. CASE data = << >>
  <2>1. heapReply' = <<"top", NULL, NULL>> /\ TheHeap!Promise!Within = {}
    BY <1>1, <1>4, QueueWithin
  <2>2. TheHeap!Promise!Nothing
    BY <1>3, <2>1, QueueCount DEF TheHeap!Promise!Nothing
  <2> QED
    BY <1>2, <2>2
<1>5. CASE data # << >>
  <2>1. /\ heapReply' = <<"top", NULL, TheHeap!heap_get(data, 0)>>
        /\ TheHeap!heap_get(data, 0) \in TheHeap!Promise!Smallest
    BY <1>1, <1>5, QueueWithin
  <2>2. TheHeap!Promise!Top
    BY <1>3, <2>1, QueueCount DEF TheHeap!Promise!Top
  <2> QED
    BY <1>2, <2>2
<1> QED
  BY <1>2, <1>4, <1>5

LEMMA HeapPops ==
    ASSUME TheHeap!HeapAssumption, HeapInv, TheHeap!heap_pop
    PROVE  HeapInv' /\ ((\E e \in Elem : TheHeap!Promise!Pop(e)) \/ TheHeap!Promise!Nothing)
<1>1. CASE data = << >>
  <2>1. data' = data /\ capacity' = capacity /\ heapReply' = <<"pop", NULL, NULL>>
    BY <1>1 DEF TheHeap!heap_pop
  <2>2. Counts(data') = Counts(data) /\ HeapInv'
    BY <2>1 DEF HeapInv
  <2> QED
    BY <1>1, <2>1, <2>2, QueueWithin, QueueCount DEF TheHeap!Promise!Nothing
<1>2. CASE data # << >>
  <2> DEFINE e == TheHeap!heap_get(data, 0)
  <2>1. data' = TheHeap!Popped(data) /\ capacity' = capacity /\ heapReply' = <<"pop", NULL, e>>
    BY <1>2 DEF TheHeap!heap_pop
  <2>2. data \in Seq(Elem) /\ Ordered(data) /\ Rearranged(data, data)
    BY DEF HeapInv, Rearranged, SameElements
  <2>3. 0 \in Index(data)
    BY <1>2, <2>2 DEF Index
  <2>4. OrderedBut(data, 0)
    BY <2>2, <2>3, OrderedButOne
  <2>5. HeapInv' /\ e \in Elem /\ Counts(data') = [Counts(data) EXCEPT ![e] = @ - 1]
    BY <1>2, <2>1, <2>2, <2>4, HeapLoses
  <2>6. e \in TheHeap!Promise!Smallest
    BY <1>2, QueueWithin
  <2> HIDE DEF e
  <2>7. TheHeap!Promise!Pop(e)
    BY <2>1, <2>5, <2>6, QueueCount DEF TheHeap!Promise!Pop
  <2> QED
    BY <2>5, <2>7
<1> QED
  BY <1>1, <1>2

LEMMA HeapRemoves ==
    ASSUME TheHeap!HeapAssumption, HeapInv, NEW i \in 0..(MaxElems - 1), TheHeap!heap_remove(i)
    PROVE  HeapInv' /\ \E e \in Elem : TheHeap!Promise!Remove(e)
<1> DEFINE e == TheHeap!heap_get(data, i)
<1>1. data \in Seq(Elem) /\ Ordered(data) /\ Len(data) \in Nat /\ MaxElems \in Nat
  BY DEF HeapInv, TheHeap!HeapAssumption
<1>2. PICK d : d = TheHeap!move_to_top(data, i)
  OBVIOUS
<1>3. /\ i < Len(data) /\ capacity' = capacity /\ data' = TheHeap!Popped(d)
      /\ heapReply' = <<"remove", e, TheHeap!heap_get(d, 0)>>
  BY <1>2 DEF TheHeap!heap_remove
<1>4. i \in Index(data) /\ data # << >>
  BY <1>1, <1>3 DEF Index
<1>5. OrderedBut(data, i)
  BY <1>1, <1>4, OrderedButOne
<1>6. Rearranged(data, d) /\ OrderedBut(d, 0) /\ TheHeap!heap_get(d, 0) = e
  BY <1>1, <1>2, <1>4, <1>5, MoveToTop
<1>7. d \in Seq(Elem)
  BY <1>6 DEF Rearranged
<1>8. HeapInv' /\ e \in Elem /\ Counts(data') = [Counts(data) EXCEPT ![e] = @ - 1]
  <2> HIDE DEF e
  <2>1. /\ HeapInv' /\ TheHeap!heap_get(d, 0) \in Elem
        /\ Counts(data') = [Counts(data) EXCEPT ![TheHeap!heap_get(d, 0)] = @ - 1]
    BY <1>3, <1>4, <1>6, <1>7, HeapLoses
  <2> QED
    BY <1>6, <2>1
<1>9. e \in TheHeap!Promise!Within
  BY <1>4, QueueWithin
<1> HIDE DEF e
<1>10. TheHeap!Promise!Remove(e)
  BY <1>3, <1>6, <1>8, <1>9, QueueCount DEF TheHeap!Promise!Remove
<1> QED
  BY <1>8, <1>10

(* The heap implements a priority queue and never outgrows its array.      *)
THEOREM HeapRefinement == TheHeap!Spec => HeapImplements
<1>0. TheHeap!HeapAssumption
  BY StructuresAssumption
<1>1. TheHeap!Init => HeapInv /\ TheHeap!Promise!Init
  BY <1>0, InitHeap
<1>2. HeapInv /\ [TheHeap!Next]_(TheHeap!vars) => HeapInv' /\ [TheHeap!Promise!Next]_(TheHeap!Promise!queueVars)
  <2> SUFFICES ASSUME HeapInv, [TheHeap!Next]_(TheHeap!vars)
               PROVE  HeapInv' /\ [TheHeap!Promise!Next]_(TheHeap!Promise!queueVars)
    OBVIOUS
  <2>1. CASE \E e \in Elem : TheHeap!heap_add(e)
    BY <1>0, <2>1, HeapAdds DEF TheHeap!Promise!Next
  <2>2. CASE TheHeap!heap_top
    BY <1>0, <2>2, HeapTops DEF TheHeap!Promise!Next
  <2>3. CASE TheHeap!heap_pop
    BY <1>0, <2>3, HeapPops DEF TheHeap!Promise!Next
  <2>4. CASE \E i \in 0..(MaxElems - 1) : TheHeap!heap_remove(i)
    BY <1>0, <2>4, HeapRemoves DEF TheHeap!Promise!Next
  <2>5. CASE UNCHANGED TheHeap!vars
    <3>1. data' = data /\ capacity' = capacity /\ heapReply' = heapReply
      BY <2>5 DEF TheHeap!vars
    <3> QED
      BY <3>1 DEF HeapInv, TheHeap!Promise!queueVars
  <2> QED
    BY <2>1, <2>2, <2>3, <2>4, <2>5 DEF TheHeap!Next
<1>3. HeapInv => Len(data) <= capacity
  BY DEF HeapInv
<1> QED
  BY <1>1, <1>2, <1>3, PTL DEF TheHeap!Spec, HeapImplements, TheHeap!HeapImplements, TheHeap!Promise!Spec

-----------------------------------------------------------------------------
(* The merkle root.                                                        *)

(* The length of a level above one of n hashes.                            *)
Half(n) == (n + 1) \div 2

NextUp(h) == TheBody!NextLevel(h)
Root(h)   == TheBody!compute_merkle_root(h)

(* A row of n hashes, whatever they are.                                   *)
IsRow(h, n) == /\ n \in Nat
               /\ h = [k \in 1..n |-> h[k]]
               /\ Len(h) = n

LEMMA RowLength ==
    ASSUME NEW n \in Nat, NEW h, h = [k \in 1..n |-> h[k]]
    PROVE  IsRow(h, n)
<1>1. h \in Seq({h[k] : k \in 1..n}) /\ DOMAIN h = 1..n
  OBVIOUS
<1>2. Len(h) = n
  BY <1>1
<1> QED
  BY <1>2 DEF IsRow

LEMMA Halves ==
    ASSUME NEW n \in Nat
    PROVE  /\ Half(n) \in Nat /\ Half(n) <= n
           /\ n > 1 => Half(n) < n
           /\ n > 0 => Half(n) > 0
           /\ n = 2 * Half(n) \/ n = 2 * Half(n) - 1
           /\ n <= 1 => Half(n) = n
  BY DEF Half

LEMMA RowsEqual ==
    ASSUME NEW n, NEW g, NEW h, IsRow(g, n), IsRow(h, n), \A k \in 1..n : g[k] = h[k]
    PROVE  g = h
  BY DEF IsRow

LEMMA NextLevelIs ==
    ASSUME NEW n, NEW h, IsRow(h, n)
    PROVE  /\ IsRow(NextUp(h), Half(n))
           /\ \A k \in 1..Half(n) : NextUp(h)[k] = IF 2 * k > n THEN h[2 * k - 1]
                                                   ELSE <<h[2 * k - 1], h[2 * k]>>
<1>1. n \in Nat /\ Half(n) \in Nat /\ Len(h) = n
  BY Halves DEF IsRow
<1>2. NextUp(h) = [k \in 1..Half(n) |-> IF 2 * k > n THEN h[2 * k - 1]
                                        ELSE <<h[2 * k - 1], h[2 * k]>>]
  BY <1>1 DEF NextUp, TheBody!NextLevel, Half
<1> DEFINE g == NextUp(h)
           m == Half(n)
<1>3. \A k \in 1..m : g[k] = IF 2 * k > n THEN h[2 * k - 1] ELSE <<h[2 * k - 1], h[2 * k]>>
  BY <1>2
<1>4. g = [k \in 1..m |-> g[k]]
  BY <1>2, <1>3
<1>5. IsRow(g, m)
  <2> HIDE DEF g, m
  <2>1. m \in Nat
    BY <1>1 DEF m
  <2> QED
    BY <1>4, <2>1, RowLength
<1> QED
  BY <1>3, <1>5

(* Two rows of a length that have the same level above are the same.       *)
LEMMA NextLevelInjective ==
    ASSUME NEW n, NEW g, NEW h, IsRow(g, n), IsRow(h, n), NextUp(g) = NextUp(h)
    PROVE  g = h
<1>1. n \in Nat /\ Half(n) \in Nat
  BY Halves DEF IsRow
<1>2. ASSUME NEW k \in 1..Half(n)
      PROVE  g[2 * k - 1] = h[2 * k - 1] /\ (2 * k <= n => g[2 * k] = h[2 * k])
  <2>1. /\ NextUp(g)[k] = IF 2 * k > n THEN g[2 * k - 1] ELSE <<g[2 * k - 1], g[2 * k]>>
        /\ NextUp(h)[k] = IF 2 * k > n THEN h[2 * k - 1] ELSE <<h[2 * k - 1], h[2 * k]>>
    BY NextLevelIs
  <2>2. 2 * k > n \/ ~ (2 * k > n)
    OBVIOUS
  <2>3. (2 * k <= n) => ~ (2 * k > n)
    BY <1>1
  <2> QED
    BY <2>1, <2>3
<1>3. ASSUME NEW j \in 1..n PROVE g[j] = h[j]
  <2>1. PICK k \in 1..Half(n) : j = 2 * k - 1 \/ (j = 2 * k /\ 2 * k <= n)
    <3> DEFINE k == (j + 1) \div 2
    <3>1. k \in 1..Half(n) /\ (j = 2 * k - 1 \/ j = 2 * k)
      BY <1>1 DEF Half
    <3> QED
      BY <1>1, <3>1
  <2> QED
    BY <1>2, <2>1
<1> QED
  BY <1>3, RowsEqual

-----------------------------------------------------------------------------
(* The levels above the row h, n times.                                    *)
Above(h) == IF Len(h) <= 1 THEN h ELSE NextUp(h)

IsLevels(f, h, n) == f = [i \in 0..n |-> IF i = 0 THEN h ELSE Above(f[i - 1])]

LEMMA LevelSteps ==
    ASSUME NEW n \in Nat, NEW h, NEW f, IsLevels(f, h, n)
    PROVE  f[0] = h /\ \A i \in 1..n : f[i] = Above(f[i - 1])
<1>1. \A i \in 0..n : f[i] = IF i = 0 THEN h ELSE Above(f[i - 1])
  BY DEF IsLevels
<1>2. 0 \in 0..n /\ \A i \in 1..n : i \in 0..n /\ i # 0
  OBVIOUS
<1> QED
  BY <1>1, <1>2

LEMMA LevelsExist ==
    ASSUME NEW n \in Nat, NEW h
    PROVE  \E f : IsLevels(f, h, n)
<1> DEFINE H == {k \in 0..n : \E f : IsLevels(f, h, k)}
<1>1. 0 \in H
  <2> DEFINE f == [i \in 0..0 |-> h]
  <2>1. IsLevels(f, h, 0)
    BY DEF IsLevels
  <2> QED
    BY <2>1
<1>2. ASSUME NEW k \in 1..n, k - 1 \in H PROVE k \in H
  <2>1. PICK f : IsLevels(f, h, k - 1)
    BY <1>2
  <2>2. f[0] = h /\ \A i \in 1..(k - 1) : f[i] = Above(f[i - 1])
    BY <2>1, LevelSteps
  <2> DEFINE q == [i \in 0..k |-> IF i = k THEN Above(f[k - 1]) ELSE f[i]]
  <2>3. ASSUME NEW i \in 0..k PROVE q[i] = IF i = 0 THEN h ELSE Above(q[i - 1])
    <3>1. CASE i = 0
      BY <2>2, <3>1
    <3>2. CASE i = k /\ i # 0
      <4>1. i - 1 \in 0..k /\ i - 1 # k
        BY <3>2
      <4> QED
        BY <3>2, <4>1
    <3>3. CASE i # k /\ i # 0
      <4>1. i - 1 \in 0..k /\ i - 1 # k /\ i \in 1..(k - 1)
        BY <3>3
      <4> QED
        BY <2>2, <3>3, <4>1
    <3> QED
      BY <3>1, <3>2, <3>3
  <2>4. IsLevels(q, h, k)
    <3>1. q = [i \in 0..k |-> q[i]]
      OBVIOUS
    <3> HIDE DEF q
    <3> QED
      BY <2>3, <3>1 DEF IsLevels
  <2> QED
    BY <2>4
<1> HIDE DEF H
<1>3. \A k \in 0..n : k \in H
  BY <1>1, <1>2, HandedOn
<1>4. n \in 0..n
  OBVIOUS
<1> QED
  BY <1>3, <1>4 DEF H

(* Every level is a row, and shorter than the one below until one is left. *)
LEMMA LevelRows ==
    ASSUME NEW n \in Nat, NEW h, IsRow(h, n), NEW f, NEW m \in Nat, IsLevels(f, h, m)
    PROVE  /\ \A i \in 0..m : IsRow(f[i], Len(f[i])) /\ (Len(f[i]) <= 1 \/ Len(f[i]) <= n - i)
           /\ n > 0 => \A i \in 0..m : Len(f[i]) > 0
<1> DEFINE H == {i \in 0..m : /\ IsRow(f[i], Len(f[i]))
                              /\ Len(f[i]) <= 1 \/ Len(f[i]) <= n - i
                              /\ n > 0 => Len(f[i]) > 0}
<1>1. f[0] = h /\ \A i \in 1..m : f[i] = Above(f[i - 1])
  BY LevelSteps
<1>2. 0 \in H
  <2>1. Len(h) = n
    BY DEF IsRow
  <2> QED
    BY <1>1, <2>1
<1>3. ASSUME NEW i \in 1..m, i - 1 \in H PROVE i \in H
  <2> DEFINE g == f[i - 1]
             l == Len(g)
  <2>1. /\ IsRow(g, l) /\ (l <= 1 \/ l <= n - (i - 1)) /\ (n > 0 => l > 0)
    BY <1>3
  <2>2. l \in Nat
    BY <2>1 DEF IsRow
  <2>3. f[i] = Above(g) /\ i \in 0..m
    BY <1>1
  <2>4. CASE l <= 1
    BY <2>1, <2>3, <2>4 DEF Above
  <2>5. CASE ~ (l <= 1)
    <3>1. f[i] = NextUp(g)
      BY <2>3, <2>5 DEF Above
    <3> HIDE DEF g, l
    <3>2. IsRow(NextUp(g), Half(l))
      BY <2>1, NextLevelIs
    <3>3. Len(NextUp(g)) = Half(l) /\ Half(l) < l /\ Half(l) > 0 /\ Half(l) \in Nat
      BY <2>2, <2>5, <3>2, Halves DEF IsRow
    <3>4. Half(l) <= n - i
      BY <2>1, <2>2, <2>5, <3>3
    <3> QED
      BY <2>3, <3>1, <3>2, <3>3, <3>4
  <2> QED
    BY <2>4, <2>5
<1> HIDE DEF H
<1>4. \A i \in 0..m : i \in H
  BY <1>2, <1>3, HandedOn
<1> QED
  BY <1>4 DEF H

LEMMA RootIsLevel ==
    ASSUME NEW n \in Nat, NEW h, Len(h) = n
    PROVE  \E f : IsLevels(f, h, n) /\ Root(h) = f[n]
<1> DEFINE f == CHOOSE level : level = [i \in 0..n |-> IF i = 0 THEN h ELSE
                                                       IF Len(level[i - 1]) <= 1 THEN level[i - 1]
                                                       ELSE TheBody!NextLevel(level[i - 1])]
           g == CHOOSE level : IsLevels(level, h, n)
<1>1. IsLevels(g, h, n)
  BY LevelsExist
<1>2. f = g
  BY DEF IsLevels, Above, NextUp
<1>3. Root(h) = f[n]
  BY DEF Root, TheBody!compute_merkle_root
<1> QED
  BY <1>1, <1>2, <1>3

(* A single hash is the root.                                              *)
LEMMA RootOfOne ==
    ASSUME NEW n \in Nat, NEW h, IsRow(h, n), n <= 1
    PROVE  Root(h) = h
<1>1. Len(h) = n
  BY DEF IsRow
<1>2. PICK f : IsLevels(f, h, n) /\ Root(h) = f[n]
  BY <1>1, RootIsLevel
<1>3. f[0] = h /\ \A i \in 1..n : f[i] = Above(f[i - 1])
  BY <1>2, LevelSteps
<1>4. Above(h) = h
  BY <1>1 DEF Above
<1> QED
  BY <1>2, <1>3, <1>4

(* The root is that of the level above.                                    *)
LEMMA RootOfNext ==
    ASSUME NEW n \in Nat, NEW h, IsRow(h, n)
    PROVE  Root(h) = Root(NextUp(h))
<1> DEFINE g == NextUp(h)
           m == Half(n)
<1>1. IsRow(g, m) /\ m \in Nat /\ Len(g) = m
  <2>1. IsRow(g, m)
    BY NextLevelIs
  <2> HIDE DEF g, m
  <2> QED
    BY <2>1 DEF IsRow
<1>2. CASE n <= 1
  <2>1. m = n
    BY <1>2, Halves
  <2>2. ASSUME NEW k \in 1..n PROVE g[k] = h[k]
    <3>1. k = 1 /\ n = 1 /\ 2 * k > n /\ 2 * k - 1 = k /\ k \in 1..Half(n)
      BY <1>2, <2>1
    <3>2. g[k] = h[2 * k - 1]
      BY <3>1, NextLevelIs
    <3> QED
      BY <3>1, <3>2
  <2> HIDE DEF g, m
  <2>3. g = h
    BY <1>1, <2>1, <2>2, RowsEqual
  <2> QED
    BY <2>3 DEF g
<1>3. CASE n > 1
  <2> HIDE DEF m
  <2>1. PICK f : IsLevels(f, h, n) /\ Root(h) = f[n]
    BY RootIsLevel DEF IsRow
  <2>2. PICK e : IsLevels(e, g, m) /\ Root(g) = e[m]
    <3> HIDE DEF g
    <3> QED
      BY <1>1, RootIsLevel
  <2>3. /\ f[0] = h /\ \A i \in 1..n : f[i] = Above(f[i - 1])
        /\ e[0] = g /\ \A i \in 1..m : e[i] = Above(e[i - 1])
    BY <1>1, <2>1, <2>2, LevelSteps
  <2>4. m < n /\ m \in Nat
    BY <1>1, <1>3, Halves DEF m
  <2>5. \A i \in 0..m : f[i + 1] = e[i]
    <3> DEFINE H == {i \in 0..m : f[i + 1] = e[i]}
    <3>1. 0 \in H
      <4>1. Above(h) = g
        BY <1>3 DEF Above, IsRow
      <4>2. 1 \in 1..n /\ 0 + 1 = 1 /\ 1 - 1 = 0 /\ 0 \in 0..m
        BY <1>3, <2>4
      <4> HIDE DEF g
      <4> QED
        BY <2>3, <4>1, <4>2
    <3>2. ASSUME NEW i \in 1..m, i - 1 \in H PROVE i \in H
      <4>1. i + 1 \in 1..n /\ (i + 1) - 1 = i /\ (i - 1) + 1 = i /\ i \in 0..m
        BY <2>4
      <4>2. f[i] = e[i - 1]
        BY <3>2, <4>1
      <4> QED
        BY <2>3, <4>1, <4>2
    <3> HIDE DEF H
    <3>3. \A i \in 0..m : i \in H
      BY <2>4, <3>1, <3>2, HandedOn
    <3> QED
      BY <3>3 DEF H
  <2>6. Len(e[m]) <= 1
    <3>1. m \in 0..m /\ m - m = 0
      BY <2>4
    <3>2. Len(e[m]) <= 1 \/ Len(e[m]) <= m - m
      <4> HIDE DEF g
      <4> QED
        BY <1>1, <2>2, <3>1, LevelRows
    <3>3. IsRow(e[m], Len(e[m]))
      <4> HIDE DEF g
      <4> QED
        BY <1>1, <2>2, <3>1, LevelRows
    <3>4. Len(e[m]) \in Nat
      BY <3>3 DEF IsRow
    <3> QED
      BY <3>1, <3>2, <3>4
  <2>7. \A i \in 0..(n - m - 1) : f[m + 1 + i] = e[m]
    <3> DEFINE H == {i \in 0..(n - m - 1) : f[m + 1 + i] = e[m]}
    <3>1. 0 \in H
      <4>1. 0 \in 0..(n - m - 1) /\ m \in 0..m /\ m + 1 + 0 = m + 1
        BY <2>4
      <4> QED
        BY <2>5, <4>1
    <3>2. ASSUME NEW i \in 1..(n - m - 1), i - 1 \in H PROVE i \in H
      <4>1. m + 1 + i \in 1..n /\ (m + 1 + i) - 1 = m + 1 + (i - 1) /\ i \in 0..(n - m - 1)
        BY <2>4
      <4>2. f[m + 1 + (i - 1)] = e[m]
        BY <3>2
      <4>3. f[m + 1 + i] = Above(e[m])
        BY <2>3, <4>1, <4>2
      <4> QED
        BY <2>6, <4>1, <4>3 DEF Above
    <3> HIDE DEF H
    <3>3. n - m - 1 \in Nat
      BY <2>4
    <3>4. \A i \in 0..(n - m - 1) : i \in H
      BY <3>1, <3>2, <3>3, HandedOn
    <3> QED
      BY <3>4 DEF H
  <2>8. f[n] = e[m]
    <3>1. n - m - 1 \in 0..(n - m - 1) /\ m + 1 + (n - m - 1) = n
      BY <2>4
    <3>2. f[m + 1 + (n - m - 1)] = e[m]
      BY <2>7, <3>1
    <3> QED
      BY <3>1, <3>2
  <2> QED
    BY <2>1, <2>2, <2>8
<1> QED
  BY <1>2, <1>3

(* What is left of some hashes is one.                                     *)
LEMMA RootIsOne ==
    ASSUME NEW n \in Nat, n > 0, NEW h, IsRow(h, n)
    PROVE  IsRow(Root(h), 1)
<1>1. PICK f : IsLevels(f, h, n) /\ Root(h) = f[n]
  BY RootIsLevel DEF IsRow
<1>2. n \in 0..n /\ n - n = 0
  OBVIOUS
<1>3. IsRow(f[n], Len(f[n]))
  BY <1>1, <1>2, LevelRows
<1>4. Len(f[n]) <= 1 \/ Len(f[n]) <= n - n
  BY <1>1, <1>2, LevelRows
<1>5. Len(f[n]) > 0
  BY <1>1, <1>2, LevelRows
<1>6. Len(f[n]) = 1
  <2>1. Len(f[n]) \in Nat
    BY <1>3 DEF IsRow
  <2>2. Len(f[n]) <= 1 \/ Len(f[n]) <= 0
    BY <1>2, <1>4
  <2>3. PICK l \in Nat : l = Len(f[n])
    BY <2>1
  <2>4. l <= 1 /\ l > 0
    BY <1>5, <2>2, <2>3
  <2>5. l = 1
    BY ONLY l \in Nat, <2>4
  <2> QED
    BY <2>3, <2>5
<1> QED
  BY <1>1, <1>3, <1>6

(* Rows of a length that have the same root are the same.                  *)
SameRootSameRow(n) == \A g, h : IsRow(g, n) /\ IsRow(h, n) /\ Root(g) = Root(h) => g = h

LEMMA RootInjective ==
    \A n \in Nat : SameRootSameRow(n)
<1> DEFINE D == {n \in Nat : ~ SameRootSameRow(n)}
<1>1. SUFFICES ASSUME NEW n \in D, \A e \in D : n <= e PROVE FALSE
  BY LeastNumber
<1>2. SUFFICES ASSUME NEW g, NEW h, IsRow(g, n), IsRow(h, n), Root(g) = Root(h)
               PROVE  g = h
  BY DEF SameRootSameRow
<1>3. CASE n <= 1
  BY <1>2, <1>3, RootOfOne
<1>4. CASE n > 1
  <2>1. Half(n) \in Nat /\ ~ (n <= Half(n))
    BY <1>4, Halves
  <2>2. SameRootSameRow(Half(n))
    BY <1>1, <2>1
  <2>3. IsRow(NextUp(g), Half(n)) /\ IsRow(NextUp(h), Half(n))
    BY <1>2, NextLevelIs
  <2>4. Root(NextUp(g)) = Root(NextUp(h))
    BY <1>2, RootOfNext
  <2>5. NextUp(g) = NextUp(h)
    BY <2>2, <2>3, <2>4 DEF SameRootSameRow
  <2> QED
    BY <1>2, <2>5, NextLevelInjective
<1> QED
  BY <1>3, <1>4

-----------------------------------------------------------------------------
IsPowers(p, n) == p = [e \in 0..n |-> IF e = 0 THEN 1 ELSE 2 * p[e - 1]]

LEMMA PowerSteps ==
    ASSUME NEW n \in Nat, NEW p, IsPowers(p, n)
    PROVE  p[0] = 1 /\ \A e \in 1..n : p[e] = 2 * p[e - 1]
<1>1. \A e \in 0..n : p[e] = IF e = 0 THEN 1 ELSE 2 * p[e - 1]
  BY DEF IsPowers
<1>2. 0 \in 0..n /\ \A e \in 1..n : e \in 0..n /\ e # 0
  OBVIOUS
<1> QED
  BY <1>1, <1>2

LEMMA PowersExist ==
    ASSUME NEW n \in Nat
    PROVE  \E p : IsPowers(p, n)
<1> DEFINE H == {k \in 0..n : \E p : IsPowers(p, k)}
<1>1. 0 \in H
  <2> DEFINE p == [e \in 0..0 |-> 1]
  <2>1. IsPowers(p, 0)
    BY DEF IsPowers
  <2> QED
    BY <2>1
<1>2. ASSUME NEW k \in 1..n, k - 1 \in H PROVE k \in H
  <2>1. PICK p : IsPowers(p, k - 1)
    BY <1>2
  <2>2. k - 1 \in Nat /\ k \in 0..n
    OBVIOUS
  <2>3. p[0] = 1 /\ \A e \in 1..(k - 1) : p[e] = 2 * p[e - 1]
    BY <2>1, <2>2, PowerSteps
  <2> DEFINE q == [e \in 0..k |-> IF e = k THEN 2 * p[k - 1] ELSE p[e]]
  <2>4. ASSUME NEW e \in 0..k PROVE q[e] = IF e = 0 THEN 1 ELSE 2 * q[e - 1]
    <3>1. CASE e = 0
      BY <2>3, <3>1
    <3>2. CASE e = k /\ e # 0
      <4>1. e - 1 \in 0..k /\ e - 1 # k
        BY <3>2
      <4> QED
        BY <3>2, <4>1
    <3>3. CASE e # k /\ e # 0
      <4>1. e - 1 \in 0..k /\ e - 1 # k /\ e \in 1..(k - 1)
        BY <3>3
      <4> QED
        BY <2>3, <3>3, <4>1
    <3> QED
      BY <3>1, <3>2, <3>3
  <2>5. IsPowers(q, k)
    <3>1. q = [e \in 0..k |-> q[e]]
      OBVIOUS
    <3> HIDE DEF q
    <3> QED
      BY <2>4, <3>1 DEF IsPowers
  <2> QED
    BY <2>2, <2>5
<1> HIDE DEF H
<1>3. \A k \in 0..n : k \in H
  BY <1>1, <1>2, HandedOn
<1>4. n \in 0..n
  OBVIOUS
<1> QED
  BY <1>3, <1>4 DEF H

(* A power of two is greater than its exponent.                            *)
LEMMA PowersGrow ==
    ASSUME NEW n \in Nat, NEW p, IsPowers(p, n)
    PROVE  \A e \in 0..n : p[e] \in Nat /\ e < p[e]
<1> DEFINE H == {e \in 0..n : p[e] \in Nat /\ e < p[e]}
<1>1. p[0] = 1 /\ \A e \in 1..n : p[e] = 2 * p[e - 1]
  BY PowerSteps
<1>2. 0 \in H
  BY <1>1
<1>3. ASSUME NEW e \in 1..n, e - 1 \in H PROVE e \in H
  <2>1. PICK x \in Nat : x = p[e - 1] /\ e - 1 < x
    BY <1>3
  <2>2. p[e] = 2 * x /\ e \in 0..n
    BY <1>1, <2>1
  <2>3. e < 2 * x /\ 2 * x \in Nat
    BY <2>1
  <2> QED
    BY <2>2, <2>3
<1> HIDE DEF H
<1>4. \A e \in 0..n : e \in H
  BY <1>2, <1>3, HandedOn
<1> QED
  BY <1>4 DEF H

(* The power of an exponent does not depend on how far they are computed.  *)
LEMMA PowersAgree ==
    ASSUME NEW n \in Nat, NEW p, IsPowers(p, n), NEW m \in Nat, NEW q, IsPowers(q, m), m <= n
    PROVE  \A e \in 0..m : q[e] = p[e]
<1> DEFINE H == {e \in 0..m : q[e] = p[e]}
<1>1. /\ p[0] = 1 /\ \A e \in 1..n : p[e] = 2 * p[e - 1]
      /\ q[0] = 1 /\ \A e \in 1..m : q[e] = 2 * q[e - 1]
  BY PowerSteps
<1>2. 0 \in H
  BY <1>1
<1>3. ASSUME NEW e \in 1..m, e - 1 \in H PROVE e \in H
  <2>1. e \in 1..n /\ e \in 0..m
    OBVIOUS
  <2> QED
    BY <1>1, <1>3, <2>1
<1> HIDE DEF H
<1>4. \A e \in 0..m : e \in H
  BY <1>2, <1>3, HandedOn
<1> QED
  BY <1>4 DEF H

(* Twice a power is at most any greater one.                               *)
LEMMA PowersApart ==
    ASSUME NEW n \in Nat, NEW p, IsPowers(p, n), NEW e \in 0..n
    PROVE  \A f \in 0..n : e < f => 2 * p[e] <= p[f]
<1> DEFINE H == {f \in 0..n : e < f => 2 * p[e] <= p[f]}
<1>1. p[0] = 1 /\ \A f \in 1..n : p[f] = 2 * p[f - 1]
  BY PowerSteps
<1>2. \A f \in 0..n : p[f] \in Nat
  BY PowersGrow
<1>3. 0 \in H
  OBVIOUS
<1>4. ASSUME NEW f \in 1..n, f - 1 \in H PROVE f \in H
  <2>1. f - 1 \in 0..n /\ f \in 0..n /\ p[f] = 2 * p[f - 1]
    BY <1>1
  <2>2. PICK x \in Nat, y \in Nat : x = p[f - 1] /\ y = p[e]
    BY <1>2, <2>1
  <2>3. CASE e < f - 1
    <3>1. 2 * y <= x
      BY <1>4, <2>2, <2>3
    <3>2. 2 * y <= 2 * x
      BY ONLY x \in Nat, y \in Nat, <3>1
    <3> QED
      BY <2>1, <2>2, <3>2
  <2>4. CASE e = f - 1
    <3>1. 2 * y <= 2 * x
      BY <2>2, <2>4
    <3> QED
      BY <2>1, <2>2, <3>1
  <2>5. CASE ~ (e < f - 1) /\ e # f - 1
    <3>1. ~ (e < f)
      BY <2>5
    <3> QED
      BY <2>1, <3>1
  <2> QED
    BY <2>3, <2>4, <2>5
<1> HIDE DEF H
<1>5. \A f \in 0..n : f \in H
  BY <1>3, <1>4, HandedOn
<1> QED
  BY <1>5 DEF H

Between(k, n) == k < n /\ 2 * k >= n

LEMMA OnePowerBetween ==
    ASSUME NEW n \in Nat, NEW p, IsPowers(p, n), NEW e \in 0..n, NEW f \in 0..n,
           Between(p[e], n), Between(p[f], n)
    PROVE  p[e] = p[f]
<1>1. p[e] \in Nat /\ p[f] \in Nat
  BY PowersGrow
<1>2. /\ e < f => 2 * p[e] <= p[f]
      /\ f < e => 2 * p[f] <= p[e]
  BY PowersApart
<1>3. ~ (e < f) /\ ~ (f < e)
  BY <1>1, <1>2 DEF Between
<1>4. e = f
  BY <1>3
<1> QED
  BY <1>4

Split(n) == TheBody!Split(n)

(* Split(n) is the power of two between n and half of it.                  *)
LEMMA SplitIs ==
    ASSUME NEW n \in Nat, n > 1, NEW p, IsPowers(p, n)
    PROVE  \E e \in 0..n : p[e] = Split(n) /\ Between(p[e], n)
<1> DEFINE g == CHOOSE power : power = [e \in 0..n |-> IF e = 0 THEN 1 ELSE 2 * power[e - 1]]
           P == {p[e] : e \in 0..n}
<1>1. /\ p[0] = 1 /\ \A e \in 1..n : p[e] = 2 * p[e - 1]
      /\ \A e \in 0..n : p[e] \in Nat /\ e < p[e]
  BY PowerSteps, PowersGrow
<1>2. g = p
  <2>1. IsPowers(g, n)
    BY DEF IsPowers
  <2> HIDE DEF g
  <2>2. \A e \in 0..n : g[e] = p[e]
    BY <2>1, PowersAgree
  <2>3. g = [e \in 0..n |-> g[e]] /\ p = [e \in 0..n |-> p[e]]
    BY <2>1 DEF IsPowers
  <2> QED
    BY <2>2, <2>3
<1>3. \E e \in 0..n : Between(p[e], n)
  <2> DEFINE D == {e \in 0..n : 2 * p[e] >= n}
  <2>1. n \in D
    <3>1. PICK x \in Nat : x = p[n] /\ n < x
      BY <1>1
    <3> QED
      BY <3>1
  <2>2. PICK e \in D : \A f \in D : e <= f
    <3>1. D \in SUBSET Nat /\ D # {}
      BY <2>1
    <3> QED
      BY <3>1, LeastNumber
  <2>3. CASE e = 0
    BY <1>1, <2>2, <2>3 DEF Between
  <2>4. CASE e # 0
    <3>1. e \in 1..n /\ e - 1 \in 0..n /\ ~ (e <= e - 1)
      BY <2>4
    <3>2. ~ (2 * p[e - 1] >= n)
      BY <2>2, <3>1
    <3>3. p[e] < n
      <4>1. PICK x \in Nat : x = p[e - 1]
        BY <1>1, <3>1
      <4>2. p[e] = 2 * x /\ ~ (2 * x >= n)
        BY <1>1, <3>1, <3>2, <4>1
      <4> QED
        BY <4>2
    <3> QED
      BY <2>2, <3>1, <3>3 DEF Between
  <2> QED
    BY <2>3, <2>4
<1>4. Split(n) = CHOOSE k \in P : k < n /\ 2 * k >= n
  <2>1. Split(n) = CHOOSE k \in {g[e] : e \in 0..n} : k < n /\ 2 * k >= n
    BY DEF Split, TheBody!Split
  <2> HIDE DEF g
  <2> QED
    BY <1>2, <2>1
<1>5. \E k \in P : k < n /\ 2 * k >= n
  BY <1>3 DEF Between
<1>6. Split(n) \in P /\ Between(Split(n), n)
  <2> HIDE DEF P
  <2> QED
    BY <1>4, <1>5 DEF Between
<1> QED
  BY <1>6

LEMMA SplitBounds ==
    ASSUME NEW n \in Nat, n > 1
    PROVE  Split(n) \in Nat /\ Split(n) >= 1 /\ Split(n) < n /\ 2 * Split(n) >= n
<1>1. PICK p : IsPowers(p, n)
  BY PowersExist
<1>2. PICK e \in 0..n : p[e] = Split(n) /\ Between(p[e], n)
  BY <1>1, SplitIs
<1>3. PICK x \in Nat : x = Split(n) /\ e < x
  BY <1>1, <1>2, PowersGrow
<1>4. x < n /\ 2 * x >= n
  BY <1>2, <1>3 DEF Between
<1>5. x >= 1
  BY <1>3
<1> QED
  BY <1>3, <1>4, <1>5

(* The level above is split where this one is.                             *)
LEMMA SplitOfHalf ==
    ASSUME NEW n \in Nat, n > 2
    PROVE  Split(n) = 2 * Split(Half(n))
<1> DEFINE m == Half(n)
<1>1. m \in Nat /\ m > 1 /\ m < n /\ (n = 2 * m \/ n = 2 * m - 1)
  BY Halves
<1> HIDE DEF m
<1>2. PICK p, q : IsPowers(p, n) /\ IsPowers(q, m)
  BY <1>1, PowersExist
<1>3. PICK e \in 0..n : p[e] = Split(n) /\ Between(p[e], n)
  BY <1>2, SplitIs
<1>4. PICK f \in 0..m : q[f] = Split(m) /\ Between(q[f], m)
  BY <1>1, <1>2, SplitIs
<1>5. p[0] = 1 /\ \A i \in 1..n : p[i] = 2 * p[i - 1]
  BY <1>2, PowerSteps
<1>6. e # 0
  BY <1>3, <1>5 DEF Between
<1>7. PICK x \in Nat : x = p[e - 1] /\ e - 1 < x /\ p[e] = 2 * x
  <2>1. e \in 1..n /\ e - 1 \in 0..n
    BY <1>6
  <2>2. p[e - 1] \in Nat /\ e - 1 < p[e - 1]
    BY <1>2, <2>1, PowersGrow
  <2> QED
    BY <1>5, <2>1, <2>2
<1>8. 2 * x < n /\ 4 * x >= n
  <2>1. 2 * x < n /\ 2 * (2 * x) >= n
    BY <1>3, <1>7 DEF Between
  <2> QED
    BY <2>1
<1>9. x < m /\ 2 * x >= m
  BY <1>1, <1>8
<1>10. e - 1 \in 0..m
  BY <1>1, <1>6, <1>7, <1>9
<1>11. q[e - 1] = x
  BY <1>1, <1>2, <1>7, <1>10, PowersAgree
<1>12. Between(q[e - 1], m)
  BY <1>9, <1>11 DEF Between
<1>13. q[e - 1] = q[f]
  BY <1>1, <1>2, <1>4, <1>10, <1>12, OnePowerBetween
<1> QED
  BY <1>3, <1>4, <1>7, <1>11, <1>13 DEF m

-----------------------------------------------------------------------------
LEMMA PartOfRow ==
    ASSUME NEW n, NEW h, IsRow(h, n), NEW a \in Nat \ {0}, NEW l \in Nat, a + l <= n + 1,
           NEW b, b = a + l - 1
    PROVE  /\ IsRow(SubSeq(h, a, b), l)
           /\ \A k \in 1..l : SubSeq(h, a, b)[k] = h[k + a - 1]
<1>1. n \in Nat /\ h \in Seq({h[k] : k \in 1..n}) /\ Len(h) = n /\ b \in Int
  BY DEF IsRow
<1> DEFINE g == SubSeq(h, a, b)
<1>2. g = [k \in 1..l |-> h[k + a - 1]]
  BY <1>1
<1>3. \A k \in 1..l : g[k] = h[k + a - 1]
  BY <1>2
<1>4. g = [k \in 1..l |-> g[k]]
  BY <1>2, <1>3
<1> HIDE DEF g
<1>5. IsRow(g, l)
  BY <1>4, RowLength
<1> QED
  BY <1>3, <1>5 DEF g

(* The level above the two parts of a row.                                 *)
LEMMA NextOfParts ==
    ASSUME NEW n, NEW h, IsRow(h, n), NEW j \in Nat \ {0}, 2 * j < n
    PROVE  /\ NextUp(SubSeq(h, 1, 2 * j)) = SubSeq(NextUp(h), 1, j)
           /\ NextUp(SubSeq(h, 2 * j + 1, n)) = SubSeq(NextUp(h), j + 1, Half(n))
<1> DEFINE m == Half(n)
           g == NextUp(h)
<1>1. n \in Nat /\ m \in Nat /\ j < m /\ m <= n /\ (n = 2 * m \/ n = 2 * m - 1)
  BY Halves DEF IsRow
<1>2. /\ IsRow(g, m)
      /\ \A k \in 1..m : g[k] = IF 2 * k > n THEN h[2 * k - 1] ELSE <<h[2 * k - 1], h[2 * k]>>
  BY NextLevelIs
<1> HIDE DEF g
<1>3. NextUp(SubSeq(h, 1, 2 * j)) = SubSeq(g, 1, j)
  <2> DEFINE x == SubSeq(h, 1, 2 * j)
             y == SubSeq(g, 1, j)
             z == NextUp(x)
  <2>1. 2 * j \in Nat /\ 1 + 2 * j <= n + 1 /\ 2 * j = 1 + 2 * j - 1
    BY <1>1
  <2>2. IsRow(x, 2 * j) /\ \A k \in 1..(2 * j) : x[k] = h[k + 1 - 1]
    BY <2>1, PartOfRow
  <2>3. 1 + j <= m + 1 /\ j = 1 + j - 1
    BY <1>1
  <2>4. IsRow(y, j) /\ \A k \in 1..j : y[k] = g[k + 1 - 1]
    BY <1>2, <2>3, PartOfRow
  <2> HIDE DEF x, y
  <2>5. /\ IsRow(z, Half(2 * j))
        /\ \A k \in 1..Half(2 * j) : z[k] = IF 2 * k > 2 * j THEN x[2 * k - 1] ELSE <<x[2 * k - 1], x[2 * k]>>
    BY <2>2, NextLevelIs
  <2>6. Half(2 * j) = j
    BY DEF Half
  <2> HIDE DEF z, m
  <2>7. ASSUME NEW k \in 1..j PROVE z[k] = y[k]
    <3>1. /\ k \in 1..m /\ ~ (2 * k > n) /\ ~ (2 * k > 2 * j) /\ k + 1 - 1 = k
          /\ 2 * k - 1 \in 1..(2 * j) /\ 2 * k \in 1..(2 * j)
          /\ (2 * k - 1) + 1 - 1 = 2 * k - 1 /\ (2 * k) + 1 - 1 = 2 * k
      BY <1>1
    <3>2. z[k] = <<x[2 * k - 1], x[2 * k]>>
      BY <2>5, <2>6, <3>1
    <3>3. x[2 * k - 1] = h[2 * k - 1] /\ x[2 * k] = h[2 * k]
      BY <2>2, <3>1
    <3>4. y[k] = <<h[2 * k - 1], h[2 * k]>>
      BY <1>2, <2>4, <3>1
    <3> QED
      BY <3>2, <3>3, <3>4
  <2>8. z = y
    BY <2>4, <2>5, <2>6, <2>7, RowsEqual
  <2> QED
    BY <2>8 DEF x, y, z
<1>4. NextUp(SubSeq(h, 2 * j + 1, n)) = SubSeq(g, j + 1, m)
  <2> DEFINE l == n - 2 * j
             r == m - j
             x == SubSeq(h, 2 * j + 1, n)
             y == SubSeq(g, j + 1, m)
             z == NextUp(x)
  <2>1. /\ 2 * j + 1 \in Nat \ {0} /\ l \in Nat /\ (2 * j + 1) + l <= n + 1
        /\ n = (2 * j + 1) + l - 1
    BY <1>1
  <2>2. j + 1 \in Nat \ {0} /\ r \in Nat /\ (j + 1) + r <= m + 1 /\ m = (j + 1) + r - 1
    BY <1>1
  <2>3. Half(l) = r
    BY <1>1 DEF Half
  <2> HIDE DEF l, r, m
  <2>4. IsRow(x, l) /\ \A k \in 1..l : x[k] = h[k + (2 * j + 1) - 1]
    BY <2>1, PartOfRow
  <2>5. IsRow(y, r) /\ \A k \in 1..r : y[k] = g[k + (j + 1) - 1]
    BY <1>2, <2>2, PartOfRow
  <2> HIDE DEF x, y
  <2>6. /\ IsRow(z, r)
        /\ \A k \in 1..r : z[k] = IF 2 * k > l THEN x[2 * k - 1] ELSE <<x[2 * k - 1], x[2 * k]>>
    BY <2>3, <2>4, NextLevelIs
  <2> HIDE DEF z
  <2>7. ASSUME NEW k \in 1..r PROVE z[k] = y[k]
    <3>1. /\ k + (j + 1) - 1 = k + j /\ k + j \in 1..m
          /\ (2 * k > l <=> 2 * (k + j) > n)
          /\ 2 * k - 1 \in 1..l /\ (2 * k - 1) + (2 * j + 1) - 1 = 2 * (k + j) - 1
          /\ (~ (2 * k > l) => 2 * k \in 1..l)
          /\ (2 * k) + (2 * j + 1) - 1 = 2 * (k + j)
      BY <1>1, <2>1 DEF l, r
    <3>2. z[k] = IF 2 * k > l THEN x[2 * k - 1] ELSE <<x[2 * k - 1], x[2 * k]>>
      BY <2>6
    <3>3. y[k] = IF 2 * (k + j) > n THEN h[2 * (k + j) - 1] ELSE <<h[2 * (k + j) - 1], h[2 * (k + j)]>>
      <4>1. y[k] = g[k + j]
        BY <2>5, <3>1
      <4> QED
        BY <1>2, <3>1, <4>1
    <3>4. x[2 * k - 1] = h[2 * (k + j) - 1]
      BY <2>4, <3>1
    <3>5. ~ (2 * k > l) => x[2 * k] = h[2 * (k + j)]
      BY <2>4, <3>1
    <3> QED
      BY <3>1, <3>2, <3>3, <3>4, <3>5
  <2>8. z = y
    BY <2>5, <2>6, <2>7, RowsEqual
  <2> QED
    BY <2>8 DEF x, y, z
<1> QED
  BY <1>3, <1>4 DEF g

(* The root is the hash of the roots of the two parts of the row.          *)
LeftRoot(h, n)  == Root(SubSeq(h, 1, Split(n)))[1]
RightRoot(h, n) == Root(SubSeq(h, Split(n) + 1, n))[1]

SplitsRight(n) == \A h : IsRow(h, n) => Root(h)[1] = <<LeftRoot(h, n), RightRoot(h, n)>>

LEMMA RootOfParts ==
    \A n \in Nat : n > 1 => SplitsRight(n)
<1> DEFINE D == {n \in Nat : n > 1 /\ ~ SplitsRight(n)}
<1>1. SUFFICES ASSUME NEW n \in D, \A e \in D : n <= e PROVE FALSE
  BY LeastNumber
<1>2. SUFFICES ASSUME NEW h, IsRow(h, n) PROVE Root(h)[1] = <<LeftRoot(h, n), RightRoot(h, n)>>
  BY DEF SplitsRight
<1> DEFINE k == Split(n)
           g == NextUp(h)
           m == Half(n)
<1>3. n \in Nat /\ n > 1 /\ m \in Nat /\ m > 0 /\ m < n /\ (n = 2 * m \/ n = 2 * m - 1)
  BY Halves
<1>4. k \in Nat /\ k >= 1 /\ k < n /\ 2 * k >= n
  BY <1>3, SplitBounds
<1>5. /\ IsRow(g, m)
      /\ \A i \in 1..m : g[i] = IF 2 * i > n THEN h[2 * i - 1] ELSE <<h[2 * i - 1], h[2 * i]>>
  BY <1>2, NextLevelIs
<1>6. Root(h) = Root(g)
  BY <1>2, <1>3, RootOfNext
<1> DEFINE x == SubSeq(h, 1, k)
           y == SubSeq(h, k + 1, n)
<1> HIDE DEF g, m
<1>7. IsRow(x, k) /\ \A i \in 1..k : x[i] = h[i + 1 - 1]
  <2> HIDE DEF k
  <2>1. 1 + k <= n + 1 /\ k = 1 + k - 1 /\ 1 \in Nat \ {0}
    BY <1>3, <1>4
  <2>2. /\ IsRow(SubSeq(h, 1, k), k)
        /\ \A i \in 1..k : SubSeq(h, 1, k)[i] = h[i + 1 - 1]
    BY <1>2, <1>4, <2>1, PartOfRow
  <2> QED
    BY <2>2
<1>8. IsRow(y, n - k) /\ \A i \in 1..(n - k) : y[i] = h[i + (k + 1) - 1]
  <2> HIDE DEF k
  <2> DEFINE l == n - k
             a == k + 1
  <2>1. /\ a \in Nat \ {0} /\ l \in Nat /\ a + l <= n + 1 /\ n = a + l - 1
    BY <1>3, <1>4
  <2> HIDE DEF l, a
  <2>2. IsRow(SubSeq(h, a, n), l) /\ \A i \in 1..l : SubSeq(h, a, n)[i] = h[i + a - 1]
    BY <1>2, <2>1, PartOfRow
  <2> QED
    BY <2>2 DEF l, a
<1>9. LeftRoot(h, n) = Root(x)[1] /\ RightRoot(h, n) = Root(y)[1]
  BY DEF LeftRoot, RightRoot
<1>10. CASE n = 2
  <2>1. k = 1 /\ m = 1 /\ n - k = 1
    BY <1>3, <1>4, <1>10
  <2> HIDE DEF x, y, k
  <2>2. Root(g) = g /\ Root(x) = x /\ Root(y) = y
    BY <1>5, <1>7, <1>8, <2>1, RootOfOne
  <2>3. g[1] = <<h[1], h[2]>>
    <3>1. 1 \in 1..m /\ ~ (2 * 1 > n) /\ 2 * 1 - 1 = 1 /\ 2 * 1 = 2
      BY <1>10, <2>1
    <3> QED
      BY <1>5, <3>1
  <2>4. x[1] = h[1] /\ y[1] = h[2]
    <3>1. 1 \in 1..k /\ 1 \in 1..(n - k) /\ 1 + 1 - 1 = 1 /\ 1 + (k + 1) - 1 = 2
      BY <1>10, <2>1
    <3> QED
      BY <1>7, <1>8, <3>1
  <2> QED
    BY <1>6, <1>9, <2>2, <2>3, <2>4
<1>11. CASE n > 2
  <2> DEFINE j == Split(m)
  <2>1. k = 2 * j
    BY <1>3, <1>11, SplitOfHalf DEF m
  <2>2. m > 1
    BY <1>3, <1>11
  <2>3. j \in Nat /\ j >= 1 /\ j < m
    BY <1>3, <2>2, SplitBounds
  <2>4. Root(g)[1] = <<LeftRoot(g, m), RightRoot(g, m)>>
    <3>1. ~ (n <= m)
      BY <1>3
    <3>2. SplitsRight(m)
      BY <1>1, <1>3, <2>2, <3>1
    <3> QED
      BY <1>5, <3>2 DEF SplitsRight
  <2>5. NextUp(x) = SubSeq(g, 1, j) /\ NextUp(y) = SubSeq(g, j + 1, m)
    <3>1. j \in Nat \ {0} /\ 2 * j < n
      BY <1>4, <2>1, <2>3
    <3>2. /\ NextUp(SubSeq(h, 1, 2 * j)) = SubSeq(NextUp(h), 1, j)
          /\ NextUp(SubSeq(h, 2 * j + 1, n)) = SubSeq(NextUp(h), j + 1, Half(n))
      <4> HIDE DEF j
      <4> QED
        BY <1>2, <3>1, NextOfParts
    <3> QED
      BY <2>1, <3>2 DEF g, m
  <2>6. Root(x) = Root(NextUp(x)) /\ Root(y) = Root(NextUp(y))
    <3>1. n - k \in Nat
      BY <1>3, <1>4
    <3> HIDE DEF x, y, k
    <3> QED
      BY <1>4, <1>7, <1>8, <3>1, RootOfNext
  <2>7. LeftRoot(g, m) = Root(x)[1] /\ RightRoot(g, m) = Root(y)[1]
    <3> HIDE DEF x, y
    <3> QED
      BY <2>5, <2>6 DEF LeftRoot, RightRoot
  <2> QED
    BY <1>6, <1>9, <2>4, <2>7
<1> QED
  BY <1>3, <1>10, <1>11

-----------------------------------------------------------------------------
Lists == TheBody!Lists

LEMMA ListsAre ==
    ASSUME TheBody!BodyAssumption
    PROVE  \A l : l \in Lists <=> l \in Seq(Txn) /\ Len(l) <= MaxTxns
<1>1. Lists = UNION {[1..m -> Txn] : m \in 0..MaxTxns}
  BY DEF Lists, TheBody!Lists, TheBody!BoundedSeq, TheBody!SeqOf
<1>2. ASSUME NEW l \in Lists PROVE l \in Seq(Txn) /\ Len(l) <= MaxTxns
  <2>1. PICK m \in 0..MaxTxns : l \in [1..m -> Txn]
    BY <1>1
  <2> QED
    BY <2>1
<1>3. ASSUME NEW l \in Seq(Txn), Len(l) <= MaxTxns PROVE l \in Lists
  <2>1. Len(l) \in 0..MaxTxns /\ l \in [1..Len(l) -> Txn]
    BY <1>3
  <2> QED
    BY <1>1, <2>1
<1> QED
  BY <1>2, <1>3

Left(l)  == SubSeq(l, 1, Split(Len(l)))
Right(l) == SubSeq(l, Split(Len(l)) + 1, Len(l))

LEMMA PartsOfList ==
    ASSUME NEW l \in Seq(Txn), Len(l) > 1
    PROVE  /\ Left(l) \in Seq(Txn) /\ Len(Left(l)) = Split(Len(l))
           /\ Right(l) \in Seq(Txn) /\ Len(Right(l)) = Len(l) - Split(Len(l))
           /\ Len(Left(l)) < Len(l) /\ Len(Right(l)) < Len(l)
           /\ Len(Left(l)) > 0 /\ Len(Right(l)) > 0
           /\ \A k \in 1..Len(Left(l)) : Left(l)[k] = l[k]
           /\ \A k \in 1..Len(Right(l)) : Right(l)[k] = l[k + Split(Len(l))]
<1> DEFINE n == Len(l)
           k == Split(n)
<1>1. n \in Nat /\ k \in Nat /\ k >= 1 /\ k < n
  BY SplitBounds
<1> HIDE DEF k
<1>2. /\ SubSeq(l, 1, k) \in Seq(Txn) /\ Len(SubSeq(l, 1, k)) = k
      /\ \A i \in 1..k : SubSeq(l, 1, k)[i] = l[i]
  BY <1>1
<1>3. /\ SubSeq(l, k + 1, n) \in Seq(Txn) /\ Len(SubSeq(l, k + 1, n)) = n - k
      /\ \A i \in 1..(n - k) : SubSeq(l, k + 1, n)[i] = l[i + k]
  BY <1>1
<1>4. n - k < n /\ n - k > 0 /\ k > 0
  BY <1>1
<1> QED
  BY <1>1, <1>2, <1>3, <1>4 DEF Left, Right, k

(* The recursion of TreeRoot, up to lists of a length.                     *)
Short(n) == {l \in Seq(Txn) : Len(l) <= n}

Grow(f, l) == IF Len(l) <= 1 THEN l ELSE <<f[Left(l)], f[Right(l)]>>

IsTree(f, n) == f = [l \in Short(n) |-> Grow(f, l)]

LEMMA TreesExist ==
    ASSUME NEW n \in Nat
    PROVE  \E f : IsTree(f, n)
<1> DEFINE H == {k \in 0..n : \E f : IsTree(f, k)}
<1>1. 0 \in H
  <2> DEFINE f == [l \in Short(0) |-> l]
  <2>1. \A l \in Short(0) : Grow(f, l) = l
    BY DEF Short, Grow
  <2>2. IsTree(f, 0)
    BY <2>1 DEF IsTree
  <2> QED
    BY <2>2
<1>2. ASSUME NEW k \in 1..n, k - 1 \in H PROVE k \in H
  <2>1. PICK f : IsTree(f, k - 1)
    BY <1>2
  <2>2. \A l \in Short(k - 1) : f[l] = Grow(f, l)
    BY <2>1 DEF IsTree
  <2> DEFINE q == [l \in Short(k) |-> IF Len(l) = k THEN Grow(f, l) ELSE f[l]]
  <2>3. \A l \in Short(k - 1) : q[l] = f[l]
    <3>1. \A l \in Short(k - 1) : l \in Short(k) /\ Len(l) # k
      BY DEF Short
    <3> QED
      BY <3>1
  <2>4. ASSUME NEW l \in Short(k) PROVE q[l] = Grow(q, l)
    <3>1. l \in Seq(Txn) /\ Len(l) <= k /\ Len(l) \in Nat
      BY DEF Short
    <3>2. q[l] = Grow(f, l)
      <4>1. CASE Len(l) = k
        BY <4>1
      <4>2. CASE Len(l) # k
        <5>1. l \in Short(k - 1)
          BY <3>1, <4>2 DEF Short
        <5> QED
          BY <2>2, <2>3, <5>1
      <4> QED
        BY <4>1, <4>2
    <3> HIDE DEF q
    <3>3. CASE Len(l) <= 1
      BY <3>2, <3>3 DEF Grow
    <3>4. CASE ~ (Len(l) <= 1)
      <4>1. Len(l) > 1
        BY <3>1, <3>4
      <4>2. /\ Left(l) \in Seq(Txn) /\ Len(Left(l)) < Len(l)
            /\ Right(l) \in Seq(Txn) /\ Len(Right(l)) < Len(l)
        BY <3>1, <4>1, PartsOfList
      <4>3. Left(l) \in Short(k - 1) /\ Right(l) \in Short(k - 1)
        <5>1. \A x \in Seq(Txn) : Len(x) < Len(l) => Len(x) <= k - 1
          BY <3>1
        <5> QED
          BY <4>2, <5>1 DEF Short
      <4> QED
        BY <2>3, <3>2, <4>3 DEF Grow
    <3> QED
      BY <3>3, <3>4
  <2>5. IsTree(q, k)
    <3>1. q = [l \in Short(k) |-> q[l]]
      OBVIOUS
    <3> HIDE DEF q
    <3> QED
      BY <2>4, <3>1 DEF IsTree
  <2>6. k \in 0..n
    OBVIOUS
  <2> QED
    BY <2>5, <2>6
<1> HIDE DEF H
<1>3. \A k \in 0..n : k \in H
  BY <1>1, <1>2, HandedOn
<1>4. n \in 0..n
  OBVIOUS
<1> QED
  BY <1>3, <1>4 DEF H

Tree(l) == TheBody!TreeRoot[l]

LEMMA TreeRootIs ==
    ASSUME TheBody!BodyAssumption, NEW l \in Lists
    PROVE  Tree(l) = IF Len(l) <= 1 THEN l ELSE <<Tree(Left(l)), Tree(Right(l))>>
<1>1. Lists = Short(MaxTxns)
  BY ListsAre DEF Short
<1> DEFINE f == CHOOSE TreeRoot : IsTree(TreeRoot, MaxTxns)
<1>2. TheBody!TreeRoot = f
  BY <1>1 DEF TheBody!TreeRoot, IsTree, Grow, Left, Right, Split, Lists
<1>3. IsTree(f, MaxTxns)
  BY TreesExist DEF TheBody!BodyAssumption
<1> HIDE DEF f
<1>4. f[l] = Grow(f, l)
  BY <1>1, <1>3 DEF IsTree
<1> QED
  BY <1>2, <1>4 DEF Tree, Grow

-----------------------------------------------------------------------------
LEMMA ListOfOne ==
    ASSUME NEW l \in Seq(Txn), Len(l) = 1
    PROVE  l # << >> /\ l = <<l[1]>>
<1> DEFINE r == <<l[1]>>
<1>1. l[1] \in Txn
  BY ElementOfSeq
<1>2. r \in Seq(Txn) /\ Len(r) = 1 /\ r[1] = l[1] /\ r # << >>
  BY <1>1
<1> HIDE DEF r
<1>3. \A i \in 1..Len(l) : r[i] = l[i]
  <2>1. \A i \in 1..1 : i = 1
    OBVIOUS
  <2> QED
    BY <1>2, <2>1
<1>4. r = l
  BY <1>2, <1>3, SeqEqual
<1> QED
  BY <1>2, <1>4 DEF r

Hashes(l) == [i \in 1..Len(l) |-> <<l[i]>>]

LEMMA HashRow ==
    ASSUME NEW l \in Seq(Txn)
    PROVE  IsRow(Hashes(l), Len(l)) /\ \A i \in 1..Len(l) : Hashes(l)[i] = <<l[i]>>
<1> DEFINE h == Hashes(l)
<1>1. \A i \in 1..Len(l) : h[i] = <<l[i]>>
  BY DEF Hashes
<1>2. h = [i \in 1..Len(l) |-> h[i]] /\ Len(l) \in Nat
  BY DEF Hashes
<1> HIDE DEF h
<1>3. IsRow(h, Len(l))
  BY <1>2, RowLength
<1> QED
  BY <1>1, <1>3 DEF h

MerkleRoot(l) == TheBody!merkle_root(l)

LEMMA MerkleRootIs ==
    ASSUME NEW l
    PROVE  MerkleRoot(l) = IF l = << >> THEN << >> ELSE Root(Hashes(l))[1]
  BY DEF MerkleRoot, TheBody!merkle_root, Root, Hashes

(* The root that is made in place is that of the tree.                     *)
LEMMA RootIsTree ==
    ASSUME TheBody!BodyAssumption
    PROVE  \A l \in Lists : MerkleRoot(l) = Tree(l)
<1> DEFINE D == {n \in Nat : \E l \in Lists : Len(l) = n /\ MerkleRoot(l) # Tree(l)}
<1>1. SUFFICES ASSUME NEW n \in D, \A e \in D : n <= e PROVE FALSE
  <2>1. D = {} => \A l \in Lists : MerkleRoot(l) = Tree(l)
    <3>1. \A l \in Lists : Len(l) \in Nat
      BY ListsAre
    <3> QED
      BY <3>1
  <2> HIDE DEF D
  <2>2. D \in SUBSET Nat
    BY DEF D
  <2> QED
    BY <2>1, <2>2, LeastNumber
<1>2. PICK l \in Lists : Len(l) = n /\ MerkleRoot(l) # Tree(l)
  OBVIOUS
<1>3. \A x \in Lists : Len(x) < n => MerkleRoot(x) = Tree(x)
  <2> SUFFICES ASSUME NEW x \in Lists, Len(x) < n, MerkleRoot(x) # Tree(x) PROVE FALSE
    OBVIOUS
  <2>1. Len(x) \in Nat
    BY ListsAre
  <2>2. Len(x) \in D
    BY <2>1
  <2> QED
    BY <1>1, <2>1, <2>2
<1> HIDE DEF D
<1>4. l \in Seq(Txn) /\ n \in Nat /\ n = Len(l) /\ n <= MaxTxns
  BY <1>2, ListsAre
<1> DEFINE h == Hashes(l)
<1>5. IsRow(h, n) /\ \A i \in 1..n : h[i] = <<l[i]>>
  BY <1>4, HashRow
<1>6. CASE n = 0
  <2>1. l = << >>
    BY <1>4, <1>6, EmptySeq
  <2> QED
    BY <1>2, <1>4, <1>6, <2>1, MerkleRootIs, TreeRootIs
<1>7. CASE n = 1
  <2>1. l # << >> /\ l = <<l[1]>>
    BY <1>4, <1>7, ListOfOne
  <2>2. Root(h) = h /\ h[1] = <<l[1]>>
    <3> HIDE DEF h
    <3> QED
      BY <1>4, <1>5, <1>7, RootOfOne
  <2>3. MerkleRoot(l) = <<l[1]>>
    BY <2>1, <2>2, MerkleRootIs
  <2>4. Tree(l) = l
    BY <1>2, <1>4, <1>7, TreeRootIs
  <2> QED
    BY <1>2, <2>1, <2>3, <2>4
<1>8. CASE n > 1
  <2> DEFINE k == Split(n)
             x == Left(l)
             y == Right(l)
  <2>1. k \in Nat /\ k >= 1 /\ k < n
    BY <1>4, <1>8, SplitBounds
  <2>2. /\ x \in Seq(Txn) /\ Len(x) = k /\ y \in Seq(Txn) /\ Len(y) = n - k
        /\ Len(x) < n /\ Len(y) < n /\ Len(x) > 0 /\ Len(y) > 0
        /\ \A i \in 1..k : x[i] = l[i]
        /\ \A i \in 1..(n - k) : y[i] = l[i + k]
    BY <1>4, <1>8, PartsOfList
  <2> HIDE DEF h, k, x, y
  <2>3. Root(h)[1] = <<Root(SubSeq(h, 1, k))[1], Root(SubSeq(h, k + 1, n))[1]>>
    <3>1. SplitsRight(n)
      BY <1>4, <1>8, RootOfParts
    <3> QED
      BY <1>5, <3>1 DEF SplitsRight, LeftRoot, RightRoot, k
  <2>4. SubSeq(h, 1, k) = Hashes(x)
    <3> DEFINE a == SubSeq(h, 1, k)
               b == Hashes(x)
    <3>1. 1 + k <= n + 1 /\ k = 1 + k - 1
      BY <1>4, <2>1
    <3>2. IsRow(a, k) /\ \A i \in 1..k : a[i] = h[i + 1 - 1]
      BY <1>5, <2>1, <3>1, PartOfRow
    <3>3. IsRow(b, k) /\ \A i \in 1..k : b[i] = <<x[i]>>
      BY <2>2, HashRow
    <3> HIDE DEF a, b
    <3>4. ASSUME NEW i \in 1..k PROVE a[i] = b[i]
      <4>1. i \in 1..n /\ i + 1 - 1 = i
        BY <1>4, <2>1
      <4> QED
        BY <1>5, <2>2, <3>2, <3>3, <4>1
    <3>5. a = b
      BY <3>2, <3>3, <3>4, RowsEqual
    <3> QED
      BY <3>5 DEF a, b
  <2>5. SubSeq(h, k + 1, n) = Hashes(y)
    <3> DEFINE s == k + 1
               m == n - k
               a == SubSeq(h, s, n)
               b == Hashes(y)
    <3>1. s \in Nat \ {0} /\ m \in Nat /\ s + m <= n + 1 /\ n = s + m - 1
      BY <1>4, <2>1
    <3>2. \A i \in 1..m : i + k \in 1..n /\ i + s - 1 = i + k
      BY <1>4, <2>1
    <3> HIDE DEF s
    <3>3. IsRow(b, m) /\ \A i \in 1..m : b[i] = <<y[i]>>
      BY <2>2, HashRow
    <3>4. \A i \in 1..m : y[i] = l[i + k]
      BY <2>2
    <3> HIDE DEF m
    <3>5. IsRow(a, m) /\ \A i \in 1..m : a[i] = h[i + s - 1]
      BY <1>5, <3>1, PartOfRow
    <3> HIDE DEF a, b
    <3>6. ASSUME NEW i \in 1..m PROVE a[i] = b[i]
      BY <1>5, <3>2, <3>3, <3>4, <3>5
    <3>7. a = b
      BY <3>3, <3>5, <3>6, RowsEqual
    <3> QED
      BY <3>7 DEF a, b, s
  <2>6. x \in Lists /\ y \in Lists
    <3>1. \A z \in Seq(Txn) : Len(z) < n => Len(z) <= MaxTxns
      BY <1>4 DEF TheBody!BodyAssumption
    <3> QED
      BY <2>2, <3>1, ListsAre
  <2>7. MerkleRoot(x) = Tree(x) /\ MerkleRoot(y) = Tree(y)
    BY <1>3, <2>2, <2>6
  <2>8. /\ MerkleRoot(x) = Root(Hashes(x))[1]
        /\ MerkleRoot(y) = Root(Hashes(y))[1]
        /\ MerkleRoot(l) = Root(h)[1]
    <3>1. x # << >> /\ y # << >> /\ l # << >>
      BY <1>4, <1>8, <2>2
    <3> QED
      BY <3>1, MerkleRootIs DEF h
  <2>9. Tree(l) = <<Tree(x), Tree(y)>>
    <3>1. ~ (Len(l) <= 1)
      BY <1>4, <1>8
    <3> QED
      BY <1>2, <3>1, TreeRootIs DEF x, y
  <2> QED
    BY <1>2, <2>3, <2>4, <2>5, <2>7, <2>8, <2>9
<1> QED
  BY <1>4, <1>6, <1>7, <1>8

(* Lists of a length that have the same root are the same.                 *)
LEMMA RootCommits ==
    ASSUME NEW l \in Seq(Txn), NEW r \in Seq(Txn), Len(l) = Len(r), MerkleRoot(l) = MerkleRoot(r)
    PROVE  l = r
<1> DEFINE n == Len(l)
<1>1. n \in Nat
  OBVIOUS
<1>2. CASE n = 0
  BY <1>2, EmptySeq
<1>3. CASE n > 0
  <2> DEFINE g == Hashes(l)
             h == Hashes(r)
  <2>1. /\ IsRow(g, n) /\ \A i \in 1..n : g[i] = <<l[i]>>
        /\ IsRow(h, n) /\ \A i \in 1..n : h[i] = <<r[i]>>
    BY HashRow
  <2>2. Root(g)[1] = Root(h)[1]
    <3>1. l # << >> /\ r # << >>
      BY <1>3
    <3> QED
      BY <3>1, MerkleRootIs
  <2> HIDE DEF g, h
  <2>3. IsRow(Root(g), 1) /\ IsRow(Root(h), 1)
    BY <1>1, <1>3, <2>1, RootIsOne
  <2>4. Root(g) = Root(h)
    <3>1. \A k \in 1..1 : k = 1
      OBVIOUS
    <3> QED
      BY <2>2, <2>3, <3>1, RowsEqual
  <2>5. g = h
    BY <1>1, <2>1, <2>4, RootInjective DEF SameRootSameRow
  <2>6. \A i \in 1..n : l[i] = r[i]
    BY <2>1, <2>5
  <2> QED
    BY <2>6, SeqEqual
<1> QED
  BY <1>1, <1>2, <1>3

-----------------------------------------------------------------------------
BodyInv ==
    /\ txns \in Lists /\ received \in Lists
    /\ header = [root |-> MerkleRoot(txns), count |-> Len(txns)]
    /\ accepted => phase = "received" /\ TheBody!block_is_valid(header, received)
    /\ phase = "received" /\ TheBody!block_is_valid(header, received) => accepted

LEMMA InitBody ==
    ASSUME TheBody!BodyAssumption, TheBody!Init
    PROVE  BodyInv
<1>1. /\ phase = "none" /\ txns = << >> /\ received = << >> /\ accepted = FALSE
      /\ header = [root |-> << >>, count |-> 0]
  BY DEF TheBody!Init, TheBody!NoHeader
<1>2. << >> \in Lists /\ Len(<< >>) = 0
  <2>1. << >> \in Seq(Txn) /\ Len(<< >>) = 0
    OBVIOUS
  <2>2. Len(<< >>) <= MaxTxns
    BY <2>1 DEF TheBody!BodyAssumption
  <2> HIDE DEF Lists
  <2>3. \A l : l \in Seq(Txn) /\ Len(l) <= MaxTxns => l \in Lists
    BY ListsAre
  <2> QED
    BY <2>1, <2>2, <2>3, Zenon
<1>3. MerkleRoot(<< >>) = << >>
  BY MerkleRootIs
<1> QED
  BY <1>1, <1>2, <1>3 DEF BodyInv

LEMMA NextBody ==
    ASSUME TheBody!BodyAssumption, BodyInv, [TheBody!Next]_(TheBody!vars)
    PROVE  BodyInv'
<1>1. ASSUME NEW list \in Lists, TheBody!block_create(list) PROVE BodyInv'
  <2>1. /\ phase' = "created" /\ txns' = list /\ received' = received /\ accepted' = accepted
        /\ header' = [root |-> MerkleRoot(list), count |-> Len(list)] /\ phase = "none"
    BY <1>1 DEF TheBody!block_create, MerkleRoot
  <2> QED
    BY <2>1 DEF BodyInv
<1>2. ASSUME NEW list \in Lists, TheBody!block_create_from_tuple(list) PROVE BodyInv'
  <2>1. /\ txns' = txns /\ header' = header /\ received' = list /\ phase' = "received"
        /\ accepted' = TheBody!block_is_valid(header, list)
    BY <1>2 DEF TheBody!block_create_from_tuple
  <2> QED
    BY <2>1 DEF BodyInv
<1>3. CASE UNCHANGED TheBody!vars
  BY <1>3 DEF BodyInv, TheBody!vars
<1> QED
  BY <1>1, <1>2, <1>3 DEF TheBody!Next, Lists

LEMMA BodyCommits ==
    ASSUME TheBody!BodyAssumption, BodyInv
    PROVE  TheBody!HeaderCommits
<1>1. /\ txns \in Lists /\ received \in Lists
      /\ header.root = MerkleRoot(txns) /\ header.count = Len(txns)
  BY DEF BodyInv
<1>2. header.root = TheBody!TreeRoot[txns]
  BY <1>1, RootIsTree DEF Tree
<1>3. TheBody!block_is_valid(header, received) <=>
          Len(received) = header.count /\ MerkleRoot(received) = header.root
  BY DEF TheBody!block_is_valid, MerkleRoot
<1>4. TheBody!block_is_valid(header, received) => received = txns
  <2>1. txns \in Seq(Txn) /\ received \in Seq(Txn)
    BY <1>1, ListsAre
  <2> QED
    BY <1>1, <1>3, <2>1, RootCommits
<1>5. received = txns => TheBody!block_is_valid(header, received)
  BY <1>1, <1>3
<1> QED
  BY <1>2, <1>4, <1>5 DEF BodyInv, TheBody!HeaderCommits

(* The root of the header is that of the tree over the list that the       *)
(* creator signed, and of all lists that may come with the header a        *)
(* receiver takes that one alone (block_create, block_create_from_tuple).  *)
THEOREM HeaderAlwaysCommits == TheBody!Spec => []HeaderCommits
<1>0. TheBody!BodyAssumption
  BY StructuresAssumption
<1>1. TheBody!Init => BodyInv
  BY <1>0, InitBody
<1>2. BodyInv /\ [TheBody!Next]_(TheBody!vars) => BodyInv'
  BY <1>0, NextBody
<1>3. BodyInv => HeaderCommits
  BY <1>0, BodyCommits DEF HeaderCommits
<1> QED
  BY <1>1, <1>2, <1>3, PTL DEF TheBody!Spec
=============================================================================
