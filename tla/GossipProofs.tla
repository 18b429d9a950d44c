---------------------------- MODULE GossipProofs ----------------------------
(***************************************************************************)
(* Proofs about Gossip, for every set of nodes and of links and every size *)
(* of the history that leaves room for the window.                         *)
(*                                                                         *)
(* Remembered is not inductive: it does not say how the history came to    *)
(* hold a guid, nor that the oldest entry of a full history can go.  The   *)
(* inductive invariant says of every node that its history is Complete     *)
(* (whatever may still be on its way and was seen is in it) and that its   *)
(* entries can be given the events they stand for, all different and none  *)
(* older than an entry behind it by a window (Tags); of every message on   *)
(* its way that its event is in the window (Alive).  When a full history   *)
(* forgets its oldest entry, OldestIsGone counts: the entries that are in  *)
(* one window with it would be 2 * Window in number, for 2 * Window - 1    *)
(* events.                                                                 *)
(***************************************************************************)
EXTENDS Gossip, Integers, FiniteSetTheorems, SequenceTheorems, TLAPS

(* The events that are broadcasts.                                         *)
Broadcasts == UNION {seen[n] : n \in Node}

(* tag gives every entry of the history h its event: a guid is its own     *)
(* event, and a null guid stands for some direct message.  An entry is     *)
(* less than Window events older than any entry behind it.                 *)
Tags(tag, h, e, B) ==
    /\ tag \in [1..Len(h) -> 1..e]
    /\ \A i, j \in 1..Len(h) : i < j => tag[i] # tag[j] /\ tag[i] < tag[j] + Window
    /\ \A i \in 1..Len(h) : IF h[i] = guid_null THEN tag[i] \notin B ELSE tag[i] = h[i]

(* No guid is missing that may still be on its way.                        *)
Complete(h, s, e) == \A g \in s : e < g + Window => message_history_has(h, g)

(* What a node keeps when e events have started and B are the broadcasts.  *)
Keeps(h, s, e, B) ==
    /\ h \in Seq(0..e)
    /\ Len(h) <= MESSAGE_HISTORY_SIZE
    /\ s \subseteq B
    /\ \E tag \in [1..Len(h) -> 1..e] : Tags(tag, h, e, B)
    /\ Complete(h, s, e)

(* The messages that can be on their way.                                  *)
Alive(e, B) ==
    {msg \in Message : /\ msg.event <= e
                       /\ e < msg.event + Window
                       /\ msg.guid # guid_null => msg.guid = msg.event /\ msg.guid \in B}

IInv ==
    /\ events \in 0..MaxEvents
    /\ Broadcasts \subseteq 1..events
    /\ history \in [Node -> Seq(0..events)]
    /\ seen \in [Node -> SUBSET Broadcasts]
    /\ channel \in [Links -> Seq(Alive(events, Broadcasts))]
    /\ \A n \in Node : Keeps(history[n], seen[n], events, Broadcasts)

-----------------------------------------------------------------------------
(* The numbers of events.                                                  *)
LEMMA Sizes ==
    /\ MESSAGE_HISTORY_SIZE \in Nat \ {0} /\ Window \in Nat \ {0} /\ MaxEvents \in Nat
    /\ 2 * Window - 1 <= MESSAGE_HISTORY_SIZE
  BY WindowAssumption

(* The oldest entry is forgotten.                                          *)
LEMMA TailTags ==
    ASSUME NEW e \in Nat, NEW h \in Seq(0..e), h # << >>, NEW B, NEW tag, Tags(tag, h, e, B)
    PROVE  /\ Tail(h) \in Seq(0..e) /\ Len(Tail(h)) = Len(h) - 1
           /\ \A i \in 1..Len(Tail(h)) : Tail(h)[i] = h[i + 1]
           /\ Tags([i \in 1..Len(Tail(h)) |-> tag[i + 1]], Tail(h), e, B)
<1> DEFINE t == Tail(h)
           tag2 == [i \in 1..Len(t) |-> tag[i + 1]]
<1>1. /\ t \in Seq(0..e) /\ Len(t) = Len(h) - 1 /\ Len(h) \in Nat \ {0}
      /\ \A i \in 1..Len(t) : t[i] = h[i + 1]
  BY HeadTailProperties
<1> HIDE DEF t
<1>2. \A i \in 1..Len(t) : i + 1 \in 1..Len(h) /\ tag2[i] = tag[i + 1]
  BY <1>1
<1>3. tag2 \in [1..Len(t) -> 1..e]
  BY <1>2 DEF Tags
<1>4. \A i, j \in 1..Len(t) : i < j => tag2[i] # tag2[j] /\ tag2[i] < tag2[j] + Window
  <2> SUFFICES ASSUME NEW i \in 1..Len(t), NEW j \in 1..Len(t), i < j
               PROVE  tag2[i] # tag2[j] /\ tag2[i] < tag2[j] + Window
    OBVIOUS
  <2>1. i + 1 \in 1..Len(h) /\ j + 1 \in 1..Len(h) /\ i + 1 < j + 1
    BY <1>1
  <2> QED
    BY <1>2, <2>1 DEF Tags
<1>5. \A i \in 1..Len(t) : IF t[i] = guid_null THEN tag2[i] \notin B ELSE tag2[i] = t[i]
  BY <1>1, <1>2, SMTT(30) DEF Tags
<1>6. Tags(tag2, t, e, B)
  BY <1>3, <1>4, <1>5 DEF Tags
<1> QED
  BY <1>1, <1>6 DEF t

(* An entry for the event x is added.                                      *)
LEMMA AppendTags ==
    ASSUME NEW e \in Nat, NEW h \in Seq(0..e), NEW B, NEW tag, Tags(tag, h, e, B),
           NEW e2 \in Nat, e <= e2, NEW B2, B2 \ B \subseteq (e + 1)..e2,
           NEW x \in 1..e2, e < x + Window, \A i \in 1..Len(h) : tag[i] # x,
           NEW g \in 0..e2, IF g = guid_null THEN x \notin B2 ELSE g = x
    PROVE  /\ Append(h, g) \in Seq(0..e2) /\ Len(Append(h, g)) = Len(h) + 1
           /\ \E a : Tags(a, Append(h, g), e2, B2)
<1> DEFINE a == Append(h, g)
           tag2 == [i \in 1..(Len(h) + 1) |-> IF i = Len(h) + 1 THEN x ELSE tag[i]]
<1>1. /\ a \in Seq(0..e2) /\ Len(a) = Len(h) + 1 /\ Len(h) \in Nat
      /\ \A i \in 1..Len(h) : a[i] = h[i]
      /\ a[Len(h) + 1] = g
  <2>1. h \in Seq(0..e2)
    BY 0..e \subseteq 0..e2
  <2> QED
    BY <2>1, AppendProperties
<1> HIDE DEF a
<1>2. \A i \in 1..Len(h) : tag[i] \in 1..e
  BY DEF Tags
<1>3. tag2 \in [1..Len(a) -> 1..e2]
  <2>1. ASSUME NEW i \in 1..(Len(h) + 1)
        PROVE  (IF i = Len(h) + 1 THEN x ELSE tag[i]) \in 1..e2
    <3>1. i = Len(h) + 1 \/ i \in 1..Len(h)
      BY <1>1
    <3> QED
      BY <1>2, <3>1
  <2> QED
    BY <1>1, <2>1
<1>4. \A i, j \in 1..Len(a) : i < j => tag2[i] # tag2[j] /\ tag2[i] < tag2[j] + Window
  <2> SUFFICES ASSUME NEW i \in 1..Len(a), NEW j \in 1..Len(a), i < j
               PROVE  tag2[i] # tag2[j] /\ tag2[i] < tag2[j] + Window
    OBVIOUS
  <2>1. i \in 1..Len(h) /\ tag2[i] = tag[i]
    BY <1>1, SMTT(30)
  <2>2. CASE j = Len(h) + 1
    <3>1. tag2[j] = x
      BY <2>2, <1>1
    <3> QED
      BY <1>2, <2>1, <3>1, Sizes, SMTT(30)
  <2>3. CASE j # Len(h) + 1
    <3>1. j \in 1..Len(h) /\ tag2[j] = tag[j]
      BY <2>3, <1>1, SMTT(30)
    <3> QED
      BY <2>1, <3>1 DEF Tags
  <2> QED
    BY <2>2, <2>3
<1>5. ASSUME NEW i \in 1..Len(a)
      PROVE  IF a[i] = guid_null THEN tag2[i] \notin B2 ELSE tag2[i] = a[i]
  <2>1. CASE i = Len(h) + 1
    BY <1>1, <2>1
  <2>2. CASE i # Len(h) + 1
    <3>1. i \in 1..Len(h) /\ tag2[i] = tag[i] /\ a[i] = h[i]
      BY <1>1, <2>2
    <3>2. tag[i] \notin (e + 1)..e2
      BY <1>2, <3>1
    <3> QED
      BY <3>1, <3>2 DEF Tags
  <2> QED
    BY <2>1, <2>2
<1>6. Tags(tag2, a, e2, B2)
  BY <1>3, <1>4, <1>5 DEF Tags
<1> QED
  BY <1>1, <1>6 DEF a

(* Time passes: what a node keeps it keeps while others start events.      *)
LEMMA KeepsLater ==
    ASSUME NEW e \in Nat, NEW h, NEW s, NEW B, s \subseteq 1..e, Keeps(h, s, e, B),
           NEW e2 \in Nat, e <= e2, NEW B2, B \subseteq B2, B2 \ B \subseteq (e + 1)..e2
    PROVE  Keeps(h, s, e2, B2)
<1>1. h \in Seq(0..e2)
  BY 0..e \subseteq 0..e2 DEF Keeps
<1>2. Complete(h, s, e2)
  BY Sizes DEF Keeps, Complete
<1>3. PICK tag \in [1..Len(h) -> 1..e] : Tags(tag, h, e, B)
  BY DEF Keeps
<1>4. \A i \in 1..Len(h) : tag[i] \in 1..e2 /\ tag[i] \notin (e + 1)..e2
  BY <1>3
<1>5. Tags(tag, h, e2, B2) /\ tag \in [1..Len(h) -> 1..e2]
  BY <1>3, <1>4 DEF Tags
<1> QED
  BY <1>1, <1>2, <1>5 DEF Keeps

(* Two events of one window are not far apart.                             *)
LEMMA Apart ==
    ASSUME NEW a \in Int, NEW b \in Int, NEW w \in Int, a < b + w, b < a + w
    PROVE  b + w - a \in 1..(2 * w - 1)
OBVIOUS

LEMMA Differ ==
    ASSUME NEW a \in Int, NEW b \in Int, NEW c \in Int, NEW w \in Int, a # b
    PROVE  a + w - c # b + w - c
OBVIOUS

(* A full history of tagged entries is longer than the window on both      *)
(* sides of its oldest entry: when there is an entry for another event, x, *)
(* the oldest guid is no longer on its way.                                *)
LEMMA OldestIsGone ==
    ASSUME NEW e \in Nat, NEW h \in Seq(0..e), NEW B, NEW tag, Tags(tag, h, e, B),
           Len(h) >= MESSAGE_HISTORY_SIZE,
           NEW e2 \in Nat, e <= e2, NEW x \in 1..e2, e2 < x + Window,
           \A i \in 1..Len(h) : tag[i] # x,
           e2 < tag[1] + Window
    PROVE  FALSE
<1> DEFINE N == Len(h) + 1
           W == 2 * Window - 1
           f == [i \in 1..N |-> (IF i = N THEN x ELSE tag[i]) + Window - tag[1]]
<1>1. /\ N \in Nat /\ W \in Nat /\ W < N /\ 1 \in 1..Len(h) /\ W = 2 * Window - 1
      /\ \A i \in 1..N : i = N \/ i \in 1..Len(h)
      /\ N \notin 1..Len(h) /\ N \in 1..N /\ 1..Len(h) \subseteq 1..N
  BY Sizes, SMTT(30)
<1>2. \A i \in 1..Len(h) : tag[i] \in 1..e
  BY DEF Tags
<1>3. f = [i \in 1..N |-> f[i]]
  OBVIOUS
<1>4. f[N] = x + Window - tag[1]
  BY <1>1
<1>5. \A i \in 1..Len(h) : f[i] = tag[i] + Window - tag[1]
  BY <1>1
<1> HIDE DEF f, N, W
<1>6. tag[1] \in 1..e
  BY <1>1, <1>2
<1>7. f[N] \in 1..W
  <2>1. x \in Int /\ tag[1] \in Int /\ Window \in Int
    BY <1>6, Sizes
  <2>2. tag[1] < x + Window /\ x < tag[1] + Window
    BY <1>6, Sizes
  <2> QED
    BY <1>1, <1>4, <2>1, <2>2, Apart
<1>8. ASSUME NEW i \in 1..Len(h) PROVE f[i] \in 1..W
  <2>1. tag[i] \in 1..e
    BY <1>2
  <2>2. tag[1] < tag[i] + Window
    <3>1. CASE i = 1
      BY <1>6, <3>1, Sizes
    <3>2. CASE i # 1
      BY <1>1, <3>2 DEF Tags
    <3> QED
      BY <3>1, <3>2
  <2>3. f[i] = tag[i] + Window - tag[1]
    BY <1>5
  <2>4. tag[i] \in Int /\ tag[1] \in Int /\ Window \in Int /\ tag[i] < tag[1] + Window
    BY <1>6, <2>1, Sizes, SMTT(30)
  <2> QED
    BY <1>1, <2>2, <2>3, <2>4, Apart
<1>9. f \in [1..N -> 1..W]
  BY <1>1, <1>3, <1>7, <1>8
<1>10. ASSUME NEW i \in 1..N, NEW j \in 1..N, i < j PROVE f[i] # f[j]
  <2>1. i \in 1..Len(h)
    BY <1>1, <1>10
  <2>2. tag[i] \in 1..e /\ f[i] = tag[i] + Window - tag[1]
    BY <1>2, <1>5, <2>1
  <2>3. CASE j = N
    <3>1. tag[i] # x
      BY <2>1
    <3>2. f[j] = x + Window - tag[1]
      BY <1>4, <2>3
    <3> QED
      <4>1. tag[i] \in Int /\ x \in Int /\ tag[1] \in Int /\ Window \in Int
        BY <1>6, <2>2, Sizes
      <4> QED
        BY <2>2, <3>1, <3>2, <4>1, Differ
  <2>4. CASE j # N
    <3>1. j \in 1..Len(h)
      BY <1>1, <2>4
    <3>2. tag[j] \in 1..e /\ f[j] = tag[j] + Window - tag[1]
      BY <1>2, <1>5, <3>1
    <3>3. tag[i] # tag[j]
      BY <1>10, <2>1, <3>1 DEF Tags
    <3> QED
      <4>1. tag[i] \in Int /\ tag[j] \in Int /\ tag[1] \in Int /\ Window \in Int
        BY <1>6, <2>2, <3>2, Sizes, SMTT(30)
      <4> QED
        BY <2>2, <3>2, <3>3, <4>1, Differ
  <2> QED
    BY <2>3, <2>4
<1>11. \A i, j \in 1..N : f[i] = f[j] => i = j
  <2> SUFFICES ASSUME NEW i \in 1..N, NEW j \in 1..N, i # j PROVE f[i] # f[j]
    OBVIOUS
  <2>1. i < j \/ j < i
    BY <1>1
  <2> QED
    BY <1>10, <2>1
<1>12. /\ IsFiniteSet(1..N) /\ Cardinality(1..N) = N
       /\ IsFiniteSet(1..W) /\ Cardinality(1..W) = W
  <2>1. N \in Int /\ W \in Int /\ 1 \in Int /\ N >= 1 /\ W >= 1
    BY <1>1, Sizes
  <2>2. /\ IsFiniteSet(1..N) /\ Cardinality(1..N) = IF 1 > N THEN 0 ELSE N - 1 + 1
        /\ IsFiniteSet(1..W) /\ Cardinality(1..W) = IF 1 > W THEN 0 ELSE W - 1 + 1
    BY <2>1, FS_Interval
  <2>3. ~ (1 > N) /\ ~ (1 > W) /\ N - 1 + 1 = N /\ W - 1 + 1 = W
    BY <2>1
  <2> QED
    BY <2>2, <2>3
<1>13. \E i, j \in 1..N : i # j /\ f[i] = f[j]
  BY <1>1, <1>9, <1>12, FS_PigeonHole
<1> QED
  BY <1>11, <1>13
-----------------------------------------------------------------------------
(* The history may record the entry g of the event x, when x has begun     *)
(* only now, or is a broadcast that the history does not hold.             *)
MayRecord(h, e, e2, B, B2, x, g) ==
    /\ x \in 1..e2 /\ g \in 0..e2 /\ e2 < x + Window
    /\ x > e \/ (x \in B /\ ~ message_history_has(h, x))
    /\ IF g = guid_null THEN x \notin B2 ELSE g = x /\ x \in B2

LEMMA ToSetAppend ==
    ASSUME NEW S, NEW q \in Seq(S), NEW g \in S
    PROVE  ToSet(Append(q, g)) = ToSet(q) \cup {g}
<1> DEFINE a == Append(q, g)
<1>1. /\ a \in Seq(S) /\ Len(a) = Len(q) + 1 /\ Len(q) \in Nat
      /\ DOMAIN a = 1..(Len(q) + 1) /\ DOMAIN q = 1..Len(q)
      /\ \A i \in 1..Len(q) : a[i] = q[i]
      /\ a[Len(q) + 1] = g
  BY AppendProperties
<1> HIDE DEF a
<1>2. \A i \in DOMAIN a : i \in DOMAIN q \/ i = Len(q) + 1
  BY <1>1
<1>3. DOMAIN q \subseteq DOMAIN a /\ Len(q) + 1 \in DOMAIN a
  BY <1>1
<1>4. ToSet(a) = ToSet(q) \cup {g}
  BY <1>1, <1>2, <1>3 DEF ToSet
<1> QED
  BY <1>4 DEF a

(* Recording an event keeps all that may still be on its way.              *)
LEMMA RecordKeeps ==
    ASSUME NEW e \in Nat, NEW h, NEW s, NEW B, Keeps(h, s, e, B),
           NEW e2 \in Nat, e <= e2, NEW B2, B \subseteq B2, B2 \ B \subseteq (e + 1)..e2,
           NEW x, NEW g, MayRecord(h, e, e2, B, B2, x, g),
           s \subseteq 1..e,
           NEW s2, s2 = IF g = guid_null THEN s ELSE s \cup {g}
    PROVE  Keeps(message_history_add(h, g), s2, e2, B2)
<1> DEFINE new == message_history_add(h, g)
<1>0. /\ x \in 1..e2 /\ g \in 0..e2 /\ e2 < x + Window
      /\ x > e \/ (x \in B /\ ~ message_history_has(h, x))
      /\ IF g = guid_null THEN x \notin B2 ELSE g = x /\ x \in B2
  BY DEF MayRecord
<1>1. h \in Seq(0..e) /\ Len(h) \in Nat /\ Len(h) <= MESSAGE_HISTORY_SIZE
  BY DEF Keeps
<1>2. PICK tag \in [1..Len(h) -> 1..e] : Tags(tag, h, e, B)
  BY DEF Keeps
<1>3. e < x + Window
  BY <1>0, Sizes
<1>4. IF g = guid_null THEN x \notin B2 ELSE g = x
  BY <1>0
<1>5. \A i \in 1..Len(h) : tag[i] # x
  <2> SUFFICES ASSUME NEW i \in 1..Len(h), tag[i] = x PROVE FALSE
    OBVIOUS
  <2>1. tag[i] \in 1..e
    BY <1>2
  <2>2. x \in B /\ ~ message_history_has(h, x)
    BY <1>0, <2>1
  <2>3. h[i] = x
    BY <2>2, <1>2 DEF Tags
  <2>4. x \in ToSet(h)
    BY <2>3, <1>1 DEF ToSet
  <2> QED
    BY <2>2, <2>4 DEF message_history_has
<1>6. s2 \subseteq B2
  BY <1>0 DEF Keeps
<1> SUFFICES Keeps(new, s2, e2, B2)
  OBVIOUS
<1> HIDE DEF new
<1>7. CASE Len(h) >= MESSAGE_HISTORY_SIZE
  <2> DEFINE t == Tail(h)
             tag2 == [i \in 1..Len(t) |-> tag[i + 1]]
  <2>1. h # << >> /\ Len(h) = MESSAGE_HISTORY_SIZE
    BY <1>1, <1>7, Sizes
  <2>2. /\ t \in Seq(0..e) /\ Len(t) = Len(h) - 1
        /\ \A i \in 1..Len(t) : t[i] = h[i + 1]
        /\ Tags(tag2, t, e, B)
    BY <1>1, <1>2, <2>1, TailTags
  <2>3. \A i \in 1..Len(t) : i + 1 \in 1..Len(h) /\ tag2[i] = tag[i + 1]
    BY <1>1, <2>2
  <2> HIDE DEF t, tag2
  <2>4. \A i \in 1..Len(t) : tag2[i] # x
    BY <1>5, <2>3
  <2>5. /\ Append(t, g) \in Seq(0..e2) /\ Len(Append(t, g)) = Len(t) + 1
        /\ \E a : Tags(a, Append(t, g), e2, B2)
    <3>1. t \in Seq(0..e) /\ Tags(tag2, t, e, B)
      BY <2>2
    <3>2. x \in 1..e2 /\ g \in 0..e2
      BY <1>0
    <3> QED
      BY <1>3, <1>4, <2>4, <3>1, <3>2, AppendTags, SMTT(30)
  <2>6. new = Append(t, g)
    BY <1>7 DEF new, message_history_add, t
  <2>7. \E a \in [1..Len(new) -> 1..e2] : Tags(a, new, e2, B2)
    <3>1. PICK a : Tags(a, new, e2, B2)
      BY <2>5, <2>6
    <3> QED
      BY <3>1 DEF Tags
  <2>8. ToSet(new) = ToSet(t) \cup {g}
    <3>1. t \in Seq(0..e2) /\ g \in 0..e2
      BY <1>0, <2>2, 0..e \subseteq 0..e2
    <3> QED
      BY <3>1, <2>6, ToSetAppend
  <2>9. e2 >= tag[1] + Window
    <3>1. Tags(tag, h, e, B)
      BY <1>2
    <3>2. tag[1] \in 1..e
      BY <1>1, <1>2, <2>1, Sizes
    <3>3. ~ (e2 < tag[1] + Window)
      BY <1>0, <1>1, <1>5, <1>7, <3>1, OldestIsGone
    <3> QED
      BY <3>2, <3>3, Sizes
  <2>10. ASSUME NEW a \in s2, e2 < a + Window PROVE a \in ToSet(new)
    <3>1. CASE a = g
      BY <3>1, <2>8
    <3>2. CASE a # g
      <4>1. a \in s /\ a \in 1..e /\ e < a + Window
        BY <2>10, <3>2, Sizes
      <4>2. PICK i \in DOMAIN h : h[i] = a
        BY <4>1 DEF Keeps, Complete, message_history_has, ToSet
      <4>3. i \in 1..Len(h) /\ a # guid_null
        BY <1>1, <4>1, <4>2 DEF guid_null
      <4>4. tag[i] = a
        BY <1>2, <4>2, <4>3 DEF Tags
      <4>5. i # 1
        <5> SUFFICES ASSUME i = 1 PROVE FALSE
          OBVIOUS
        <5>1. e2 >= a + Window /\ e2 < a + Window
          BY <2>9, <2>10, <4>4
        <5> QED
          BY <4>1, <5>1, Sizes
      <4> DEFINE k == i - 1
      <4>6. k \in 1..Len(t) /\ k + 1 = i
        BY <1>1, <2>2, <4>3, <4>5, SMTT(30)
      <4> HIDE DEF k
      <4>7. t[k] = a
        BY <2>2, <4>2, <4>6
      <4>8. k \in DOMAIN t
        BY <2>2, <4>6
      <4> QED
        BY <2>8, <4>7, <4>8 DEF ToSet
    <3> QED
      BY <3>1, <3>2
  <2>11. Complete(new, s2, e2)
    BY <2>10 DEF Complete, message_history_has
  <2>12. new \in Seq(0..e2) /\ Len(new) <= MESSAGE_HISTORY_SIZE
    BY <1>1, <2>1, <2>2, <2>5, <2>6
  <2> QED
    BY <1>6, <2>7, <2>11, <2>12 DEF Keeps
<1>8. CASE Len(h) < MESSAGE_HISTORY_SIZE
  <2>1. new = Append(h, g)
    BY <1>1, <1>8, Sizes DEF new, message_history_add
  <2>2. /\ Append(h, g) \in Seq(0..e2) /\ Len(Append(h, g)) = Len(h) + 1
        /\ \E a : Tags(a, Append(h, g), e2, B2)
    BY <1>0, <1>1, <1>2, <1>3, <1>4, <1>5, AppendTags
  <2>3. \E a \in [1..Len(new) -> 1..e2] : Tags(a, new, e2, B2)
    <3>1. PICK a : Tags(a, new, e2, B2)
      BY <2>1, <2>2
    <3> QED
      BY <3>1 DEF Tags
  <2>4. ToSet(new) = ToSet(h) \cup {g}
    <3>1. h \in Seq(0..e2) /\ g \in 0..e2
      BY <1>0, <1>1, 0..e \subseteq 0..e2
    <3> QED
      BY <3>1, <2>1, ToSetAppend
  <2>5. ASSUME NEW a \in s2, e2 < a + Window PROVE a \in ToSet(new)
    <3>1. CASE a = g
      BY <3>1, <2>4
    <3>2. CASE a # g
      <4>1. a \in s /\ a \in 1..e /\ e < a + Window
        BY <2>5, <3>2, Sizes
      <4> QED
        BY <4>1, <2>4 DEF Keeps, Complete, message_history_has
    <3> QED
      BY <3>1, <3>2
  <2>6. Complete(new, s2, e2)
    BY <2>5 DEF Complete, message_history_has
  <2>7. new \in Seq(0..e2) /\ Len(new) <= MESSAGE_HISTORY_SIZE
    BY <1>1, <1>8, <2>1, <2>2, Sizes
  <2> QED
    BY <1>6, <2>3, <2>6, <2>7 DEF Keeps
<1> QED
  BY <1>1, <1>7, <1>8, Sizes
LEMMA AddSet ==
    ASSUME NEW S, NEW h \in Seq(S), NEW g \in S
    PROVE  ToSet(message_history_add(h, g)) \subseteq ToSet(h) \cup {g}
<1>1. CASE Len(h) >= MESSAGE_HISTORY_SIZE
  <2>1. h # << >>
    BY <1>1, Sizes
  <2> DEFINE t == Tail(h)
  <2>2. /\ t \in Seq(S) /\ Len(t) = Len(h) - 1 /\ Len(h) \in Nat
        /\ \A i \in 1..Len(t) : t[i] = h[i + 1]
    BY <2>1, HeadTailProperties
  <2> HIDE DEF t
  <2>3. \A i \in DOMAIN t : i + 1 \in DOMAIN h /\ t[i] = h[i + 1]
    BY <2>2
  <2>4. ToSet(t) \subseteq ToSet(h)
    BY <2>3 DEF ToSet
  <2>5. ToSet(Append(t, g)) = ToSet(t) \cup {g}
    BY <2>2, ToSetAppend
  <2> QED
    BY <1>1, <2>4, <2>5 DEF message_history_add, t
<1>2. CASE ~ (Len(h) >= MESSAGE_HISTORY_SIZE)
  BY <1>2, ToSetAppend DEF message_history_add
<1> QED
  BY <1>1, <1>2

-----------------------------------------------------------------------------
(* Channels that hold messages of the set S.                               *)
Channels(S) == [Links -> Seq(S)]

LEMMA ChannelsSubset ==
    ASSUME NEW S, NEW T, NEW ch \in Channels(S),
           \A l \in Links : \A i \in DOMAIN ch[l] : ch[l][i] \in T
    PROVE  ch \in Channels(T)
<1>1. ASSUME NEW l \in Links PROVE ch[l] \in Seq(T)
  <2>1. ch[l] \in Seq(S)
    BY DEF Channels
  <2>2. Len(ch[l]) \in Nat /\ DOMAIN ch[l] = 1..Len(ch[l])
    BY <2>1
  <2>3. ch[l] = [i \in 1..Len(ch[l]) |-> ch[l][i]]
    BY <2>1
  <2>4. \A i \in 1..Len(ch[l]) : ch[l][i] \in T
    BY <2>2
  <2> QED
    BY <2>2, <2>3, <2>4
<1> QED
  BY <1>1 DEF Channels

LEMMA ChannelsBroadcast ==
    ASSUME NEW S, NEW ch \in Channels(S), NEW msg \in S, NEW n
    PROVE  broadcast_message(ch, n, msg) \in Channels(S)
  BY AppendProperties DEF Channels, broadcast_message

LEMMA ChannelsSend ==
    ASSUME NEW S, NEW ch \in Channels(S), NEW msg \in S, NEW n, NEW m
    PROVE  send_message(ch, n, m, msg) \in Channels(S)
  BY AppendProperties DEF Channels, send_message

(* Reading takes the first message out of the connection.                  *)
LEMMA ChannelsRead ==
    ASSUME NEW S, NEW ch \in Channels(S), NEW l \in Links, ch[l] # << >>
    PROVE  /\ [ch EXCEPT ![l] = Tail(@)] \in Channels(S)
           /\ Head(ch[l]) \in S
           /\ 1 \in DOMAIN ch[l] /\ Head(ch[l]) = ch[l][1]
           /\ \A k \in Links : \A i \in DOMAIN [ch EXCEPT ![l] = Tail(@)][k] :
                 \E j \in DOMAIN ch[k] : [ch EXCEPT ![l] = Tail(@)][k][i] = ch[k][j]
<1>1. ch[l] \in Seq(S) /\ ch \in [Links -> Seq(S)]
  BY DEF Channels
<1>2. /\ Tail(ch[l]) \in Seq(S) /\ Head(ch[l]) \in S
      /\ Len(Tail(ch[l])) = Len(ch[l]) - 1 /\ Len(ch[l]) \in Nat \ {0}
      /\ \A i \in 1..Len(Tail(ch[l])) : Tail(ch[l])[i] = ch[l][i + 1]
  BY <1>1, HeadTailProperties
<1> DEFINE ch2 == [ch EXCEPT ![l] = Tail(@)]
<1>3. ch2 \in [Links -> Seq(S)] /\ ch2[l] = Tail(ch[l]) /\ \A k \in Links \ {l} : ch2[k] = ch[k]
  BY <1>1, <1>2
<1> HIDE DEF ch2
<1>4. ASSUME NEW k \in Links, NEW i \in DOMAIN ch2[k]
      PROVE  \E j \in DOMAIN ch[k] : ch2[k][i] = ch[k][j]
  <2>1. CASE k = l
    <3>1. i \in 1..Len(Tail(ch[l]))
      BY <1>2, <1>3, <1>4, <2>1
    <3>2. i + 1 \in DOMAIN ch[l] /\ ch2[l][i] = ch[l][i + 1]
      BY <1>1, <1>2, <1>3, <3>1
    <3> QED
      BY <2>1, <3>2
  <2>2. CASE k # l
    BY <1>3, <2>2, <1>4
  <2> QED
    BY <2>1, <2>2
<1>5. 1 \in DOMAIN ch[l] /\ Head(ch[l]) = ch[l][1]
  BY <1>1, <1>2
<1>6. ch2 \in Channels(S)
  BY <1>3 DEF Channels
<1>7. \A k \in Links : \A i \in DOMAIN ch2[k] : \E j \in DOMAIN ch[k] : ch2[k][i] = ch[k][j]
  BY <1>4
<1> QED
  BY <1>2, <1>5, <1>6, <1>7 DEF ch2
-----------------------------------------------------------------------------
(* A view of a node is sound when B are the broadcasts of all nodes.       *)
Views == [history : Seq(Nat), seen : SUBSET Nat,
          channel : Channels(Message), events : Nat]

Sound(r, B) ==
    /\ r \in Views
    /\ r.events <= MaxEvents
    /\ B \subseteq 1..r.events
    /\ r.channel \in Channels(Alive(r.events, B))
    /\ Keeps(r.history, r.seen, r.events, B)

(* Another event may start: nothing in S leaves its window by it.          *)
RoomFor(e, S) == \A msg \in S : e + 1 < msg.event + Window

Contents(ch) == UNION {{ch[l][i] : i \in DOMAIN ch[l]} : l \in Links}

LEMMA AliveLater ==
    ASSUME NEW e \in Nat, NEW B, NEW B2, B \subseteq B2,
           NEW msg \in Alive(e, B), RoomFor(e, {msg})
    PROVE  msg \in Alive(e + 1, B2)
  BY DEF Alive, RoomFor, Message

LEMMA ChannelsLater ==
    ASSUME NEW e \in Nat, NEW B, NEW B2, B \subseteq B2,
           NEW ch \in Channels(Alive(e, B)), RoomFor(e, Contents(ch))
    PROVE  ch \in Channels(Alive(e + 1, B2))
<1>1. ASSUME NEW l \in Links, NEW i \in DOMAIN ch[l] PROVE ch[l][i] \in Alive(e + 1, B2)
  <2>1. ch[l] \in Seq(Alive(e, B))
    BY DEF Channels
  <2>2. ch[l][i] \in Alive(e, B)
    BY <1>1, <2>1
  <2>3. ch[l][i] \in Contents(ch)
    BY <1>1 DEF Contents
  <2>4. RoomFor(e, {ch[l][i]})
    BY <2>3 DEF RoomFor
  <2> QED
    BY <2>2, <2>4, AliveLater
<1> QED
  BY <1>1, ChannelsSubset

(* A guid is an event, or the null guid.                                   *)
LEMMA NewHistory ==
    ASSUME NEW h \in Seq(Nat), NEW g \in Nat
    PROVE  message_history_add(h, g) \in Seq(Nat)
<1>1. h # << >> => Tail(h) \in Seq(Nat)
  BY HeadTailProperties
<1>2. Len(h) >= MESSAGE_HISTORY_SIZE => h # << >>
  BY Sizes
<1> QED
  BY <1>1, <1>2, AppendProperties DEF message_history_add

LEMMA AliveMessages ==
    ASSUME NEW e \in Nat, NEW B, NEW ch \in Channels(Alive(e, B))
    PROVE  ch \in Channels(Message)
<1>1. ASSUME NEW l \in Links, NEW i \in DOMAIN ch[l] PROVE ch[l][i] \in Message
  <2>1. ch[l] \in Seq(Alive(e, B))
    BY DEF Channels
  <2>2. ch[l][i] \in Alive(e, B)
    BY <1>1, <2>1
  <2> QED
    BY <2>2 DEF Alive
<1> QED
  BY <1>1, ChannelsSubset

(* network_broadcast starts an event, which is a broadcast.                *)
LEMMA BroadcastSound ==
    ASSUME NEW r, NEW B, Sound(r, B), NEW n,
           r.events < MaxEvents, RoomFor(r.events, Contents(r.channel))
    PROVE  LET e == r.events + 1  r2 == network_broadcast(r, n)
           IN  /\ Sound(r2, B \cup {e})
               /\ r2.events = e /\ r2.seen = r.seen \cup {e}
               /\ ToSet(r2.history) \subseteq ToSet(r.history) \cup {e}
<1> DEFINE e == r.events + 1
           msg == [guid |-> e, event |-> e]
           r2 == network_broadcast(r, n)
           B2 == B \cup {e}
<1>1. /\ r.events \in Nat /\ e \in 1..MaxEvents /\ r.history \in Seq(Nat) /\ r.seen \in SUBSET Nat
      /\ B \subseteq 1..r.events /\ r.channel \in Channels(Alive(r.events, B))
      /\ Keeps(r.history, r.seen, r.events, B)
  BY Sizes DEF Sound, Views
<1>2. /\ r2 = [history |-> message_history_add(r.history, e),
               seen    |-> r.seen \cup {e},
               channel |-> broadcast_message(r.channel, n, msg),
               events  |-> e]
      /\ e = r.events + 1
  BY DEF network_broadcast
<1>3. msg \in Alive(e, B2)
  BY <1>1, Sizes DEF Alive, Message, guid_null
<1> HIDE DEF r2, msg
<1>4. broadcast_message(r.channel, n, msg) \in Channels(Alive(e, B2))
  <2>1. r.channel \in Channels(Alive(e, B2))
    BY <1>1, ChannelsLater
  <2> QED
    BY <1>3, <2>1, ChannelsBroadcast
<1> HIDE DEF e, B2
<1>5. B2 = B \cup {e} /\ B2 \subseteq 1..e
  <2>1. B2 = B \cup {e}
    BY DEF B2
  <2>2. e \in 1..e /\ 1..r.events \subseteq 1..e
    BY <1>1, <1>2
  <2> QED
    BY <1>1, <2>1, <2>2
<1>6. Keeps(message_history_add(r.history, e), r.seen \cup {e}, e, B2)
  <2>1. MayRecord(r.history, r.events, e, B, B2, e, e)
    BY <1>1, <1>2, <1>5, Sizes DEF MayRecord, guid_null
  <2>2. e # guid_null
    BY <1>1 DEF guid_null
  <2>3. r.seen \subseteq 1..r.events
    BY <1>1 DEF Keeps
  <2>4. B2 \ B \subseteq (r.events + 1)..e /\ r.events <= e /\ e \in Nat
    BY <1>1, <1>2, <1>5
  <2>5. r.seen \cup {e} = IF e = guid_null THEN r.seen ELSE r.seen \cup {e}
    BY <2>2
  <2> QED
    BY <1>1, <1>5, <2>1, <2>3, <2>4, <2>5, RecordKeeps
<1>7. r2 \in Views
  <2>1. message_history_add(r.history, e) \in Seq(Nat)
    BY <1>1, NewHistory
  <2>2. broadcast_message(r.channel, n, msg) \in Channels(Message)
    <3>1. e \in Nat
      BY <1>1
    <3> QED
      BY <1>4, <3>1, AliveMessages
  <2>3. r.seen \cup {e} \in SUBSET Nat /\ e \in Nat
    BY <1>1
  <2> QED
    BY <1>2, <2>1, <2>2, <2>3 DEF Views
<1>8. Sound(r2, B2)
  BY <1>1, <1>2, <1>4, <1>5, <1>6, <1>7 DEF Sound
<1>9. ToSet(r2.history) \subseteq ToSet(r.history) \cup {e}
  BY <1>1, <1>2, AddSet
<1> QED
  BY <1>2, <1>8, <1>9 DEF e, B2, r2

(* network_send starts an event, which is no broadcast.                    *)
LEMMA SendSound ==
    ASSUME NEW r, NEW B, Sound(r, B), NEW n, NEW m,
           r.events < MaxEvents, RoomFor(r.events, Contents(r.channel))
    PROVE  LET r2 == network_send(r, n, m)
           IN  Sound(r2, B) /\ r2.events = r.events + 1 /\ r2.seen = r.seen
<1> DEFINE e == r.events + 1
           msg == [guid |-> guid_null, event |-> e]
           r2 == network_send(r, n, m)
<1>1. /\ r.events \in Nat /\ e \in 1..MaxEvents /\ r.history \in Seq(Nat) /\ r.seen \in SUBSET Nat
      /\ B \subseteq 1..r.events /\ r.channel \in Channels(Alive(r.events, B))
      /\ Keeps(r.history, r.seen, r.events, B) /\ r \in Views
  BY Sizes DEF Sound, Views
<1>2. /\ r2 = [history |-> message_history_add(r.history, guid_null),
               seen    |-> r.seen,
               channel |-> send_message(r.channel, n, m, msg),
               events  |-> e]
      /\ e = r.events + 1
  BY DEF network_send
<1>3. msg \in Alive(e, B)
  BY <1>1, Sizes DEF Alive, Message, guid_null
<1> HIDE DEF r2, msg
<1>4. send_message(r.channel, n, m, msg) \in Channels(Alive(e, B))
  <2>1. r.channel \in Channels(Alive(e, B))
    BY <1>1, ChannelsLater
  <2> QED
    BY <1>3, <2>1, ChannelsSend
<1> HIDE DEF e
<1>5. B \subseteq 1..e
  BY <1>1, <1>2
<1>6. Keeps(message_history_add(r.history, guid_null), r.seen, e, B)
  <2>1. MayRecord(r.history, r.events, e, B, B, e, guid_null)
    BY <1>1, <1>2, Sizes DEF MayRecord, guid_null
  <2>2. r.seen \subseteq 1..r.events
    BY <1>1 DEF Keeps
  <2>3. B \ B \subseteq (r.events + 1)..e /\ r.events <= e /\ e \in Nat /\ B \subseteq B
    BY <1>1, <1>2
  <2>4. r.seen = IF guid_null = guid_null THEN r.seen ELSE r.seen \cup {guid_null}
    OBVIOUS
  <2> QED
    BY <1>1, <2>1, <2>2, <2>3, <2>4, RecordKeeps
<1>7. r2 \in Views
  <2>1. message_history_add(r.history, guid_null) \in Seq(Nat)
    BY <1>1, NewHistory DEF guid_null
  <2>2. send_message(r.channel, n, m, msg) \in Channels(Message)
    BY <1>1, <1>4, AliveMessages
  <2> QED
    BY <1>1, <1>2, <2>1, <2>2 DEF Views
<1>8. Sound(r2, B)
  BY <1>1, <1>2, <1>4, <1>5, <1>6, <1>7 DEF Sound
<1> QED
  BY <1>2, <1>8 DEF e, r2

(* A broadcast that the history does not hold is recorded and passed on.   *)
LEMMA PassOnSound ==
    ASSUME NEW r, NEW B, Sound(r, B), NEW n,
           NEW msg \in Alive(r.events, B), msg.guid # guid_null,
           ~ message_history_has(r.history, msg.guid)
    PROVE  LET r2 == PassOn(r, n, msg)
           IN  /\ Sound(r2, B)
               /\ r2.events = r.events /\ r2.seen = r.seen \cup {msg.guid}
<1> DEFINE g == msg.guid
           r2 == PassOn(r, n, msg)
<1>1. /\ r.events \in Nat /\ r.events <= MaxEvents /\ r.history \in Seq(Nat)
      /\ r.seen \in SUBSET Nat
      /\ B \subseteq 1..r.events /\ r.channel \in Channels(Alive(r.events, B))
      /\ Keeps(r.history, r.seen, r.events, B) /\ r \in Views
  BY DEF Sound, Views
<1>2. r2 = [history |-> message_history_add(r.history, g),
            seen    |-> r.seen \cup {g},
            channel |-> broadcast_message(r.channel, n, msg),
            events  |-> r.events]
  BY DEF PassOn
<1>3. g \in B /\ g \in 1..r.events /\ r.events < g + Window /\ g # guid_null
  BY <1>1 DEF Alive
<1>4. ~ message_history_has(r.history, g)
  OBVIOUS
<1> HIDE DEF r2, g
<1>5. broadcast_message(r.channel, n, msg) \in Channels(Alive(r.events, B))
  BY <1>1, ChannelsBroadcast
<1>6. Keeps(message_history_add(r.history, g), r.seen \cup {g}, r.events, B)
  <2>1. MayRecord(r.history, r.events, r.events, B, B, g, g)
    BY <1>1, <1>3, <1>4 DEF MayRecord
  <2>2. r.seen \subseteq 1..r.events
    BY <1>1 DEF Keeps
  <2>3. B \ B \subseteq (r.events + 1)..r.events /\ r.events <= r.events /\ B \subseteq B
    BY <1>1
  <2>4. r.seen \cup {g} = IF g = guid_null THEN r.seen ELSE r.seen \cup {g}
    BY <1>3
  <2> QED
    BY <1>1, <2>1, <2>2, <2>3, <2>4, RecordKeeps
<1>7. r2 \in Views
  BY <1>1, <1>2, <1>3, <1>5, NewHistory, AliveMessages DEF Views
<1>8. Sound(r2, B)
  BY <1>1, <1>2, <1>5, <1>6, <1>7 DEF Sound
<1> QED
  BY <1>2, <1>8 DEF r2, g
-----------------------------------------------------------------------------
(* The view that a node starts from.                                       *)
LEMMA MayStartRoom ==
    MayStart => events < MaxEvents /\ RoomFor(events, Contents(channel))
  BY DEF MayStart, InFlight, RoomFor, Contents

LEMMA IInvViews ==
    ASSUME IInv, NEW n \in Node
    PROVE  /\ events \in Nat /\ channel \in Channels(Alive(events, Broadcasts))
           /\ Sound(View(n, channel), Broadcasts)
<1>1. /\ events \in 0..MaxEvents /\ Broadcasts \subseteq 1..events
      /\ channel \in Channels(Alive(events, Broadcasts))
      /\ Keeps(history[n], seen[n], events, Broadcasts)
      /\ seen[n] \subseteq Broadcasts
  BY DEF IInv, Channels
<1>2. events \in Nat /\ events <= MaxEvents
  BY <1>1, Sizes
<1>3. history[n] \in Seq(Nat)
  <2>1. history[n] \in Seq(0..events) /\ 0..events \subseteq Nat
    BY <1>2 DEF IInv
  <2> QED
    BY <2>1, SeqMonotonic
<1>4. channel \in Channels(Message)
  BY <1>1, <1>2, AliveMessages
<1>5. seen[n] \in SUBSET Nat
  <2>1. 1..events \subseteq Nat
    BY <1>2
  <2> QED
    BY <1>1, <2>1
<1> QED
  BY <1>1, <1>2, <1>3, <1>4, <1>5 DEF Sound, View, Views

(* The view after a message has been read: it may be kept on its way, and  *)
(* whatever event may start leaves it and all others in their window.      *)
LEMMA IInvRead ==
    ASSUME IInv, NEW m, NEW n \in Node, <<m, n>> \in Links, channel[<<m, n>>] # << >>
    PROVE  LET r == AfterRead(m, n)
           IN  /\ Sound(r, Broadcasts) /\ r.events = events
               /\ r.seen = seen[n] /\ r.history = history[n]
               /\ Incoming(m, n) \in Alive(events, Broadcasts)
               /\ MayStart => RoomFor(events, Contents(r.channel) \cup {Incoming(m, n)})
<1> DEFINE l == <<m, n>>
           ch == [channel EXCEPT ![l] = Tail(@)]
<1>1. /\ Sound(View(n, channel), Broadcasts)
      /\ channel \in Channels(Alive(events, Broadcasts))
      /\ l \in Links /\ channel[l] # << >>
  BY IInvViews
<1> HIDE DEF l
<1>2. /\ ch \in Channels(Alive(events, Broadcasts))
      /\ Head(channel[l]) \in Alive(events, Broadcasts)
      /\ 1 \in DOMAIN channel[l] /\ Head(channel[l]) = channel[l][1]
      /\ \A k \in Links : \A i \in DOMAIN ch[k] :
            \E j \in DOMAIN channel[k] : ch[k][i] = channel[k][j]
  BY <1>1, ChannelsRead
<1> HIDE DEF ch
<1>3. Contents(ch) \cup {Head(channel[l])} \subseteq Contents(channel)
  <2>1. ASSUME NEW k \in Links, NEW i \in DOMAIN ch[k] PROVE ch[k][i] \in Contents(channel)
    BY <1>2 DEF Contents
  <2>2. channel[l][1] \in Contents(channel)
    BY <1>1, <1>2 DEF Contents
  <2>3. Contents(ch) \subseteq Contents(channel)
    BY <2>1 DEF Contents
  <2> QED
    BY <1>2, <2>2, <2>3
<1>4. Sound(View(n, ch), Broadcasts)
  <2>1. /\ View(n, channel).history = history[n] /\ View(n, channel).seen = seen[n]
        /\ View(n, channel).events = events
    BY DEF View
  <2>2. /\ history[n] \in Seq(Nat) /\ seen[n] \in SUBSET Nat /\ events \in Nat
        /\ events <= MaxEvents /\ Broadcasts \subseteq 1..events
        /\ Keeps(history[n], seen[n], events, Broadcasts)
    BY <1>1, <2>1 DEF Sound, Views
  <2>3. ch \in Channels(Message)
    BY <1>2, <2>2, AliveMessages
  <2> QED
    BY <1>2, <2>2, <2>3 DEF Sound, View, Views
<1>5. AfterRead(m, n) = View(n, ch)
  BY DEF AfterRead, ch, l
<1>6. MayStart => RoomFor(events, Contents(ch) \cup {Head(channel[l])})
  BY <1>3, MayStartRoom DEF RoomFor
<1> QED
  BY <1>2, <1>4, <1>5, <1>6 DEF View, Incoming, l

(* What n makes of its view is sound for all: B2 are the broadcasts after  *)
(* the step.                                                               *)
LEMMA BecomesSound ==
    ASSUME IInv, NEW n \in Node, NEW r, NEW B2, Sound(r, B2), Becomes(n, r),
           events <= r.events, seen[n] \subseteq r.seen,
           B2 = Broadcasts \cup r.seen, r.seen \ seen[n] \subseteq B2,
           B2 \ Broadcasts \subseteq (events + 1)..r.events
    PROVE  IInv'
<1>1. /\ r.events \in Nat /\ r.events <= MaxEvents /\ B2 \subseteq 1..r.events
      /\ r.channel \in Channels(Alive(r.events, B2))
      /\ Keeps(r.history, r.seen, r.events, B2)
  BY DEF Sound, Views
<1>2. /\ events \in 0..MaxEvents /\ events \in Nat /\ Broadcasts \subseteq 1..events
      /\ history \in [Node -> Seq(0..events)] /\ seen \in [Node -> SUBSET Broadcasts]
      /\ \A k \in Node : Keeps(history[k], seen[k], events, Broadcasts)
  BY DEF IInv
<1>3. /\ history' = [history EXCEPT ![n] = r.history]
      /\ seen' = [seen EXCEPT ![n] = r.seen]
      /\ channel' = r.channel
      /\ events' = r.events
  BY DEF Becomes
<1>4. /\ seen'[n] = r.seen /\ history'[n] = r.history
      /\ \A k \in Node \ {n} : seen'[k] = seen[k] /\ history'[k] = history[k]
  BY <1>2, <1>3
<1>5. Broadcasts' = B2
  <2>1. \A k \in Node : seen'[k] \subseteq B2
    BY <1>2, <1>4
  <2>2. \A g \in B2 : \E k \in Node : g \in seen'[k]
    BY <1>4 DEF Broadcasts
  <2> QED
    BY <2>1, <2>2 DEF Broadcasts
<1>6. ASSUME NEW k \in Node
      PROVE  Keeps(history'[k], seen'[k], r.events, B2)
  <2>1. CASE k = n
    BY <1>1, <1>4, <2>1
  <2>2. CASE k # n
    <3>1. seen[k] \subseteq 1..events /\ Keeps(history[k], seen[k], events, Broadcasts)
      BY <1>2
    <3>2. Keeps(history[k], seen[k], r.events, B2)
      BY <1>1, <1>2, <3>1, KeepsLater
    <3> QED
      BY <1>4, <2>2, <3>2
  <2> QED
    BY <2>1, <2>2
<1>7. history' \in [Node -> Seq(0..r.events)]
  <2>1. \A k \in Node : history'[k] \in Seq(0..r.events)
    BY <1>6 DEF Keeps
  <2>2. history' = [k \in Node |-> history'[k]]
    BY <1>2, <1>3
  <2> QED
    BY <2>1, <2>2
<1>8. seen' \in [Node -> SUBSET B2]
  <2>1. \A k \in Node : seen'[k] \in SUBSET B2
    BY <1>6 DEF Keeps
  <2>2. seen' = [k \in Node |-> seen'[k]]
    BY <1>2, <1>3
  <2> QED
    BY <2>1, <2>2
<1>9. r.events \in 0..MaxEvents
  BY <1>1, Sizes
<1> QED
  BY <1>1, <1>3, <1>5, <1>6, <1>7, <1>8, <1>9 DEF IInv, Channels
-----------------------------------------------------------------------------
LEMMA KeepsNothing ==
    ASSUME NEW h, h = << >>, NEW e \in Nat, NEW B
    PROVE  Keeps(h, {}, e, B)
<1>1. h \in Seq(0..e) /\ Len(h) = 0
  OBVIOUS
<1> DEFINE none == [i \in 1..Len(h) |-> 1]
<1>2. none \in [1..Len(h) -> 1..e] /\ Tags(none, h, e, B)
  BY <1>1 DEF Tags
<1> HIDE DEF none
<1>3. Complete(h, {}, e)
  BY DEF Complete
<1>4. Len(h) <= MESSAGE_HISTORY_SIZE
  BY <1>1, Sizes
<1> QED
  BY <1>1, <1>2, <1>3, <1>4 DEF Keeps

LEMMA InitIInv == Init => IInv
<1> SUFFICES ASSUME Init PROVE IInv
  OBVIOUS
<1> USE DEF Init
<1>1. Broadcasts = {}
  BY DEF Broadcasts
<1>2. << >> \in Seq(0..events)
  OBVIOUS
<1>3. ASSUME NEW n \in Node PROVE Keeps(history[n], seen[n], events, Broadcasts)
  BY KeepsNothing
<1>4. channel \in [Links -> Seq(Alive(events, Broadcasts))]
  BY << >> \in Seq(Alive(events, Broadcasts))
<1> QED
  BY <1>1, <1>2, <1>3, <1>4, Sizes DEF IInv

LEMMA CallIInv ==
    ASSUME IInv, NEW n \in Node, Call(n)
    PROVE  IInv'
<1> DEFINE r == View(n, channel)
<1>1. /\ Sound(r, Broadcasts) /\ events \in Nat
      /\ r.events = events /\ r.seen = seen[n] /\ r.channel = channel
  BY IInvViews DEF View
<1>2. Broadcasts = Broadcasts \cup seen[n]
  BY DEF Broadcasts
<1> HIDE DEF r
<1>3. ASSUME MayStart, Becomes(n, network_broadcast(r, n)) PROVE IInv'
  <2> DEFINE e == events + 1
             r2 == network_broadcast(r, n)
  <2>1. /\ Sound(r2, Broadcasts \cup {e})
        /\ r2.events = e /\ r2.seen = seen[n] \cup {e}
    BY <1>1, <1>3, MayStartRoom, BroadcastSound
  <2>2. Becomes(n, r2)
    BY <1>3
  <2> HIDE DEF r2
  <2>3. /\ Broadcasts \cup {e} = Broadcasts \cup r2.seen
        /\ r2.seen \ seen[n] \subseteq Broadcasts \cup {e}
        /\ seen[n] \subseteq r2.seen
    BY <1>2, <2>1
  <2>4. events <= r2.events /\ (Broadcasts \cup {e}) \ Broadcasts \subseteq (events + 1)..r2.events
    BY <1>1, <2>1
  <2> HIDE DEF e
  <2> QED
    BY <2>1, <2>2, <2>3, <2>4, BecomesSound
<1>4. ASSUME NEW m \in Peers(n), MaySend, Becomes(n, network_send(r, n, m)) PROVE IInv'
  <2> DEFINE r2 == network_send(r, n, m)
  <2>1. Sound(r2, Broadcasts) /\ r2.events = events + 1 /\ r2.seen = seen[n]
    BY <1>1, <1>4, MayStartRoom, SendSound DEF MaySend
  <2>2. Becomes(n, r2)
    BY <1>4
  <2> HIDE DEF r2
  <2>3. /\ Broadcasts = Broadcasts \cup r2.seen /\ seen[n] \subseteq r2.seen
        /\ r2.seen \ seen[n] \subseteq Broadcasts
        /\ events <= r2.events /\ Broadcasts \ Broadcasts \subseteq (events + 1)..r2.events
    BY <1>1, <1>2, <2>1
  <2> QED
    BY <2>1, <2>2, <2>3, BecomesSound
<1> QED
  BY <1>3, <1>4 DEF Call, r

LEMMA DirectIInv ==
    ASSUME IInv, NEW m, NEW n \in Node, <<m, n>> \in Links, channel[<<m, n>>] # << >>,
           HandleDirect(m, n)
    PROVE  IInv'
<1> DEFINE r == AfterRead(m, n)
<1>1. /\ Sound(r, Broadcasts) /\ events \in Nat
      /\ r.events = events /\ r.seen = seen[n]
      /\ MayStart => RoomFor(events, Contents(r.channel)) /\ events < MaxEvents
  BY IInvRead, IInvViews, MayStartRoom DEF RoomFor
<1>2. Broadcasts = Broadcasts \cup seen[n]
  BY DEF Broadcasts
<1>3. PICK r2 \in AfterDirect(r, n, m) : Becomes(n, r2)
  BY DEF HandleDirect
<1> HIDE DEF r
<1>4. CASE r2 = r
  <2>1. /\ Broadcasts = Broadcasts \cup r.seen /\ seen[n] \subseteq r.seen
        /\ r.seen \ seen[n] \subseteq Broadcasts
        /\ events <= r.events /\ Broadcasts \ Broadcasts \subseteq (events + 1)..r.events
    BY <1>1, <1>2
  <2> QED
    BY <1>1, <1>3, <1>4, <2>1, BecomesSound
<1>5. CASE MayStart /\ r2 = network_broadcast(r, n)
  <2> DEFINE e == events + 1
  <2>1. /\ Sound(r2, Broadcasts \cup {e})
        /\ r2.events = e /\ r2.seen = seen[n] \cup {e}
    BY <1>1, <1>5, BroadcastSound
  <2>2. /\ Broadcasts \cup {e} = Broadcasts \cup r2.seen
        /\ r2.seen \ seen[n] \subseteq Broadcasts \cup {e}
        /\ seen[n] \subseteq r2.seen
    BY <1>2, <2>1
  <2>3. events <= r2.events /\ (Broadcasts \cup {e}) \ Broadcasts \subseteq (events + 1)..r2.events
    BY <1>1, <2>1
  <2> HIDE DEF e
  <2> QED
    BY <1>3, <2>1, <2>2, <2>3, BecomesSound
<1>6. CASE MaySend /\ r2 = network_send(r, n, m)
  <2>1. Sound(r2, Broadcasts) /\ r2.events = events + 1 /\ r2.seen = seen[n]
    BY <1>1, <1>6, SendSound DEF MaySend
  <2>2. /\ Broadcasts = Broadcasts \cup r2.seen /\ seen[n] \subseteq r2.seen
        /\ r2.seen \ seen[n] \subseteq Broadcasts
        /\ events <= r2.events /\ Broadcasts \ Broadcasts \subseteq (events + 1)..r2.events
    BY <1>1, <1>2, <2>1
  <2> QED
    BY <1>3, <2>1, <2>2, BecomesSound
<1> QED
  BY <1>3, <1>4, <1>5, <1>6 DEF AfterDirect, AfterBroadcast

LEMMA KnownIInv ==
    ASSUME IInv, NEW m, NEW n \in Node, <<m, n>> \in Links, channel[<<m, n>>] # << >>,
           HandleKnown(m, n)
    PROVE  IInv'
<1> DEFINE r == AfterRead(m, n)
<1>1. /\ Sound(r, Broadcasts) /\ events \in Nat
      /\ r.events = events /\ r.seen = seen[n]
  BY IInvRead, IInvViews
<1>2. Becomes(n, r)
  BY DEF HandleKnown
<1> HIDE DEF r
<1>3. /\ Broadcasts = Broadcasts \cup r.seen /\ seen[n] \subseteq r.seen
      /\ r.seen \ seen[n] \subseteq Broadcasts
      /\ events <= r.events /\ Broadcasts \ Broadcasts \subseteq (events + 1)..r.events
  BY <1>1 DEF Broadcasts
<1> QED
  BY <1>1, <1>2, <1>3, BecomesSound

(* A handler may have started an event before the message is passed on, or *)
(* none; in both cases the step is sound.                                  *)
LEMMA NewIInv ==
    ASSUME IInv, NEW m, NEW n \in Node, <<m, n>> \in Links, channel[<<m, n>>] # << >>,
           HandleNew(m, n)
    PROVE  IInv'
<1> DEFINE r == AfterRead(m, n)
           msg == Incoming(m, n)
           g == msg.guid
<1>1. /\ Sound(r, Broadcasts) /\ events \in Nat
      /\ r.events = events /\ r.seen = seen[n] /\ r.history = history[n]
      /\ msg \in Alive(events, Broadcasts)
      /\ MayStart => RoomFor(events, Contents(r.channel) \cup {msg}) /\ events < MaxEvents
  BY IInvRead, IInvViews, MayStartRoom
<1>2. g # guid_null /\ ~ message_history_has(history[n], g)
  BY DEF HandleNew
<1>3. PICK r1 \in AfterBroadcast(r, n) : Becomes(n, PassOn(r1, n, msg))
  BY DEF HandleNew
<1> HIDE DEF r, msg
<1>4. g \in Broadcasts /\ g <= events /\ g \in Nat
  BY <1>1, <1>2 DEF Alive, Message
<1>5. Broadcasts = Broadcasts \cup seen[n]
  BY DEF Broadcasts
<1> DEFINE r2 == PassOn(r1, n, msg)
<1>6. CASE r1 = r
  <2>1. Sound(r2, Broadcasts) /\ r2.events = events /\ r2.seen = seen[n] \cup {g}
    BY <1>1, <1>2, <1>6, PassOnSound
  <2>2. Becomes(n, r2)
    BY <1>3
  <2> HIDE DEF r2, g
  <2>3. /\ Broadcasts = Broadcasts \cup r2.seen /\ seen[n] \subseteq r2.seen
        /\ r2.seen \ seen[n] \subseteq Broadcasts
        /\ events <= r2.events /\ Broadcasts \ Broadcasts \subseteq (events + 1)..r2.events
    BY <1>1, <1>4, <1>5, <2>1
  <2> QED
    BY <2>1, <2>2, <2>3, BecomesSound
<1>7. CASE MayStart /\ r1 = network_broadcast(r, n)
  <2> DEFINE e == events + 1
             B2 == Broadcasts \cup {e}
  <2>1. RoomFor(events, Contents(r.channel)) /\ RoomFor(events, {msg}) /\ events < MaxEvents
    BY <1>1, <1>7 DEF RoomFor
  <2>2. /\ Sound(r1, B2) /\ r1.events = e /\ r1.seen = seen[n] \cup {e}
        /\ ToSet(r1.history) \subseteq ToSet(history[n]) \cup {e}
    BY <1>1, <1>7, <2>1, BroadcastSound
  <2>3. msg \in Alive(e, B2)
    BY <1>1, <2>1, AliveLater
  <2>4. ~ message_history_has(r1.history, g)
    <3>1. g # e
      BY <1>1, <1>4
    <3> QED
      BY <1>2, <2>2, <3>1 DEF message_history_has
  <2>5. Sound(r2, B2) /\ r2.events = e /\ r2.seen = r1.seen \cup {g}
    BY <1>2, <2>2, <2>3, <2>4, PassOnSound
  <2>6. Becomes(n, r2)
    BY <1>3
  <2> HIDE DEF r2, g
  <2>7. /\ B2 = Broadcasts \cup r2.seen /\ seen[n] \subseteq r2.seen
        /\ r2.seen \ seen[n] \subseteq B2
    BY <1>4, <1>5, <2>2, <2>5
  <2>8. events <= r2.events /\ B2 \ Broadcasts \subseteq (events + 1)..r2.events
    BY <1>1, <2>5
  <2> HIDE DEF B2
  <2> QED
    BY <2>5, <2>6, <2>7, <2>8, BecomesSound
<1> QED
  BY <1>3, <1>6, <1>7 DEF AfterBroadcast

LEMMA NextIInv == IInv /\ [Next]_vars => IInv'
<1> SUFFICES ASSUME IInv, [Next]_vars PROVE IInv'
  OBVIOUS
<1>1. ASSUME NEW n \in Node, Call(n) PROVE IInv'
  BY <1>1, CallIInv
<1>2. ASSUME NEW l \in Links, handle_message(l[1], l[2]) PROVE IInv'
  <2>1. PICK m \in Node, n \in Node : l = <<m, n>>
    BY LinksAssumption
  <2>2. <<m, n>> \in Links /\ handle_message(m, n)
    BY <1>2, <2>1
  <2> QED
    BY <2>2, DirectIInv, KnownIInv, NewIInv DEF handle_message
<1>3. CASE UNCHANGED vars
  <2>1. events' = events /\ history' = history /\ channel' = channel /\ seen' = seen
    BY <1>3 DEF vars
  <2> QED
    BY <2>1 DEF IInv, Broadcasts
<1> QED
  BY <1>1, <1>2, <1>3 DEF Next

LEMMA Invariance == Spec => []IInv
  BY InitIInv, NextIInv, PTL DEF Spec

-----------------------------------------------------------------------------
(* The state keeps its types: no history grows beyond its size, and no     *)
(* message on its way names an event that has not begun                    *)
(* (message_history_add, network_broadcast).                               *)
THEOREM TypeCorrect == Spec => []TypeOK
<1>1. IInv => TypeOK
  <2> SUFFICES ASSUME IInv PROVE TypeOK
    OBVIOUS
  <2>1. channel \in Channels(Message)
    BY AliveMessages DEF IInv, Channels
  <2>2. seen \in [Node -> SUBSET (1..events)]
    BY DEF IInv
  <2> QED
    BY <2>1, <2>2 DEF IInv, TypeOK, Keeps, Channels
<1> QED
  BY <1>1, Invariance, PTL

(* Of whatever is on its way to a node that has had it, the bounded        *)
(* history of the node still holds the guid, so that network.c handles no  *)
(* broadcast twice and none goes round for ever.                           *)
THEOREM AlwaysRemembered == Spec => []Remembered
<1>1. IInv => Remembered
  <2> SUFFICES ASSUME IInv, NEW l \in Links, NEW i \in DOMAIN channel[l],
                      channel[l][i].guid \in seen[l[2]]
               PROVE  message_history_has(history[l[2]], channel[l][i].guid)
    BY DEF Remembered
  <2> DEFINE msg == channel[l][i]
             n == l[2]
  <2>1. n \in Node
    BY LinksAssumption
  <2>2. msg \in Alive(events, Broadcasts)
    <3>1. channel[l] \in Seq(Alive(events, Broadcasts))
      BY DEF IInv
    <3> QED
      BY <3>1
  <2>3. /\ Keeps(history[n], seen[n], events, Broadcasts)
        /\ seen[n] \subseteq Broadcasts /\ Broadcasts \subseteq 1..events
        /\ events \in Nat
    BY <2>1 DEF IInv
  <2>4. msg.guid # guid_null
    BY <2>3 DEF guid_null
  <2>5. events < msg.guid + Window
    BY <2>2, <2>4 DEF Alive
  <2> QED
    BY <2>3, <2>5 DEF Keeps, Complete
<1> QED
  BY <1>1, Invariance, PTL
=============================================================================
