---------------------------- MODULE StreamProofs ----------------------------
(***************************************************************************)
(* The two readers of byte streams.                                        *)
(*                                                                         *)
(* What on_read (network.c) cuts out of the stream, for messages of every  *)
(* number and length, every size of the buffers of libuv and every way of  *)
(* splitting the stream into reads.  Behind it, what on_read (http.c)      *)
(* does with the first request of a connection, for every url.             *)
(*                                                                         *)
(* The first argument looks at the bytes that are not yet handled, those   *)
(* in the buffer followed by those in the stream, as one line of bytes.  A *)
(* read inserts zeros into it and the loop drops bytes at its front;       *)
(* neither reorders bytes nor brings two of them closer together.  The     *)
(* second follows the two patterns along a url, character by character.    *)
(***************************************************************************)
EXTENDS Framing, Integers, WellFoundedInduction, SequenceTheorems, TLAPS

(* A non-empty set of numbers has a least member; it is the one Min picks. *)
LEMMA LeastNumber ==
    ASSUME NEW D \in SUBSET Nat, D # {}
    PROVE  Min(D) \in D /\ \A e \in D : Min(D) <= e
<1>1. PICK d \in D : \A e \in D : <<e, d>> \notin OpToRel(<, Nat)
  BY WFMin, NatLessThanWellFounded
<1>2. \A e \in D : ~ (e < d)
  BY <1>1 DEF OpToRel
<1>3. \A e \in D : d <= e
  BY <1>2
<1> QED
  BY <1>3 DEF Min

(* What holds of every number of a range whose first number has it.        *)
LEMMA Climb ==
    ASSUME NEW n \in Nat, NEW P, 1 \in P, \A i \in 2..n : i - 1 \in P => i \in P
    PROVE  \A i \in 1..n : i \in P
<1> DEFINE D == {i \in 1..n : i \notin P}
<1>1. SUFFICES ASSUME D # {} PROVE FALSE
  OBVIOUS
<1>2. D \in SUBSET Nat
  OBVIOUS
<1> DEFINE d == Min(D)
<1>3. d \in D /\ \A e \in D : d <= e
  <2> HIDE DEF D
  <2> QED
    BY <1>1, <1>2, LeastNumber
<1> HIDE DEF d
<1>4. d \in 2..n /\ d - 1 \in 1..n /\ ~ (d <= d - 1)
  BY <1>3
<1> QED
  BY <1>3, <1>4

(* The two parts of a sequence that is cut behind its first d elements.    *)
LEMMA Cut ==
    ASSUME NEW S, NEW s \in Seq(S), NEW d \in 0..Len(s)
    PROVE  /\ SubSeq(s, 1, d) \in Seq(S)
           /\ Len(SubSeq(s, 1, d)) = d
           /\ \A p \in 1..d : SubSeq(s, 1, d)[p] = s[p]
           /\ SubSeq(s, d + 1, Len(s)) \in Seq(S)
           /\ Len(SubSeq(s, d + 1, Len(s))) = Len(s) - d
           /\ \A p \in 1..(Len(s) - d) : SubSeq(s, d + 1, Len(s))[p] = s[p + d]
<1>0. Len(s) \in Nat /\ d \in Nat /\ d <= Len(s) /\ \A i \in 1..Len(s) : s[i] \in S
  OBVIOUS
<1>1. SubSeq(s, 1, d) \in Seq(S) /\ SubSeq(s, d + 1, Len(s)) \in Seq(S)
  OBVIOUS
<1>2. Len(SubSeq(s, 1, d)) = d
  BY <1>0
<1>3. Len(SubSeq(s, d + 1, Len(s))) = Len(s) - d
  BY <1>0
<1>4. ASSUME NEW p \in 1..d PROVE SubSeq(s, 1, d)[p] = s[p]
  BY <1>0
<1>5. ASSUME NEW p \in 1..(Len(s) - d) PROVE SubSeq(s, d + 1, Len(s))[p] = s[p + d]
  BY <1>0
<1> QED
  BY <1>1, <1>2, <1>3, <1>4, <1>5

(* The cells of a sequence made of two.                                    *)
LEMMA Concatenation ==
    ASSUME NEW S, NEW a \in Seq(S), NEW b \in Seq(S)
    PROVE  /\ a \o b \in Seq(S)
           /\ Len(a) \in Nat /\ Len(b) \in Nat
           /\ Len(a \o b) = Len(a) + Len(b)
           /\ DOMAIN a = 1..Len(a) /\ DOMAIN b = 1..Len(b)
           /\ DOMAIN (a \o b) = 1..(Len(a) + Len(b))
           /\ \A p \in 1..Len(a) : (a \o b)[p] = a[p]
           /\ \A p \in 1..Len(b) : (a \o b)[Len(a) + p] = b[p]
           /\ \A p \in (Len(a) + 1)..(Len(a) + Len(b)) :
                 p - Len(a) \in 1..Len(b) /\ (a \o b)[p] = b[p - Len(a)]
  OBVIOUS

(* Cutting the first of two sequences cuts both, and two cuts are one.     *)
LEMMA CutOfTwo ==
    ASSUME NEW S, NEW a \in Seq(S), NEW b \in Seq(S), NEW d \in 0..Len(a)
    PROVE  SubSeq(a, d + 1, Len(a)) \o b = SubSeq(a \o b, d + 1, Len(a \o b))
<1> DEFINE r == SubSeq(a, d + 1, Len(a))
           t == SubSeq(a \o b, d + 1, Len(a \o b))
<1>1. r \in Seq(S) /\ Len(r) = Len(a) - d /\ \A p \in 1..(Len(a) - d) : r[p] = a[p + d]
  BY Cut
<1>2. a \o b \in Seq(S) /\ Len(a \o b) = Len(a) + Len(b) /\ d \in 0..Len(a \o b)
      /\ Len(a) \in Nat /\ Len(b) \in Nat /\ d \in Nat /\ d <= Len(a)
  BY Concatenation
<1>3. t \in Seq(S) /\ Len(t) = Len(a) + Len(b) - d
      /\ \A p \in 1..(Len(a) + Len(b) - d) : t[p] = (a \o b)[p + d]
  BY <1>2, Cut
<1> HIDE DEF r, t
<1>4. r \o b \in Seq(S) /\ Len(r \o b) = Len(t)
  BY <1>1, <1>2, <1>3
<1>5. ASSUME NEW p \in 1..Len(t) PROVE (r \o b)[p] = t[p]
  <2>1. p \in Nat /\ t[p] = (a \o b)[p + d]
    BY <1>2, <1>3
  <2>2. CASE p <= Len(r)
    <3>1. (r \o b)[p] = r[p] /\ r[p] = a[p + d] /\ p + d \in 1..Len(a)
      BY <1>1, <1>2, <2>1, <2>2, Concatenation
    <3> QED
      BY <2>1, <3>1, Concatenation
  <2>3. CASE ~ (p <= Len(r))
    <3>1. p \in (Len(r) + 1)..(Len(r) + Len(b)) /\ p + d \in (Len(a) + 1)..(Len(a) + Len(b))
          /\ p - Len(r) = p + d - Len(a)
      BY <1>1, <1>2, <1>3, <2>1, <2>3
    <3> QED
      BY <1>1, <2>1, <3>1, Concatenation, SMTT(30)
  <2> QED
    BY <2>2, <2>3
<1>6. r \o b = t
  BY <1>3, <1>4, <1>5, SeqEqual
<1> QED
  BY <1>6 DEF r, t

LEMMA CutTwice ==
    ASSUME NEW S, NEW a \in Seq(S), NEW d \in 0..Len(a), NEW e \in 0..(Len(a) - d),
           NEW b, b = SubSeq(a, d + 1, Len(a))
    PROVE  /\ d + e \in 0..Len(a)
           /\ SubSeq(b, e + 1, Len(b)) = SubSeq(a, d + e + 1, Len(a))
<1>0. Len(a) \in Nat /\ d \in Nat /\ e \in Nat /\ d + e \in 0..Len(a)
  OBVIOUS
<1> DEFINE r == SubSeq(b, e + 1, Len(b))
           t == SubSeq(a, d + e + 1, Len(a))
<1>1. b \in Seq(S) /\ Len(b) = Len(a) - d /\ \A p \in 1..(Len(a) - d) : b[p] = a[p + d]
  BY Cut
<1>2. r \in Seq(S) /\ Len(r) = Len(b) - e /\ \A p \in 1..(Len(b) - e) : r[p] = b[p + e]
  <2>1. e \in 0..Len(b)
    BY <1>1
  <2> QED
    BY <1>1, <2>1, Cut
<1>3. t \in Seq(S) /\ Len(t) = Len(a) - (d + e)
      /\ \A p \in 1..(Len(a) - (d + e)) : t[p] = a[p + (d + e)]
  BY <1>0, Cut
<1> HIDE DEF r, t
<1>4. Len(r) = Len(t)
  BY <1>0, <1>1, <1>2, <1>3
<1>5. ASSUME NEW p \in 1..Len(t) PROVE r[p] = t[p]
  <2>1. p \in 1..(Len(b) - e) /\ p + e \in 1..(Len(a) - d) /\ p \in 1..(Len(a) - (d + e))
        /\ p + e + d = p + (d + e)
    BY <1>0, <1>1, <1>2, <1>3
  <2> QED
    BY <1>1, <1>2, <1>3, <2>1
<1>6. r = t
  BY <1>2, <1>3, <1>4, <1>5, SeqEqual
<1> QED
  BY <1>0, <1>6 DEF r, t

Cells == Nat \X Nat

LEMMA CellType ==
    ASSUME NEW c \in Cells
    PROVE  c = <<c[1], c[2]>> /\ c[1] \in Nat /\ c[2] \in Nat
  BY DEF Cells


(* A product grows with the size of the digit's weight.                    *)
LEMMA Weight ==
    ASSUME NEW x \in Nat
    PROVE  x * BASE \in Nat /\ x <= x * BASE
<1>1. BASE \in Nat /\ BASE >= 1
  BY FramingAssumption
<1>2. x * BASE \in Nat
  BY <1>1
<1>3. x * BASE = x + x * (BASE - 1) /\ x * (BASE - 1) \in Nat
  BY <1>1
<1> QED
  BY <1>2, <1>3

(* Digit k of a number of four digits, with its weight.                    *)
Digit(x, k) ==
    CASE k = 1 -> ((x * BASE) * BASE) * BASE
      [] k = 2 -> (x * BASE) * BASE
      [] k = 3 -> x * BASE
      [] OTHER -> x

LEMMA DigitType ==
    ASSUME NEW x \in Nat
    PROVE  /\ \A k \in 1..4 : Digit(x, k) \in Nat
           /\ \A j, k \in 1..4 : j <= k => Digit(x, k) <= Digit(x, j)
<1>1. /\ x * BASE \in Nat /\ x <= x * BASE
      /\ (x * BASE) * BASE \in Nat /\ x * BASE <= (x * BASE) * BASE
      /\ ((x * BASE) * BASE) * BASE \in Nat /\ (x * BASE) * BASE <= ((x * BASE) * BASE) * BASE
  BY Weight
<1> DEFINE a == x * BASE
           b == a * BASE
           c == b * BASE
<1>2. Digit(x, 1) = c /\ Digit(x, 2) = b /\ Digit(x, 3) = a /\ Digit(x, 4) = x
  BY DEF Digit
<1>3. a \in Nat /\ b \in Nat /\ c \in Nat /\ x <= a /\ a <= b /\ b <= c
  BY <1>1
<1> HIDE DEF a, b, c
<1>4. \A k \in 1..4 : k = 1 \/ k = 2 \/ k = 3 \/ k = 4
  OBVIOUS
<1>5. \A k \in 1..4 : Digit(x, k) \in Nat
  BY <1>2, <1>3, <1>4
<1>6. ASSUME NEW j \in 1..4, NEW k \in 1..4, j <= k PROVE Digit(x, k) <= Digit(x, j)
  BY <1>2, <1>3, <1>4, <1>6
<1> QED
  BY <1>5, <1>6

LEMMA NumberIs ==
    ASSUME NEW f, \A k \in 1..4 : f[k] \in Nat
    PROVE  /\ Number(f) \in Nat
           /\ Number(f) = Digit(f[1], 1) + Digit(f[2], 2) + Digit(f[3], 3) + Digit(f[4], 4)
<1> DEFINE a == f[1]
           b == f[2]
           c == f[3]
           d == f[4]
<1>1. a \in Nat /\ b \in Nat /\ c \in Nat /\ d \in Nat /\ BASE \in Nat
  BY FramingAssumption
<1>2. Number(f) = ((a * BASE + b) * BASE + c) * BASE + d
  BY DEF Number
<1>3. Digit(f[1], 1) + Digit(f[2], 2) + Digit(f[3], 3) + Digit(f[4], 4)
        = ((a * BASE) * BASE) * BASE + (b * BASE) * BASE + c * BASE + d
  BY DEF Digit
<1> HIDE DEF a, b, c, d
<1>4. ((a * BASE + b) * BASE + c) * BASE + d
        = ((a * BASE) * BASE) * BASE + (b * BASE) * BASE + c * BASE + d
  BY <1>1
<1>5. ((a * BASE + b) * BASE + c) * BASE + d \in Nat
  BY <1>1
<1> QED
  BY <1>2, <1>3, <1>4, <1>5

(* Digits that move towards the end of a number, and zeros for those that  *)
(* are lost, make no greater number.                                       *)
LEMMA ShiftedNumber ==
    ASSUME NEW f, \A k \in 1..4 : f[k] \in Nat,
           NEW g, NEW j, \A k \in 1..4 : j[k] \in 0..k,
           \A k \in 1..4 : g[k] = IF j[k] = 0 THEN 0 ELSE f[j[k]],
           \A k, l \in 1..4 : k < l /\ j[k] # 0 /\ j[l] # 0 => j[k] < j[l]
    PROVE  Number(g) \in Nat /\ Number(g) <= Number(f)
<1> DEFINE F(k) == Digit(f[k], k)
           G(k) == Digit(g[k], k)
<1>1. \A k \in 1..4 : F(k) \in Nat
  BY DigitType
<1>2. ASSUME NEW k \in 1..4
      PROVE  /\ g[k] \in Nat /\ G(k) \in Nat
             /\ j[k] = 0 => G(k) = 0
             /\ j[k] # 0 => j[k] \in 1..k /\ G(k) <= F(j[k])
  <2>1. j[k] \in 0..k /\ g[k] = IF j[k] = 0 THEN 0 ELSE f[j[k]]
    OBVIOUS
  <2>2. CASE j[k] = 0
    <3>1. g[k] = 0 /\ 0 * BASE = 0
      BY <2>1, <2>2, FramingAssumption
    <3>2. Digit(0, k) = 0
      BY <3>1 DEF Digit
    <3> QED
      BY <2>2, <3>1, <3>2
  <2>3. CASE j[k] # 0
    <3>1. j[k] \in 1..4 /\ j[k] <= k /\ j[k] \in 1..k
      BY <2>1, <2>3
    <3>2. g[k] = f[j[k]] /\ f[j[k]] \in Nat
      BY <2>1, <2>3, <3>1
    <3>3. Digit(f[j[k]], k) \in Nat /\ Digit(f[j[k]], k) <= Digit(f[j[k]], j[k])
      BY <3>1, <3>2, DigitType
    <3> QED
      BY <2>3, <3>1, <3>2, <3>3
  <2> QED
    BY <2>2, <2>3
<1>3. Number(f) = F(1) + F(2) + F(3) + F(4)
  BY NumberIs
<1>4. Number(g) \in Nat /\ Number(g) = G(1) + G(2) + G(3) + G(4)
  BY <1>2, NumberIs
<1> HIDE DEF F, G
<1>5. G(1) + G(2) + G(3) + G(4) <= F(1) + F(2) + F(3) + F(4)
  <2>1. 1 \in 1..4 /\ 2 \in 1..4 /\ 3 \in 1..4 /\ 4 \in 1..4
    OBVIOUS
  <2>2. /\ F(1) \in Nat /\ F(2) \in Nat /\ F(3) \in Nat /\ F(4) \in Nat
        /\ G(1) \in Nat /\ G(2) \in Nat /\ G(3) \in Nat /\ G(4) \in Nat
    BY <1>1, <1>2, <2>1
  <2>3. /\ j[1] = 0 \/ j[1] = 1
        /\ j[2] = 0 \/ j[2] = 1 \/ j[2] = 2
        /\ j[3] = 0 \/ j[3] = 1 \/ j[3] = 2 \/ j[3] = 3
        /\ j[4] = 0 \/ j[4] = 1 \/ j[4] = 2 \/ j[4] = 3 \/ j[4] = 4
    BY <2>1
  <2>4. /\ IF j[1] = 0 THEN G(1) = 0 ELSE G(1) <= F(j[1])
        /\ IF j[2] = 0 THEN G(2) = 0 ELSE G(2) <= F(j[2])
        /\ IF j[3] = 0 THEN G(3) = 0 ELSE G(3) <= F(j[3])
        /\ IF j[4] = 0 THEN G(4) = 0 ELSE G(4) <= F(j[4])
    BY <1>2, <2>1
  <2>5. /\ j[1] # 0 /\ j[2] # 0 => j[1] < j[2]
        /\ j[1] # 0 /\ j[3] # 0 => j[1] < j[3]
        /\ j[1] # 0 /\ j[4] # 0 => j[1] < j[4]
        /\ j[2] # 0 /\ j[3] # 0 => j[2] < j[3]
        /\ j[2] # 0 /\ j[4] # 0 => j[2] < j[4]
        /\ j[3] # 0 /\ j[4] # 0 => j[3] < j[4]
    BY <2>1
  <2> QED
    BY <2>2, <2>3, <2>4, <2>5, SMTT(60)
<1> QED
  BY <1>3, <1>4, <1>5

-----------------------------------------------------------------------------
(* Lines of bytes.                                                         *)

Size(i) == MESSAGE_HEADER_SIZE + Number(lengths[i])

(* Byte c precedes byte d on the connection.                               *)
Before(c, d) == c[1] < d[1] \/ (c[1] = d[1] /\ c[2] < d[2])

(* Byte d may follow n places behind byte c.                               *)
Apart(c, d, n) ==
    /\ Before(c, d)
    /\ c[1] = d[1] => n >= d[2] - c[2]
    /\ c[2] = 1 /\ c[1] < d[1] => n >= Size(c[1])

(* The line has bytes of messages and zeros.                               *)
Proper(s) ==
    \A p \in DOMAIN s :
        s[p] = ZERO \/ (s[p][1] \in DOMAIN lengths /\ s[p][2] \in 1..Size(s[p][1]))

(* The bytes are in the order in which they were sent, and no closer to    *)
(* each other than they were.                                              *)
Spaced(s) ==
    \A p, q \in DOMAIN s :
        p < q /\ s[p] # ZERO /\ s[q] # ZERO => Apart(s[p], s[q], q - p)

(* The byte that was sent behind byte c.                                   *)
Follower(c) == IF c[2] < Size(c[1]) THEN <<c[1], c[2] + 1>> ELSE <<c[1] + 1, 1>>

(* A byte is still followed by the one that was sent behind it, unless     *)
(* zeros were inserted in front of that: g are the bytes of which this is  *)
(* so.                                                                     *)
Linked(s, g) ==
    \A p \in DOMAIN s :
        s[p] # ZERO /\ Follower(s[p])[1] \in DOMAIN lengths /\ Follower(s[p]) \notin g
          => p + 1 \in DOMAIN s /\ s[p + 1] = Follower(s[p])

Line(s, g) == s \in Seq(Cells) /\ Proper(s) /\ Spaced(s) /\ Linked(s, g)

TornIn(i, g) == \E j \in 2..MAGIC_SIZE : <<i, j>> \in g

(* The messages after message k begin on the line, if their magic number   *)
(* is not torn, and no other does.                                         *)
Awaits(s, k, g) ==
    /\ \A i \in DOMAIN lengths :
          k < i /\ ~ TornIn(i, g) => \E p \in DOMAIN s : s[p] = <<i, 1>>
    /\ \A p \in DOMAIN s : s[p][2] = 1 => k < s[p][1]

(* If nothing was inserted there are no zeros, and the line begins with a  *)
(* message.                                                                *)
Unbroken(s, g) ==
    g = {} => /\ \A p \in DOMAIN s : s[p] # ZERO
              /\ s # << >> => s[1][2] = 1

Lengths == lengths \in Seq([1..4 -> Nat])

LEMMA SizeType ==
    ASSUME Lengths, NEW i \in DOMAIN lengths
    PROVE  /\ i \in Nat /\ i >= 1 /\ i <= Len(lengths)
           /\ \A k \in 1..4 : lengths[i][k] \in Nat
           /\ Size(i) \in Nat /\ Size(i) >= MESSAGE_HEADER_SIZE
           /\ MESSAGE_HEADER_SIZE \in Nat /\ MAGIC_SIZE \in Nat /\ MAGIC_SIZE >= 1
           /\ MESSAGE_HEADER_SIZE >= MAGIC_SIZE + 4
           /\ Message(i) = [j \in 1..Size(i) |-> <<i, j>>]
<1>1. i \in Nat /\ i >= 1 /\ i <= Len(lengths) /\ \A k \in 1..4 : lengths[i][k] \in Nat
  <2>1. lengths \in Seq([1..4 -> Nat])
    BY DEF Lengths
  <2>2. Len(lengths) \in Nat /\ DOMAIN lengths = 1..Len(lengths) /\ lengths[i] \in [1..4 -> Nat]
    BY <2>1
  <2>3. i \in 1..Len(lengths)
    BY <2>2
  <2>4. i \in Nat /\ i >= 1 /\ i <= Len(lengths)
    BY <2>2, <2>3
  <2> QED
    BY <2>2, <2>4
<1>2. Number(lengths[i]) \in Nat
  BY <1>1, NumberIs
<1>3. /\ MESSAGE_HEADER_SIZE \in Nat /\ MAGIC_SIZE \in Nat /\ MAGIC_SIZE >= 1
      /\ MESSAGE_HEADER_SIZE >= MAGIC_SIZE + 4
  BY FramingAssumption DEF MESSAGE_HEADER_SIZE
<1>4. Size(i) \in Nat /\ Size(i) >= MESSAGE_HEADER_SIZE
  BY <1>2, <1>3 DEF Size
<1> QED
  BY <1>1, <1>3, <1>4 DEF Message, Size

(* A byte of a line.                                                       *)
LEMMA LineByte ==
    ASSUME Lengths, NEW s, NEW g, Line(s, g), NEW p \in DOMAIN s
    PROVE  /\ Len(s) \in Nat /\ DOMAIN s = 1..Len(s) /\ p \in Nat /\ p >= 1 /\ p <= Len(s)
           /\ s[p] \in Cells /\ s[p] = <<s[p][1], s[p][2]>>
           /\ s[p][1] \in Nat /\ s[p][2] \in Nat
           /\ s[p] # ZERO => /\ s[p][1] \in DOMAIN lengths /\ s[p][2] \in 1..Size(s[p][1])
                             /\ Size(s[p][1]) \in Nat
           /\ s[p][2] # 0 => s[p] # ZERO
<1>1. /\ s \in Seq(Cells) /\ Len(s) \in Nat /\ DOMAIN s = 1..Len(s)
      /\ p \in Nat /\ p >= 1 /\ p <= Len(s) /\ s[p] \in Cells
  BY DEF Line
<1>2. s[p] = <<s[p][1], s[p][2]>> /\ s[p][1] \in Nat /\ s[p][2] \in Nat
  BY <1>1, CellType
<1>3. ASSUME s[p] # ZERO
      PROVE  s[p][1] \in DOMAIN lengths /\ s[p][2] \in 1..Size(s[p][1]) /\ Size(s[p][1]) \in Nat
  <2>1. s[p][1] \in DOMAIN lengths /\ s[p][2] \in 1..Size(s[p][1])
    BY <1>3 DEF Line, Proper
  <2> QED
    BY <2>1, SizeType
<1> QED
  BY <1>1, <1>2, <1>3 DEF ZERO

(* What is left of a line behind its first d bytes is a line.              *)
Dropped(s, t, d, g) ==
    /\ Line(t, g)
    /\ DOMAIN t = 1..(Len(s) - d)
    /\ \A p \in DOMAIN t : p + d \in DOMAIN s /\ t[p] = s[p + d]
    /\ \A p \in DOMAIN s : d < p => p - d \in DOMAIN t /\ t[p - d] = s[p]

LEMMA DropLine ==
    ASSUME Lengths, NEW s, NEW g, Line(s, g), NEW d \in 0..Len(s)
    PROVE  Dropped(s, SubSeq(s, d + 1, Len(s)), d, g)
<1> DEFINE t == SubSeq(s, d + 1, Len(s))
<1>0. s \in Seq(Cells) /\ Len(s) \in Nat /\ DOMAIN s = 1..Len(s) /\ d \in Nat
  BY DEF Line
<1>1. t \in Seq(Cells) /\ Len(t) = Len(s) - d /\ \A p \in 1..(Len(s) - d) : t[p] = s[p + d]
  BY <1>0, Cut
<1> HIDE DEF t
<1>2. DOMAIN t = 1..(Len(s) - d)
  BY <1>1
<1>3. ASSUME NEW p \in DOMAIN t PROVE p + d \in DOMAIN s /\ t[p] = s[p + d] /\ p \in Nat
  <2>1. p \in 1..(Len(s) - d)
    BY <1>2
  <2>2. p \in Nat /\ p + d \in 1..Len(s)
    BY <1>0, <2>1
  <2> QED
    BY <1>0, <1>1, <2>1, <2>2, Zenon
<1>4. ASSUME NEW p \in DOMAIN s, d < p PROVE p - d \in DOMAIN t /\ t[p - d] = s[p]
  <2>1. p - d \in 1..(Len(s) - d) /\ p - d + d = p
    BY <1>0, <1>4
  <2> QED
    BY <1>1, <1>2, <2>1
<1>5. Proper(t)
  BY <1>3 DEF Line, Proper
<1>6. Spaced(t)
  <2> SUFFICES ASSUME NEW p \in DOMAIN t, NEW q \in DOMAIN t, p < q, t[p] # ZERO, t[q] # ZERO
               PROVE  Apart(t[p], t[q], q - p)
    BY DEF Spaced
  <2> DEFINE x == p + d
             y == q + d
  <2>1. x \in DOMAIN s /\ y \in DOMAIN s /\ t[p] = s[x] /\ t[q] = s[y] /\ x < y /\ y - x = q - p
    BY <1>0, <1>3
  <2> HIDE DEF x, y
  <2>2. Apart(s[x], s[y], y - x)
    BY <2>1 DEF Line, Spaced
  <2> QED
    BY <2>1, <2>2
<1>7. Linked(t, g)
  <2> SUFFICES ASSUME NEW p \in DOMAIN t, t[p] # ZERO,
                      Follower(t[p])[1] \in DOMAIN lengths, Follower(t[p]) \notin g
               PROVE  p + 1 \in DOMAIN t /\ t[p + 1] = Follower(t[p])
    BY DEF Linked
  <2>1. p + d \in DOMAIN s /\ t[p] = s[p + d] /\ p \in Nat
    BY <1>3
  <2>2. (p + d) + 1 \in DOMAIN s /\ s[(p + d) + 1] = Follower(s[p + d])
    BY <2>1 DEF Line, Linked
  <2> DEFINE q == (p + d) + 1
  <2>3. q \in DOMAIN s /\ d < q /\ q - d = p + 1
    BY <1>0, <2>1, <2>2
  <2> HIDE DEF q
  <2>4. q - d \in DOMAIN t /\ t[q - d] = s[q]
    BY <1>4, <2>3
  <2>5. s[q] = Follower(t[p])
    BY <2>1, <2>2 DEF q
  <2> QED
    BY <2>3, <2>4, <2>5
<1>8. Dropped(s, t, d, g)
  BY <1>1, <1>2, <1>3, <1>4, <1>5, <1>6, <1>7 DEF Line, Dropped
<1> QED
  BY <1>8 DEF t

(* Behind the first byte of a message stand its bytes up to the n-th, when *)
(* zeros were inserted in front of none of them.                           *)
LEMMA InOnePiece ==
    ASSUME Lengths, NEW s, NEW g, Line(s, g), NEW i \in DOMAIN lengths,
           NEW p \in DOMAIN s, s[p] = <<i, 1>>,
           NEW n \in 1..Size(i), \A j \in 2..n : <<i, j>> \notin g
    PROVE  \A j \in 1..n : p + j - 1 \in DOMAIN s /\ s[p + j - 1] = <<i, j>>
<1>0. /\ Size(i) \in Nat /\ n \in Nat /\ n <= Size(i) /\ i \in Nat
      /\ p \in Nat /\ DOMAIN s = 1..Len(s) /\ Len(s) \in Nat
  BY SizeType, LineByte
<1> DEFINE P == {j \in 1..n : p + j - 1 \in DOMAIN s /\ s[p + j - 1] = <<i, j>>}
<1>1. 1 \in P
  <2>1. p + 1 - 1 = p /\ 1 \in 1..n
    BY <1>0
  <2> QED
    BY <2>1
<1>2. ASSUME NEW j \in 2..n, j - 1 \in P PROVE j \in P
  <2> DEFINE q == p + (j - 1) - 1
  <2>1. /\ j \in Nat /\ j - 1 \in Nat /\ j - 1 < Size(i) /\ j - 1 + 1 = j /\ j \in 1..n
        /\ q + 1 = p + j - 1
    BY <1>0
  <2>2. q \in DOMAIN s /\ s[q] = <<i, j - 1>>
    BY <1>2
  <2> HIDE DEF q
  <2>3. s[q] # ZERO
    <3>1. i # 0
      BY SizeType
    <3> QED
      BY <2>2, <3>1 DEF ZERO
  <2>4. Follower(s[q]) = <<i, j>>
    BY <2>1, <2>2 DEF Follower
  <2>5. <<i, j>>[1] \in DOMAIN lengths /\ <<i, j>> \notin g
    OBVIOUS
  <2>6. q + 1 \in DOMAIN s /\ s[q + 1] = <<i, j>>
    BY <2>2, <2>3, <2>4, <2>5 DEF Line, Linked
  <2> QED
    BY <2>1, <2>6
<1>3. \A j \in 1..n : j \in P
  <2> HIDE DEF P
  <2> QED
    BY <1>0, <1>1, <1>2, Climb
<1> QED
  BY <1>3

(* What stands at the x-th place of message i, behind its first byte.      *)
LEMMA Inside ==
    ASSUME Lengths, NEW s, NEW g, Line(s, g), NEW i \in DOMAIN lengths,
           NEW p \in DOMAIN s, s[p] = <<i, 1>>,
           NEW x \in 2..Size(i), NEW q, q = p + x - 1, q \in DOMAIN s, s[q] # ZERO
    PROVE  s[q] = <<i, s[q][2]>> /\ s[q][2] \in 2..x
<1>0. /\ Size(i) \in Nat /\ i \in Nat /\ i >= 1 /\ p \in Nat /\ x \in Nat
  BY SizeType, LineByte
<1>1. /\ s[q] = <<s[q][1], s[q][2]>> /\ s[q][1] \in Nat /\ s[q][2] \in Nat
  BY LineByte
<1>2. p < q /\ q - p = x - 1 /\ s[p] # ZERO
  BY <1>0 DEF ZERO
<1>3. Apart(s[p], s[q], x - 1)
  BY <1>2 DEF Line, Spaced
<1>4. ~ (i < s[q][1])
  BY <1>0, <1>3 DEF Apart
<1>5. s[q][1] = i /\ 1 < s[q][2] /\ x - 1 >= s[q][2] - 1
  BY <1>1, <1>3, <1>4 DEF Apart, Before
<1> QED
  BY <1>0, <1>1, <1>5

(* The first byte of another message, or a byte of a later one, stands at  *)
(* least the size of message i behind the first byte of message i.         *)
LEMMA Beyond ==
    ASSUME Lengths, NEW s, NEW g, Line(s, g), NEW i \in DOMAIN lengths,
           NEW p \in DOMAIN s, s[p] = <<i, 1>>,
           NEW q \in DOMAIN s, p < q, s[q][2] = 1
    PROVE  i < s[q][1] /\ q >= p + Size(i)
<1>0. /\ Size(i) \in Nat /\ i \in Nat /\ i >= 1 /\ p \in Nat /\ q \in Nat
  BY SizeType, LineByte
<1>1. s[p] # ZERO /\ s[q] # ZERO
  BY <1>0 DEF ZERO
<1>2. Apart(s[p], s[q], q - p)
  BY <1>1 DEF Line, Spaced
<1>3. i < s[q][1]
  BY <1>2 DEF Apart, Before
<1>4. q - p >= Size(i)
  BY <1>2, <1>3 DEF Apart
<1> QED
  BY <1>0, <1>3, <1>4

-----------------------------------------------------------------------------
(* A read.                                                                 *)

(* The buffer of libuv: the bytes that were read, and zeros.               *)
LEMMA PacketCells ==
    ASSUME stream \in Seq(Cells), NEW n \in 0..SUGGESTED_SIZE, n <= Len(stream)
    PROVE  /\ Packet(n) \in Seq(Cells) /\ Len(Packet(n)) = SUGGESTED_SIZE
           /\ \A p \in 1..n : Packet(n)[p] = stream[p]
           /\ \A p \in (n + 1)..SUGGESTED_SIZE : Packet(n)[p] = ZERO
<1> DEFINE r == SubSeq(stream, 1, n)
           z == [i \in 1..(SUGGESTED_SIZE - n) |-> ZERO]
<1>0. SUGGESTED_SIZE \in Nat /\ n \in Nat /\ n <= SUGGESTED_SIZE /\ n \in 0..Len(stream)
      /\ SUGGESTED_SIZE - n \in Nat
  BY FramingAssumption
<1>1. r \in Seq(Cells) /\ Len(r) = n /\ \A p \in 1..n : r[p] = stream[p]
  BY <1>0, Cut
<1>2. z \in Seq(Cells) /\ Len(z) = SUGGESTED_SIZE - n
  BY <1>0 DEF Cells, ZERO
<1>3. Packet(n) = r \o z
  BY DEF Packet
<1>4. \A p \in 1..(SUGGESTED_SIZE - n) : z[p] = ZERO
  OBVIOUS
<1> HIDE DEF r, z
<1>5. /\ r \o z \in Seq(Cells) /\ Len(r \o z) = SUGGESTED_SIZE
      /\ \A p \in 1..n : (r \o z)[p] = stream[p]
  <2>1. r \o z \in Seq(Cells) /\ Len(r \o z) = Len(r) + Len(z)
        /\ \A p \in 1..Len(r) : (r \o z)[p] = r[p]
    BY <1>1, <1>2, Concatenation, ZenonT(40)
  <2>2. Len(r) + Len(z) = SUGGESTED_SIZE
    BY <1>0, <1>1, <1>2
  <2> QED
    BY <1>1, <2>1, <2>2
<1>6. ASSUME NEW p \in (n + 1)..SUGGESTED_SIZE PROVE (r \o z)[p] = ZERO
  <2>1. p \in (Len(r) + 1)..(Len(r) + Len(z)) /\ p - n \in 1..(SUGGESTED_SIZE - n)
    BY <1>0, <1>1, <1>2
  <2>2. (r \o z)[p] = z[p - n]
    BY <1>1, <1>2, <2>1, Concatenation
  <2> QED
    BY <1>4, <2>1, <2>2
<1> QED
  BY <1>3, <1>5, <1>6

(* What a read leaves in the stream and puts in the buffer.                *)
Rest(n) == SubSeq(stream, n + 1, Len(stream))

Filled(n) == buf \o Packet(n)

LEMMA ReadParts ==
    ASSUME stream \in Seq(Cells), buf \in Seq(Cells),
           NEW n \in 0..SUGGESTED_SIZE, n <= Len(stream)
    PROVE  /\ Len(buf) \in Nat /\ Len(stream) \in Nat
           /\ Rest(n) \in Seq(Cells) /\ Len(Rest(n)) = Len(stream) - n
           /\ \A p \in 1..(Len(stream) - n) : Rest(n)[p] = stream[p + n]
           /\ Filled(n) \in Seq(Cells) /\ Len(Filled(n)) = Len(buf) + SUGGESTED_SIZE
           /\ \A p \in 1..Len(buf) : Filled(n)[p] = buf[p]
           /\ \A p \in 1..n : Filled(n)[Len(buf) + p] = stream[p]
           /\ \A p \in (n + 1)..SUGGESTED_SIZE : Filled(n)[Len(buf) + p] = ZERO
<1> DEFINE l == Len(buf)
           y == Len(stream)
<1>0. /\ l \in Nat /\ y \in Nat /\ SUGGESTED_SIZE \in Nat /\ n \in Nat /\ n \in 0..Len(stream)
  BY FramingAssumption
<1>1. Rest(n) \in Seq(Cells) /\ Len(Rest(n)) = y - n
      /\ \A p \in 1..(y - n) : Rest(n)[p] = stream[p + n]
  BY <1>0, Cut DEF Rest
<1> DEFINE w == Packet(n)
<1>2. /\ w \in Seq(Cells) /\ Len(w) = SUGGESTED_SIZE
      /\ \A p \in 1..n : w[p] = stream[p]
      /\ \A p \in (n + 1)..SUGGESTED_SIZE : w[p] = ZERO
  BY PacketCells
<1>3. Filled(n) = buf \o w
  BY DEF Filled
<1> HIDE DEF w
<1>4. /\ Filled(n) \in Seq(Cells) /\ Len(Filled(n)) = Len(buf) + Len(w)
      /\ \A p \in 1..Len(buf) : Filled(n)[p] = buf[p]
      /\ \A p \in 1..Len(w) : Filled(n)[Len(buf) + p] = w[p]
  <2>1. w \in Seq(Cells)
    BY <1>2
  <2>2. /\ buf \o w \in Seq(Cells) /\ Len(buf \o w) = Len(buf) + Len(w)
        /\ \A p \in 1..Len(buf) : (buf \o w)[p] = buf[p]
        /\ \A p \in 1..Len(w) : (buf \o w)[Len(buf) + p] = w[p]
    BY <2>1, Concatenation
  <2> QED
    BY <1>3, <2>2, Zenon
<1>5. /\ \A p \in 1..n : p \in 1..SUGGESTED_SIZE
      /\ \A p \in (n + 1)..SUGGESTED_SIZE : p \in 1..SUGGESTED_SIZE
  BY <1>0
<1> QED
  BY <1>0, <1>1, <1>2, <1>4, <1>5

(* t has the c bytes of s, with z zeros inserted behind the first e.       *)
Inserted(s, t, e, c, z) ==
    /\ c \in Nat /\ e \in 0..c /\ z \in Nat /\ t \in Seq(Cells)
    /\ DOMAIN s = 1..c /\ DOMAIN t = 1..(c + z)
    /\ \A p \in 1..e : t[p] = s[p]
    /\ \A p \in (e + 1)..(e + z) : t[p] = ZERO
    /\ \A p \in (e + z + 1)..(c + z) : t[p] = s[p - z]

(* A read inserts zeros into the line.                                     *)
LEMMA ReadInserts ==
    ASSUME stream \in Seq(Cells), buf \in Seq(Cells),
           NEW n \in 0..SUGGESTED_SIZE, n <= Len(stream)
    PROVE  Inserted(buf \o stream, Filled(n) \o Rest(n),
                    Len(buf) + n, Len(buf) + Len(stream), SUGGESTED_SIZE - n)
<1> DEFINE l == Len(buf)
           y == Len(stream)
           z == SUGGESTED_SIZE - n
<1> DEFINE s == buf \o stream
           b == Filled(n)
           r == Rest(n)
           t == b \o r
<1>1. /\ l \in Nat /\ y \in Nat
      /\ r \in Seq(Cells) /\ Len(r) = y - n
      /\ \A p \in 1..(y - n) : r[p] = stream[p + n]
      /\ b \in Seq(Cells) /\ Len(b) = l + SUGGESTED_SIZE
      /\ \A p \in 1..l : b[p] = buf[p]
      /\ \A p \in 1..n : b[l + p] = stream[p]
      /\ \A p \in (n + 1)..SUGGESTED_SIZE : b[l + p] = ZERO
  <2>1. /\ Len(buf) \in Nat /\ Len(stream) \in Nat
        /\ r \in Seq(Cells) /\ Len(r) = Len(stream) - n
        /\ \A p \in 1..(Len(stream) - n) : r[p] = stream[p + n]
        /\ b \in Seq(Cells) /\ Len(b) = Len(buf) + SUGGESTED_SIZE
        /\ \A p \in 1..Len(buf) : b[p] = buf[p]
        /\ \A p \in 1..n : b[Len(buf) + p] = stream[p]
        /\ \A p \in (n + 1)..SUGGESTED_SIZE : b[Len(buf) + p] = ZERO
    BY ReadParts
  <2> HIDE DEF b, r
  <2> QED
    BY <2>1
<1>2. /\ DOMAIN s = 1..(l + y)
      /\ \A p \in 1..l : s[p] = buf[p]
      /\ \A p \in 1..y : s[l + p] = stream[p]
  BY Concatenation
<1> HIDE DEF s, b, r
<1>3. /\ t \in Seq(Cells) /\ DOMAIN t = 1..(Len(b) + Len(r))
      /\ \A p \in 1..Len(b) : t[p] = b[p]
      /\ \A p \in 1..Len(r) : t[Len(b) + p] = r[p]
  <2>1. b \in Seq(Cells) /\ r \in Seq(Cells)
    BY <1>1
  <2>2. /\ b \o r \in Seq(Cells) /\ DOMAIN (b \o r) = 1..(Len(b) + Len(r))
        /\ \A p \in 1..Len(b) : (b \o r)[p] = b[p]
        /\ \A p \in 1..Len(r) : (b \o r)[Len(b) + p] = r[p]
    BY <2>1, Concatenation
  <2> QED
    BY <2>2
<1> HIDE DEF t
<1>4. /\ SUGGESTED_SIZE \in Nat /\ n \in Nat /\ z \in Nat /\ n + z = SUGGESTED_SIZE /\ n <= y /\ Len(r) \in Nat /\ Len(b) \in Nat
      /\ Len(b) = l + n + z /\ Len(b) + Len(r) = l + y + z /\ Len(r) = y - n
      /\ l \in Nat /\ y \in Nat
  <2>1. SUGGESTED_SIZE \in Nat /\ n \in Nat /\ n <= SUGGESTED_SIZE /\ n <= y
    BY FramingAssumption
  <2> QED
    BY <1>1, <2>1
<1>5. ASSUME NEW p \in 1..(l + n) PROVE t[p] = s[p]
  <2>1. p \in 1..Len(b)
    BY <1>4
  <2>2. CASE p <= l
    <3>1. p \in 1..l
      BY <1>1, <1>4, <2>2
    <3> QED
      BY <1>1, <1>2, <1>3, <2>1, <3>1
  <2>3. CASE l < p
    <3> DEFINE q == p - l
    <3>1. q \in 1..n /\ p = l + q
      BY <1>4, <2>3
    <3> HIDE DEF q
    <3>2. q \in 1..y
      BY <1>4, <3>1
    <3> QED
      BY <1>1, <1>2, <1>3, <2>1, <3>1, <3>2
  <2> QED
    BY <1>4, <2>2, <2>3
<1>6. ASSUME NEW p \in (l + n + 1)..(l + n + z) PROVE t[p] = ZERO
  <2> DEFINE q == p - l
  <2>1. q \in (n + 1)..SUGGESTED_SIZE /\ p = l + q
    BY <1>4
  <2>2. p \in 1..Len(b)
    BY <1>4
  <2> HIDE DEF q
  <2> QED
    BY <1>1, <1>3, <2>1, <2>2
<1>7. ASSUME NEW p \in (l + n + z + 1)..(l + y + z) PROVE t[p] = s[p - z]
  <2> DEFINE q == p - (l + n + z)
  <2>1. /\ q \in 1..(y - n) /\ p = (l + n + z) + q
        /\ p - z = l + (q + n) /\ q + n \in 1..y
    BY <1>4
  <2> HIDE DEF q
  <2>2. p = Len(b) + q /\ q \in 1..Len(r)
    BY <1>4, <2>1
  <2>3. t[p] = stream[q + n]
    BY <1>1, <1>3, <2>1, <2>2
  <2> QED
    BY <1>2, <2>1, <2>3
<1>8. /\ l + y \in Nat /\ l + n \in 0..(l + y) /\ z \in Nat
      /\ t \in Seq(Cells) /\ DOMAIN s = 1..(l + y) /\ DOMAIN t = 1..(l + y + z)
  BY <1>1, <1>2, <1>3, <1>4
<1> HIDE DEF l, y, z
<1>9. Inserted(s, t, l + n, l + y, z)
  BY <1>5, <1>6, <1>7, <1>8 DEF Inserted
<1> QED
  BY <1>9 DEF s, t, b, r, l, y, z

(* A line into which zeros are inserted is still a line, when the byte     *)
(* behind them is noted.                                                   *)
LEMMA InsertZeros ==
    ASSUME Lengths, NEW s, NEW g, Line(s, g),
           NEW k \in Nat, Awaits(s, k, g), Unbroken(s, g),
           NEW t, NEW e, NEW c, NEW z, Inserted(s, t, e, c, z),
           NEW h, g \subseteq h, z # 0 => h # {} /\ (e < c => s[e + 1] \in h)
    PROVE  Line(t, h) /\ Awaits(t, k, h) /\ Unbroken(t, h)
<1>0. /\ c \in Nat /\ e \in Nat /\ e <= c /\ z \in Nat /\ t \in Seq(Cells)
      /\ DOMAIN s = 1..c /\ DOMAIN t = 1..(c + z)
      /\ \A p \in 1..e : t[p] = s[p]
      /\ \A p \in (e + 1)..(e + z) : t[p] = ZERO
      /\ \A p \in (e + z + 1)..(c + z) : t[p] = s[p - z]
  BY DEF Inserted
<1> DEFINE f(p) == IF p <= e THEN p ELSE p - z
<1>1. ASSUME NEW p \in DOMAIN t, t[p] # ZERO
      PROVE  /\ f(p) \in DOMAIN s /\ t[p] = s[f(p)] /\ p \in Nat /\ f(p) \in Nat
             /\ \/ p \in 1..e /\ f(p) = p
                \/ p \in (e + z + 1)..(c + z) /\ f(p) = p - z
  <2>0. p \in 1..(c + z) /\ c \in Nat /\ e \in Nat /\ e <= c /\ z \in Nat
    BY <1>0
  <2>1. p \in Nat /\ (p \in 1..e \/ p \in (e + 1)..(e + z) \/ p \in (e + z + 1)..(c + z))
    BY <2>0
  <2>2. CASE p \in 1..e
    <3>1. f(p) = p /\ f(p) \in 1..c
      BY <2>0, <2>2
    <3> HIDE DEF f
    <3> QED
      BY <1>0, <2>1, <2>2, <3>1
  <2>3. CASE p \in (e + z + 1)..(c + z)
    <3>1. f(p) = p - z /\ f(p) \in 1..c
      BY <1>0, <2>3
    <3>2. t[p] = s[p - z]
      BY <1>0, <2>3
    <3> HIDE DEF f
    <3> QED
      BY <1>0, <2>1, <2>3, <3>1, <3>2
  <2>4. CASE p \in (e + 1)..(e + z)
    BY <1>0, <1>1, <2>4
  <2> QED
    BY <2>1, <2>2, <2>3, <2>4
<1>2. ASSUME NEW x \in DOMAIN s
      PROVE  \E p \in DOMAIN t : t[p] = s[x] /\ (x <= e => p = x) /\ (e < x => p = x + z)
  <2>1. x \in Nat /\ x >= 1 /\ x <= c
    BY <1>0
  <2>2. CASE x <= e
    <3>1. x \in 1..e /\ x \in DOMAIN t
      BY <1>0, <2>1, <2>2
    <3> QED
      BY <1>0, <2>1, <2>2, <3>1
  <2>3. CASE e < x
    <3> DEFINE p == x + z
    <3>1. p \in (e + z + 1)..(c + z) /\ p \in DOMAIN t /\ p - z = x
      BY <1>0, <2>1, <2>3
    <3>2. t[p] = s[p - z]
      BY <1>0, <3>1
    <3> QED
      BY <1>0, <2>1, <2>3, <3>1, <3>2
  <2> QED
    BY <1>0, <2>1, <2>2, <2>3
<1> HIDE DEF f
<1>3. Proper(t)
  BY <1>1 DEF Line, Proper
<1>4. Spaced(t)
  <2> SUFFICES ASSUME NEW p \in DOMAIN t, NEW q \in DOMAIN t, p < q, t[p] # ZERO, t[q] # ZERO
               PROVE  Apart(t[p], t[q], q - p)
    BY DEF Spaced
  <2>1. /\ f(p) \in DOMAIN s /\ t[p] = s[f(p)] /\ p \in Nat /\ f(p) \in Nat
        /\ \/ p \in 1..e /\ f(p) = p
           \/ p \in (e + z + 1)..(c + z) /\ f(p) = p - z
    BY <1>1
  <2>2. /\ f(q) \in DOMAIN s /\ t[q] = s[f(q)] /\ q \in Nat /\ f(q) \in Nat
        /\ \/ q \in 1..e /\ f(q) = q
           \/ q \in (e + z + 1)..(c + z) /\ f(q) = q - z
    BY <1>1
  <2>3. f(p) < f(q) /\ f(q) - f(p) <= q - p
    BY <1>0, <2>1, <2>2
  <2>4. Apart(s[f(p)], s[f(q)], f(q) - f(p))
    BY <2>1, <2>2, <2>3 DEF Line, Spaced
  <2>5. /\ s[f(p)][2] \in Nat /\ s[f(q)][2] \in Nat /\ Size(s[f(p)][1]) \in Nat
    BY <2>1, <2>2, LineByte
  <2>6. Apart(s[f(p)], s[f(q)], q - p)
    <3> DEFINE m == f(q) - f(p)
               n == q - p
               x == s[f(p)]
               y == s[f(q)]
    <3>1. m \in Int /\ n \in Int /\ m <= n /\ x[2] \in Nat /\ y[2] \in Nat /\ Size(x[1]) \in Nat
      BY <2>1, <2>2, <2>3, <2>5
    <3>2. Apart(x, y, m)
      BY <2>4
    <3> HIDE DEF m, n, x, y
    <3>3. Apart(x, y, n)
      BY <3>1, <3>2 DEF Apart
    <3> QED
      BY <3>3 DEF m, n, x, y
  <2> QED
    BY <2>1, <2>2, <2>6
<1>5. Linked(t, h)
  <2> SUFFICES ASSUME NEW p \in DOMAIN t, t[p] # ZERO,
                      Follower(t[p])[1] \in DOMAIN lengths, Follower(t[p]) \notin h
               PROVE  p + 1 \in DOMAIN t /\ t[p + 1] = Follower(t[p])
    BY DEF Linked
  <2> DEFINE x == f(p)
  <2>1. /\ x \in DOMAIN s /\ t[p] = s[x] /\ p \in Nat /\ x \in Nat
        /\ \/ p \in 1..e /\ x = p
           \/ p \in (e + z + 1)..(c + z) /\ x = p - z
    BY <1>1
  <2> HIDE DEF x
  <2>2. Follower(s[x]) \notin g
    BY <2>1
  <2>3. x + 1 \in DOMAIN s /\ s[x + 1] = Follower(s[x])
    BY <2>1, <2>2 DEF Line, Linked
  <2>4. PICK q \in DOMAIN t : t[q] = s[x + 1] /\ (x + 1 <= e => q = x + 1) /\ (e < x + 1 => q = (x + 1) + z)
    BY <1>2, <2>3
  <2>5. z # 0 => ~ (x = e)
    <3> SUFFICES ASSUME z # 0, x = e PROVE FALSE
      OBVIOUS
    <3>1. e < c
      BY <1>0, <2>3
    <3>2. s[e + 1] \in h
      BY <3>1
    <3> QED
      BY <2>1, <2>3, <3>2
  <2>7. /\ c \in Nat /\ e \in Nat /\ e <= c /\ z \in Nat /\ x \in Nat /\ p \in Nat
        /\ (p \in 1..e /\ x = p) \/ (p \in (e + z + 1)..(c + z) /\ x = p - z)
        /\ (x + 1 <= e => q = x + 1) /\ (e < x + 1 => q = (x + 1) + z)
    BY <1>0, <2>1, <2>4
  <2>6. q = p + 1
    <3>1. CASE z = 0
      BY <2>7, <3>1
    <3>2. CASE z # 0
      <4>1. x # e
        BY <2>5, <3>2
      <4> QED
        BY <2>7, <3>2, <4>1
    <3> QED
      BY <3>1, <3>2
  <2> QED
    BY <2>1, <2>3, <2>4, <2>6
<1>6. Line(t, h)
  BY <1>0, <1>3, <1>4, <1>5 DEF Line
<1>7. Awaits(t, k, h)
  <2>1. ASSUME NEW i \in DOMAIN lengths, k < i, ~ TornIn(i, h)
        PROVE  \E p \in DOMAIN t : t[p] = <<i, 1>>
    <3>1. ~ TornIn(i, g)
      BY <2>1 DEF TornIn
    <3>2. PICK x \in DOMAIN s : s[x] = <<i, 1>>
      BY <2>1, <3>1 DEF Awaits
    <3> QED
      BY <1>2, <3>2
  <2>2. ASSUME NEW p \in DOMAIN t, t[p][2] = 1 PROVE k < t[p][1]
    <3>1. t[p] # ZERO
      BY <2>2 DEF ZERO
    <3>2. f(p) \in DOMAIN s /\ t[p] = s[f(p)]
      BY <1>1, <3>1
    <3> QED
      BY <2>2, <3>2 DEF Awaits
  <2> QED
    BY <2>1, <2>2 DEF Awaits
<1>8. Unbroken(t, h)
  <2> SUFFICES ASSUME h = {}
               PROVE  (\A p \in DOMAIN t : t[p] # ZERO) /\ (t # << >> => t[1][2] = 1)
    BY DEF Unbroken
  <2>1. z = 0 /\ g = {}
    OBVIOUS
  <2>2. DOMAIN t = DOMAIN s /\ s \in Seq(Cells)
    BY <1>0, <2>1 DEF Line
  <2>3. ASSUME NEW p \in DOMAIN t PROVE t[p] = s[p]
    <3>1. p \in 1..e \/ p \in (e + z + 1)..(c + z)
      BY <1>0, <2>1
    <3>2. p \in Nat /\ p - z = p
      BY <1>0, <2>1
    <3> QED
      BY <1>0, <3>1, <3>2
  <2>4. (\A p \in DOMAIN s : s[p] # ZERO) /\ (s # << >> => s[1][2] = 1)
    BY <2>1 DEF Unbroken
  <2>5. ASSUME t # << >> PROVE t[1][2] = 1
    <3>1. 1 \in DOMAIN t /\ s # << >>
      BY <1>0, <2>2, <2>5
    <3> QED
      BY <2>3, <2>4, <3>1
  <2> QED
    BY <2>2, <2>3, <2>4, <2>5
<1> QED
  BY <1>6, <1>7, <1>8

-----------------------------------------------------------------------------
(* The inductive invariant.                                                *)

(* The number of the message that was handled last.                        *)
Latest == IF handled = << >> THEN 0 ELSE NumberOf(Len(handled))

Shape ==
    /\ Lengths
    /\ stream \in Seq(Cells) /\ buf \in Seq(Cells)
    /\ \A p \in DOMAIN stream : stream[p] # ZERO
    /\ handled \in Seq(Seq(Cells))
    /\ looping \in BOOLEAN /\ closed \in BOOLEAN /\ stopped \in BOOLEAN
    /\ short \in 0..MaxShortReads
    /\ gaps \subseteq (1..(Len(lengths) + 1)) \X (Nat \ {0})
    /\ looping /\ Len(buf) + 1 < MESSAGE_HEADER_SIZE => handled # << >>

(* The bytes that are not yet handled.                                     *)
Waiting == buf \o stream

Pending ==
    /\ Line(Waiting, gaps)
    /\ Awaits(Waiting, Latest, gaps)
    /\ Unbroken(Waiting, gaps)

(* What was handled began with a whole magic number.                       *)
Headed ==
    \A k \in DOMAIN handled :
        /\ NumberOf(k) \in DOMAIN lengths
        /\ Len(handled[k]) >= MESSAGE_HEADER_SIZE
        /\ \A j \in 1..MAGIC_SIZE : handled[k][j][2] = j

Past == HandledInOrder /\ OwnCellsOnly /\ UntornIntact /\ Headed

IInv == Shape /\ Pending /\ Past /\ FullReadsAreSafe

LEMMA HeaderType ==
    /\ MESSAGE_HEADER_SIZE \in Nat /\ MAGIC_SIZE \in Nat /\ MAGIC_SIZE >= 1
    /\ MESSAGE_HEADER_SIZE >= MAGIC_SIZE + 4
    /\ SUGGESTED_SIZE \in Nat /\ SUGGESTED_SIZE >= MESSAGE_HEADER_SIZE
  BY FramingAssumption DEF MESSAGE_HEADER_SIZE

LEMMA LatestType ==
    ASSUME IInv
    PROVE  /\ Latest \in Nat
           /\ \A k \in DOMAIN handled : NumberOf(k) \in Nat /\ NumberOf(k) <= Latest
           /\ handled # << >> => Len(handled) \in DOMAIN handled /\ Latest = NumberOf(Len(handled))
<1>1. /\ handled \in Seq(Seq(Cells)) /\ Lengths /\ Len(handled) \in Nat
      /\ DOMAIN handled = 1..Len(handled)
  BY DEF IInv, Shape
<1>2. \A k \in DOMAIN handled : NumberOf(k) \in Nat
  BY <1>1, SizeType DEF IInv, Past, Headed
<1>3. CASE handled = << >>
  BY <1>3 DEF Latest
<1>4. CASE handled # << >>
  <2>1. Len(handled) \in DOMAIN handled /\ Latest = NumberOf(Len(handled))
    BY <1>1, <1>4 DEF Latest
  <2>2. ASSUME NEW k \in DOMAIN handled PROVE NumberOf(k) <= Latest
    <3>1. k = Len(handled) \/ k < Len(handled)
      BY <1>1
    <3>2. k < Len(handled) => NumberOf(k) < NumberOf(Len(handled))
      BY <2>1 DEF IInv, Past, HandledInOrder
    <3> QED
      BY <1>2, <2>1, <3>1, <3>2
  <2> QED
    BY <1>2, <2>1, <2>2
<1> QED
  BY <1>2, <1>3, <1>4

-----------------------------------------------------------------------------
(* The search.                                                             *)

(* The memory that the search may see: the buffer, and behind it what is   *)
(* left of the message that was handled last.                              *)
LEMMA MemoryIs ==
    ASSUME IInv, looping, Len(buf) + 1 < MESSAGE_HEADER_SIZE
    PROVE  /\ Len(Memory) \in Nat /\ Len(Memory) >= MESSAGE_HEADER_SIZE
           /\ \A p \in 1..Len(buf) : Memory[p] = buf[p]
           /\ \A p \in (Len(buf) + 1)..Len(Memory) :
                 /\ (Memory[p][2] = 1 => p = 1)
                 /\ (p <= MAGIC_SIZE => Memory[p][2] = p)
<1> DEFINE l == Len(handled)
           h == Last(handled)
           r == SubSeq(h, Len(buf) + 1, Len(h))
<1>0. /\ buf \in Seq(Cells) /\ Len(buf) \in Nat /\ handled \in Seq(Seq(Cells)) /\ handled # << >>
      /\ MESSAGE_HEADER_SIZE \in Nat
  BY HeaderType DEF IInv, Shape
<1>1. l \in DOMAIN handled /\ h = handled[l] /\ h \in Seq(Cells) /\ Len(h) \in Nat
  <2>1. l \in DOMAIN handled /\ h = handled[l]
    BY <1>0 DEF Last
  <2> QED
    BY <1>0, <2>1
<1>2. /\ Len(h) >= MESSAGE_HEADER_SIZE /\ \A j \in 1..MAGIC_SIZE : h[j][2] = j
      /\ h[1] = <<NumberOf(l), 1>>
  BY <1>1 DEF IInv, Past, Headed, HandledInOrder
<1>3. ASSUME NEW p \in 1..Len(h), h[p][2] = 1 PROVE p = 1
  <2>1. h[p] # ZERO /\ h[1] # ZERO /\ 1 \in DOMAIN h /\ p \in DOMAIN h /\ p \in Nat /\ DOMAIN h = 1..Len(h)
    BY <1>1, <1>2, <1>3 DEF ZERO
  <2>2. 1 < p => h[1][2] < h[p][2]
    BY <1>1, <2>1 DEF IInv, Past, OwnCellsOnly
  <2> QED
    BY <1>2, <1>3, <2>1, <2>2
<1> HIDE DEF h, l
<1>4. /\ r \in Seq(Cells) /\ Len(r) = Len(h) - Len(buf)
      /\ \A p \in 1..(Len(h) - Len(buf)) : r[p] = h[p + Len(buf)]
  <2>1. Len(buf) \in 0..Len(h)
    BY <1>0, <1>1, <1>2
  <2> QED
    BY <1>1, <2>1, Cut
<1>5. Memory = buf \o r
  BY DEF Memory, h
<1> HIDE DEF r
<1>6. /\ Len(buf \o r) = Len(buf) + Len(r)
      /\ \A p \in 1..Len(buf) : (buf \o r)[p] = buf[p]
      /\ \A p \in (Len(buf) + 1)..(Len(buf) + Len(r)) :
            p - Len(buf) \in 1..Len(r) /\ (buf \o r)[p] = r[p - Len(buf)]
  BY <1>0, <1>4, Concatenation
<1>7. Len(Memory) = Len(h)
  BY <1>0, <1>1, <1>4, <1>5, <1>6
<1>8. ASSUME NEW p \in (Len(buf) + 1)..Len(Memory) PROVE Memory[p] = h[p] /\ p \in 1..Len(h)
  <2> DEFINE q == p - Len(buf)
  <2>1. q \in 1..(Len(h) - Len(buf)) /\ q + Len(buf) = p /\ p \in 1..Len(h)
        /\ p \in (Len(buf) + 1)..(Len(buf) + Len(r))
    BY <1>0, <1>1, <1>4, <1>7
  <2>2. (buf \o r)[p] = r[q]
    BY <1>6, <2>1
  <2> HIDE DEF q
  <2> QED
    BY <1>4, <1>5, <2>1, <2>2
<1>9. ASSUME NEW p \in (Len(buf) + 1)..Len(Memory)
      PROVE  (Memory[p][2] = 1 => p = 1) /\ (p <= MAGIC_SIZE => Memory[p][2] = p)
  <2>1. p \in 1..Len(h) /\ Memory[p] = h[p]
    BY <1>8
  <2>2. p <= MAGIC_SIZE => p \in 1..MAGIC_SIZE
    BY <1>1, <2>1, HeaderType
  <2> QED
    BY <1>2, <1>3, <2>1, <2>2
<1> QED
  BY <1>1, <1>2, <1>5, <1>6, <1>7, <1>9

(* The search finds the first message in the buffer whose magic number is  *)
(* whole; it may find a torn one before it.                                *)
LEMMA FirstMagic ==
    ASSUME IInv, looping, Starts # {}, NEW m, m = Min(Starts)
    PROVE  /\ m \in Nat /\ m >= 1 /\ m <= Len(buf) + 1 /\ m \in Starts
           /\ \A p \in DOMAIN Waiting, i \in DOMAIN lengths :
                 Waiting[p] = <<i, 1>> /\ ~ MagicTorn(i) => m <= p
           /\ Len(buf) + 1 >= MESSAGE_HEADER_SIZE =>
                 m <= Len(buf) + 1 - MESSAGE_HEADER_SIZE /\ Magic(buf, m)
<1> DEFINE s == Waiting
<1>0. /\ buf \in Seq(Cells) /\ stream \in Seq(Cells) /\ Lengths /\ Line(s, gaps) /\ Len(buf) \in Nat
      /\ MESSAGE_HEADER_SIZE \in Nat /\ MAGIC_SIZE \in Nat /\ MAGIC_SIZE >= 1
      /\ MESSAGE_HEADER_SIZE >= MAGIC_SIZE + 4
  BY HeaderType DEF IInv, Shape, Pending
<1>1. /\ DOMAIN s = 1..(Len(buf) + Len(stream)) /\ Len(stream) \in Nat
      /\ \A p \in 1..Len(buf) : s[p] = buf[p]
  BY <1>0, Concatenation DEF Waiting
<1> HIDE DEF s
<1>2. Len(buf) + 1 >= MESSAGE_HEADER_SIZE =>
         \A p : p \in Starts <=> p \in 1..(Len(buf) + 1 - MESSAGE_HEADER_SIZE) /\ Magic(buf, p)
  BY DEF Starts
<1>3. Len(buf) + 1 < MESSAGE_HEADER_SIZE =>
         \A p : p \in Starts <=> p \in 1..(Len(buf) + 1) /\ Magic(Memory, p)
  <2>1. Len(buf) + 1 < MESSAGE_HEADER_SIZE => ~ (Len(buf) + 1 >= MESSAGE_HEADER_SIZE)
    BY <1>0
  <2> QED
    BY <2>1 DEF Starts
<1>4. Starts \in SUBSET Nat
  BY <1>0, <1>2, <1>3
<1>5. m \in Starts /\ \A p \in Starts : m <= p
  BY <1>4, LeastNumber
<1>6. m \in Nat /\ m >= 1 /\ m <= Len(buf) + 1
  BY <1>0, <1>2, <1>3, <1>5
<1>7. ASSUME NEW p \in DOMAIN s, NEW i \in DOMAIN lengths, s[p] = <<i, 1>>, ~ MagicTorn(i), p < m
      PROVE  FALSE
  <2>1. p \in Nat /\ p >= 1 /\ p <= Len(buf) /\ Size(i) \in Nat /\ Size(i) >= MESSAGE_HEADER_SIZE
    BY <1>0, <1>1, <1>6, <1>7, SizeType
  <2>2. \A j \in 1..MAGIC_SIZE : p + j - 1 \in DOMAIN s /\ s[p + j - 1] = <<i, j>>
    <3>1. MAGIC_SIZE \in 1..Size(i)
      BY <1>0, <2>1
    <3>2. \A j \in 2..MAGIC_SIZE : <<i, j>> \notin gaps
      BY <1>7 DEF MagicTorn
    <3>3. Lengths /\ Line(s, gaps) /\ s[p] = <<i, 1>>
      BY <1>0, <1>7
    <3>4. ASSUME NEW n \in 1..Size(i), \A j \in 2..n : <<i, j>> \notin gaps
          PROVE  \A j \in 1..n : p + j - 1 \in DOMAIN s /\ s[p + j - 1] = <<i, j>>
      BY <3>3, <3>4, InOnePiece
    <3> QED
      BY <3>1, <3>2, <3>4
  <2>3. ASSUME p + MAGIC_SIZE - 1 <= Len(buf), NEW j \in 1..MAGIC_SIZE
        PROVE  p + j - 1 \in 1..Len(buf) /\ buf[p + j - 1] = <<i, j>>
    <3>1. p + j - 1 \in 1..Len(buf)
      BY <1>0, <2>1, <2>3
    <3> QED
      BY <1>1, <2>2, <3>1
  <2>4. CASE Len(buf) + 1 >= MESSAGE_HEADER_SIZE
    <3>1. p \in 1..(Len(buf) + 1 - MESSAGE_HEADER_SIZE) /\ p + MAGIC_SIZE - 1 <= Len(buf)
      BY <1>0, <1>2, <1>5, <1>6, <1>7, <2>1, <2>4
    <3>2. Magic(buf, p)
      BY <2>3, <3>1 DEF Magic
    <3> QED
      BY <1>2, <1>5, <1>6, <1>7, <2>1, <2>4, <3>1, <3>2
  <2>5. CASE Len(buf) + 1 < MESSAGE_HEADER_SIZE
    <3>0. /\ Len(Memory) \in Nat /\ Len(Memory) >= MESSAGE_HEADER_SIZE
          /\ \A q \in 1..Len(buf) : Memory[q] = buf[q]
          /\ \A q \in (Len(buf) + 1)..Len(Memory) : Memory[q][2] = 1 => q = 1
      BY <2>5, MemoryIs
    <3>1. CASE p + MAGIC_SIZE - 1 <= Len(buf)
      <4>1. Magic(Memory, p)
        <5>1. p + MAGIC_SIZE - 1 <= Len(Memory)
          BY <1>0, <2>1, <2>5, <3>0, <3>1
        <5>2. \A j \in 1..MAGIC_SIZE : Memory[p + j - 1][2] = j
          BY <2>3, <3>0, <3>1
        <5> QED
          BY <5>1, <5>2 DEF Magic
      <4>2. p \in 1..(Len(buf) + 1)
        BY <1>0, <2>1
      <4> QED
        BY <1>3, <1>5, <1>6, <1>7, <2>1, <2>5, <4>1, <4>2
    <3>2. CASE p + MAGIC_SIZE - 1 > Len(buf)
      <4>1. Memory[m][2] = 1
        <5>1. Magic(Memory, m)
          BY <1>3, <1>5, <2>5
        <5>2. 1 \in 1..MAGIC_SIZE /\ m + 1 - 1 = m
          BY <1>0, <1>6
        <5> QED
          BY <5>1, <5>2 DEF Magic
      <4>2. CASE m <= Len(buf)
        <5>1. m \in 1..Len(buf) /\ m \in DOMAIN s /\ s[m][2] = 1
          BY <1>0, <1>1, <1>6, <3>0, <4>1, <4>2
        <5>2. m >= p + Size(i)
          BY <1>0, <1>7, <5>1, Beyond
        <5> QED
          BY <1>0, <1>6, <2>1, <2>5, <4>2, <5>2
      <4>3. CASE m = Len(buf) + 1
        <5>1. m \in (Len(buf) + 1)..Len(Memory)
          BY <1>0, <2>5, <3>0, <4>3
        <5>2. m = 1
          BY <3>0, <4>1, <5>1
        <5> QED
          BY <1>0, <2>1, <4>3, <5>2
      <4> QED
        BY <1>0, <1>6, <4>2, <4>3
    <3> QED
      BY <1>0, <2>1, <3>1, <3>2
  <2> QED
    BY <1>0, <2>4, <2>5
<1>8. \A p \in DOMAIN s, i \in DOMAIN lengths : s[p] = <<i, 1>> /\ ~ MagicTorn(i) => m <= p
  <2>1. \A p \in DOMAIN s : p \in Nat
    BY <1>1
  <2> QED
    BY <1>6, <1>7, <2>1
<1>9. ASSUME Len(buf) + 1 >= MESSAGE_HEADER_SIZE
      PROVE  m <= Len(buf) + 1 - MESSAGE_HEADER_SIZE /\ Magic(buf, m)
  <2>1. m \in 1..(Len(buf) + 1 - MESSAGE_HEADER_SIZE) /\ Magic(buf, m)
    BY <1>2, <1>5, <1>9
  <2> QED
    BY <1>0, <2>1
<1> QED
  BY <1>5, <1>6, <1>8, <1>9 DEF s

(* When nothing was inserted the search finds the front of the buffer.     *)
LEMMA FrontFound ==
    ASSUME IInv, looping, gaps = {}
    PROVE  /\ Len(buf) + 1 < MESSAGE_HEADER_SIZE => 1 \in Starts
           /\ Starts # {} => Min(Starts) = 1
<1> DEFINE s == Waiting
<1>0. /\ buf \in Seq(Cells) /\ stream \in Seq(Cells) /\ Lengths /\ Line(s, gaps) /\ Len(buf) \in Nat
      /\ MESSAGE_HEADER_SIZE \in Nat /\ MAGIC_SIZE \in Nat /\ MAGIC_SIZE >= 1
      /\ MESSAGE_HEADER_SIZE >= MAGIC_SIZE + 4 /\ Unbroken(s, gaps)
  BY HeaderType DEF IInv, Shape, Pending
<1>1. /\ DOMAIN s = 1..(Len(buf) + Len(stream)) /\ Len(stream) \in Nat /\ s \in Seq(Cells)
      /\ \A p \in 1..Len(buf) : s[p] = buf[p]
  BY <1>0, Concatenation DEF Waiting
<1> HIDE DEF s
<1>2. \A i : ~ MagicTorn(i)
  BY DEF MagicTorn
<1>3. ASSUME Len(buf) # 0
      PROVE  /\ 1 \in DOMAIN s /\ s[1][1] \in DOMAIN lengths /\ s[1] = <<s[1][1], 1>>
             /\ \A j \in 1..MAGIC_SIZE : s[j] = <<s[1][1], j>>
  <2>1. 1 \in DOMAIN s
    BY <1>0, <1>1, <1>3
  <2>2. s[1] # ZERO /\ s[1][2] = 1
    <3>1. s # << >>
      BY <2>1
    <3> QED
      BY <1>0, <2>1, <3>1 DEF Unbroken
  <2> DEFINE i == s[1][1]
  <2>3. i \in DOMAIN lengths /\ s[1] = <<i, 1>>
    BY <1>0, <2>1, <2>2, LineByte
  <2> HIDE DEF i
  <2>4. MAGIC_SIZE \in 1..Size(i) /\ \A j \in 2..MAGIC_SIZE : <<i, j>> \notin gaps
    BY <1>0, <2>3, SizeType
  <2>5. \A j \in 1..MAGIC_SIZE : 1 + j - 1 \in DOMAIN s /\ s[1 + j - 1] = <<i, j>>
    BY <1>0, <2>1, <2>3, <2>4, InOnePiece
  <2>6. \A j \in 1..MAGIC_SIZE : 1 + j - 1 = j
    BY <1>0
  <2> QED
    BY <2>1, <2>3, <2>5, <2>6 DEF i
<1>4. ASSUME Len(buf) + 1 < MESSAGE_HEADER_SIZE PROVE 1 \in Starts
  <2>1. /\ Len(Memory) \in Nat /\ Len(Memory) >= MESSAGE_HEADER_SIZE
        /\ \A p \in 1..Len(buf) : Memory[p] = buf[p]
        /\ \A p \in (Len(buf) + 1)..Len(Memory) : p <= MAGIC_SIZE => Memory[p][2] = p
    BY <1>4, MemoryIs
  <2>2. ASSUME NEW j \in 1..MAGIC_SIZE PROVE Memory[1 + j - 1][2] = j
    <3>1. j \in Nat /\ 1 + j - 1 = j /\ j <= MAGIC_SIZE /\ j >= 1
      BY <1>0
    <3>2. CASE j <= Len(buf)
      <4>1. j \in 1..Len(buf) /\ Len(buf) # 0
        BY <1>0, <3>1, <3>2
      <4>2. Memory[j] = s[j] /\ s[j] = <<s[1][1], j>>
        BY <1>1, <1>3, <2>1, <4>1
      <4> QED
        BY <3>1, <4>2
    <3>3. CASE Len(buf) < j
      <4>1. j \in (Len(buf) + 1)..Len(Memory)
        BY <1>0, <2>1, <3>1, <3>3
      <4> QED
        BY <2>1, <3>1, <4>1
    <3> QED
      BY <1>0, <3>1, <3>2, <3>3
  <2>3. 1 + MAGIC_SIZE - 1 <= Len(Memory) /\ 1 \in 1..(Len(buf) + 1)
    BY <1>0, <2>1
  <2>4. Magic(Memory, 1)
    BY <2>2, <2>3 DEF Magic
  <2>5. ~ (Len(buf) + 1 >= MESSAGE_HEADER_SIZE)
    BY <1>0, <1>4
  <2> QED
    BY <2>3, <2>4, <2>5 DEF Starts
<1>5. ASSUME Starts # {} PROVE Min(Starts) = 1
  <2> DEFINE m == Min(Starts)
  <2>1. /\ m \in Nat /\ m >= 1 /\ m <= Len(buf) + 1
        /\ \A p \in DOMAIN s, i \in DOMAIN lengths : s[p] = <<i, 1>> /\ ~ MagicTorn(i) => m <= p
    BY <1>5, FirstMagic DEF s
  <2> HIDE DEF m
  <2>2. CASE Len(buf) = 0
    BY <1>0, <2>1, <2>2 DEF m
  <2>3. CASE Len(buf) # 0
    <3>1. m <= 1
      BY <1>2, <1>3, <2>1, <2>3
    <3> QED
      BY <2>1, <3>1 DEF m
  <2> QED
    BY <2>2, <2>3
<1> QED
  BY <1>4, <1>5

-----------------------------------------------------------------------------
(* The message that the search has found.                                  *)

(* Where it stands, and which it is.                                       *)
Foremost == Min(Starts)

Ahead == find_message_start

Leader == buf[Foremost][1]

AtFront(m, b, k) ==
    /\ m \in Nat /\ m >= 1 /\ m <= Len(buf) + 1 - MESSAGE_HEADER_SIZE
    /\ m - 1 \in 0..Len(buf) /\ (m - 1) + 1 = m
    /\ b \in Seq(Cells) /\ Len(b) = Len(buf) - (m - 1) /\ Len(b) >= MESSAGE_HEADER_SIZE
    /\ \A p \in 1..Len(b) : p + (m - 1) \in DOMAIN Waiting /\ b[p] = Waiting[p + (m - 1)]
    /\ m \in DOMAIN Waiting /\ Waiting[m] = <<k, 1>> /\ b[1] = <<k, 1>>
    /\ k \in DOMAIN lengths /\ Latest < k
    /\ \A j \in 1..MAGIC_SIZE : b[j][2] = j
    /\ SizeAt(b) <= Len(b)
    /\ \A p \in DOMAIN Waiting, i \in DOMAIN lengths :
          Waiting[p] = <<i, 1>> /\ ~ MagicTorn(i) => m <= p

(* A message that is complete begins at the first place that the search    *)
(* found, in the buffer, and is the next of those to come.                 *)
LEMMA FoundAt ==
    ASSUME IInv, looping, Complete
    PROVE  AtFront(Foremost, Ahead, Leader)
<1> DEFINE m == Foremost
           b == Ahead
           k == Leader
<1> DEFINE s == Waiting
<1>0. /\ buf \in Seq(Cells) /\ stream \in Seq(Cells) /\ Lengths /\ Line(s, gaps) /\ Len(buf) \in Nat
      /\ MESSAGE_HEADER_SIZE \in Nat /\ MAGIC_SIZE \in Nat /\ MAGIC_SIZE >= 1
      /\ MESSAGE_HEADER_SIZE >= MAGIC_SIZE + 4 /\ Awaits(s, Latest, gaps)
  BY HeaderType DEF IInv, Shape, Pending
<1>1. /\ DOMAIN s = 1..(Len(buf) + Len(stream)) /\ Len(stream) \in Nat
      /\ \A p \in 1..Len(buf) : s[p] = buf[p]
  BY <1>0, Concatenation DEF Waiting
<1> HIDE DEF s
<1>2. Starts # {} /\ Len(b) >= MESSAGE_HEADER_SIZE /\ SizeAt(b) <= Len(b)
  BY DEF Complete, Ahead
<1>3. /\ m \in Nat /\ m >= 1 /\ m <= Len(buf) + 1
      /\ \A p \in DOMAIN s, i \in DOMAIN lengths : s[p] = <<i, 1>> /\ ~ MagicTorn(i) => m <= p
      /\ Len(buf) + 1 >= MESSAGE_HEADER_SIZE =>
                 m <= Len(buf) + 1 - MESSAGE_HEADER_SIZE /\ Magic(buf, m)
  BY <1>2, FirstMagic DEF s, Foremost
<1> DEFINE d == m - 1
<1>4. d \in 0..Len(buf) /\ d + 1 = m /\ d \in Nat
  BY <1>0, <1>3
<1>5. b = SubSeq(buf, d + 1, Len(buf))
  BY <1>4 DEF Ahead, Foremost, find_message_start
<1> HIDE DEF d, b
<1>6. b \in Seq(Cells) /\ Len(b) = Len(buf) - d /\ \A p \in 1..(Len(buf) - d) : b[p] = buf[p + d]
  BY <1>0, <1>4, <1>5, Cut
<1>7. Len(buf) + 1 >= MESSAGE_HEADER_SIZE
  BY <1>0, <1>2, <1>4, <1>6
<1>8. m <= Len(buf) + 1 - MESSAGE_HEADER_SIZE /\ Magic(buf, m)
  BY <1>3, <1>7
<1>16. k = buf[m][1]
  BY DEF Leader
<1> HIDE DEF m, k
<1>15. /\ Len(buf) \in Nat /\ d \in Nat /\ d <= Len(buf) /\ m \in Nat /\ m = d + 1 /\ Len(b) = Len(buf) - d
       /\ MESSAGE_HEADER_SIZE \in Nat /\ MAGIC_SIZE \in Nat /\ MAGIC_SIZE >= 1
       /\ MESSAGE_HEADER_SIZE >= MAGIC_SIZE + 4 /\ Len(b) >= MESSAGE_HEADER_SIZE
  BY <1>0, <1>2, <1>3, <1>4, <1>6
<1>9. ASSUME NEW p \in 1..Len(b) PROVE p + d \in DOMAIN s /\ b[p] = s[p + d]
  <2>1. p \in 1..(Len(buf) - d) /\ p + d \in 1..Len(buf)
    BY <1>15
  <2>2. b[p] = buf[p + d] /\ s[p + d] = buf[p + d]
    BY <1>1, <1>6, <2>1
  <2> QED
    BY <1>0, <1>1, <2>1, <2>2
<1>10. ASSUME NEW j \in 1..MAGIC_SIZE PROVE b[j][2] = j /\ j \in 1..Len(b)
  <2>1. j \in 1..(Len(buf) - d) /\ m + j - 1 = j + d /\ j \in 1..Len(b)
    BY <1>15
  <2>2. buf[m + j - 1][2] = j
    BY <1>8 DEF Magic
  <2> QED
    BY <1>6, <2>1, <2>2
<1>11. 1 \in 1..MAGIC_SIZE /\ 1 \in 1..Len(b) /\ 1 + d = m
  BY <1>0, <1>4, <1>10
<1>12. m \in DOMAIN s /\ b[1] = s[m] /\ s[m][2] = 1 /\ s[m] = buf[m]
  <2>1. m \in DOMAIN s /\ b[1] = s[m]
    BY <1>9, <1>11
  <2>2. m \in 1..Len(buf)
    BY <1>0, <1>3, <1>8
  <2> QED
    BY <1>1, <1>10, <1>11, <2>1, <2>2
<1>13. s[m] # ZERO /\ s[m] = <<k, 1>> /\ k \in DOMAIN lengths
  <2>1. s[m] # ZERO
    BY <1>12 DEF ZERO
  <2> QED
    BY <1>0, <1>12, <1>16, <2>1, LineByte
<1>14. Latest < k
  BY <1>0, <1>12, <1>13 DEF Awaits
<1> QED
  BY <1>2, <1>3, <1>4, <1>6, <1>8, <1>9, <1>10, <1>12, <1>13, <1>14 DEF d, s, m, b, k, AtFront

(* Its length is not read as greater than it is.                           *)
LEMMA LengthOfFound ==
    ASSUME IInv, looping, Complete
    PROVE  /\ SizeAt(Ahead) \in Nat /\ SizeAt(Ahead) >= MESSAGE_HEADER_SIZE
           /\ SizeAt(Ahead) <= Size(Leader)
           /\ ~ Torn(Leader) => SizeAt(Ahead) = Size(Leader)
<1> DEFINE s == Waiting
           m == Foremost
           b == Ahead
           k == Leader
<1>0. /\ Lengths /\ Line(s, gaps)
      /\ MESSAGE_HEADER_SIZE \in Nat /\ MAGIC_SIZE \in Nat /\ MAGIC_SIZE >= 1
      /\ MESSAGE_HEADER_SIZE >= MAGIC_SIZE + 4
  BY HeaderType DEF IInv, Shape, Pending
<1>10. /\ m \in Nat /\ m >= 1
       /\ b \in Seq(Cells) /\ Len(b) >= MESSAGE_HEADER_SIZE
       /\ \A p \in 1..Len(b) : p + (m - 1) \in DOMAIN s /\ b[p] = s[p + (m - 1)]
       /\ m \in DOMAIN s /\ s[m] = <<k, 1>>
       /\ k \in DOMAIN lengths /\ \A y \in 1..MAGIC_SIZE : b[y][2] = y
  BY FoundAt DEF AtFront
<1> HIDE DEF s, m, b, k
<1>1. /\ m \in Nat /\ m >= 1
      /\ Len(b) >= MESSAGE_HEADER_SIZE /\ Len(b) \in Nat
      /\ \A p \in 1..Len(b) : p + (m - 1) \in DOMAIN s /\ b[p] = s[p + (m - 1)]
      /\ m \in DOMAIN s /\ s[m] = <<k, 1>>
      /\ k \in DOMAIN lengths /\ \A y \in 1..MAGIC_SIZE : b[y][2] = y
  <2>1. Len(b) \in Nat
    BY <1>10
  <2> QED
    BY <1>10, <2>1, Zenon
<1>2. /\ \A x \in 1..4 : lengths[k][x] \in Nat
      /\ Size(k) \in Nat /\ Size(k) >= MESSAGE_HEADER_SIZE /\ k \in Nat /\ k >= 1
      /\ Message(k) = [j \in 1..Size(k) |-> <<k, j>>]
  BY <1>0, <1>1, SizeType
<1>11. /\ MESSAGE_HEADER_SIZE \in Nat /\ MAGIC_SIZE \in Nat /\ MAGIC_SIZE >= 1
       /\ MESSAGE_HEADER_SIZE >= MAGIC_SIZE + 4 /\ m \in Nat /\ m >= 1
       /\ Len(b) >= MESSAGE_HEADER_SIZE /\ Len(b) \in Nat
       /\ Size(k) \in Nat /\ Size(k) >= MESSAGE_HEADER_SIZE
  BY <1>0, <1>1, <1>2
<1> DEFINE c(x) == b[MAGIC_SIZE + x]
           j == [x \in 1..4 |-> IF c(x) = ZERO THEN 0 ELSE c(x)[2] - MAGIC_SIZE]
           g == [x \in 1..4 |-> LengthByte(b, x)]
<1>3. ASSUME NEW x \in 1..4, c(x) # ZERO
      PROVE  c(x) = <<k, c(x)[2]>> /\ c(x)[2] \in (MAGIC_SIZE + 1)..(MAGIC_SIZE + x)
  <2> DEFINE y == MAGIC_SIZE + x
             q == m + y - 1
             o == m + MAGIC_SIZE - 1
  <2>1. /\ y \in 2..Size(k) /\ y \in 1..Len(b) /\ y + (m - 1) = q /\ y \in Nat
        /\ MAGIC_SIZE \in 1..Len(b) /\ MAGIC_SIZE + (m - 1) = o /\ MAGIC_SIZE \in 1..MAGIC_SIZE
        /\ o < q /\ q \in Nat
    BY <1>11
  <2>2. q \in DOMAIN s /\ s[q] = c(x)
    BY <1>1, <2>1
  <2>3. o \in DOMAIN s /\ s[o][2] = MAGIC_SIZE
    BY <1>1, <2>1
  <2> HIDE DEF q, o
  <2>4. q = m + y - 1
    BY DEF q
  <2> HIDE DEF y
  <2>6. s[o] # ZERO /\ s[q] # ZERO
    <3>1. s[q] # ZERO
      BY <1>3, <2>2
    <3>2. s[o] # ZERO
      BY <1>11, <2>3 DEF ZERO
    <3> QED
      BY <3>1, <3>2
  <2>5. s[q] = <<k, s[q][2]>> /\ s[q][2] \in 2..y
    <3>1. Lengths /\ Line(s, gaps) /\ k \in DOMAIN lengths /\ m \in DOMAIN s /\ s[m] = <<k, 1>>
          /\ y \in 2..Size(k) /\ q = m + y - 1 /\ q \in DOMAIN s /\ s[q] # ZERO
      BY <1>0, <1>1, <2>1, <2>2, <2>4, <2>6
    <3> HIDE DEF c, j, g
    <3> QED
      BY <3>1, Inside
  <2>7. s[o][1] = k
    <3>1. CASE MAGIC_SIZE = 1
      <4>1. o = m
        BY <1>1, <3>1 DEF o
      <4> QED
        BY <1>1, <4>1
    <3>2. CASE MAGIC_SIZE # 1
      <4>1. MAGIC_SIZE \in 2..Size(k)
        BY <1>0, <1>2, <3>2
      <4>2. o = m + MAGIC_SIZE - 1
        BY DEF o
      <4>3. s[o] = <<k, s[o][2]>>
        <5>1. Lengths /\ Line(s, gaps) /\ k \in DOMAIN lengths /\ m \in DOMAIN s /\ s[m] = <<k, 1>>
              /\ o \in DOMAIN s /\ s[o] # ZERO
          BY <1>0, <1>1, <2>3, <2>6
        <5> HIDE DEF c, j, g
        <5> QED
          BY <4>1, <4>2, <5>1, Inside
      <4> QED
        BY <4>3
    <3> QED
      BY <3>1, <3>2
  <2>8. Apart(s[o], s[q], q - o)
    BY <1>0, <2>1, <2>2, <2>3, <2>6 DEF Line, Spaced
  <2>9. s[q][1] = k
    BY <2>5
  <2>10. MAGIC_SIZE < s[q][2]
    BY <1>2, <2>3, <2>7, <2>8, <2>9 DEF Apart, Before
  <2>11. y = MAGIC_SIZE + x
    BY DEF y
  <2> DEFINE v == s[q][2]
  <2>12. v \in 2..(MAGIC_SIZE + x) /\ MAGIC_SIZE < v /\ c(x) = <<k, v>> /\ c(x)[2] = v
    BY <2>2, <2>5, <2>10, <2>11
  <2> HIDE DEF v, c
  <2>13. v \in (MAGIC_SIZE + 1)..(MAGIC_SIZE + x)
    BY <1>11, <2>12
  <2> QED
    BY <2>12, <2>13
<1>4. ASSUME NEW x \in 1..4
      PROVE  /\ j[x] \in 0..x
             /\ g[x] = IF j[x] = 0 THEN 0 ELSE lengths[k][j[x]]
             /\ j[x] # 0 => c(x) # ZERO /\ c(x) = <<k, MAGIC_SIZE + j[x]>>
  <2>1. g[x] = IF c(x) = ZERO THEN 0 ELSE lengths[c(x)[1]][c(x)[2] - MAGIC_SIZE]
    BY DEF LengthByte
  <2>2. CASE c(x) = ZERO
    <3>1. j[x] = 0
      BY <2>2
    <3>2. g[x] = 0
      BY <2>1, <2>2
    <3> HIDE DEF j, g, c
    <3> QED
      BY <3>1, <3>2
  <2>3. CASE c(x) # ZERO
    <3> DEFINE v == c(x)[2]
    <3>0. c(x) = <<k, v>> /\ v \in (MAGIC_SIZE + 1)..(MAGIC_SIZE + x)
      BY <1>3, <2>3, Zenon
    <3>1. c(x) = <<k, v>> /\ v \in (MAGIC_SIZE + 1)..(MAGIC_SIZE + x) /\ c(x)[1] = k
      <4> HIDE DEF c, v
      <4> QED
        BY <3>0
    <3>2. j[x] = v - MAGIC_SIZE
      BY <2>3
    <3>3. g[x] = lengths[k][v - MAGIC_SIZE]
      BY <2>1, <2>3, <3>1
    <3> HIDE DEF v, c, j, g
    <3>4. v - MAGIC_SIZE \in 1..x /\ MAGIC_SIZE + (v - MAGIC_SIZE) = v /\ v - MAGIC_SIZE # 0
      BY <1>0, <3>1
    <3> QED
      BY <2>3, <3>1, <3>2, <3>3, <3>4
  <2> QED
    BY <2>2, <2>3
<1>5. ASSUME NEW x \in 1..4, NEW y \in 1..4, x < y, j[x] # 0, j[y] # 0 PROVE j[x] < j[y]
  <2> DEFINE o == m + (MAGIC_SIZE + x) - 1
             q == m + (MAGIC_SIZE + y) - 1
  <2>1. /\ c(x) # ZERO /\ c(x) = <<k, MAGIC_SIZE + j[x]>> /\ j[x] \in Nat
        /\ c(y) # ZERO /\ c(y) = <<k, MAGIC_SIZE + j[y]>> /\ j[y] \in Nat
    <3> HIDE DEF j, c, g
    <3> QED
      BY <1>4, <1>5
  <2>2. /\ MAGIC_SIZE + x \in 1..Len(b) /\ (MAGIC_SIZE + x) + (m - 1) = o
        /\ MAGIC_SIZE + y \in 1..Len(b) /\ (MAGIC_SIZE + y) + (m - 1) = q
        /\ o < q
    BY <1>11, <1>5
  <2>3. o \in DOMAIN s /\ q \in DOMAIN s /\ s[o] = c(x) /\ s[q] = c(y)
    BY <1>1, <2>2
  <2> HIDE DEF o, q, j
  <2>4. Apart(s[o], s[q], q - o)
    BY <1>0, <2>1, <2>2, <2>3 DEF Line, Spaced
  <2>5. MAGIC_SIZE + j[x] < MAGIC_SIZE + j[y]
    <3>1. s[o] = <<k, MAGIC_SIZE + j[x]>> /\ s[q] = <<k, MAGIC_SIZE + j[y]>>
      BY <2>1, <2>3
    <3>2. s[o][1] = k /\ s[q][1] = k /\ s[o][2] = MAGIC_SIZE + j[x] /\ s[q][2] = MAGIC_SIZE + j[y]
      BY <3>1
    <3> QED
      BY <1>2, <2>4, <3>2 DEF Apart, Before
  <2> QED
    BY <1>0, <2>1, <2>5
<1>6. SizeAt(b) = MESSAGE_HEADER_SIZE + Number(g)
  BY DEF SizeAt, message_get_length
<1>7. Number(g) \in Nat /\ Number(g) <= Number(lengths[k])
  <2> HIDE DEF g, j, c
  <2>1. /\ \A x \in 1..4 : j[x] \in 0..x
        /\ \A x \in 1..4 : g[x] = IF j[x] = 0 THEN 0 ELSE lengths[k][j[x]]
        /\ \A x, y \in 1..4 : x < y /\ j[x] # 0 /\ j[y] # 0 => j[x] < j[y]
    BY <1>4, <1>5
  <2> QED
    BY <1>2, <2>1, ShiftedNumber
<1>8. Number(lengths[k]) \in Nat /\ Size(k) = MESSAGE_HEADER_SIZE + Number(lengths[k])
  BY <1>2, NumberIs DEF Size
<1>9. ASSUME ~ Torn(k) PROVE SizeAt(b) = Size(k)
  <2>1. \A i \in 2..Size(k) : <<k, i>> \notin gaps
    <3>1. Len(Message(k)) = Size(k)
      BY <1>2
    <3> QED
      BY <1>9, <3>1 DEF Torn
  <2>2. \A i \in 1..Size(k) : m + i - 1 \in DOMAIN s /\ s[m + i - 1] = <<k, i>>
    <3>1. Size(k) \in 1..Size(k)
      BY <1>11
    <3>2. Lengths /\ Line(s, gaps) /\ k \in DOMAIN lengths /\ m \in DOMAIN s /\ s[m] = <<k, 1>>
      BY <1>0, <1>1
    <3> HIDE DEF j, c, g
    <3> QED
      BY <2>1, <3>1, <3>2, InOnePiece
  <2>3. ASSUME NEW x \in 1..4 PROVE g[x] = lengths[k][x]
    <3>1. /\ MAGIC_SIZE + x \in 1..Size(k) /\ MAGIC_SIZE + x \in 1..Len(b)
          /\ (MAGIC_SIZE + x) + (m - 1) = m + (MAGIC_SIZE + x) - 1
          /\ (MAGIC_SIZE + x) - MAGIC_SIZE = x
      BY <1>11
    <3>2. c(x) = <<k, MAGIC_SIZE + x>>
      BY <1>1, <2>2, <3>1
    <3>3. c(x) # ZERO
      BY <1>2, <3>2 DEF ZERO
    <3>4. g[x] = LengthByte(b, x)
      OBVIOUS
    <3> HIDE DEF g
    <3>5. c(x)[1] = k /\ c(x)[2] - MAGIC_SIZE = x
      BY <3>1, <3>2
    <3> QED
      BY <3>3, <3>4, <3>5 DEF LengthByte
  <2>4. Number(g) = Number(lengths[k])
    <3> HIDE DEF g
    <3>1. g[1] = lengths[k][1] /\ g[2] = lengths[k][2] /\ g[3] = lengths[k][3] /\ g[4] = lengths[k][4]
      BY <2>3
    <3> QED
      BY <3>1 DEF Number
  <2> QED
    BY <1>6, <1>8, <2>4
<1> HIDE DEF g
<1>12. SizeAt(b) \in Nat /\ SizeAt(b) >= MESSAGE_HEADER_SIZE /\ SizeAt(b) <= Size(k)
  BY <1>0, <1>6, <1>7, <1>8
<1> QED
  BY <1>9, <1>12 DEF m, b, k

(* What is passed on begins with the magic number of its message and has   *)
(* bytes of no other, in their order; it is the message when no zeros were *)
(* inserted into that.                                                     *)
LEMMA FoundBytes ==
    ASSUME IInv, looping, Complete
    PROVE  /\ Found \in Seq(Cells) /\ Len(Found) = SizeAt(Ahead) /\ DOMAIN Found = 1..SizeAt(Ahead)
           /\ Found[1] = <<Leader, 1>> /\ 1 \in DOMAIN Found
           /\ \A j \in 1..MAGIC_SIZE : Found[j][2] = j
           /\ \A p \in DOMAIN Found : Found[p] # ZERO => Found[p] \in ToSet(Message(Leader))
           /\ \A p, q \in DOMAIN Found :
                 p < q /\ Found[p] # ZERO /\ Found[q] # ZERO => Found[p][2] < Found[q][2]
           /\ ~ Torn(Leader) => Found = Message(Leader)
<1> DEFINE s == Waiting
           m == Foremost
           b == Ahead
           k == Leader
           h == Found
           size == SizeAt(Ahead)
<1>0. /\ Lengths /\ Line(s, gaps)
      /\ MESSAGE_HEADER_SIZE \in Nat /\ MAGIC_SIZE \in Nat /\ MAGIC_SIZE >= 1
      /\ MESSAGE_HEADER_SIZE >= MAGIC_SIZE + 4
  BY HeaderType DEF IInv, Shape, Pending
<1>1. /\ m \in Nat /\ m >= 1
      /\ b \in Seq(Cells) /\ size <= Len(b)
      /\ \A p \in 1..Len(b) : p + (m - 1) \in DOMAIN s /\ b[p] = s[p + (m - 1)]
      /\ m \in DOMAIN s /\ s[m] = <<k, 1>> /\ b[1] = <<k, 1>>
      /\ k \in DOMAIN lengths /\ \A y \in 1..MAGIC_SIZE : b[y][2] = y
  BY FoundAt DEF AtFront
<1>2. /\ size \in Nat /\ size >= MESSAGE_HEADER_SIZE /\ size <= Size(k)
      /\ ~ Torn(k) => size = Size(k)
  BY LengthOfFound
<1>3. h = SubSeq(b, 1, size)
  BY DEF Found, Ahead
<1> HIDE DEF s, m, b, k, h, size
<1>4. /\ Size(k) \in Nat /\ Size(k) >= MESSAGE_HEADER_SIZE /\ k \in Nat /\ k >= 1
      /\ Message(k) = [j \in 1..Size(k) |-> <<k, j>>]
  BY <1>0, <1>1, SizeType
<1>5. /\ size \in Nat /\ Len(b) \in Nat /\ size <= Len(b) /\ size <= Size(k) /\ Size(k) \in Nat
      /\ size >= MESSAGE_HEADER_SIZE /\ m \in Nat /\ m >= 1
      /\ MESSAGE_HEADER_SIZE \in Nat /\ MAGIC_SIZE \in Nat /\ MAGIC_SIZE >= 1
      /\ MESSAGE_HEADER_SIZE >= MAGIC_SIZE + 4
  BY <1>0, <1>1, <1>2, <1>4
<1>6. h \in Seq(Cells) /\ Len(h) = size /\ DOMAIN h = 1..size /\ \A p \in 1..size : h[p] = b[p]
  <2>1. size \in 0..Len(b)
    BY <1>5
  <2>2. h \in Seq(Cells) /\ Len(h) = size /\ \A p \in 1..size : h[p] = b[p]
    BY <1>1, <1>3, <2>1, Cut
  <2> QED
    BY <2>2
<1>7. ASSUME NEW p \in 1..size PROVE p + (m - 1) \in DOMAIN s /\ h[p] = s[p + (m - 1)]
  <2>1. p \in 1..Len(b)
    BY <1>5
  <2> QED
    BY <1>1, <1>6, <2>1
<1>8. 1 \in 1..size /\ h[1] = <<k, 1>> /\ \A j \in 1..MAGIC_SIZE : h[j][2] = j
  <2>1. 1 \in 1..size /\ \A j \in 1..MAGIC_SIZE : j \in 1..size
    BY <1>5
  <2> QED
    BY <1>1, <1>6, <2>1
<1>9. ASSUME NEW p \in 1..size, h[p] # ZERO
      PROVE  h[p] = <<k, h[p][2]>> /\ h[p][2] \in 1..Size(k)
  <2>1. CASE p = 1
    <3>1. h[p] = <<k, 1>> /\ 1 \in 1..Size(k)
      BY <1>5, <1>8, <2>1
    <3> QED
      BY <3>1
  <2>2. CASE p # 1
    <3> DEFINE q == p + (m - 1)
    <3>1. p \in 2..Size(k) /\ q = m + p - 1
      BY <1>5, <2>2
    <3>2. q \in DOMAIN s /\ s[q] = h[p]
      BY <1>7
    <3> HIDE DEF q
    <3>3. s[q] # ZERO /\ Lengths /\ Line(s, gaps) /\ k \in DOMAIN lengths /\ m \in DOMAIN s
          /\ s[m] = <<k, 1>>
      BY <1>0, <1>1, <1>9, <3>2
    <3>4. s[q] = <<k, s[q][2]>> /\ s[q][2] \in 2..p
      BY <3>1, <3>2, <3>3, Inside
    <3>5. s[q][2] \in 1..Size(k)
      BY <1>5, <3>1, <3>4
    <3> QED
      BY <3>2, <3>4, <3>5
  <2> QED
    BY <2>1, <2>2
<1>10. ASSUME NEW p \in 1..size, h[p] # ZERO PROVE h[p] \in ToSet(Message(k))
  <2>1. h[p] = <<k, h[p][2]>> /\ h[p][2] \in 1..Size(k)
    BY <1>9, <1>10
  <2>2. h[p][2] \in DOMAIN Message(k) /\ Message(k)[h[p][2]] = h[p]
    BY <1>4, <2>1
  <2> QED
    BY <2>2 DEF ToSet
<1>11. ASSUME NEW p \in 1..size, NEW q \in 1..size, p < q, h[p] # ZERO, h[q] # ZERO
       PROVE  h[p][2] < h[q][2]
  <2> DEFINE x == p + (m - 1)
             y == q + (m - 1)
  <2>1. x < y /\ y - x = q - p
    BY <1>5, <1>11
  <2>2. x \in DOMAIN s /\ y \in DOMAIN s /\ h[p] = s[x] /\ h[q] = s[y]
    BY <1>7
  <2> HIDE DEF x, y
  <2>3. Apart(s[x], s[y], y - x)
    BY <1>0, <1>11, <2>1, <2>2 DEF Line, Spaced
  <2>4. s[x][1] = k /\ s[y][1] = k
    <3>1. h[p] = <<k, h[p][2]>> /\ h[q] = <<k, h[q][2]>>
      BY <1>9, <1>11
    <3>2. h[p][1] = k /\ h[q][1] = k
      BY <3>1
    <3> QED
      BY <2>2, <3>2
  <2> QED
    BY <1>4, <2>2, <2>3, <2>4 DEF Apart, Before
<1>12. ASSUME ~ Torn(k) PROVE h = Message(k)
  <2>1. size = Size(k)
    BY <1>2, <1>12
  <2>2. \A i \in 2..Size(k) : <<k, i>> \notin gaps
    <3>1. Len(Message(k)) = Size(k)
      BY <1>4
    <3> QED
      BY <1>12, <3>1 DEF Torn
  <2>3. \A i \in 1..Size(k) : m + i - 1 \in DOMAIN s /\ s[m + i - 1] = <<k, i>>
    <3>1. Size(k) \in 1..Size(k)
      BY <1>5
    <3>2. Lengths /\ Line(s, gaps) /\ k \in DOMAIN lengths /\ m \in DOMAIN s /\ s[m] = <<k, 1>>
      BY <1>0, <1>1
    <3> QED
      BY <2>2, <3>1, <3>2, InOnePiece
  <2>4. ASSUME NEW p \in 1..Size(k) PROVE h[p] = <<k, p>>
    <3>1. p + (m - 1) = m + p - 1
      BY <1>5
    <3> QED
      BY <1>7, <2>1, <2>3, <3>1
  <2>5. DOMAIN Message(k) = 1..Size(k) /\ \A p \in 1..Size(k) : Message(k)[p] = h[p]
    BY <1>4, <2>4
  <2>6. h = [p \in 1..Size(k) |-> h[p]]
    BY <1>6, <2>1
  <2> QED
    BY <1>4, <2>5, <2>6
<1> QED
  BY <1>6, <1>8, <1>10, <1>11, <1>12 DEF h, k, size

(* A message is passed over only if its magic number is torn.              *)
LEMMA Overtaken ==
    ASSUME IInv, looping, Complete, NEW i \in DOMAIN lengths, Latest < i, i < Leader
    PROVE  MagicTorn(i)
<1> SUFFICES ASSUME ~ MagicTorn(i) PROVE FALSE
  OBVIOUS
<1> DEFINE s == Waiting
           m == Foremost
           k == Leader
<1>1. Lengths /\ Line(s, gaps) /\ Awaits(s, Latest, gaps)
  BY DEF IInv, Shape, Pending
<1>2. /\ m \in DOMAIN s /\ s[m] = <<k, 1>> /\ k \in DOMAIN lengths
      /\ \A p \in DOMAIN s, x \in DOMAIN lengths : s[p] = <<x, 1>> /\ ~ MagicTorn(x) => m <= p
  BY FoundAt DEF AtFront
<1> HIDE DEF s, m, k
<1>3. ~ TornIn(i, gaps)
  BY DEF TornIn, MagicTorn
<1>4. PICK p \in DOMAIN s : s[p] = <<i, 1>>
  BY <1>1, <1>3 DEF Awaits
<1>5. m <= p
  BY <1>2, <1>4
<1>6. m \in Nat /\ p \in Nat /\ k \in Nat /\ i \in Nat /\ i < k
  BY <1>1, <1>2, SizeType, LineByte DEF k
<1>7. p # m
  BY <1>2, <1>4, <1>6
<1>8. m < p /\ s[p][2] = 1 /\ s[p][1] = i
  BY <1>4, <1>5, <1>6, <1>7
<1>9. k < s[p][1]
  BY <1>1, <1>2, <1>8, Beyond
<1> QED
  BY <1>6, <1>8, <1>9

(* A message that is not damaged is what it was.                           *)
LEMMA DamagedIsTorn ==
    ASSUME IInv, looping, Complete, ~ Intact(Found)
    PROVE  gaps # {}
<1>1. Found[1] = <<Leader, 1>> /\ (~ Torn(Leader) => Found = Message(Leader))
  BY FoundBytes
<1>2. Found[1][1] = Leader
  BY <1>1
<1>3. Torn(Leader)
  BY <1>1, <1>2 DEF Intact
<1> QED
  BY <1>3 DEF Torn

-----------------------------------------------------------------------------
(* Every step keeps the invariant.                                         *)

LEMMA KeepsPending ==
    ASSUME UNCHANGED lengths, NEW k, k = Latest',
           Line(Waiting', gaps'), Awaits(Waiting', k, gaps'), Unbroken(Waiting', gaps')
    PROVE  Pending'
<1>1. Line(Waiting, gaps)'
  BY DEF Line, Proper, Spaced, Apart, Before, Linked, Follower, Size
<1>2. Awaits(Waiting, Latest, gaps)'
  BY DEF Awaits, TornIn
<1>3. Unbroken(Waiting, gaps)'
  BY DEF Unbroken
<1> QED
  BY <1>1, <1>2, <1>3 DEF Pending

LEMMA KeepsPast ==
    ASSUME Past, UNCHANGED <<lengths, handled>>, gaps \subseteq gaps'
    PROVE  Past'
<1>0. \A i : Message(i)' = Message(i)
  BY DEF Message
<1>1. \A k : NumberOf(k)' = NumberOf(k)
  BY DEF NumberOf
<1>2. HandledInOrder'
  <2>1. \A i : MagicTorn(i) => MagicTorn(i)'
    BY DEF MagicTorn
  <2> QED
    BY <1>1, <2>1 DEF Past, HandledInOrder
<1>3. OwnCellsOnly'
  BY <1>0, <1>1 DEF Past, OwnCellsOnly, ZERO
<1>4. UntornIntact'
  <2>1. \A i : Torn(i) => Torn(i)'
    BY <1>0 DEF Torn
  <2>2. \A k \in DOMAIN handled : Intact(handled[k]) => Intact(handled[k])'
    BY <1>0 DEF Intact
  <2> QED
    BY <1>1, <2>1, <2>2 DEF Past, UntornIntact
<1>5. Headed'
  BY <1>1 DEF Past, Headed
<1> QED
  BY <1>2, <1>3, <1>4, <1>5 DEF Past

(* Bytes are dropped at the front of the buffer.                           *)
LEMMA DropKeeps ==
    ASSUME IInv, UNCHANGED <<lengths, stream, gaps>>,
           NEW d \in 0..Len(buf), buf' = SubSeq(buf, d + 1, Len(buf)),
           NEW k, k = Latest',
           \A i \in DOMAIN lengths, p \in DOMAIN Waiting :
               k < i /\ ~ MagicTorn(i) /\ Waiting[p] = <<i, 1>> => d < p,
           \A p \in DOMAIN Waiting : d < p /\ Waiting[p][2] = 1 => k < Waiting[p][1],
           \A i \in DOMAIN lengths : k < i => Latest < i,
           gaps = {} /\ d # 0 => d + 1 \notin DOMAIN Waiting \/ Waiting[d + 1][2] = 1
    PROVE  Pending' /\ buf' \in Seq(Cells)
<1> DEFINE s == Waiting
           t == SubSeq(Waiting, d + 1, Len(Waiting))
<1>0. /\ buf \in Seq(Cells) /\ stream \in Seq(Cells) /\ Lengths /\ Line(s, gaps) /\ Len(buf) \in Nat
      /\ Awaits(s, Latest, gaps) /\ Unbroken(s, gaps)
  BY DEF IInv, Shape, Pending
<1>1. Waiting' = t
  <2>1. Waiting' = SubSeq(buf, d + 1, Len(buf)) \o stream
    BY DEF Waiting
  <2> QED
    BY <1>0, <2>1, CutOfTwo DEF Waiting
<1>2. DOMAIN s = 1..Len(s) /\ Len(s) \in Nat /\ d \in 0..Len(s) /\ d \in Nat
  BY <1>0, Concatenation DEF Waiting
<1>3. /\ Line(t, gaps)
      /\ DOMAIN t = 1..(Len(s) - d)
      /\ \A p \in DOMAIN t : p + d \in DOMAIN s /\ t[p] = s[p + d]
      /\ \A p \in DOMAIN s : d < p => p - d \in DOMAIN t /\ t[p - d] = s[p]
  <2>1. Dropped(s, t, d, gaps)
    BY <1>0, <1>2, DropLine
  <2> HIDE DEF s, t
  <2> QED
    BY <2>1 DEF Dropped
<1> HIDE DEF s, t
<1>4. Awaits(t, k, gaps)
  <2>1. ASSUME NEW i \in DOMAIN lengths, k < i, ~ TornIn(i, gaps)
        PROVE  \E p \in DOMAIN t : t[p] = <<i, 1>>
    <3>1. Latest < i /\ ~ MagicTorn(i)
      BY <2>1 DEF MagicTorn, TornIn
    <3>2. PICK p \in DOMAIN s : s[p] = <<i, 1>>
      BY <1>0, <2>1, <3>1 DEF Awaits
    <3>3. d < p
      BY <2>1, <3>1, <3>2 DEF s
    <3> QED
      BY <1>3, <3>2, <3>3
  <2>2. ASSUME NEW p \in DOMAIN t, t[p][2] = 1 PROVE k < t[p][1]
    <3> DEFINE q == p + d
    <3>1. q \in DOMAIN s /\ t[p] = s[q]
      BY <1>3
    <3>2. p \in Nat /\ p >= 1
      BY <1>2, <1>3
    <3>3. d < q
      BY <1>2, <3>2
    <3> HIDE DEF q
    <3> QED
      BY <2>2, <3>1, <3>3 DEF s
  <2> QED
    BY <2>1, <2>2 DEF Awaits
<1>5. Unbroken(t, gaps)
  <2> SUFFICES ASSUME gaps = {}
               PROVE  (\A p \in DOMAIN t : t[p] # ZERO) /\ (t # << >> => t[1][2] = 1)
    BY DEF Unbroken
  <2>1. (\A p \in DOMAIN s : s[p] # ZERO) /\ (s # << >> => s[1][2] = 1)
    BY <1>0 DEF Unbroken
  <2>2. \A p \in DOMAIN t : t[p] # ZERO
    BY <1>3, <2>1
  <2>3. ASSUME t # << >> PROVE t[1][2] = 1
    <3>1. 1 \in DOMAIN t
      BY <1>3, <2>3 DEF Line
    <3>2. d + 1 \in DOMAIN s /\ t[1] = s[d + 1]
      <4>1. 1 + d = d + 1
        BY <1>2
      <4> QED
        BY <1>3, <3>1, <4>1
    <3>3. CASE d = 0
      <4>1. s # << >> /\ d + 1 = 1
        BY <3>2, <3>3
      <4> QED
        BY <2>1, <3>2, <4>1
    <3>4. CASE d # 0
      BY <3>2, <3>4 DEF s
    <3> QED
      BY <3>3, <3>4
  <2> QED
    BY <2>2, <2>3
<1>6. buf' \in Seq(Cells)
  BY <1>0, Cut
<1>7. Pending'
  <2>1. Line(Waiting', gaps') /\ Awaits(Waiting', k, gaps') /\ Unbroken(Waiting', gaps')
    BY <1>1, <1>3, <1>4, <1>5
  <2> QED
    BY <2>1, KeepsPending
<1> QED
  BY <1>6, <1>7

(* on_read returns: what precedes the first magic number is dropped.       *)
LEMMA AwaitKeeps == IInv /\ AwaitData => IInv'
<1> SUFFICES ASSUME IInv, AwaitData PROVE IInv'
  OBVIOUS
<1>0. /\ buf \in Seq(Cells) /\ stream \in Seq(Cells) /\ Lengths /\ Line(Waiting, gaps)
      /\ Awaits(Waiting, Latest, gaps) /\ Latest \in Nat /\ Len(buf) \in Nat
  BY LatestType DEF IInv, Shape, Pending
<1>u. /\ looping /\ UNCHANGED <<lengths, stream, handled, closed, stopped, short, gaps>>
      /\ looping' = FALSE
  BY DEF AwaitData
<1>p. Past'
  BY <1>u, KeepsPast DEF IInv
<1>l. Latest' = Latest
  BY <1>u DEF Latest, NumberOf
<1>d. PICK d \in 0..Len(buf) :
         /\ buf' = SubSeq(buf, d + 1, Len(buf))
         /\ \A i \in DOMAIN lengths, p \in DOMAIN Waiting :
                ~ MagicTorn(i) /\ Waiting[p] = <<i, 1>> => d < p
         /\ gaps = {} => d = 0
  <2>1. CASE Starts = {}
    <3>1. buf' = buf
      BY <2>1 DEF AwaitData
    <3>2. SubSeq(buf, 0 + 1, Len(buf)) = buf
      BY <1>0
    <3>3. \A p \in DOMAIN Waiting : 0 < p
      BY <1>0 DEF Line
    <3>4. 0 \in 0..Len(buf)
      BY <1>0
    <3> QED
      BY <3>1, <3>2, <3>3, <3>4
  <2>2. CASE Starts # {}
    <3> DEFINE m == Min(Starts)
               d == m - 1
    <3>1. buf' = SubSeq(buf, m, Len(buf))
      BY <2>2 DEF AwaitData, find_message_start
    <3>2. /\ m \in Nat /\ m >= 1 /\ m <= Len(buf) + 1
          /\ \A p \in DOMAIN Waiting, i \in DOMAIN lengths :
                Waiting[p] = <<i, 1>> /\ ~ MagicTorn(i) => m <= p
      BY <1>u, <2>2, FirstMagic
    <3>3. gaps = {} => m = 1
      BY <1>u, <2>2, FrontFound
    <3> HIDE DEF m
    <3>4. d \in 0..Len(buf) /\ d + 1 = m /\ (gaps = {} => d = 0)
      BY <1>0, <3>2, <3>3
    <3>5. ASSUME NEW i \in DOMAIN lengths, NEW p \in DOMAIN Waiting,
                 ~ MagicTorn(i), Waiting[p] = <<i, 1>>
          PROVE  d < p
      <4>1. m <= p /\ p \in Nat
        BY <1>0, <3>2, <3>5 DEF Line
      <4> QED
        BY <3>2, <4>1
    <3> HIDE DEF d
    <3>6. buf' = SubSeq(buf, d + 1, Len(buf))
      BY <3>1, <3>4
    <3> QED
      BY <3>4, <3>5, <3>6
  <2> QED
    BY <2>1, <2>2
<1>1. \A p \in DOMAIN Waiting : Waiting[p][2] = 1 => Latest < Waiting[p][1]
  BY <1>0 DEF Awaits
<1>2. Pending' /\ buf' \in Seq(Cells)
  <2> DEFINE k == Latest
  <2>1. k = Latest'
    BY <1>l
  <2> HIDE DEF k
  <2>2. \A p \in DOMAIN Waiting : Waiting[p][2] = 1 => k < Waiting[p][1]
    BY <1>1 DEF k
  <2>3. \A i \in DOMAIN lengths : k < i => Latest < i
    BY DEF k
  <2> QED
    BY <1>d, <1>u, <2>1, <2>2, <2>3, DropKeeps
<1>3. Shape'
  BY <1>2, <1>u DEF IInv, Shape, Lengths
<1>4. FullReadsAreSafe'
  BY <1>u DEF IInv, FullReadsAreSafe
<1> QED
  BY <1>2, <1>3, <1>4, <1>p DEF IInv

(* The node stops only when zeros were inserted.                           *)
LEMMA StopKeeps == IInv /\ (ParserStops \/ SearchOverruns) => IInv'
<1> SUFFICES ASSUME IInv, ParserStops \/ SearchOverruns PROVE IInv'
  OBVIOUS
<1>u. /\ looping /\ UNCHANGED <<lengths, stream, buf, handled, looping, closed, short, gaps>>
      /\ stopped' = TRUE
  BY DEF ParserStops, SearchOverruns
<1>1. gaps # {}
  <2>1. CASE ParserStops
    BY <2>1, DamagedIsTorn DEF ParserStops
  <2>2. CASE SearchOverruns
    BY <2>2, FrontFound DEF SearchOverruns
  <2> QED
    BY <2>1, <2>2
<1>2. Past'
  BY <1>u, KeepsPast DEF IInv
<1>3. Shape'
  BY <1>u DEF IInv, Shape, Lengths
<1>4. Pending'
  <2>1. Waiting' = Waiting /\ Latest' = Latest
    BY <1>u DEF Waiting, Latest, NumberOf
  <2> DEFINE k == Latest
  <2>2. k = Latest' /\ Line(Waiting', gaps') /\ Awaits(Waiting', k, gaps') /\ Unbroken(Waiting', gaps')
    BY <1>u, <2>1 DEF IInv, Pending
  <2> HIDE DEF k
  <2> QED
    BY <1>u, <2>2, KeepsPending
<1>5. FullReadsAreSafe'
  BY <1>1, <1>u DEF FullReadsAreSafe
<1> QED
  BY <1>2, <1>3, <1>4, <1>5 DEF IInv

(* The connection is closed: nothing else changes.                         *)
LEMMA ErrorKeeps == IInv /\ (on_read_error \/ UNCHANGED vars) => IInv'
<1> SUFFICES ASSUME IInv, on_read_error \/ UNCHANGED vars PROVE IInv'
  OBVIOUS
<1>u. /\ UNCHANGED <<lengths, stream, buf, handled, looping, stopped, short, gaps>>
      /\ closed' \in BOOLEAN
  BY DEF on_read_error, vars, IInv, Shape
<1>2. Past'
  BY <1>u, KeepsPast DEF IInv
<1>3. Shape'
  BY <1>u DEF IInv, Shape, Lengths
<1>4. Pending'
  <2>1. Waiting' = Waiting /\ Latest' = Latest
    BY <1>u DEF Waiting, Latest, NumberOf
  <2> DEFINE k == Latest
  <2>2. k = Latest' /\ Line(Waiting', gaps') /\ Awaits(Waiting', k, gaps') /\ Unbroken(Waiting', gaps')
    BY <1>u, <2>1 DEF IInv, Pending
  <2> HIDE DEF k
  <2> QED
    BY <1>u, <2>2, KeepsPending
<1>5. FullReadsAreSafe'
  BY <1>u DEF IInv, FullReadsAreSafe
<1> QED
  BY <1>2, <1>3, <1>4, <1>5 DEF IInv

(* n bytes are read.                                                       *)
LEMMA ReadKeeps ==
    ASSUME NEW n \in 0..SUGGESTED_SIZE
    PROVE  IInv /\ on_read(n) => IInv'
<1> SUFFICES ASSUME IInv, on_read(n) PROVE IInv'
  OBVIOUS
<1> DEFINE s == Waiting
           t == Filled(n) \o Rest(n)
           k == Latest
<1>0. /\ buf \in Seq(Cells) /\ stream \in Seq(Cells) /\ Lengths
      /\ Line(s, gaps) /\ Awaits(s, k, gaps) /\ Unbroken(s, gaps) /\ k \in Nat
      /\ \A p \in DOMAIN stream : stream[p] # ZERO
      /\ gaps \subseteq (1..(Len(lengths) + 1)) \X (Nat \ {0})
  BY LatestType DEF IInv, Shape, Pending
<1>1. /\ n <= Len(stream)
      /\ stream' = Rest(n) /\ buf' = Filled(n)
      /\ gaps' = (IF n < SUGGESTED_SIZE THEN gaps \cup {Unread(n)} ELSE gaps)
      /\ (IsShort(n) => short < MaxShortReads) /\ short' = (IF IsShort(n) THEN short + 1 ELSE short)
      /\ looping' = TRUE
      /\ UNCHANGED <<lengths, handled, closed, stopped>>
  BY DEF on_read, Rest, Filled
<1>2. /\ Len(buf) \in Nat /\ Len(stream) \in Nat
      /\ Rest(n) \in Seq(Cells) /\ Len(Rest(n)) = Len(stream) - n
      /\ \A p \in 1..(Len(stream) - n) : Rest(n)[p] = stream[p + n]
      /\ Filled(n) \in Seq(Cells) /\ Len(Filled(n)) = Len(buf) + SUGGESTED_SIZE
  BY <1>0, <1>1, ReadParts
<1>3. Inserted(s, t, Len(buf) + n, Len(buf) + Len(stream), SUGGESTED_SIZE - n)
  BY <1>0, <1>1, ReadInserts DEF Waiting
<1>4. n \in Nat /\ SUGGESTED_SIZE \in Nat /\ n <= SUGGESTED_SIZE /\ SUGGESTED_SIZE >= MESSAGE_HEADER_SIZE
      /\ MESSAGE_HEADER_SIZE \in Nat
  BY HeaderType
<1>5. ASSUME n < Len(stream)
      PROVE  /\ s[(Len(buf) + n) + 1] = stream[n + 1]
             /\ stream[n + 1] \in (1..(Len(lengths) + 1)) \X (Nat \ {0})
  <2>1. n + 1 \in DOMAIN stream /\ n + 1 \in 1..Len(stream) /\ (Len(buf) + n) + 1 = Len(buf) + (n + 1)
    BY <1>0, <1>2, <1>4, <1>5
  <2>2. s[(Len(buf) + n) + 1] = stream[n + 1] /\ (Len(buf) + n) + 1 \in DOMAIN s
    <3>1. \A p \in 1..Len(stream) : (buf \o stream)[Len(buf) + p] = stream[p] /\ Len(buf) + p \in DOMAIN (buf \o stream)
      BY <1>0, Concatenation
    <3> QED
      BY <2>1, <3>1 DEF Waiting
  <2> DEFINE c == stream[n + 1]
  <2>3. c # ZERO /\ c \in Cells
    BY <1>0, <2>1
  <2>4. c[1] \in DOMAIN lengths /\ c[2] \in 1..Size(c[1]) /\ c = <<c[1], c[2]>>
    <3> DEFINE q == (Len(buf) + n) + 1
    <3>1. q \in DOMAIN s /\ s[q] = c
      BY <2>2
    <3> HIDE DEF q, s, c
    <3> QED
      BY <1>0, <2>3, <3>1, LineByte
  <2> HIDE DEF c
  <2>5. c[1] \in Nat /\ c[1] >= 1 /\ c[1] <= Len(lengths) /\ Len(lengths) \in Nat
        /\ c[2] \in Nat \ {0}
    <3>1. c[1] \in Nat /\ c[1] >= 1 /\ c[1] <= Len(lengths) /\ Size(c[1]) \in Nat
      BY <1>0, <2>4, SizeType
    <3>2. Len(lengths) \in Nat
      BY <1>0 DEF Lengths
    <3> QED
      BY <2>4, <3>1, <3>2
  <2>6. c \in (1..(Len(lengths) + 1)) \X (Nat \ {0})
    BY <2>4, <2>5
  <2> QED
    BY <2>2, <2>6 DEF c
<1>6. gaps \subseteq gaps'
  BY <1>1
<1>7. SUGGESTED_SIZE - n # 0 => gaps' # {} /\ (Len(buf) + n < Len(buf) + Len(stream) => s[(Len(buf) + n) + 1] \in gaps')
  <2> SUFFICES ASSUME SUGGESTED_SIZE - n # 0
               PROVE  gaps' # {} /\ (Len(buf) + n < Len(buf) + Len(stream) => s[(Len(buf) + n) + 1] \in gaps')
    OBVIOUS
  <2>1. n < SUGGESTED_SIZE
    BY <1>4
  <2>2. Unread(n) \in gaps'
    BY <1>1, <2>1
  <2>3. ASSUME Len(buf) + n < Len(buf) + Len(stream) PROVE s[(Len(buf) + n) + 1] \in gaps'
    <3>1. n < Len(stream)
      BY <1>2, <1>4, <2>3
    <3>2. Unread(n) = stream[n + 1]
      BY <3>1 DEF Unread
    <3> QED
      BY <1>5, <2>2, <3>1, <3>2
  <2> QED
    BY <2>2, <2>3
<1>8. Line(t, gaps') /\ Awaits(t, k, gaps') /\ Unbroken(t, gaps')
  <2> DEFINE e == Len(buf) + n
             c == Len(buf) + Len(stream)
             z == SUGGESTED_SIZE - n
             h == gaps'
  <2>1. Inserted(s, t, e, c, z) /\ gaps \subseteq h /\ (z # 0 => h # {} /\ (e < c => s[e + 1] \in h))
    BY <1>3, <1>6, <1>7
  <2> HIDE DEF s, t, e, c, z, k, h
  <2>2. Line(t, h) /\ Awaits(t, k, h) /\ Unbroken(t, h)
    BY <1>0, <2>1, InsertZeros
  <2> QED
    BY <2>2 DEF h
<1>9. Pending'
  <2>1. Waiting' = t
    BY <1>1 DEF Waiting
  <2>2. Latest' = k
    BY <1>1 DEF Latest, NumberOf
  <2> HIDE DEF k, t
  <2> QED
    BY <1>1, <1>8, <2>1, <2>2, KeepsPending
<1>10. Past'
  BY <1>1, <1>6, KeepsPast DEF IInv
<1>11. Shape'
  <2>1. Lengths'
    BY <1>0, <1>1 DEF Lengths
  <2>2. stream' \in Seq(Cells) /\ buf' \in Seq(Cells)
    BY <1>1, <1>2
  <2>3. \A p \in DOMAIN stream' : stream'[p] # ZERO
    <3> SUFFICES ASSUME NEW p \in DOMAIN Rest(n) PROVE Rest(n)[p] # ZERO
      BY <1>1 DEF ZERO
    <3>1. p \in 1..(Len(stream) - n) /\ p + n \in DOMAIN stream
      BY <1>0, <1>2, <1>4
    <3> QED
      BY <1>0, <1>2, <3>1
  <2>4. /\ handled' \in Seq(Seq(Cells))
        /\ looping' \in BOOLEAN /\ closed' \in BOOLEAN /\ stopped' \in BOOLEAN
    BY <1>1 DEF IInv, Shape
  <2>5. short' \in 0..MaxShortReads
    <3>1. short \in 0..MaxShortReads /\ MaxShortReads \in Nat
      BY FramingAssumption DEF IInv, Shape
    <3>2. short' = short \/ (short < MaxShortReads /\ short' = short + 1)
      BY <1>1
    <3> QED
      BY <3>1, <3>2
  <2>6. gaps' \subseteq (1..(Len(lengths') + 1)) \X (Nat \ {0})
    <3>1. Len(lengths) \in Nat
      BY <1>0 DEF Lengths
    <3>2. <<Len(lengths) + 1, 1>> \in (1..(Len(lengths) + 1)) \X (Nat \ {0})
      BY <3>1
    <3>3. Unread(n) \in (1..(Len(lengths) + 1)) \X (Nat \ {0})
      BY <1>5, <3>2 DEF Unread
    <3> QED
      BY <1>0, <1>1, <3>3
  <2>7. ~ (Len(buf') + 1 < MESSAGE_HEADER_SIZE)
    BY <1>1, <1>2, <1>4
  <2> QED
    BY <2>1, <2>2, <2>3, <2>4, <2>5, <2>6, <2>7 DEF Shape, ZERO
<1>12. FullReadsAreSafe'
  BY <1>1, <1>6 DEF IInv, FullReadsAreSafe
<1> QED
  BY <1>9, <1>10, <1>11, <1>12 DEF IInv

(* A message is passed on and spliced out.                                 *)
LEMMA HandleKeeps == IInv /\ HandleMessage => IInv'
<1> SUFFICES ASSUME IInv, HandleMessage PROVE IInv'
  OBVIOUS
<1> DEFINE s == Waiting
           m == Foremost
           b == Ahead
           k == Leader
           h == Found
           size == SizeAt(Ahead)
           d == (m - 1) + size
<1>0. /\ buf \in Seq(Cells) /\ stream \in Seq(Cells) /\ Lengths /\ Line(s, gaps)
      /\ Awaits(s, Latest, gaps) /\ Unbroken(s, gaps)
      /\ Len(buf) \in Nat /\ handled \in Seq(Seq(Cells)) /\ Len(handled) \in Nat /\ Latest \in Nat
      /\ MESSAGE_HEADER_SIZE \in Nat /\ MAGIC_SIZE \in Nat /\ MESSAGE_HEADER_SIZE >= MAGIC_SIZE + 4
  BY LatestType, HeaderType DEF IInv, Shape, Pending
<1>u. /\ looping /\ ~ stopped /\ Complete
      /\ UNCHANGED <<lengths, stream, looping, closed, stopped, short, gaps>>
      /\ handled' = Append(handled, h) /\ buf' = SubSeq(b, size + 1, Len(b))
  BY DEF HandleMessage, Ahead
<1>1. /\ m \in Nat /\ m >= 1 /\ m - 1 \in 0..Len(buf) /\ (m - 1) + 1 = m
      /\ Len(b) = Len(buf) - (m - 1) /\ size <= Len(b)
      /\ m \in DOMAIN s /\ s[m] = <<k, 1>> /\ k \in DOMAIN lengths /\ Latest < k
      /\ \A p \in DOMAIN s, i \in DOMAIN lengths : s[p] = <<i, 1>> /\ ~ MagicTorn(i) => m <= p
  BY <1>u, FoundAt DEF AtFront
<1>2. size \in Nat /\ size >= MESSAGE_HEADER_SIZE /\ size <= Size(k) /\ (~ Torn(k) => size = Size(k))
  BY <1>u, LengthOfFound
<1>3. /\ h \in Seq(Cells) /\ Len(h) = size
      /\ h[1] = <<k, 1>> /\ 1 \in DOMAIN h
      /\ \A j \in 1..MAGIC_SIZE : h[j][2] = j
      /\ \A p \in DOMAIN h : h[p] # ZERO => h[p] \in ToSet(Message(k))
      /\ \A p, q \in DOMAIN h :
            p < q /\ h[p] # ZERO /\ h[q] # ZERO => h[p][2] < h[q][2]
      /\ ~ Torn(k) => h = Message(k)
  BY <1>u, FoundBytes
<1>4. b = SubSeq(buf, (m - 1) + 1, Len(buf))
  BY <1>1 DEF Ahead, Foremost, find_message_start
<1>5. gaps = {} => m = 1
  BY <1>u, FrontFound DEF Foremost, Complete
<1>6. \A i \in DOMAIN lengths : Latest < i /\ i < k => MagicTorn(i)
  BY <1>u, Overtaken
<1> HIDE DEF s, m, b, k, h, size
<1>7. /\ k \in Nat /\ k >= 1 /\ Size(k) \in Nat /\ Len(lengths) \in Nat /\ k <= Len(lengths)
      /\ DOMAIN lengths = 1..Len(lengths)
  <2>1. k \in Nat /\ k >= 1 /\ Size(k) \in Nat /\ k <= Len(lengths)
    BY <1>0, <1>1, SizeType
  <2> QED
    BY <1>0, <2>1 DEF Lengths
<1>8. /\ m \in Nat /\ m >= 1 /\ size \in Nat /\ size >= 1 /\ size <= Size(k) /\ Size(k) \in Nat
      /\ Len(buf) \in Nat /\ Len(b) = Len(buf) - (m - 1) /\ size <= Len(b) /\ m - 1 \in 0..Len(buf)
  <2>1. size >= 1
    BY <1>0, <1>2, HeaderType
  <2> QED
    BY <1>0, <1>1, <1>2, <1>7, <2>1
<1>9. d \in 0..Len(buf) /\ buf' = SubSeq(buf, d + 1, Len(buf)) /\ d = m + size - 1
  <2> DEFINE e == m - 1
  <2>1. e \in 0..Len(buf) /\ size \in 0..(Len(buf) - e)
    BY <1>8
  <2>2. b = SubSeq(buf, e + 1, Len(buf))
    BY <1>4
  <2>3. e + size \in 0..Len(buf) /\ SubSeq(b, size + 1, Len(b)) = SubSeq(buf, e + size + 1, Len(buf))
    <3> HIDE DEF e
    <3> QED
      BY <1>0, <2>1, <2>2, CutTwice
  <2>4. d = m + size - 1
    BY <1>8
  <2> QED
    BY <1>u, <2>3, <2>4
(* What was handled.                                                       *)
<1>n. PICK n \in Nat : n = Len(handled) + 1
  BY <1>0
<1>10. /\ handled' \in Seq(Seq(Cells)) /\ Len(handled') = n /\ handled'[n] = h
       /\ DOMAIN handled' = 1..n /\ DOMAIN handled = 1..(n - 1) /\ n \in Nat
       /\ \A i \in DOMAIN handled : handled'[i] = handled[i]
       /\ \A i \in DOMAIN handled' : i \in DOMAIN handled \/ i = n
       /\ \A i \in DOMAIN handled : i \in DOMAIN handled' /\ i < n /\ i \in Nat
       /\ n \in DOMAIN handled'
  <2>1. /\ handled' \in Seq(Seq(Cells)) /\ Len(handled') = n /\ handled'[n] = h
        /\ DOMAIN handled' = 1..n /\ DOMAIN handled = 1..(n - 1) /\ n \in Nat
        /\ \A i \in DOMAIN handled : handled'[i] = handled[i]
    BY <1>0, <1>3, <1>n, <1>u
  <2>2. n >= 1
    BY <1>0, <1>n
  <2> QED
    BY <2>1, <2>2
<1>11. /\ \A i \in DOMAIN handled : NumberOf(i)' = NumberOf(i) /\ NumberOf(i) \in Nat /\ NumberOf(i) <= Latest
       /\ NumberOf(n)' = k /\ Latest' = k
  <2>1. \A i \in DOMAIN handled : NumberOf(i)' = NumberOf(i)
    BY <1>10 DEF NumberOf
  <2>2. NumberOf(n)' = k
    <3>1. NumberOf(n)' = handled'[n][1][1]
      BY DEF NumberOf
    <3> QED
      BY <1>3, <1>10, <3>1
  <2>3. Latest' = k
    <3>1. handled' # << >>
      BY <1>10
    <3> QED
      BY <1>10, <2>2, <3>1 DEF Latest, NumberOf
  <2> QED
    BY <2>1, <2>2, <2>3, LatestType
<1>12. /\ \A i : Message(i)' = Message(i)
       /\ \A i : MagicTorn(i)' <=> MagicTorn(i)
       /\ \A i : Torn(i)' <=> Torn(i)
  BY <1>u DEF Message, MagicTorn, Torn
<1>13. HandledInOrder'
  <2>1. ASSUME NEW i \in DOMAIN handled' PROVE handled'[i][1] = <<NumberOf(i)', 1>>
    <3>1. CASE i \in DOMAIN handled
      <4>1. handled[i][1] = <<NumberOf(i), 1>>
        BY <3>1 DEF IInv, Past, HandledInOrder
      <4>2. handled'[i] = handled[i] /\ NumberOf(i)' = NumberOf(i)
        BY <1>10, <1>11, <3>1
      <4> QED
        BY <4>1, <4>2
    <3>2. CASE i = n
      BY <1>3, <1>10, <1>11, <3>2
    <3> QED
      BY <1>10, <3>1, <3>2
  <2>2. ASSUME NEW i \in DOMAIN handled', NEW j \in DOMAIN handled', i < j
        PROVE  NumberOf(i)' < NumberOf(j)'
    <3>1. CASE i \in DOMAIN handled /\ j \in DOMAIN handled
      BY <1>11, <2>2, <3>1 DEF IInv, Past, HandledInOrder
    <3>2. CASE i \in DOMAIN handled /\ j = n
      <4>1. NumberOf(i)' \in Nat /\ NumberOf(i)' <= Latest /\ NumberOf(j)' = k
        BY <1>11, <3>2
      <4> QED
        BY <1>0, <1>1, <1>7, <4>1
    <3>3. i # n
      BY <1>10, <2>2
    <3> QED
      BY <1>10, <3>1, <3>2, <3>3
  <2>3. ASSUME NEW x \in DOMAIN handled', NEW i \in DOMAIN lengths, i < NumberOf(x)', ~ MagicTorn(i)
        PROVE  \E j \in 1..x : NumberOf(j)' = i
    <3>1. CASE x \in DOMAIN handled
      <4>1. i < NumberOf(x)
        BY <1>11, <2>3, <3>1
      <4>2. PICK j \in 1..x : NumberOf(j) = i
        BY <2>3, <3>1, <4>1 DEF IInv, Past, HandledInOrder
      <4>3. j \in DOMAIN handled
        BY <1>10, <3>1
      <4> QED
        BY <1>11, <4>2, <4>3
    <3>2. CASE x = n
      <4>1. i \in Nat /\ i < k /\ ~ (Latest < i)
        <5>1. i \in Nat /\ i < k
          BY <1>7, <1>11, <2>3, <3>2
        <5> QED
          BY <1>6, <2>3, <5>1
      <4>2. handled # << >> /\ Len(handled) \in DOMAIN handled /\ Latest = NumberOf(Len(handled))
        <5>1. handled # << >>
          <6> SUFFICES ASSUME handled = << >> PROVE FALSE
            OBVIOUS
          <6>1. Latest = 0
            BY DEF Latest
          <6>2. i >= 1
            BY <1>7
          <6> QED
            BY <4>1, <6>1, <6>2
        <5> QED
          BY <5>1, LatestType
      <4>5. PICK l \in DOMAIN handled : l = Len(handled)
        BY <4>2
      <4>3. CASE i = Latest
        <5>1. l \in 1..x
          BY <1>10, <3>2
        <5>2. NumberOf(l)' = i
          BY <1>11, <4>2, <4>3, <4>5
        <5> QED
          BY <5>1, <5>2
      <4>4. CASE i < Latest
        <5>1. PICK j \in 1..l : NumberOf(j) = i
          BY <2>3, <4>2, <4>4, <4>5 DEF IInv, Past, HandledInOrder
        <5>2. j \in DOMAIN handled /\ j \in 1..x
          BY <1>0, <1>10, <1>n, <3>2, <4>5, <5>1
        <5> QED
          BY <1>11, <5>1, <5>2
      <4> QED
        BY <1>0, <4>1, <4>3, <4>4
    <3> QED
      BY <1>10, <3>1, <3>2
  <2> QED
    BY <1>12, <1>u, <2>1, <2>2, <2>3 DEF HandledInOrder
<1>14. OwnCellsOnly'
  <2> SUFFICES ASSUME NEW i \in DOMAIN handled'
               PROVE  /\ \A p \in DOMAIN handled'[i] :
                            handled'[i][p] # ZERO => handled'[i][p] \in ToSet(Message(NumberOf(i)'))
                      /\ \A p, q \in DOMAIN handled'[i] :
                            p < q /\ handled'[i][p] # ZERO /\ handled'[i][q] # ZERO
                              => handled'[i][p][2] < handled'[i][q][2]
    BY <1>12 DEF OwnCellsOnly, ZERO
  <2>1. CASE i \in DOMAIN handled
    BY <1>10, <1>11, <2>1 DEF IInv, Past, OwnCellsOnly
  <2>2. CASE i = n
    BY <1>3, <1>10, <1>11, <2>2
  <2> QED
    BY <1>10, <2>1, <2>2
<1>15. UntornIntact'
  <2> SUFFICES ASSUME NEW i \in DOMAIN handled', ~ Torn(NumberOf(i)')
               PROVE  handled'[i] = Message(handled'[i][1][1])
    BY <1>12 DEF UntornIntact, Intact
  <2>1. CASE i \in DOMAIN handled
    BY <1>10, <1>11, <2>1 DEF IInv, Past, UntornIntact, Intact
  <2>2. CASE i = n
    <3>1. h[1][1] = k
      BY <1>3
    <3> QED
      BY <1>3, <1>10, <1>11, <2>2, <3>1
  <2> QED
    BY <1>10, <2>1, <2>2
<1>16. Headed'
  <2> SUFFICES ASSUME NEW i \in DOMAIN handled'
               PROVE  /\ NumberOf(i)' \in DOMAIN lengths
                      /\ Len(handled'[i]) >= MESSAGE_HEADER_SIZE
                      /\ \A j \in 1..MAGIC_SIZE : handled'[i][j][2] = j
    BY <1>u DEF Headed
  <2>1. CASE i \in DOMAIN handled
    BY <1>10, <1>11, <2>1 DEF IInv, Past, Headed
  <2>2. CASE i = n
    BY <1>1, <1>2, <1>3, <1>10, <1>11, <2>2
  <2> QED
    BY <1>10, <2>1, <2>2
(* What is left.                                                           *)
<1>17. \A p \in DOMAIN s : p \in Nat
  BY <1>0 DEF Line
<1>18. ASSUME NEW p \in DOMAIN s, s[p][2] = 1, m < p PROVE k < s[p][1] /\ p >= m + Size(k)
  BY <1>0, <1>1, <1>18, Beyond
<1>19. ASSUME NEW i \in DOMAIN lengths, NEW p \in DOMAIN s, k < i, ~ MagicTorn(i), s[p] = <<i, 1>>
       PROVE  d < p
  <2>1. m <= p /\ p \in Nat /\ i \in Nat
    BY <1>1, <1>7, <1>17, <1>19
  <2>2. p # m
    BY <1>1, <1>7, <1>19, <2>1
  <2>3. p >= m + Size(k)
    <3>1. s[p][2] = 1 /\ m < p
      BY <1>8, <1>19, <2>1, <2>2
    <3> QED
      BY <1>18, <3>1
  <2> QED
    BY <1>8, <1>9, <2>1, <2>3
<1>20. ASSUME NEW p \in DOMAIN s, d < p, s[p][2] = 1 PROVE k < s[p][1]
  <2>1. m < p
    BY <1>8, <1>9, <1>17, <1>20
  <2> QED
    BY <1>18, <1>20, <2>1
<1>21. ASSUME gaps = {}, d + 1 \in DOMAIN s PROVE s[d + 1][2] = 1
  <2>1. m = 1 /\ size = Size(k) /\ d = Size(k) /\ ~ Torn(k)
    <3>1. ~ Torn(k)
      BY <1>21 DEF Torn
    <3> QED
      BY <1>2, <1>5, <1>8, <1>9, <1>21, <3>1
  <2>2. d \in DOMAIN s /\ s[d] = <<k, Size(k)>>
    <3>1. Size(k) \in 1..Size(k) /\ m + Size(k) - 1 = d
      BY <1>8, <2>1
    <3>2. \A j \in 2..Size(k) : <<k, j>> \notin gaps
      BY <1>21
    <3>4. Lengths /\ Line(s, gaps) /\ k \in DOMAIN lengths /\ m \in DOMAIN s /\ s[m] = <<k, 1>>
      BY <1>0, <1>1
    <3> HIDE DEF d
    <3>3. \A j \in 1..Size(k) : m + j - 1 \in DOMAIN s /\ s[m + j - 1] = <<k, j>>
      BY <3>1, <3>2, <3>4, InOnePiece
    <3> QED
      BY <3>1, <3>3
  <2> DEFINE c == s[d + 1]
  <2>3. c # ZERO
    BY <1>0, <1>21 DEF Unbroken
  <2>4. /\ c[1] \in DOMAIN lengths /\ c[2] \in 1..Size(c[1]) /\ Size(c[1]) \in Nat /\ c[1] \in Nat
    BY <1>0, <1>21, <2>3, LineByte
  <2>5. Before(s[d], c)
    <3>1. s[d] # ZERO /\ d \in Nat
      BY <1>7, <1>8, <2>1, <2>2 DEF ZERO
    <3>2. d < d + 1
      BY <3>1
    <3> DEFINE q == d + 1
    <3>3. q \in DOMAIN s /\ d < q /\ s[q] # ZERO
      BY <1>21, <2>3, <3>2
    <3> HIDE DEF q, d
    <3>4. Apart(s[d], s[q], q - d)
      BY <1>0, <2>2, <3>1, <3>3 DEF Line, Spaced
    <3>5. Before(s[d], s[q])
      BY <3>4 DEF Apart
    <3> QED
      BY <3>5 DEF q
  <2> HIDE DEF c
  <2>6. s[d][1] = k /\ s[d][2] = Size(k)
    BY <2>2
  <2>7. k < c[1]
    <3>1. k < c[1] \/ (k = c[1] /\ Size(k) < c[2])
      BY <2>5, <2>6 DEF Before
    <3>2. ASSUME k = c[1], Size(k) < c[2] PROVE FALSE
      <4>1. c[2] \in 1..Size(k)
        BY <2>4, <3>2
      <4> QED
        BY <1>8, <3>2, <4>1
    <3> QED
      BY <3>1, <3>2
  <2>8. k + 1 \in DOMAIN lengths
    BY <1>7, <2>4, <2>7
  <2>9. Follower(s[d]) = <<k + 1, 1>>
    BY <1>8, <2>6 DEF Follower
  <2>10. c = <<k + 1, 1>>
    <3>1. s[d] # ZERO
      BY <1>7, <2>6 DEF ZERO
    <3>2. Follower(s[d])[1] \in DOMAIN lengths /\ Follower(s[d]) \notin gaps
      BY <1>21, <2>8, <2>9
    <3>3. s[d + 1] = Follower(s[d])
      <4> HIDE DEF d
      <4> QED
        BY <1>0, <2>2, <3>1, <3>2 DEF Line, Linked
    <3> QED
      BY <2>9, <3>3 DEF c
  <2> QED
    BY <2>10 DEF c
<1>22. Pending' /\ buf' \in Seq(Cells)
  <2>1. \A i \in DOMAIN lengths : k < i => Latest < i
    BY <1>0, <1>1, <1>7
  <2>2. /\ \A i \in DOMAIN lengths, p \in DOMAIN Waiting :
              k < i /\ ~ MagicTorn(i) /\ Waiting[p] = <<i, 1>> => d < p
        /\ \A p \in DOMAIN Waiting : d < p /\ Waiting[p][2] = 1 => k < Waiting[p][1]
        /\ gaps = {} /\ d # 0 => d + 1 \notin DOMAIN Waiting \/ Waiting[d + 1][2] = 1
    BY <1>19, <1>20, <1>21 DEF s
  <2>3. k = Latest'
    BY <1>11
  <2> HIDE DEF d
  <2> QED
    BY <1>9, <1>u, <2>1, <2>2, <2>3, DropKeeps
<1>23. Shape'
  <2>1. handled' # << >>
    BY <1>10
  <2> QED
    BY <1>10, <1>22, <1>u, <2>1 DEF IInv, Shape, Lengths, ZERO
<1>24. FullReadsAreSafe'
  BY <1>u DEF FullReadsAreSafe
<1> QED
  BY <1>13, <1>14, <1>15, <1>16, <1>22, <1>23, <1>24 DEF IInv, Past

-----------------------------------------------------------------------------
(* The stream as it was written.                                           *)

(* f is made of the first i messages.                                      *)
Begun(f, i) ==
    /\ f \in Seq(Cells)
    /\ Proper(f) /\ Spaced(f)
    /\ \A p \in DOMAIN f :
          /\ f[p] # ZERO /\ f[p][1] <= i
          /\ p + Size(f[p][1]) - f[p][2] <= Len(f)
          /\ \/ p + 1 \in DOMAIN f /\ f[p + 1] = Follower(f[p])
             \/ p = Len(f) /\ f[p] = <<i, Size(i)>>
    /\ \A j \in 1..i : \E p \in DOMAIN f : f[p] = <<j, 1>>
    /\ f # << >> => f[1][2] = 1 /\ f[Len(f)] = <<i, Size(i)>>
    /\ f = << >> => i = 0

LEMMA MessageBegun ==
    ASSUME Lengths, NEW i \in DOMAIN lengths, NEW f, Begun(f, i - 1)
    PROVE  Begun(f \o Message(i), i)
<1> DEFINE m == Message(i)
           l == Len(f)
           g == f \o m
           z == Size(i)
<1>1. /\ z \in Nat /\ z >= 2 /\ m = [j \in 1..z |-> <<i, j>>]
      /\ i \in Nat /\ i >= 1
  <2>1. /\ z \in Nat /\ z >= MESSAGE_HEADER_SIZE /\ MAGIC_SIZE \in Nat /\ MAGIC_SIZE >= 1
        /\ MESSAGE_HEADER_SIZE \in Nat /\ MESSAGE_HEADER_SIZE >= MAGIC_SIZE + 4
        /\ m = [j \in 1..z |-> <<i, j>>] /\ i \in Nat /\ i >= 1
    BY SizeType
  <2> HIDE DEF z, m
  <2> QED
    BY <2>1
<1> HIDE DEF z
<1>2. m \in Seq(Cells) /\ Len(m) = z /\ \A j \in 1..z : m[j] = <<i, j>>
  <2>1. \A j \in 1..z : <<i, j>> \in Cells
    BY <1>1 DEF Cells
  <2> HIDE DEF m
  <2>2. m \in [1..z -> Cells]
    BY <1>1, <2>1
  <2>3. m \in Seq(Cells) /\ Len(m) = z
    BY <1>1, <2>2
  <2> QED
    BY <1>1, <2>3
<1>3. f \in Seq(Cells) /\ l \in Nat /\ DOMAIN f = 1..l
  BY DEF Begun
<1> HIDE DEF m
<1>4. /\ g \in Seq(Cells) /\ Len(g) = l + z /\ DOMAIN g = 1..(l + z)
      /\ \A p \in 1..l : g[p] = f[p]
      /\ \A j \in 1..z : g[l + j] = <<i, j>>
  <2>1. /\ f \o m \in Seq(Cells) /\ Len(f \o m) = Len(f) + Len(m)
        /\ DOMAIN (f \o m) = 1..(Len(f) + Len(m))
        /\ \A p \in 1..Len(f) : (f \o m)[p] = f[p]
        /\ \A p \in 1..Len(m) : (f \o m)[Len(f) + p] = m[p]
    <3>1. f \in Seq(Cells) /\ m \in Seq(Cells)
      BY <1>2, <1>3
    <3> QED
      BY <3>1, Concatenation
  <2> QED
    BY <1>2, <2>1
<1> HIDE DEF g, l
(* The bytes of the messages before, and those of message i.               *)
<1>5. ASSUME NEW p \in 1..l
      PROVE  /\ g[p] = f[p] /\ f[p] # ZERO /\ f[p] = <<f[p][1], f[p][2]>>
             /\ f[p][1] \in DOMAIN lengths /\ f[p][1] \in Nat /\ f[p][1] <= i - 1
             /\ f[p][2] \in Nat /\ f[p][2] >= 1 /\ f[p][2] <= Size(f[p][1]) /\ Size(f[p][1]) \in Nat
             /\ p + Size(f[p][1]) - f[p][2] <= l
             /\ \/ p + 1 \in 1..l /\ f[p + 1] = Follower(f[p])
                \/ p = l /\ f[p] = <<i - 1, Size(i - 1)>>
  <2>1. /\ f[p] # ZERO /\ f[p][1] <= i - 1
        /\ p + Size(f[p][1]) - f[p][2] <= l
        /\ \/ p + 1 \in 1..l /\ f[p + 1] = Follower(f[p])
           \/ p = l /\ f[p] = <<i - 1, Size(i - 1)>>
    BY <1>3 DEF Begun, l
  <2>2. f[p][1] \in DOMAIN lengths /\ f[p][2] \in 1..Size(f[p][1])
    BY <1>3, <2>1 DEF Begun, Proper
  <2>3. f[p][1] \in Nat /\ Size(f[p][1]) \in Nat
    BY <2>2, SizeType
  <2>4. f[p] = <<f[p][1], f[p][2]>>
    <3>1. f[p] \in Cells
      BY <1>3
    <3> QED
      BY <3>1, CellType
  <2> QED
    BY <1>4, <2>1, <2>2, <2>3, <2>4
<1>6. ASSUME NEW p \in 1..(l + z), p \notin 1..l
      PROVE  /\ p \in (l + 1)..(l + z) /\ p - l \in 1..z
             /\ g[p] = <<i, p - l>> /\ g[p][1] = i /\ g[p][2] = p - l
  <2> DEFINE j == p - l
  <2>1. p \in (l + 1)..(l + z) /\ j \in 1..z /\ p = l + j
    BY <1>1, <1>3, <1>6
  <2> HIDE DEF j
  <2>2. g[p] = <<i, j>>
    BY <1>4, <2>1
  <2>3. g[p][1] = i /\ g[p][2] = j
    BY <2>2
  <2> QED
    BY <2>1, <2>2, <2>3 DEF j
<1>7. Proper(g)
  <2> SUFFICES ASSUME NEW p \in 1..(l + z)
               PROVE  g[p][1] \in DOMAIN lengths /\ g[p][2] \in 1..Size(g[p][1])
    BY <1>4 DEF Proper
  <2>1. CASE p \in 1..l
    BY <1>5, <2>1
  <2>2. CASE p \notin 1..l
    BY <1>6, <2>2 DEF z
  <2> QED
    BY <2>1, <2>2
<1>8. Spaced(g)
  <2> SUFFICES ASSUME NEW p \in 1..(l + z), NEW q \in 1..(l + z), p < q
               PROVE  Apart(g[p], g[q], q - p)
    BY <1>4 DEF Spaced
  <2>1. CASE p \in 1..l /\ q \in 1..l
    <3>1. p \in DOMAIN f /\ q \in DOMAIN f /\ f[p] # ZERO /\ f[q] # ZERO
      BY <1>3, <1>5, <2>1
    <3>2. Apart(f[p], f[q], q - p)
      BY <3>1 DEF Begun, Spaced
    <3> QED
      BY <1>4, <2>1, <3>2
  <2>2. CASE p \in 1..l /\ q \notin 1..l
    <3> DEFINE a == f[p][1]
               b == f[p][2]
               n == Size(f[p][1])
    <3>1. g[p] = <<a, b>> /\ a \in Nat /\ a <= i - 1 /\ b \in Nat /\ b >= 1 /\ n \in Nat
          /\ p + n - b <= l /\ n = Size(a)
      <4>1. /\ g[p] = f[p] /\ f[p] = <<f[p][1], f[p][2]>>
            /\ f[p][1] \in Nat /\ f[p][1] <= i - 1
            /\ f[p][2] \in Nat /\ f[p][2] >= 1 /\ Size(f[p][1]) \in Nat
            /\ p + Size(f[p][1]) - f[p][2] <= l
        BY <1>5, <2>2, ZenonT(30)
      <4>2. g[p] = <<a, b>>
        BY <4>1
      <4> QED
        BY <4>1, <4>2
    <3>2. g[q][1] = i /\ q >= l + 1 /\ q \in Nat
      BY <1>3, <1>6, <2>2
    <3> HIDE DEF a, b, n
    <3>3. a < i /\ p \in Nat /\ (b = 1 => q - p >= n)
      BY <1>1, <1>3, <2>2, <3>1, <3>2
    <3>4. g[p][1] = a /\ g[p][2] = b
      BY <3>1
    <3> QED
      BY <3>1, <3>2, <3>3, <3>4 DEF Apart, Before
  <2>3. CASE p \notin 1..l
    <3>1. g[p][1] = i /\ g[p][2] = p - l /\ p \in Nat /\ p > l
      BY <1>3, <1>6, <2>3
    <3>2. q \notin 1..l
      BY <1>3, <2>3, <3>1
    <3>3. g[q][1] = i /\ g[q][2] = q - l /\ q \in Nat
      BY <1>3, <1>6, <3>2
    <3> QED
      BY <1>1, <1>3, <3>1, <3>3 DEF Apart, Before
  <2> QED
    BY <2>1, <2>2, <2>3
<1>9. g[l + z] = <<i, z>> /\ l + z \in 1..(l + z)
  <2>1. z \in 1..z /\ l + z \in 1..(l + z)
    BY <1>1, <1>3
  <2> QED
    BY <1>4, <2>1
<1>10. ASSUME NEW p \in 1..(l + z)
       PROVE  /\ g[p] # ZERO /\ g[p][1] <= i
              /\ p + Size(g[p][1]) - g[p][2] <= l + z
              /\ \/ p + 1 \in 1..(l + z) /\ g[p + 1] = Follower(g[p])
                 \/ p = l + z /\ g[p] = <<i, z>>
  <2>1. CASE p \in 1..l
    <3>1. /\ g[p] = f[p] /\ f[p] # ZERO
          /\ f[p][1] \in Nat /\ f[p][1] <= i - 1
          /\ f[p][2] \in Nat /\ Size(f[p][1]) \in Nat
          /\ p + Size(f[p][1]) - f[p][2] <= l
          /\ \/ p + 1 \in 1..l /\ f[p + 1] = Follower(f[p])
             \/ p = l /\ f[p] = <<i - 1, Size(i - 1)>>
      BY <1>5, <2>1
    <3>2. f[p][1] <= i /\ p + Size(f[p][1]) - f[p][2] <= l + z
      <4> DEFINE a == f[p][1]
                 b == f[p][2]
                 n == Size(f[p][1])
      <4>1. a \in Nat /\ a <= i - 1 /\ b \in Nat /\ n \in Nat /\ p + n - b <= l
            /\ i \in Nat /\ l \in Nat /\ z \in Nat /\ p \in Nat
        BY <1>1, <1>3, <3>1
      <4> HIDE DEF a, b, n
      <4>2. a <= i /\ p + n - b <= l + z
        BY <4>1
      <4> QED
        BY <4>2 DEF a, b, n
    <3>3. p + 1 \in 1..(l + z)
      BY <1>1, <1>3, <2>1
    <3>4. g[p + 1] = Follower(g[p])
      <4>1. CASE p + 1 \in 1..l /\ f[p + 1] = Follower(f[p])
        BY <1>4, <3>1, <4>1
      <4>2. CASE p = l /\ f[p] = <<i - 1, Size(i - 1)>>
        <5>1. g[l + 1] = <<i, 1>>
          <6>1. 1 \in 1..z
            BY <1>1
          <6> QED
            BY <1>4, <6>1
        <5>2. Follower(g[p]) = <<(i - 1) + 1, 1>>
          <6>1. g[p][1] = i - 1 /\ g[p][2] = Size(i - 1) /\ Size(i - 1) \in Nat
            BY <3>1, <4>2
          <6>2. ~ (Size(i - 1) < Size(i - 1))
            BY <6>1
          <6> QED
            BY <6>1, <6>2 DEF Follower
        <5>3. (i - 1) + 1 = i
          BY <1>1
        <5> QED
          BY <4>2, <5>1, <5>2, <5>3
      <4> QED
        BY <3>1, <4>1, <4>2
    <3> QED
      BY <3>1, <3>2, <3>3, <3>4
  <2>2. CASE p \notin 1..l
    <3> DEFINE j == p - l
    <3>1. p \in Nat /\ p = l + j /\ j \in 1..z /\ j \in Nat /\ g[p] = <<i, j>> /\ g[p][1] = i /\ g[p][2] = j
      BY <1>1, <1>3, <1>6, <2>2
    <3> HIDE DEF j
    <3>2. g[p] # ZERO /\ g[p][1] <= i /\ Size(g[p][1]) = z
      BY <1>1, <3>1 DEF ZERO, z
    <3>3. p + z - j <= l + z
      BY <1>1, <1>3, <3>1
    <3>4. CASE j = z
      BY <3>1, <3>2, <3>3, <3>4
    <3>5. CASE j # z
      <4>1. j + 1 \in 1..z /\ p + 1 = l + (j + 1) /\ p + 1 \in 1..(l + z) /\ j < z
        BY <1>1, <1>3, <3>1, <3>5
      <4>2. g[p + 1] = <<i, j + 1>>
        BY <1>4, <4>1
      <4>3. Follower(g[p]) = <<i, j + 1>>
        BY <3>1, <3>2, <4>1 DEF Follower
      <4> QED
        BY <3>1, <3>2, <3>3, <4>1, <4>2, <4>3
    <3> QED
      BY <3>4, <3>5
  <2> QED
    BY <2>1, <2>2
<1>11. ASSUME NEW j \in 1..i PROVE \E p \in DOMAIN g : g[p] = <<j, 1>>
  <2>1. CASE j = i
    <3>1. 1 \in 1..z /\ l + 1 \in 1..(l + z)
      BY <1>1, <1>3
    <3>2. g[l + 1] = <<i, 1>>
      BY <1>4, <3>1
    <3> QED
      BY <1>4, <2>1, <3>1, <3>2
  <2>2. CASE j # i
    <3>1. j \in 1..(i - 1)
      BY <1>1, <2>2
    <3>2. PICK p \in DOMAIN f : f[p] = <<j, 1>>
      BY <3>1 DEF Begun
    <3>3. p \in 1..l /\ p \in 1..(l + z)
      BY <1>1, <1>3, <3>2
    <3> QED
      BY <1>4, <3>2, <3>3
  <2> QED
    BY <2>1, <2>2
<1>12. g[1][2] = 1
  <2>1. CASE l = 0
    <3>1. 1 \in 1..z /\ l + 1 = 1
      BY <1>1, <2>1
    <3>2. g[1] = <<i, 1>>
      BY <1>4, <3>1
    <3> QED
      BY <3>2
  <2>2. CASE l # 0
    <3>1. 1 \in 1..l /\ f # << >>
      BY <1>3, <2>2 DEF l
    <3> QED
      BY <1>4, <3>1 DEF Begun
  <2> QED
    BY <2>1, <2>2
<1>13. g # << >>
  BY <1>4, <1>9
<1>14. Begun(g, i)
  <2>1. \A p \in DOMAIN g :
          /\ g[p] # ZERO /\ g[p][1] <= i
          /\ p + Size(g[p][1]) - g[p][2] <= Len(g)
          /\ \/ p + 1 \in DOMAIN g /\ g[p + 1] = Follower(g[p])
             \/ p = Len(g) /\ g[p] = <<i, Size(i)>>
    BY <1>4, <1>10 DEF z
  <2>2. g[Len(g)] = <<i, Size(i)>>
    BY <1>4, <1>9 DEF z
  <2> QED
    BY <1>4, <1>7, <1>8, <1>11, <1>12, <1>13, <2>1, <2>2 DEF Begun
<1> QED
  BY <1>14 DEF g, m

(* FlattenSeq puts one part after the other.                               *)
Appends(f, parts, k) ==
    /\ f[1] = parts[1]
    /\ \A i \in 2..k : f[i] = f[i - 1] \o parts[i]

LEMMA FlattenAppends ==
    ASSUME NEW S, NEW parts \in Seq(S), Len(parts) # 0
    PROVE  \E f : Appends(f, parts, Len(parts)) /\ FlattenSeq(parts) = f[Len(parts)]
<1> DEFINE n == Len(parts)
           Body(f, k) == [i \in 1..k |-> IF i = 1 THEN parts[i] ELSE f[i - 1] \o parts[i]]
           P == {k \in 1..n : \E f : f = Body(f, k)}
<1>0. n \in Nat /\ n >= 1
  OBVIOUS
<1>1. 1 \in P
  <2> DEFINE f == [i \in 1..1 |-> parts[1]]
  <2>1. f = Body(f, 1) /\ 1 \in 1..n
    BY <1>0
  <2> HIDE DEF f, Body
  <2> QED
    BY <2>1
<1>2. ASSUME NEW k \in 2..n, k - 1 \in P PROVE k \in P
  <2>1. PICK f : f = Body(f, k - 1)
    BY <1>2
  <2> DEFINE g == [i \in 1..k |-> IF i = k THEN f[k - 1] \o parts[k] ELSE f[i]]
  <2>2. ASSUME NEW i \in 1..k
        PROVE  g[i] = IF i = 1 THEN parts[i] ELSE g[i - 1] \o parts[i]
    <3>1. CASE i = k
      <4>1. i # 1 /\ i - 1 \in 1..k /\ i - 1 # k
        BY <1>0, <3>1
      <4> QED
        BY <3>1, <4>1
    <3>2. CASE i # k
      <4>1. i \in 1..(k - 1) /\ (i # 1 => i - 1 \in 1..k /\ i - 1 # k)
        BY <1>0, <3>2
      <4>2. f[i] = IF i = 1 THEN parts[i] ELSE f[i - 1] \o parts[i]
        BY <2>1, <4>1
      <4> QED
        BY <3>2, <4>1, <4>2
    <3> QED
      BY <3>1, <3>2
  <2>3. g = Body(g, k)
    BY <2>2
  <2>4. k \in 1..n
    BY <1>0
  <2> HIDE DEF g, Body
  <2> QED
    BY <2>3, <2>4
<1>3. n \in P
  <2>1. n \in 1..n
    BY <1>0
  <2> HIDE DEF P, n
  <2> QED
    BY <1>0, <1>1, <1>2, <2>1, Climb
<1>4. \E f : f = Body(f, n)
  BY <1>3
<1> DEFINE f == CHOOSE x : x = Body(x, n)
<1>5. f = Body(f, n)
  <2> HIDE DEF n
  <2> QED
    BY <1>4
<1>6. FlattenSeq(parts) = f[n]
  BY DEF FlattenSeq
<1> HIDE DEF f
<1>7. Appends(f, parts, n)
  <2>1. \A i \in 1..n : f[i] = IF i = 1 THEN parts[i] ELSE f[i - 1] \o parts[i]
    BY <1>5
  <2>2. 1 \in 1..n /\ \A i \in 2..n : i \in 1..n /\ i # 1
    BY <1>0
  <2> HIDE DEF n
  <2> QED
    BY <2>1, <2>2 DEF Appends
<1> QED
  BY <1>6, <1>7

LEMMA InitInvariant == Init => IInv
<1> SUFFICES ASSUME Init PROVE IInv
  OBVIOUS
<1> DEFINE n == Len(lengths)
           parts == [i \in DOMAIN lengths |-> Message(i)]
<1>1. PICK k \in 0..MaxMessages : lengths \in [1..k -> LengthField]
  BY DEF Init, SeqOf
<1>2. /\ Lengths /\ n \in Nat /\ DOMAIN lengths = 1..n
  <2>1. LengthField \subseteq [1..4 -> Nat]
    BY FramingAssumption DEF LengthField
  <2>2. k \in Nat /\ lengths \in Seq(LengthField)
    BY <1>1, FramingAssumption
  <2>3. lengths \in Seq([1..4 -> Nat])
    BY <2>1, <2>2
  <2> QED
    BY <2>3 DEF Lengths
<1>3. /\ stream = FlattenSeq(parts) /\ buf = << >> /\ handled = << >>
      /\ looping = FALSE /\ closed = FALSE /\ stopped = FALSE /\ short = 0 /\ gaps = {}
  BY DEF Init
<1>4. /\ parts \in Seq(Seq(Cells)) /\ Len(parts) = n /\ \A i \in 1..n : parts[i] = Message(i)
  <2>1. \A i \in DOMAIN lengths : Message(i) \in Seq(Cells)
    <3> SUFFICES ASSUME NEW i \in DOMAIN lengths PROVE Message(i) \in Seq(Cells)
      OBVIOUS
    <3>1. Size(i) \in Nat /\ Message(i) = [j \in 1..Size(i) |-> <<i, j>>] /\ i \in Nat
      BY <1>2, SizeType
    <3>2. \A j \in 1..Size(i) : <<i, j>> \in Cells
      BY <3>1 DEF Cells
    <3> QED
      BY <3>1, <3>2
  <2>2. parts \in [1..n -> Seq(Cells)]
    BY <1>2, <2>1
  <2> QED
    BY <1>2, <2>2
<1> HIDE DEF parts, n
<1>5. Begun(<< >>, 0)
  <2>1. /\ << >> \in Seq(Cells) /\ DOMAIN << >> = {} /\ 1..0 = {}
    OBVIOUS
  <2> QED
    BY <2>1 DEF Begun, Proper, Spaced
<1>6. Begun(stream, n)
  <2>1. CASE n = 0
    <3>1. FlattenSeq(parts) = parts /\ parts = << >>
      BY <1>4, <2>1 DEF FlattenSeq
    <3> QED
      BY <1>3, <1>5, <2>1, <3>1
  <2>2. CASE n # 0
    <3>1. PICK f : Appends(f, parts, n) /\ FlattenSeq(parts) = f[n]
      BY <1>4, <2>2, FlattenAppends
    <3> DEFINE P == {i \in 1..n : Begun(f[i], i)}
    <3>2. 1 \in P
      <4>1. 1 \in DOMAIN lengths /\ 1 \in 1..n /\ 1 - 1 = 0
        BY <1>2, <2>2
      <4>2. Begun(<< >> \o Message(1), 1)
        BY <1>2, <1>5, <4>1, MessageBegun
      <4>3. parts[1] \in Seq(Cells) /\ parts[1] = Message(1)
        BY <1>4, <4>1
      <4>4. << >> \o Message(1) = Message(1)
        BY <4>3
      <4>5. f[1] = Message(1)
        BY <3>1, <4>3 DEF Appends
      <4> QED
        BY <4>1, <4>2, <4>4, <4>5
    <3>3. ASSUME NEW i \in 2..n, i - 1 \in P PROVE i \in P
      <4>1. i \in DOMAIN lengths /\ i \in 1..n /\ Begun(f[i - 1], i - 1)
        BY <1>2, <3>3
      <4>2. Begun(f[i - 1] \o Message(i), i)
        BY <1>2, <4>1, MessageBegun
      <4>3. f[i] = f[i - 1] \o Message(i)
        BY <1>4, <3>1, <4>1 DEF Appends
      <4> QED
        BY <4>1, <4>2, <4>3
    <3>4. n \in P
      <4>1. n \in 1..n
        BY <1>2, <2>2
      <4> HIDE DEF P
      <4> QED
        BY <1>2, <3>2, <3>3, <4>1, Climb
    <3> QED
      BY <1>3, <3>1, <3>4
  <2> QED
    BY <2>1, <2>2
<1>7. Waiting = stream /\ stream \in Seq(Cells)
  <2>1. stream \in Seq(Cells)
    BY <1>6 DEF Begun
  <2>2. << >> \o stream = stream
    BY <2>1
  <2> QED
    BY <1>3, <2>1, <2>2 DEF Waiting
<1>8. \A p \in DOMAIN stream : stream[p] # ZERO
  BY <1>6 DEF Begun
<1>9. Shape
  <2>1. << >> \in Seq(Cells) /\ << >> \in Seq(Seq(Cells))
    OBVIOUS
  <2>2. 0 \in 0..MaxShortReads
    BY FramingAssumption
  <2>3. looping \in BOOLEAN /\ closed \in BOOLEAN /\ stopped \in BOOLEAN /\ ~ looping
    BY <1>3
  <2>4. gaps \subseteq (1..(Len(lengths) + 1)) \X (Nat \ {0})
    BY <1>3
  <2> QED
    BY <1>2, <1>3, <1>7, <1>8, <2>1, <2>2, <2>3, <2>4 DEF Shape
<1>10. Linked(stream, gaps)
  <2> SUFFICES ASSUME NEW p \in DOMAIN stream, Follower(stream[p])[1] \in DOMAIN lengths
               PROVE  p + 1 \in DOMAIN stream /\ stream[p + 1] = Follower(stream[p])
    BY DEF Linked
  <2>1. \/ p + 1 \in DOMAIN stream /\ stream[p + 1] = Follower(stream[p])
        \/ p = Len(stream) /\ stream[p] = <<n, Size(n)>>
    BY <1>6 DEF Begun
  <2>2. ASSUME stream[p] = <<n, Size(n)>> PROVE FALSE
    <3>1. stream[p] # ZERO /\ Proper(stream)
      BY <1>6 DEF Begun
    <3>2. stream[p][1] = n /\ stream[p][2] = Size(n) /\ n \in DOMAIN lengths
      BY <2>2, <3>1 DEF Proper
    <3>3. Size(n) \in Nat
      BY <1>2, <3>2, SizeType
    <3>4. Follower(stream[p]) = <<n + 1, 1>>
      BY <3>2, <3>3 DEF Follower
    <3>5. n + 1 \in 1..n
      BY <1>2, <3>4
    <3> QED
      BY <1>2, <3>5
  <2> QED
    BY <2>1, <2>2
<1>11. Line(stream, gaps)
  BY <1>6, <1>10 DEF Line, Begun
<1>12. Awaits(stream, 0, gaps)
  <2>1. ASSUME NEW i \in DOMAIN lengths PROVE \E p \in DOMAIN stream : stream[p] = <<i, 1>>
    BY <1>2, <1>6 DEF Begun
  <2>2. ASSUME NEW p \in DOMAIN stream, stream[p][2] = 1 PROVE 0 < stream[p][1]
    <3>1. stream[p][1] \in DOMAIN lengths
      BY <1>6, <1>8 DEF Begun, Proper
    <3> QED
      BY <1>2, <3>1
  <2> QED
    BY <2>1, <2>2 DEF Awaits
<1>13. Unbroken(stream, gaps)
  BY <1>6, <1>8 DEF Unbroken, Begun
<1>14. Pending
  <2>1. Latest = 0
    BY <1>3 DEF Latest
  <2> QED
    BY <1>7, <1>11, <1>12, <1>13, <2>1 DEF Pending
<1>15. Past
  <2>1. DOMAIN handled = {}
    BY <1>3
  <2> QED
    BY <2>1 DEF Past, HandledInOrder, OwnCellsOnly, UntornIntact, Headed
<1>16. FullReadsAreSafe
  BY <1>3 DEF FullReadsAreSafe
<1> QED
  BY <1>9, <1>14, <1>15, <1>16 DEF IInv

-----------------------------------------------------------------------------
(* The theorems.                                                           *)

(* The invariant holds always.                                             *)
LEMMA Invariant == Spec => []IInv
<1>1. Init => IInv
  BY InitInvariant
<1>2. IInv /\ [Next]_vars => IInv'
  <2> SUFFICES ASSUME IInv, [Next]_vars PROVE IInv'
    OBVIOUS
  <2>1. CASE \E n \in 0..SUGGESTED_SIZE : on_read(n)
    BY <2>1, ReadKeeps
  <2>2. CASE HandleMessage
    BY <2>2, HandleKeeps
  <2>3. CASE ParserStops \/ SearchOverruns
    BY <2>3, StopKeeps
  <2>4. CASE AwaitData
    BY <2>4, AwaitKeeps
  <2>5. CASE on_read_error \/ UNCHANGED vars
    BY <2>5, ErrorKeeps
  <2> QED
    BY <2>1, <2>2, <2>3, <2>4, <2>5 DEF Next, Turn
<1> QED
  BY <1>1, <1>2, PTL DEF Spec

(* on_read never makes a byte up: the buffer and what is handled hold      *)
(* bytes of messages that were sent, and zeros.                            *)
THEOREM TypeCorrect == Spec => []TypeOK
<1>1. ASSUME IInv PROVE TypeOK
  <2> DEFINE Byte == {ZERO} \cup UNION {ToSet(Message(i)) : i \in DOMAIN lengths}
  <2>0. /\ buf \in Seq(Cells) /\ stream \in Seq(Cells) /\ Lengths /\ Line(buf \o stream, gaps)
    BY <1>1 DEF IInv, Shape, Pending, Waiting
  <2>1. ASSUME NEW c \in Cells, c[1] \in DOMAIN lengths, c[2] \in 1..Size(c[1]) PROVE c \in Byte
    <3>1. Message(c[1]) = [j \in 1..Size(c[1]) |-> <<c[1], j>>]
      BY <2>0, <2>1, SizeType
    <3>2. c = <<c[1], c[2]>>
      BY CellType
    <3>3. c[2] \in DOMAIN Message(c[1]) /\ Message(c[1])[c[2]] = c
      BY <2>1, <3>1, <3>2
    <3>4. c \in ToSet(Message(c[1]))
      BY <3>3 DEF ToSet
    <3> QED
      BY <2>1, <3>4
  <2>2. ASSUME NEW p \in DOMAIN (buf \o stream) PROVE (buf \o stream)[p] \in Byte
    <3> DEFINE c == (buf \o stream)[p]
    <3>1. c \in Cells
      BY <2>0
    <3>2. c = ZERO \/ (c[1] \in DOMAIN lengths /\ c[2] \in 1..Size(c[1]))
      BY <2>0 DEF Line, Proper
    <3> HIDE DEF c, Byte
    <3>3. c = ZERO => c \in Byte
      BY DEF Byte
    <3>4. c \in Byte
      BY <2>1, <3>1, <3>2, <3>3
    <3> QED
      BY <3>4 DEF c
  <2>3. ToSet(stream) \cup ToSet(buf) \subseteq Byte
    <3> HIDE DEF Byte
    <3>1. \A p \in DOMAIN buf : p \in DOMAIN (buf \o stream) /\ buf[p] = (buf \o stream)[p]
      BY <2>0, Concatenation
    <3>2. \A p \in DOMAIN stream :
             Len(buf) + p \in DOMAIN (buf \o stream) /\ stream[p] = (buf \o stream)[Len(buf) + p]
      BY <2>0, Concatenation
    <3> QED
      BY <2>2, <3>1, <3>2 DEF ToSet
  <2>4. ASSUME NEW k \in DOMAIN handled PROVE ToSet(handled[k]) \subseteq Byte
    <3>1. NumberOf(k) \in DOMAIN lengths
      BY <1>1 DEF IInv, Past, Headed
    <3>2. \A p \in DOMAIN handled[k] :
             handled[k][p] = ZERO \/ handled[k][p] \in ToSet(Message(NumberOf(k)))
      BY <1>1 DEF IInv, Past, OwnCellsOnly
    <3> QED
      BY <3>1, <3>2 DEF ToSet
  <2> QED
    BY <1>1, <2>3, <2>4 DEF TypeOK, IInv, Shape
<1> QED
  BY <1>1, Invariant, PTL

(* on_read handles the messages in the order in which they were sent, and  *)
(* skips none but those into whose magic number a read inserts zeros,      *)
(* however the stream is split into reads.                                 *)
THEOREM AlwaysInOrder == Spec => []HandledInOrder
<1>1. IInv => HandledInOrder
  BY DEF IInv, Past
<1> QED
  BY <1>1, Invariant, PTL

(* What on_read handles as a message has no byte of another one, whatever  *)
(* is skipped, damaged or left in the buffer before it.                    *)
THEOREM AlwaysOwnCells == Spec => []OwnCellsOnly
<1>1. IInv => OwnCellsOnly
  BY DEF IInv, Past
<1> QED
  BY <1>1, Invariant, PTL

(* A message between whose bytes no read inserts zeros is handled as it    *)
(* was sent, whatever the reads before left in the buffer.                 *)
THEOREM UntornAlwaysIntact == Spec => []UntornIntact
<1>1. IInv => UntornIntact
  BY DEF IInv, Past
<1> QED
  BY <1>1, Invariant, PTL

(* As long as every read fills the buffer of libuv, on_read neither hands  *)
(* on a damaged message nor runs behind its buffer, although the remains   *)
(* of a message may be too short for a header.                             *)
THEOREM FullReadsAlwaysSafe == Spec => []FullReadsAreSafe
<1>1. IInv => FullReadsAreSafe
  BY DEF IInv
<1> QED
  BY <1>1, Invariant, PTL

-----------------------------------------------------------------------------
(* The other reader of a byte stream: on_read of http.c.                   *)
CONSTANTS Hash, Stored, First, Later, BufferSize, MaxRequests, MaxReads
VARIABLES asked, bytes, text, reads, replies, open, crashed

Server == INSTANCE Http WITH stream <- bytes, buf <- text, stopped <- crashed

(* Urls, and where a word of a url ends.                                   *)
IsUrl(url) == url \in Seq(ToSet(url) \ {"nul"})

Places(url) == 1..(Len(url) + 1)

WordEnd(url, j) == Server!WildcardEnd(url, j)

LEMMA UrlChars ==
    ASSUME NEW url, IsUrl(url)
    PROVE  /\ Len(url) \in Nat /\ url \in Seq(ToSet(url)) /\ DOMAIN url = 1..Len(url)
           /\ \A k \in 1..Len(url) : /\ Server!At(url, k) = url[k]
                                     /\ url[k] # "nul"
           /\ Server!At(url, Len(url) + 1) = "nul"
           /\ \A k \in Places(url) : k \in Nat \ {0} /\ (k <= Len(url) \/ k = Len(url) + 1)
<1>1. Len(url) \in Nat /\ DOMAIN url = 1..Len(url) /\ url \in Seq(ToSet(url))
  BY DEF IsUrl
<1>2. \A k \in 1..Len(url) : url[k] \in ToSet(url) \ {"nul"}
  BY DEF IsUrl
<1> QED
  BY <1>1, <1>2 DEF Server!At, Places

LEMMA WordEnds ==
    ASSUME NEW url, IsUrl(url), NEW j \in Places(url)
    PROVE  /\ WordEnd(url, j) \in Places(url) /\ j <= WordEnd(url, j)
           /\ WordEnd(url, j) <= Len(url) => url[WordEnd(url, j)] = "/"
           /\ \A k \in j..(WordEnd(url, j) - 1) : k \in 1..Len(url) /\ url[k] # "/"
<1> DEFINE ends == {k \in j..(Len(url) + 1) : Server!At(url, k) \in {"/", "nul"}}
<1>1. Len(url) \in Nat /\ j \in Nat \ {0} /\ j <= Len(url) + 1
  BY UrlChars DEF Places
<1>2. Len(url) + 1 \in ends
  BY <1>1, UrlChars
<1>3. ends \in SUBSET Nat /\ ends # {}
  BY <1>1, <1>2
<1>4. Min(ends) \in ends /\ \A l \in ends : Min(ends) <= l
  BY <1>3, LeastNumber
<1>5. WordEnd(url, j) = CHOOSE k \in ends : \A l \in ends : k <= l
  BY DEF WordEnd, Server!WildcardEnd
<1>6. WordEnd(url, j) \in ends /\ \A l \in ends : WordEnd(url, j) <= l
  BY <1>4, <1>5
<1> DEFINE e == WordEnd(url, j)
<1> HIDE DEF e
<1>7. e \in j..(Len(url) + 1) /\ Server!At(url, e) \in {"/", "nul"}
  BY <1>6 DEF e
<1>8. e \in Places(url) /\ j <= e /\ e \in Nat
  BY <1>1, <1>7 DEF Places
<1>9. e <= Len(url) => url[e] = "/"
  <2> SUFFICES ASSUME e <= Len(url) PROVE url[e] = "/"
    OBVIOUS
  <2>1. e \in 1..Len(url)
    BY <1>1, <1>7
  <2> QED
    BY <1>7, <2>1, UrlChars
<1>10. ASSUME NEW k \in j..(e - 1) PROVE k \in 1..Len(url) /\ url[k] # "/"
  <2>1. k \in 1..Len(url) /\ k \in j..(Len(url) + 1) /\ ~ (e <= k)
    BY <1>1, <1>7, <1>8
  <2>2. k \notin ends
    BY <1>6, <2>1 DEF e
  <2>3. Server!At(url, k) \notin {"/", "nul"} /\ Server!At(url, k) = url[k]
    BY <2>1, <2>2, UrlChars
  <2> QED
    BY <2>1, <2>3
<1> QED
  BY <1>8, <1>9, <1>10 DEF e

(* Nothing is left of the url from j on, or a slash.                       *)
AtEnd(url, j) == j = Len(url) + 1 \/ (j = Len(url) /\ url[j] = "/")

(* A slash is left that may be missing, and perhaps one more.              *)
AtSlash(url, j) == j = Len(url) + 1 \/ (url[j] = "/" /\ AtEnd(url, j + 1))

-----------------------------------------------------------------------------
(* The rules of MatchFrom one by one.                                      *)

Char(pattern, i) == Server!At(pattern, i)

LEMMA MatchEnd ==
    ASSUME NEW url, IsUrl(url), NEW j \in Places(url), NEW pattern, NEW i, NEW below,
           Char(pattern, i) = "nul"
    PROVE  Server!MatchFrom(pattern, url, i, j, below) = IF AtEnd(url, j) THEN {<< >>} ELSE {}
<1>1. /\ j <= Len(url) => /\ Server!At(url, j) = url[j] /\ url[j] # "nul"
      /\ j = Len(url) + 1 => Server!At(url, j) = "nul"
      /\ j <= Len(url) \/ j = Len(url) + 1
      /\ Len(url) \in Nat /\ j \in Nat
  BY UrlChars DEF Places
<1>2. CASE j = Len(url) + 1
  BY <1>1, <1>2 DEF AtEnd, Char, Server!MatchFrom
<1>3. CASE j <= Len(url) /\ AtEnd(url, j)
  BY <1>1, <1>3 DEF AtEnd, Char, Server!MatchFrom
<1>4. CASE j <= Len(url) /\ ~ AtEnd(url, j)
  BY <1>1, <1>4 DEF AtEnd, Char, Server!MatchFrom
<1> QED
  BY <1>1, <1>2, <1>3, <1>4

LEMMA MatchLastSlash ==
    ASSUME NEW url, IsUrl(url), NEW j \in Places(url), NEW pattern, NEW i, NEW below,
           Char(pattern, i) = "/", i = Len(pattern),
           \A k \in Places(url) : below[k] = IF AtEnd(url, k) THEN {<< >>} ELSE {}
    PROVE  Server!MatchFrom(pattern, url, i, j, below) = IF AtSlash(url, j) THEN {<< >>} ELSE {}
<1>1. /\ j <= Len(url) => /\ Server!At(url, j) = url[j] /\ url[j] # "nul" /\ j + 1 \in Places(url)
      /\ j = Len(url) + 1 => Server!At(url, j) = "nul"
      /\ j <= Len(url) \/ j = Len(url) + 1
      /\ Len(url) \in Nat /\ j \in Nat
  BY UrlChars DEF Places
<1>2. CASE j = Len(url) + 1
  BY <1>1, <1>2 DEF AtSlash, Char, Server!MatchFrom
<1>3. CASE j <= Len(url) /\ url[j] = "/"
  <2>1. Server!MatchFrom(pattern, url, i, j, below) = below[j + 1]
    BY <1>1, <1>3 DEF Char, Server!MatchFrom
  <2> QED
    BY <1>1, <1>3, <2>1 DEF AtSlash
<1>4. CASE j <= Len(url) /\ url[j] # "/"
  BY <1>1, <1>4 DEF AtSlash, Char, Server!MatchFrom
<1> QED
  BY <1>1, <1>2, <1>3, <1>4

LEMMA MatchChar ==
    ASSUME NEW url, IsUrl(url), NEW j \in Places(url), NEW pattern, NEW i, NEW below,
           Char(pattern, i) = "/" \/ Char(pattern, i) = "block", i # Len(pattern),
           j <= Len(url), url[j] = Char(pattern, i)
    PROVE  Server!MatchFrom(pattern, url, i, j, below) = below[j + 1]
<1>1. Server!At(url, j) = url[j] /\ url[j] # "nul"
  BY UrlChars DEF Places
<1> QED
  BY <1>1 DEF Char, Server!MatchFrom

LEMMA MatchNoChar ==
    ASSUME NEW url, IsUrl(url), NEW j \in Places(url), NEW pattern, NEW i, NEW below,
           Char(pattern, i) = "/" \/ Char(pattern, i) = "block", i # Len(pattern),
           ~ (j <= Len(url) /\ url[j] = Char(pattern, i))
    PROVE  Server!MatchFrom(pattern, url, i, j, below) = {}
<1>1. /\ j <= Len(url) => /\ Server!At(url, j) = url[j] /\ url[j] # "nul"
      /\ j = Len(url) + 1 => Server!At(url, j) = "nul"
      /\ j <= Len(url) \/ j = Len(url) + 1
      /\ Len(url) \in Nat /\ j \in Nat
  BY UrlChars DEF Places
<1>2. CASE j = Len(url) + 1
  BY <1>1, <1>2 DEF Char, Server!MatchFrom
<1>3. CASE j <= Len(url) /\ url[j] # Char(pattern, i)
  BY <1>1, <1>3 DEF Char, Server!MatchFrom
<1> QED
  BY <1>1, <1>2, <1>3

LEMMA MatchCharOrNot ==
    ASSUME NEW url, IsUrl(url), NEW j \in Places(url), NEW pattern, NEW i, NEW below,
           Char(pattern, i) = "/" \/ Char(pattern, i) = "block", i # Len(pattern)
    PROVE  Server!MatchFrom(pattern, url, i, j, below) =
             IF j <= Len(url) /\ url[j] = Char(pattern, i) THEN below[j + 1] ELSE {}
<1>1. CASE j <= Len(url) /\ url[j] = Char(pattern, i)
  <2>1. Server!MatchFrom(pattern, url, i, j, below) = below[j + 1]
    BY <1>1, MatchChar
  <2> QED
    BY <1>1, <2>1
<1>2. CASE ~ (j <= Len(url) /\ url[j] = Char(pattern, i))
  <2>1. Server!MatchFrom(pattern, url, i, j, below) = {}
    BY <1>2, MatchNoChar
  <2> QED
    BY <1>2, <2>1
<1> QED
  BY <1>1, <1>2

LEMMA MatchWildcard ==
    ASSUME NEW url, IsUrl(url), NEW j \in Places(url), NEW pattern, NEW i, NEW below,
           Char(pattern, i) = ":", ~ (j <= Len(url) /\ url[j] = ":")
    PROVE  Server!MatchFrom(pattern, url, i, j, below) =
             {<<SubSeq(url, j, WordEnd(url, j) - 1)>> \o params : params \in below[WordEnd(url, j)]}
<1>1. Server!At(url, j) # ":"
  BY UrlChars DEF Places
<1> QED
  BY <1>1 DEF Char, WordEnd, Server!MatchFrom

LEMMA MatchColon ==
    ASSUME NEW url, IsUrl(url), NEW j \in Places(url), NEW pattern, NEW i, NEW below,
           Char(pattern, i) = ":", j <= Len(url), url[j] = ":"
    PROVE  Server!MatchFrom(pattern, url, i, j, below) = below[j + 1]
<1>1. Server!At(url, j) = ":"
  BY UrlChars DEF Places
<1> QED
  BY <1>1 DEF Char, Server!MatchFrom
-----------------------------------------------------------------------------
(* resolve_pattern as a table of rows, each computed from the row below.   *)

Row(pattern, url, i, below) ==
    [j \in 1..(Len(url) + 1) |-> Server!MatchFrom(pattern, url, i, j, below)]

Table(pattern, url, m) ==
    [i \in 1..(Len(pattern) + 1) |-> Row(pattern, url, i, m[i + 1])]

LEMMA ResolveIs ==
    ASSUME NEW pattern, NEW url
    PROVE  Server!resolve_pattern(pattern, url)
             = (CHOOSE match : match = Table(pattern, url, match))[1][1]
  BY DEF Server!resolve_pattern, Table, Row

(* A pattern of n characters has a table if its last row needs no other.   *)
LEMMA TableExists ==
    ASSUME NEW pattern, NEW url, Len(pattern) \in Nat,
           \A x, y : Row(pattern, url, Len(pattern) + 1, x) = Row(pattern, url, Len(pattern) + 1, y)
    PROVE  \E m : m = Table(pattern, url, m)
<1> DEFINE n == Len(pattern) + 1
           Part(m, l) == [i \in l..n |-> Row(pattern, url, i, m[i + 1])]
           H == {k \in 0..(n - 1) : \E m : m = Part(m, n - k)}
<1>0. n \in Nat \ {0}
  OBVIOUS
<1>1. 0 \in H
  <2> DEFINE m == [i \in n..n |-> Row(pattern, url, n, 0)]
  <2> HIDE DEF n
  <2>1. Row(pattern, url, n, m[n + 1]) = Row(pattern, url, n, 0)
    BY DEF n
  <2>2. n..n = {n}
    BY <1>0
  <2>3. m = Part(m, n - 0)
    BY <1>0, <2>1, <2>2
  <2> HIDE DEF m
  <2>4. 0 \in 0..(n - 1)
    BY <1>0
  <2> QED
    BY <2>3, <2>4
<1>2. ASSUME NEW k \in 1..(n - 1), k - 1 \in H PROVE k \in H
  <2> HIDE DEF n
  <2>1. PICK m : m = Part(m, n - (k - 1))
    BY <1>2
  <2> DEFINE l == n - k
             q == [i \in l..n |-> IF i = l THEN Row(pattern, url, l, m[l + 1]) ELSE m[i]]
  <2>2. l \in Nat /\ l < n /\ n - (k - 1) = l + 1 /\ k \in 0..(n - 1)
    BY <1>0
  <2> HIDE DEF l
  <2>3. \A i \in (l + 1)..n : m[i] = Row(pattern, url, i, m[i + 1])
    BY <2>1, <2>2
  <2>4. ASSUME NEW i \in l..n PROVE q[i] = Row(pattern, url, i, q[i + 1])
    <3>1. CASE i = n
      <4>1. q[i] = m[i] /\ m[i] = Row(pattern, url, n, m[n + 1])
        BY <1>0, <2>2, <2>3, <3>1
      <4>2. Row(pattern, url, n, m[n + 1]) = Row(pattern, url, n, q[n + 1])
        BY DEF n
      <4> QED
        BY <3>1, <4>1, <4>2
    <3>2. CASE i # n
      <4>1. i + 1 \in l..n /\ i + 1 # l /\ q[i + 1] = m[i + 1]
        BY <1>0, <2>2, <2>4, <3>2
      <4>2. CASE i = l
        <5>1. q[i] = Row(pattern, url, l, m[l + 1])
          BY <2>4, <4>2
        <5> QED
          BY <4>1, <4>2, <5>1
      <4>3. CASE i # l
        <5>1. q[i] = m[i] /\ i \in (l + 1)..n
          BY <1>0, <2>2, <2>4, <4>3
        <5>2. m[i] = Row(pattern, url, i, m[i + 1])
          BY <2>3, <5>1
        <5> QED
          BY <4>1, <5>1, <5>2
      <4> QED
        BY <4>2, <4>3
    <3> QED
      BY <3>1, <3>2
  <2>5. q = [i \in l..n |-> q[i]]
    OBVIOUS
  <2> HIDE DEF q
  <2>6. q = Part(q, l)
    BY <2>4, <2>5
  <2> QED
    BY <2>2, <2>6 DEF l
<1> HIDE DEF H
<1> DEFINE Bad == {k \in 0..(n - 1) : k \notin H}
<1>3. Bad = {}
  <2> SUFFICES ASSUME Bad # {} PROVE FALSE
    OBVIOUS
  <2>1. Bad \in SUBSET Nat
    BY <1>0
  <2>2. Min(Bad) \in Bad /\ \A e \in Bad : Min(Bad) <= e
    BY <2>1, LeastNumber
  <2> DEFINE b == Min(Bad)
  <2>3. b \in 0..(n - 1) /\ b \notin H /\ b # 0
    BY <1>1, <2>2
  <2> HIDE DEF n
  <2>4. b \in 1..(n - 1) /\ b - 1 \in 0..(n - 1) /\ ~ (b <= b - 1)
    BY <1>0, <2>3
  <2>5. b - 1 \in H
    BY <2>2, <2>4
  <2> QED
    BY <1>2, <2>3, <2>4, <2>5
<1>4. n - 1 \in 0..(n - 1)
  BY <1>0
<1>5. n - 1 \in H
  BY <1>3, <1>4
<1>6. PICK m : m = Part(m, n - (n - 1))
  BY <1>5 DEF H
<1>7. n - (n - 1) = 1
  BY <1>0
<1> QED
  BY <1>6, <1>7 DEF Table

EndRow(url) == [j \in Places(url) |-> IF AtEnd(url, j) THEN {<< >>} ELSE {}]

LEMMA LastRow ==
    ASSUME NEW url, IsUrl(url), NEW pattern, NEW i, Char(pattern, i) = "nul", NEW x
    PROVE  Row(pattern, url, i, x) = EndRow(url)
<1>1. \A j \in Places(url) :
          Server!MatchFrom(pattern, url, i, j, x) = IF AtEnd(url, j) THEN {<< >>} ELSE {}
  BY MatchEnd
<1> QED
  BY <1>1 DEF Row, EndRow, Places

(* The rows of the table are those that MatchFrom gives.                   *)
IsTable(m, pattern, url) ==
    \A i \in 1..(Len(pattern) + 1), j \in Places(url) :
        m[i][j] = Server!MatchFrom(pattern, url, i, j, m[i + 1])

LEMMA RowsOf ==
    ASSUME NEW url, IsUrl(url), NEW pattern, Len(pattern) \in Nat,
           Char(pattern, Len(pattern) + 1) = "nul"
    PROVE  \E m : Server!resolve_pattern(pattern, url) = m[1][1] /\ IsTable(m, pattern, url)
<1> DEFINE m == CHOOSE match : match = Table(pattern, url, match)
<1>1. \A x, y : Row(pattern, url, Len(pattern) + 1, x) = Row(pattern, url, Len(pattern) + 1, y)
  BY LastRow
<1>2. \E match : match = Table(pattern, url, match)
  BY <1>1, TableExists
<1>3. m = Table(pattern, url, m)
  BY <1>2
<1>4. Server!resolve_pattern(pattern, url) = m[1][1]
  BY ResolveIs
<1> HIDE DEF m
<1>5. ASSUME NEW i \in 1..(Len(pattern) + 1), NEW j \in Places(url)
      PROVE  m[i][j] = Server!MatchFrom(pattern, url, i, j, m[i + 1])
  <2>1. m[i] = Row(pattern, url, i, m[i + 1])
    BY <1>3 DEF Table
  <2> QED
    BY <2>1 DEF Row, Places
<1>6. IsTable(m, pattern, url)
  BY <1>5 DEF IsTable
<1> QED
  BY <1>4, <1>6

LEMMA BlocksPattern ==
    LET p == Server!BLOCKS_PATTERN
    IN  /\ Len(p) = 3
        /\ Char(p, 1) = "/" /\ Char(p, 2) = "block" /\ Char(p, 3) = "/" /\ Char(p, 4) = "nul"
  BY DEF Server!BLOCKS_PATTERN, Char, Server!At

LEMMA BlockPattern ==
    LET p == Server!BLOCK_PATTERN
    IN  /\ Len(p) = 5
        /\ Char(p, 1) = "/" /\ Char(p, 2) = "block" /\ Char(p, 3) = "/"
        /\ Char(p, 4) = ":" /\ Char(p, 5) = "/" /\ Char(p, 6) = "nul"
  BY DEF Server!BLOCK_PATTERN, Char, Server!At

(* What the two patterns match.                                            *)
Begins(url, n) ==
    /\ n <= Len(url)
    /\ n >= 1 => url[1] = "/"
    /\ n >= 2 => url[2] = "block"
    /\ n >= 3 => url[3] = "/"

LEMMA BlocksMatched ==
    ASSUME NEW url, IsUrl(url)
    PROVE  Server!resolve_pattern(Server!BLOCKS_PATTERN, url) =
             IF Begins(url, 2) /\ AtSlash(url, 3) THEN {<< >>} ELSE {}
<1> DEFINE p == Server!BLOCKS_PATTERN
<1>1. Len(url) \in Nat /\ \A j \in Places(url) : j \in Nat \ {0} /\ (j <= Len(url) => j + 1 \in Places(url))
  BY UrlChars DEF Places
<1>0. /\ Len(p) = 3
      /\ Char(p, 1) = "/" /\ Char(p, 2) = "block" /\ Char(p, 3) = "/" /\ Char(p, 4) = "nul"
  BY BlocksPattern
<1> HIDE DEF p
<1>2. PICK m : Server!resolve_pattern(p, url) = m[1][1] /\ IsTable(m, p, url)
  <2>1. Len(p) \in Nat /\ Char(p, Len(p) + 1) = "nul"
    BY <1>0
  <2> QED
    BY <2>1, RowsOf
<1>3. \A j \in Places(url) :
          /\ m[1][j] = Server!MatchFrom(p, url, 1, j, m[2])
          /\ m[2][j] = Server!MatchFrom(p, url, 2, j, m[3])
          /\ m[3][j] = Server!MatchFrom(p, url, 3, j, m[4])
          /\ m[4][j] = Server!MatchFrom(p, url, 4, j, m[5])
  BY <1>0, <1>2 DEF IsTable
<1>4. \A j \in Places(url) : m[4][j] = IF AtEnd(url, j) THEN {<< >>} ELSE {}
  <2>1. \A j \in Places(url) : Server!MatchFrom(p, url, 4, j, m[5]) =
            IF AtEnd(url, j) THEN {<< >>} ELSE {}
    BY <1>0, MatchEnd
  <2> QED
    BY <1>3, <2>1
<1>5. \A j \in Places(url) : m[3][j] = IF AtSlash(url, j) THEN {<< >>} ELSE {}
  <2>1. \A j \in Places(url) : Server!MatchFrom(p, url, 3, j, m[4]) = IF AtSlash(url, j) THEN {<< >>} ELSE {}
    BY <1>0, <1>4, MatchLastSlash
  <2> QED
    BY <1>3, <2>1
<1>6. \A j \in Places(url) : m[2][j] = IF j <= Len(url) /\ url[j] = "block" THEN m[3][j + 1] ELSE {}
  <2>1. (Char(p, 2) = "/" \/ Char(p, 2) = "block") /\ 2 # Len(p)
    BY <1>0
  <2>2. \A j \in Places(url) : Server!MatchFrom(p, url, 2, j, m[3]) =
            IF j <= Len(url) /\ url[j] = Char(p, 2) THEN m[3][j + 1] ELSE {}
    BY <2>1, MatchCharOrNot
  <2> QED
    BY <1>0, <1>3, <2>2
<1>7. \A j \in Places(url) : m[1][j] = IF j <= Len(url) /\ url[j] = "/" THEN m[2][j + 1] ELSE {}
  <2>1. (Char(p, 1) = "/" \/ Char(p, 1) = "block") /\ 1 # Len(p)
    BY <1>0
  <2>2. \A j \in Places(url) : Server!MatchFrom(p, url, 1, j, m[2]) =
            IF j <= Len(url) /\ url[j] = Char(p, 1) THEN m[2][j + 1] ELSE {}
    BY <2>1, MatchCharOrNot
  <2> QED
    BY <1>0, <1>3, <2>2
<1>8. 1 \in Places(url) /\ (1 <= Len(url) => 2 \in Places(url)) /\ (2 <= Len(url) => 3 \in Places(url))
  BY <1>1 DEF Places
<1>9. m[1][1] = IF 1 <= Len(url) /\ url[1] = "/" THEN m[2][2] ELSE {}
  BY <1>7, <1>8
<1>10. 1 <= Len(url) => m[2][2] = IF 2 <= Len(url) /\ url[2] = "block" THEN m[3][3] ELSE {}
  BY <1>6, <1>8
<1>11. 2 <= Len(url) => m[3][3] = IF AtSlash(url, 3) THEN {<< >>} ELSE {}
  BY <1>5, <1>8
<1>12. CASE Begins(url, 2)
  <2>1. 2 <= Len(url) /\ url[1] = "/" /\ url[2] = "block"
    BY <1>12 DEF Begins
  <2>2. 1 <= Len(url)
    BY <1>1, <2>1
  <2> QED
    BY <1>2, <1>9, <1>10, <1>11, <1>12, <2>1, <2>2 DEF p
<1>13. CASE ~ Begins(url, 2)
  <2>1. ~ (1 <= Len(url)) \/ url[1] # "/" \/ ~ (2 <= Len(url)) \/ url[2] # "block"
    BY <1>1, <1>13 DEF Begins
  <2> QED
    BY <1>2, <1>9, <1>10, <1>13, <2>1 DEF p
<1> QED
  BY <1>12, <1>13

(* A colon stands where the second pattern has its wildcard.               *)
Literal(url) == Begins(url, 3) /\ 4 <= Len(url) /\ url[4] = ":"

LEMMA BlockMatched ==
    ASSUME NEW url, IsUrl(url)
    PROVE  Server!resolve_pattern(Server!BLOCK_PATTERN, url) =
             IF Literal(url) THEN IF AtSlash(url, 5) THEN {<< >>} ELSE {}
             ELSE IF Begins(url, 3) /\ AtSlash(url, WordEnd(url, 4))
                  THEN {<<SubSeq(url, 4, WordEnd(url, 4) - 1)>>} ELSE {}
<1> DEFINE p == Server!BLOCK_PATTERN
<1>1. Len(url) \in Nat /\ \A j \in Places(url) : j \in Nat \ {0} /\ (j <= Len(url) => j + 1 \in Places(url))
  BY UrlChars DEF Places
<1>0. /\ Len(p) = 5
      /\ Char(p, 1) = "/" /\ Char(p, 2) = "block" /\ Char(p, 3) = "/" /\ Char(p, 4) = ":" /\ Char(p, 5) = "/" /\ Char(p, 6) = "nul"
  BY BlockPattern
<1> HIDE DEF p
<1>2. PICK m : Server!resolve_pattern(p, url) = m[1][1] /\ IsTable(m, p, url)
  <2>1. Len(p) \in Nat /\ Char(p, Len(p) + 1) = "nul"
    BY <1>0
  <2> QED
    BY <2>1, RowsOf
<1>3. \A j \in Places(url) :
          /\ m[1][j] = Server!MatchFrom(p, url, 1, j, m[2])
          /\ m[2][j] = Server!MatchFrom(p, url, 2, j, m[3])
          /\ m[3][j] = Server!MatchFrom(p, url, 3, j, m[4])
          /\ m[4][j] = Server!MatchFrom(p, url, 4, j, m[5])
          /\ m[5][j] = Server!MatchFrom(p, url, 5, j, m[6])
          /\ m[6][j] = Server!MatchFrom(p, url, 6, j, m[7])
  BY <1>0, <1>2 DEF IsTable
<1>4. \A j \in Places(url) : m[6][j] = IF AtEnd(url, j) THEN {<< >>} ELSE {}
  <2>1. \A j \in Places(url) : Server!MatchFrom(p, url, 6, j, m[7]) =
            IF AtEnd(url, j) THEN {<< >>} ELSE {}
    BY <1>0, MatchEnd
  <2> QED
    BY <1>3, <2>1
<1>5. \A j \in Places(url) : m[5][j] = IF AtSlash(url, j) THEN {<< >>} ELSE {}
  <2>1. \A j \in Places(url) : Server!MatchFrom(p, url, 5, j, m[6]) = IF AtSlash(url, j) THEN {<< >>} ELSE {}
    BY <1>0, <1>4, MatchLastSlash
  <2> QED
    BY <1>3, <2>1
<1>6. ASSUME NEW j \in Places(url), ~ (j <= Len(url) /\ url[j] = ":")
      PROVE  m[4][j] = IF AtSlash(url, WordEnd(url, j)) THEN {<<SubSeq(url, j, WordEnd(url, j) - 1)>>} ELSE {}
  <2>1. m[4][j] = {<<SubSeq(url, j, WordEnd(url, j) - 1)>> \o params : params \in m[5][WordEnd(url, j)]}
    <3>1. Server!MatchFrom(p, url, 4, j, m[5]) =
              {<<SubSeq(url, j, WordEnd(url, j) - 1)>> \o params : params \in m[5][WordEnd(url, j)]}
      BY <1>0, <1>6, MatchWildcard
    <3> QED
      BY <1>3, <3>1
  <2>2. m[5][WordEnd(url, j)] = IF AtSlash(url, WordEnd(url, j)) THEN {<< >>} ELSE {}
    BY <1>5, WordEnds
  <2>3. <<SubSeq(url, j, WordEnd(url, j) - 1)>> \o << >> = <<SubSeq(url, j, WordEnd(url, j) - 1)>>
    OBVIOUS
  <2> QED
    BY <2>1, <2>2, <2>3
<1>7. \A j \in Places(url) : m[3][j] = IF j <= Len(url) /\ url[j] = "/" THEN m[4][j + 1] ELSE {}
  <2>1. (Char(p, 3) = "/" \/ Char(p, 3) = "block") /\ 3 # Len(p)
    BY <1>0
  <2>2. \A j \in Places(url) : Server!MatchFrom(p, url, 3, j, m[4]) =
            IF j <= Len(url) /\ url[j] = Char(p, 3) THEN m[4][j + 1] ELSE {}
    BY <2>1, MatchCharOrNot
  <2> QED
    BY <1>0, <1>3, <2>2
<1>8. \A j \in Places(url) : m[2][j] = IF j <= Len(url) /\ url[j] = "block" THEN m[3][j + 1] ELSE {}
  <2>1. (Char(p, 2) = "/" \/ Char(p, 2) = "block") /\ 2 # Len(p)
    BY <1>0
  <2>2. \A j \in Places(url) : Server!MatchFrom(p, url, 2, j, m[3]) =
            IF j <= Len(url) /\ url[j] = Char(p, 2) THEN m[3][j + 1] ELSE {}
    BY <2>1, MatchCharOrNot
  <2> QED
    BY <1>0, <1>3, <2>2
<1>9. \A j \in Places(url) : m[1][j] = IF j <= Len(url) /\ url[j] = "/" THEN m[2][j + 1] ELSE {}
  <2>1. (Char(p, 1) = "/" \/ Char(p, 1) = "block") /\ 1 # Len(p)
    BY <1>0
  <2>2. \A j \in Places(url) : Server!MatchFrom(p, url, 1, j, m[2]) =
            IF j <= Len(url) /\ url[j] = Char(p, 1) THEN m[2][j + 1] ELSE {}
    BY <2>1, MatchCharOrNot
  <2> QED
    BY <1>0, <1>3, <2>2
<1>10. /\ 1 \in Places(url) /\ (1 <= Len(url) => 2 \in Places(url))
       /\ (2 <= Len(url) => 3 \in Places(url)) /\ (3 <= Len(url) => 4 \in Places(url))
  BY <1>1 DEF Places
<1>11. m[1][1] = IF 1 <= Len(url) /\ url[1] = "/" THEN m[2][2] ELSE {}
  BY <1>9, <1>10
<1>12. 1 <= Len(url) => m[2][2] = IF 2 <= Len(url) /\ url[2] = "block" THEN m[3][3] ELSE {}
  BY <1>8, <1>10
<1>13. 2 <= Len(url) => m[3][3] = IF 3 <= Len(url) /\ url[3] = "/" THEN m[4][4] ELSE {}
  BY <1>7, <1>10
<1>16. ASSUME 4 \in Places(url), 4 <= Len(url), url[4] = ":"
       PROVE  m[4][4] = IF AtSlash(url, 5) THEN {<< >>} ELSE {}
  <2>1. Server!MatchFrom(p, url, 4, 4, m[5]) = m[5][4 + 1]
    BY <1>0, <1>16, MatchColon
  <2>2. 5 \in Places(url) /\ 4 + 1 = 5
    BY <1>1, <1>16 DEF Places
  <2> QED
    BY <1>3, <1>5, <1>16, <2>1, <2>2
<1>14. CASE Begins(url, 3)
  <2>3. 3 <= Len(url) /\ url[1] = "/" /\ url[2] = "block" /\ url[3] = "/"
    BY <1>14 DEF Begins
  <2>4. 1 <= Len(url) /\ 2 <= Len(url)
    BY <1>1, <2>3
  <2>1. m[1][1] = m[4][4] /\ 4 \in Places(url)
    BY <1>10, <1>11, <1>12, <1>13, <2>3, <2>4
  <2>2. CASE Literal(url)
    <3>1. m[4][4] = IF AtSlash(url, 5) THEN {<< >>} ELSE {}
      BY <1>16, <2>1, <2>2 DEF Literal
    <3> QED
      BY <1>2, <2>1, <2>2, <3>1 DEF p
  <2>5. CASE ~ Literal(url)
    <3>1. m[4][4] = IF AtSlash(url, WordEnd(url, 4)) THEN {<<SubSeq(url, 4, WordEnd(url, 4) - 1)>>} ELSE {}
      BY <1>6, <1>14, <2>1, <2>5 DEF Literal
    <3> QED
      BY <1>2, <1>14, <2>1, <2>5, <3>1 DEF p
  <2> QED
    BY <2>2, <2>5
<1>15. CASE ~ Begins(url, 3)
  <2>1. \/ ~ (1 <= Len(url)) \/ url[1] # "/" \/ ~ (2 <= Len(url)) \/ url[2] # "block"
        \/ ~ (3 <= Len(url)) \/ url[3] # "/"
    BY <1>1, <1>15 DEF Begins
  <2> QED
    BY <1>2, <1>11, <1>12, <1>13, <1>15, <2>1 DEF p, Literal
<1> QED
  BY <1>14, <1>15

-----------------------------------------------------------------------------
(* What the patterns ask for, by comparing whole urls.                     *)

LEMMA SameSequence ==
    ASSUME NEW S, NEW u \in Seq(S), NEW v \in Seq(S), Len(u) = Len(v),
           \A k \in 1..Len(u) : u[k] = v[k]
    PROVE  u = v
  OBVIOUS

LEMMA AlmostEqualIs ==
    ASSUME NEW S, "/" \in S, NEW u \in Seq(S), NEW v \in Seq(S)
    PROVE  Server!AlmostEqual(u, v) <=>
             \/ Len(u) = Len(v) /\ \A k \in 1..Len(u) : u[k] = v[k]
             \/ /\ Len(u) = Len(v) + 1 /\ u[Len(u)] = "/"
                /\ \A k \in 1..Len(v) : u[k] = v[k]
             \/ /\ Len(v) = Len(u) + 1 /\ v[Len(v)] = "/"
                /\ \A k \in 1..Len(u) : u[k] = v[k]
<1>1. ASSUME NEW x \in Seq(S), NEW y \in Seq(S)
      PROVE  x = Append(y, "/") <=> /\ Len(x) = Len(y) + 1 /\ x[Len(x)] = "/"
                                    /\ \A k \in 1..Len(y) : x[k] = y[k]
  <2>1. /\ Append(y, "/") \in Seq(S) /\ Len(Append(y, "/")) = Len(y) + 1 /\ Len(y) \in Nat
        /\ Append(y, "/")[Len(y) + 1] = "/"
        /\ \A k \in 1..Len(y) : Append(y, "/")[k] = y[k]
    BY <1>1
  <2>2. ASSUME /\ Len(x) = Len(y) + 1 /\ x[Len(x)] = "/"
               /\ \A k \in 1..Len(y) : x[k] = y[k]
        PROVE  x = Append(y, "/")
    <3>1. \A k \in 1..Len(x) : k \in 1..Len(y) \/ k = Len(y) + 1
      BY <2>1, <2>2
    <3> DEFINE z == Append(y, "/")
    <3> HIDE DEF z
    <3>2. \A k \in 1..Len(x) : x[k] = z[k]
      BY <2>1, <2>2, <3>1 DEF z
    <3>3. z \in Seq(S) /\ Len(x) = Len(z)
      BY <2>1, <2>2 DEF z
    <3> QED
      BY <3>2, <3>3, SameSequence DEF z
  <2> QED
    BY <2>1, <2>2
<1>2. u = v <=> Len(u) = Len(v) /\ \A k \in 1..Len(u) : u[k] = v[k]
  BY SameSequence
<1>3. v = Append(u, "/") <=> /\ Len(v) = Len(u) + 1 /\ v[Len(v)] = "/"
                             /\ \A k \in 1..Len(u) : v[k] = u[k]
  BY <1>1
<1>4. u = Append(v, "/") <=> /\ Len(u) = Len(v) + 1 /\ u[Len(u)] = "/"
                             /\ \A k \in 1..Len(v) : u[k] = v[k]
  BY <1>1
<1> QED
  BY <1>2, <1>3, <1>4 DEF Server!AlmostEqual

LEMMA OneMore ==
    ASSUME NEW S, NEW s \in Seq(S), NEW x \in S, NEW r, r = s \o <<x>>
    PROVE  /\ r \in Seq(S) /\ Len(r) = Len(s) + 1 /\ r[Len(s) + 1] = x
           /\ \A k \in 1..Len(s) : r[k] = s[k]
<1>1. <<x>> \in Seq(S) /\ Len(<<x>>) = 1 /\ <<x>>[1] = x /\ Len(s) \in Nat
  OBVIOUS
<1> DEFINE o == <<x>>
<1> HIDE DEF o
<1>2. r = s \o o /\ o \in Seq(S) /\ Len(o) = 1 /\ o[1] = x
  BY <1>1 DEF o
<1>3. 1..Len(s) \subseteq 1..(Len(s) + 1) /\ Len(s) + 1 \in 1..(Len(s) + 1)
  BY <1>1
<1> QED
  BY <1>1, <1>2, <1>3

LEMMA FlattenRuns ==
    ASSUME NEW S, NEW parts \in Seq(S), NEW n \in Nat \ {0}, Len(parts) = n
    PROVE  \E f : /\ FlattenSeq(parts) = f[n] /\ f[1] = parts[1]
                  /\ \A i \in 1..(n - 1) : f[i + 1] = f[i] \o parts[i + 1]
<1>1. Len(parts) # 0
  OBVIOUS
<1>2. PICK f : Appends(f, parts, Len(parts)) /\ FlattenSeq(parts) = f[Len(parts)]
  BY <1>1, FlattenAppends
<1>3. ASSUME NEW i \in 1..(n - 1) PROVE f[i + 1] = f[i] \o parts[i + 1]
  <2> DEFINE j == i + 1
  <2>1. j \in 2..Len(parts) /\ j - 1 = i
    OBVIOUS
  <2> HIDE DEF j
  <2>2. f[j] = f[j - 1] \o parts[j]
    BY <1>2, <2>1 DEF Appends
  <2> QED
    BY <2>1, <2>2 DEF j
<1> QED
  BY <1>2, <1>3 DEF Appends

(* The three parts that both patterns begin with.                          *)
Started(r) == Len(r) = 3 /\ r[1] = "/" /\ r[2] = "block" /\ r[3] = "/"

LEMMA StartedIs ==
    ASSUME NEW S, "/" \in S, "block" \in S, NEW a, NEW b, NEW c,
           a = <<"/">>, b = a \o <<"block">>, c = b \o <<"/">>
    PROVE  c \in Seq(S) /\ Started(c)
<1>1. a \in Seq(S) /\ Len(a) = 1 /\ a[1] = "/"
  OBVIOUS
<1>2. b \in Seq(S) /\ Len(b) = 2 /\ b[1] = "/" /\ b[2] = "block"
  <2>1. /\ b \in Seq(S) /\ Len(b) = Len(a) + 1 /\ b[Len(a) + 1] = "block"
        /\ \A k \in 1..Len(a) : b[k] = a[k]
    BY <1>1, OneMore
  <2>2. Len(a) + 1 = 2 /\ 1 \in 1..Len(a)
    BY <1>1
  <2> QED
    BY <1>1, <2>1, <2>2
<1>3. /\ c \in Seq(S) /\ Len(c) = Len(b) + 1 /\ c[Len(b) + 1] = "/"
      /\ \A k \in 1..Len(b) : c[k] = b[k]
  BY <1>2, OneMore
<1>4. Len(b) + 1 = 3 /\ 1 \in 1..Len(b) /\ 2 \in 1..Len(b)
  BY <1>2
<1> QED
  BY <1>2, <1>3, <1>4 DEF Started

Parts(pattern, t) ==
    [i \in 1..Len(pattern) |-> IF pattern[i] = ":" THEN t ELSE <<pattern[i]>>]

(* Operators of the community modules, as Http sees them.                  *)
LEMMA SameToSet == ASSUME NEW s PROVE Server!ToSet(s) = ToSet(s)
  BY DEF Server!ToSet, ToSet

LEMMA SameFlattenSeq == ASSUME NEW s PROVE Server!FlattenSeq(s) = FlattenSeq(s)
  BY DEF Server!FlattenSeq, FlattenSeq

LEMMA InstanceIs ==
    ASSUME NEW pattern, NEW t
    PROVE  Server!Instance(pattern, t) = FlattenSeq(Parts(pattern, t))
<1>1. Server!Instance(pattern, t) = Server!FlattenSeq(Parts(pattern, t))
  BY DEF Server!Instance, Parts
<1> QED
  BY <1>1, SameFlattenSeq

LEMMA BlocksInstance ==
    ASSUME NEW S, "/" \in S, "block" \in S, NEW t, NEW v, v = Server!Instance(Server!BLOCKS_PATTERN, t)
    PROVE  v \in Seq(S) /\ Started(v)
<1> DEFINE parts == <<<<"/">>, <<"block">>, <<"/">>>>
           p == Server!BLOCKS_PATTERN
<1>1. p = <<"/", "block", "/">> /\ Len(p) = 3 /\ p[1] = "/" /\ p[2] = "block" /\ p[3] = "/"
  BY DEF Server!BLOCKS_PATTERN
<1> HIDE DEF p
<1>2. Parts(p, t) = parts
  <2>1. 1..3 = {1, 2, 3}
    OBVIOUS
  <2> QED
    BY <1>1, <2>1 DEF Parts
<1>3. v = FlattenSeq(parts)
  <2>1. v = FlattenSeq(Parts(p, t))
    BY InstanceIs DEF p
  <2> HIDE DEF parts
  <2> QED
    BY <1>2, <2>1
<1>4. /\ parts \in Seq(Seq({"/", "block"})) /\ Len(parts) = 3 /\ 3 \in Nat \ {0}
      /\ parts[1] = <<"/">> /\ parts[2] = <<"block">> /\ parts[3] = <<"/">>
  OBVIOUS
<1> HIDE DEF parts
<1>5. PICK f : /\ FlattenSeq(parts) = f[3] /\ f[1] = parts[1]
               /\ \A i \in 1..(3 - 1) : f[i + 1] = f[i] \o parts[i + 1]
  BY <1>4, FlattenRuns
<1>6. f[2] = f[1] \o parts[2] /\ f[3] = f[2] \o parts[3]
  <2>1. 1 \in 1..(3 - 1) /\ 2 \in 1..(3 - 1) /\ 1 + 1 = 2 /\ 2 + 1 = 3
    OBVIOUS
  <2> QED
    BY <1>5, <2>1
<1> QED
  BY <1>3, <1>4, <1>5, <1>6, StartedIs

LEMMA BlockInstance ==
    ASSUME NEW S, "/" \in S, "block" \in S, NEW t \in Seq(S),
           NEW v, v = Server!Instance(Server!BLOCK_PATTERN, t)
    PROVE  /\ v \in Seq(S) /\ Len(v) = Len(t) + 4 /\ Len(t) \in Nat
           /\ v[1] = "/" /\ v[2] = "block" /\ v[3] = "/" /\ v[Len(t) + 4] = "/"
           /\ \A k \in 1..Len(t) : v[3 + k] = t[k]
<1> DEFINE parts == <<<<"/">>, <<"block">>, <<"/">>, t, <<"/">>>>
           p == Server!BLOCK_PATTERN
<1>1. /\ Len(p) = 5 /\ p[1] = "/" /\ p[2] = "block" /\ p[3] = "/" /\ p[4] = ":" /\ p[5] = "/"
  BY DEF Server!BLOCK_PATTERN
<1> HIDE DEF p
<1>2. Parts(p, t) = parts
  <2>1. 1..5 = {1, 2, 3, 4, 5}
    OBVIOUS
  <2> QED
    BY <1>1, <2>1 DEF Parts
<1>3. v = FlattenSeq(parts)
  <2>1. v = FlattenSeq(Parts(p, t))
    BY InstanceIs DEF p
  <2> HIDE DEF parts
  <2> QED
    BY <1>2, <2>1
<1>4. /\ parts \in Seq(Seq(S)) /\ Len(parts) = 5 /\ 5 \in Nat \ {0}
      /\ parts[1] = <<"/">> /\ parts[2] = <<"block">> /\ parts[3] = <<"/">>
      /\ parts[4] = t /\ parts[5] = <<"/">>
  OBVIOUS
<1> HIDE DEF parts
<1>5. PICK f : /\ FlattenSeq(parts) = f[5] /\ f[1] = parts[1]
               /\ \A i \in 1..(5 - 1) : f[i + 1] = f[i] \o parts[i + 1]
  BY <1>4, FlattenRuns
<1>6. /\ f[2] = f[1] \o parts[2] /\ f[3] = f[2] \o parts[3]
      /\ f[4] = f[3] \o parts[4] /\ f[5] = f[4] \o parts[5]
  <2>1. /\ 1 \in 1..(5 - 1) /\ 2 \in 1..(5 - 1) /\ 3 \in 1..(5 - 1) /\ 4 \in 1..(5 - 1)
        /\ 1 + 1 = 2 /\ 2 + 1 = 3 /\ 3 + 1 = 4 /\ 4 + 1 = 5
    OBVIOUS
  <2> QED
    BY <1>5, <2>1
<1>7. f[3] \in Seq(S) /\ Started(f[3])
  BY <1>4, <1>5, <1>6, StartedIs
<1> DEFINE c == f[3]
           w == f[4]
<1>8. c \in Seq(S) /\ Len(c) = 3 /\ c[1] = "/" /\ c[2] = "block" /\ c[3] = "/"
  BY <1>7 DEF Started
<1>9. w = c \o t /\ v = w \o <<"/">>
  BY <1>3, <1>4, <1>5, <1>6
<1> HIDE DEF c, w
<1>10. /\ w \in Seq(S) /\ Len(w) = Len(t) + 3 /\ Len(t) \in Nat
       /\ w[1] = "/" /\ w[2] = "block" /\ w[3] = "/"
       /\ \A k \in 1..Len(t) : w[3 + k] = t[k]
  <2>0. c \in Seq(S) /\ t \in Seq(S) /\ w = c \o t
    BY <1>8, <1>9
  <2>1. Len(c) \in Nat /\ Len(t) \in Nat /\ w \in Seq(S) /\ Len(w) = Len(c) + Len(t)
    BY <2>0
  <2>2. \A k \in 1..Len(c) : w[k] = c[k]
    BY <2>0, <2>1
  <2>3. \A k \in 1..Len(t) : w[Len(c) + k] = t[k]
    BY <2>0, <2>1
  <2>4. 1 \in 1..3 /\ 2 \in 1..3 /\ 3 \in 1..3 /\ 3 + Len(t) = Len(t) + 3
    BY <2>1
  <2> QED
    BY <1>8, <2>1, <2>2, <2>3, <2>4
<1>11. /\ v \in Seq(S) /\ Len(v) = Len(w) + 1 /\ v[Len(w) + 1] = "/"
       /\ \A k \in 1..Len(w) : v[k] = w[k]
  BY <1>9, <1>10, OneMore
<1> QED
  BY <1>10, <1>11

(* The url is the pattern with t in the place of the wildcard, but for a   *)
(* slash at the end.                                                       *)
Fits(url, t) ==
    /\ Begins(url, 3)
    /\ 3 + Len(t) <= Len(url)
    /\ \A k \in 1..Len(t) : url[3 + k] = t[k]
    /\ AtSlash(url, 4 + Len(t))
LEMMA FitsIs ==
    ASSUME NEW S, "/" \in S, "block" \in S, NEW url \in Seq(S), NEW t \in Seq(S)
    PROVE  Server!AlmostEqual(url, Server!Instance(Server!BLOCK_PATTERN, t)) <=> Fits(url, t)
<1> DEFINE v == Server!Instance(Server!BLOCK_PATTERN, t)
           n == Len(t)
<1>1. /\ v \in Seq(S) /\ Len(v) = n + 4 /\ n \in Nat
      /\ v[1] = "/" /\ v[2] = "block" /\ v[3] = "/" /\ v[n + 4] = "/"
      /\ \A k \in 1..n : v[3 + k] = t[k]
  BY BlockInstance
<1> HIDE DEF v, n
<1>2. Server!AlmostEqual(url, v) <=>
             \/ Len(url) = Len(v) /\ \A k \in 1..Len(url) : url[k] = v[k]
             \/ /\ Len(url) = Len(v) + 1 /\ url[Len(url)] = "/"
                /\ \A k \in 1..Len(v) : url[k] = v[k]
             \/ /\ Len(v) = Len(url) + 1 /\ v[Len(v)] = "/"
                /\ \A k \in 1..Len(url) : url[k] = v[k]
  <2>1. url \in Seq(S) /\ v \in Seq(S) /\ "/" \in S
    BY <1>1
  <2> QED
    BY <2>1, AlmostEqualIs
<1>3. Len(url) \in Nat
  OBVIOUS
<1>4. Fits(url, t) <=> /\ 3 + n <= Len(url)
                       /\ url[1] = "/" /\ url[2] = "block" /\ url[3] = "/"
                       /\ \A k \in 1..n : url[3 + k] = t[k]
                       /\ \/ n + 4 = Len(url) + 1
                          \/ url[n + 4] = "/" /\ (n + 5 = Len(url) + 1 \/ (n + 5 = Len(url) /\ url[n + 5] = "/"))
  BY <1>1, <1>3 DEF Fits, Begins, AtSlash, AtEnd, n
<1>5. ASSUME Server!AlmostEqual(url, v) PROVE Fits(url, t)
  <2>1. /\ 3 + n <= Len(url) /\ \A k \in 1..(3 + n) : url[k] = v[k]
    BY <1>1, <1>2, <1>3, <1>5
  <2>2. url[1] = "/" /\ url[2] = "block" /\ url[3] = "/" /\ \A k \in 1..n : url[3 + k] = t[k]
    BY <1>1, <2>1
  <2>3. \/ n + 4 = Len(url) + 1
        \/ url[n + 4] = "/" /\ (n + 5 = Len(url) + 1 \/ (n + 5 = Len(url) /\ url[n + 5] = "/"))
    BY <1>1, <1>2, <1>3, <1>5
  <2> QED
    BY <1>4, <2>1, <2>2, <2>3
<1>6. ASSUME Fits(url, t) PROVE Server!AlmostEqual(url, v)
  <2>1. ASSUME NEW k \in 1..(3 + n) PROVE url[k] = v[k]
    <3>1. CASE k <= 3
      BY <1>1, <1>4, <1>6, <3>1
    <3>2. CASE k > 3
      <4>1. k - 3 \in 1..n /\ 3 + (k - 3) = k
        BY <1>1, <3>2
      <4> QED
        BY <1>1, <1>4, <1>6, <4>1
    <3> QED
      BY <1>1, <3>1, <3>2
  <2>2. CASE n + 4 = Len(url) + 1
    BY <1>1, <1>2, <1>3, <2>1, <2>2
  <2>3. CASE url[n + 4] = "/" /\ n + 5 = Len(url) + 1
    <3>1. \A k \in 1..Len(url) : k \in 1..(3 + n) \/ k = n + 4
      BY <1>1, <1>3, <2>3
    <3> QED
      BY <1>1, <1>2, <1>3, <2>1, <2>3, <3>1
  <2>4. CASE url[n + 4] = "/" /\ n + 5 = Len(url) /\ url[n + 5] = "/"
    <3>1. \A k \in 1..Len(v) : k \in 1..(3 + n) \/ k = n + 4
      BY <1>1, <1>3, <2>4
    <3> QED
      BY <1>1, <1>2, <1>3, <2>1, <2>4, <3>1
  <2> QED
    BY <1>4, <1>6, <2>2, <2>3, <2>4
<1> QED
  BY <1>5, <1>6 DEF v

(* Of the texts without a slash one at most fits: the one up to WordEnd.   *)
LEMMA OneFits ==
    ASSUME NEW url, IsUrl(url), NEW S, NEW t \in Seq(S), "/" \notin ToSet(t)
    PROVE  Fits(url, t) <=> /\ Begins(url, 3) /\ AtSlash(url, WordEnd(url, 4))
                            /\ t = SubSeq(url, 4, WordEnd(url, 4) - 1)
<1> DEFINE n == Len(t)
<1>1. /\ n \in Nat /\ Len(url) \in Nat /\ \A k \in 1..n : t[k] # "/"
      /\ url \in Seq(ToSet(url)) /\ t \in Seq(ToSet(t))
  BY UrlChars DEF ToSet
<1> HIDE DEF n
<1> SUFFICES ASSUME Begins(url, 3)
             PROVE  Fits(url, t) <=> AtSlash(url, WordEnd(url, 4))
                                       /\ t = SubSeq(url, 4, WordEnd(url, 4) - 1)
  BY DEF Fits
<1>2. 4 \in Places(url) /\ 3 <= Len(url)
  BY <1>1 DEF Begins, Places
<1> DEFINE e == WordEnd(url, 4)
<1>3. /\ e \in 4..(Len(url) + 1) /\ (e <= Len(url) => url[e] = "/")
      /\ \A k \in 4..(e - 1) : k \in 1..Len(url) /\ url[k] # "/"
  BY <1>1, <1>2, WordEnds DEF Places
<1> HIDE DEF e
<1>4. /\ SubSeq(url, 4, e - 1) \in Seq(ToSet(url)) /\ Len(SubSeq(url, 4, e - 1)) = e - 4
      /\ \A k \in 1..(e - 4) : SubSeq(url, 4, e - 1)[k] = url[3 + k]
  <2>1. e - 1 <= Len(url) /\ e - 1 \in 3..Len(url)
    BY <1>1, <1>2, <1>3
  <2> QED
    BY <1>1, <1>2, <1>3, <2>1
<1>5. ASSUME Fits(url, t) PROVE AtSlash(url, e) /\ t = SubSeq(url, 4, e - 1)
  <2>1. /\ 3 + n <= Len(url) /\ (\A k \in 1..n : url[3 + k] = t[k]) /\ AtSlash(url, 4 + n)
    BY <1>5 DEF Fits, n
  <2>2. 4 + n <= e
    <3> SUFFICES ASSUME e < 4 + n PROVE FALSE
      BY <1>1, <1>3
    <3>1. e - 3 \in 1..n /\ 3 + (e - 3) = e /\ e <= Len(url)
      BY <1>1, <1>3, <2>1
    <3> QED
      BY <1>1, <1>3, <2>1, <3>1
  <2>3. e <= 4 + n
    <3> SUFFICES ASSUME 4 + n < e PROVE FALSE
      BY <1>1, <1>3
    <3>1. 4 + n \in 4..(e - 1) /\ 4 + n # Len(url) + 1
      BY <1>1, <1>3
    <3> QED
      BY <1>3, <2>1, <3>1 DEF AtSlash
  <2>4. e = 4 + n
    BY <1>1, <1>3, <2>2, <2>3
  <2>5. Len(t) = Len(SubSeq(url, 4, e - 1)) /\ \A k \in 1..Len(t) : t[k] = SubSeq(url, 4, e - 1)[k]
    <3>1. Len(t) = e - 4
      BY <1>1, <2>4 DEF n
    <3> QED
      BY <1>4, <2>1, <3>1 DEF n
  <2> DEFINE B == ToSet(url) \cup ToSet(t)
  <2>6. t \in Seq(B) /\ SubSeq(url, 4, e - 1) \in Seq(B)
    <3>1. ToSet(url) \subseteq B /\ ToSet(t) \subseteq B
      OBVIOUS
    <3> HIDE DEF B
    <3> QED
      BY <1>1, <1>4, <3>1
  <2> HIDE DEF B
  <2>7. t = SubSeq(url, 4, e - 1)
    BY <2>5, <2>6, SameSequence
  <2> QED
    BY <2>1, <2>4, <2>7
<1>6. ASSUME AtSlash(url, e), t = SubSeq(url, 4, e - 1) PROVE Fits(url, t)
  <2>1. Len(t) = e - 4 /\ 4 + Len(t) = e /\ 3 + Len(t) <= Len(url)
    BY <1>1, <1>3, <1>4, <1>6
  <2>2. \A k \in 1..Len(t) : url[3 + k] = t[k]
    BY <1>4, <1>6, <2>1
  <2> QED
    BY <1>6, <2>1, <2>2 DEF Fits
<1> QED
  BY <1>5, <1>6 DEF e

LEMMA TextIs ==
    ASSUME NEW url, NEW t
    PROVE  t \in Server!TextsWithin(url) <=>
             /\ "/" \notin ToSet(t)
             /\ \E i \in 1..(Len(url) + 1), j \in 0..Len(url) : t = SubSeq(url, i, j)
<1>1. t \in Server!TextsWithin(url) <=>
          /\ "/" \notin Server!ToSet(t)
          /\ \E i \in 1..(Len(url) + 1), j \in 0..Len(url) : t = SubSeq(url, i, j)
  BY DEF Server!TextsWithin
<1> QED
  BY <1>1, SameToSet

LEMMA TextsAre ==
    ASSUME NEW url, IsUrl(url)
    PROVE  /\ \A t \in Server!TextsWithin(url) : t \in Seq(ToSet(url)) /\ "/" \notin ToSet(t)
           /\ << >> \in Server!TextsWithin(url)
           /\ Begins(url, 3) => SubSeq(url, 4, WordEnd(url, 4) - 1) \in Server!TextsWithin(url)
<1>1. Len(url) \in Nat /\ url \in Seq(ToSet(url))
  BY UrlChars
<1>2. ASSUME NEW t \in Server!TextsWithin(url) PROVE t \in Seq(ToSet(url)) /\ "/" \notin ToSet(t)
  <2>1. PICK i \in 1..(Len(url) + 1), j \in 0..Len(url) : t = SubSeq(url, i, j)
    BY <1>2, TextIs
  <2>2. t \in Seq(ToSet(url))
    BY <1>1, <2>1
  <2> QED
    BY <1>2, <2>2, TextIs
<1>3. << >> \in Server!TextsWithin(url)
  <2>1. SubSeq(url, 1, 0) = << >> /\ "/" \notin ToSet(<< >>)
    BY <1>1 DEF ToSet
  <2>2. 1 \in 1..(Len(url) + 1) /\ 0 \in 0..Len(url)
    BY <1>1
  <2> QED
    BY <2>1, <2>2, TextIs
<1>4. ASSUME Begins(url, 3) PROVE SubSeq(url, 4, WordEnd(url, 4) - 1) \in Server!TextsWithin(url)
  <2> DEFINE e == WordEnd(url, 4)
             t == SubSeq(url, 4, e - 1)
  <2>1. 4 \in Places(url)
    BY <1>1, <1>4 DEF Begins, Places
  <2>2. /\ e \in 4..(Len(url) + 1)
        /\ \A k \in 4..(e - 1) : url[k] # "/"
    BY <1>1, <2>1, WordEnds DEF Places
  <2> HIDE DEF e
  <2>3. 4 \in 1..(Len(url) + 1) /\ e - 1 \in 0..Len(url)
    BY <1>1, <2>1, <2>2 DEF Places
  <2>4. /\ DOMAIN t = 1..(e - 4)
        /\ \A k \in 1..(e - 4) : t[k] = url[3 + k]
    BY <1>1, <2>2, <2>3
  <2>5. "/" \notin ToSet(t)
    <3> SUFFICES ASSUME NEW k \in DOMAIN t PROVE t[k] # "/"
      BY DEF ToSet
    <3>1. k \in 1..(e - 4) /\ 3 + k \in 4..(e - 1)
      BY <2>2, <2>4
    <3> QED
      BY <2>2, <2>4, <3>1
  <2> QED
    BY <2>3, <2>5, TextIs DEF e
<1> QED
  BY <1>2, <1>3, <1>4

LEMMA AsksIs ==
    ASSUME NEW url, IsUrl(url)
    PROVE  /\ Server!Asks(Server!BLOCKS_PATTERN, url) # {} <=> Begins(url, 2) /\ AtSlash(url, 3)
           /\ Server!Asks(Server!BLOCK_PATTERN, url) =
                IF Begins(url, 3) /\ AtSlash(url, WordEnd(url, 4))
                THEN {SubSeq(url, 4, WordEnd(url, 4) - 1)} ELSE {}
<1> DEFINE S == ToSet(url) \cup {"/", "block"}
<1>1. Len(url) \in Nat /\ url \in Seq(ToSet(url)) /\ url \in Seq(S) /\ "/" \in S /\ "block" \in S
  BY UrlChars
<1>2. \A t \in Server!TextsWithin(url) : t \in Seq(S) /\ "/" \notin ToSet(t)
  <2>1. ToSet(url) \subseteq S
    OBVIOUS
  <2> HIDE DEF S
  <2> QED
    BY <2>1, TextsAre
<1> HIDE DEF S
<1>3. ASSUME NEW t PROVE Server!AlmostEqual(url, Server!Instance(Server!BLOCKS_PATTERN, t))
                           <=> Begins(url, 2) /\ AtSlash(url, 3)
  <2> DEFINE v == Server!Instance(Server!BLOCKS_PATTERN, t)
  <2>1. v \in Seq(S) /\ Len(v) = 3 /\ v[1] = "/" /\ v[2] = "block" /\ v[3] = "/"
    BY <1>1, BlocksInstance DEF Started
  <2> HIDE DEF v
  <2>2. Server!AlmostEqual(url, v) <=>
             \/ Len(url) = Len(v) /\ \A k \in 1..Len(url) : url[k] = v[k]
             \/ /\ Len(url) = Len(v) + 1 /\ url[Len(url)] = "/"
                /\ \A k \in 1..Len(v) : url[k] = v[k]
             \/ /\ Len(v) = Len(url) + 1 /\ v[Len(v)] = "/"
                /\ \A k \in 1..Len(url) : url[k] = v[k]
    <3>1. url \in Seq(S) /\ v \in Seq(S) /\ "/" \in S
      BY <1>1, <2>1
    <3> QED
      BY <3>1, AlmostEqualIs
  <2>3. (\A k \in 1..3 : url[k] = v[k]) <=> url[1] = "/" /\ url[2] = "block" /\ url[3] = "/"
    <3>1. 1..3 = {1, 2, 3}
      OBVIOUS
    <3> QED
      BY <2>1, <3>1
  <2>4. (\A k \in 1..2 : url[k] = v[k]) <=> url[1] = "/" /\ url[2] = "block"
    <3>1. 1..2 = {1, 2}
      OBVIOUS
    <3> QED
      BY <2>1, <3>1
  <2>5. Begins(url, 2) <=> 2 <= Len(url) /\ url[1] = "/" /\ url[2] = "block"
    BY DEF Begins
  <2>6. AtSlash(url, 3) <=>
            3 = Len(url) + 1 \/ (url[3] = "/" /\ (4 = Len(url) + 1 \/ (4 = Len(url) /\ url[4] = "/")))
    BY DEF AtSlash, AtEnd
  <2>7. CASE Len(url) = 2
    <3>1. Len(url) # Len(v) /\ Len(url) # Len(v) + 1 /\ Len(v) = Len(url) + 1 /\ v[Len(v)] = "/"
      BY <2>1, <2>7
    <3>2. AtSlash(url, 3) /\ 2 <= Len(url)
      BY <2>6, <2>7
    <3> QED
      BY <2>2, <2>4, <2>5, <2>7, <3>1, <3>2 DEF v
  <2>8. CASE Len(url) = 3
    <3>1. Len(url) = Len(v) /\ Len(url) # Len(v) + 1 /\ Len(v) # Len(url) + 1
      BY <2>1, <2>8
    <3>2. (AtSlash(url, 3) <=> url[3] = "/") /\ 2 <= Len(url)
      BY <2>6, <2>8
    <3> QED
      BY <2>2, <2>3, <2>5, <2>8, <3>1, <3>2 DEF v
  <2>9. CASE Len(url) = 4
    <3>1. Len(url) # Len(v) /\ Len(url) = Len(v) + 1 /\ Len(v) # Len(url) + 1
      BY <2>1, <2>9
    <3>2. (AtSlash(url, 3) <=> url[3] = "/" /\ url[4] = "/") /\ 2 <= Len(url)
      BY <2>6, <2>9
    <3> QED
      BY <2>1, <2>2, <2>3, <2>5, <2>9, <3>1, <3>2 DEF v
  <2>10. CASE Len(url) # 2 /\ Len(url) # 3 /\ Len(url) # 4
    <3> DEFINE n == Len(url)
    <3>3. n \in Nat /\ n # 2 /\ n # 3 /\ n # 4
      BY <1>1, <2>10
    <3> HIDE DEF n
    <3>4. n # 3 /\ n # 3 + 1 /\ 3 # n + 1 /\ 4 # n + 1 /\ 4 # n
      BY <3>3
    <3>1. Len(url) # Len(v) /\ Len(url) # Len(v) + 1 /\ Len(v) # Len(url) + 1
      BY <2>1, <3>4 DEF n
    <3>2. ~ AtSlash(url, 3)
      BY <2>6, <3>4 DEF n
    <3> QED
      BY <2>2, <3>1, <3>2 DEF v
  <2> QED
    BY <2>7, <2>8, <2>9, <2>10
<1>4. \A pattern, t : t \in Server!Asks(pattern, url) <=>
          t \in Server!TextsWithin(url) /\ Server!AlmostEqual(url, Server!Instance(pattern, t))
  BY DEF Server!Asks
<1>5. Server!Asks(Server!BLOCKS_PATTERN, url) # {} <=> Begins(url, 2) /\ AtSlash(url, 3)
  <2>1. \E t : t \in Server!TextsWithin(url)
    BY TextsAre
  <2> QED
    BY <1>3, <1>4, <2>1
<1>6. ASSUME NEW t PROVE t \in Server!Asks(Server!BLOCK_PATTERN, url) <=>
          /\ Begins(url, 3) /\ AtSlash(url, WordEnd(url, 4)) /\ t = SubSeq(url, 4, WordEnd(url, 4) - 1)
  <2>1. CASE t \in Server!TextsWithin(url)
    <3>1. t \in Seq(S) /\ "/" \notin ToSet(t)
      BY <1>2, <2>1
    <3>2. Server!AlmostEqual(url, Server!Instance(Server!BLOCK_PATTERN, t)) <=> Fits(url, t)
      BY <1>1, <3>1, FitsIs
    <3> QED
      BY <1>4, <2>1, <3>1, <3>2, OneFits
  <2>2. CASE t \notin Server!TextsWithin(url)
    BY <1>4, <2>2, TextsAre
  <2> QED
    BY <2>1, <2>2
<1> DEFINE x == SubSeq(url, 4, WordEnd(url, 4) - 1)
           A == Server!Asks(Server!BLOCK_PATTERN, url)
           C == Begins(url, 3) /\ AtSlash(url, WordEnd(url, 4))
<1>7. \A t : t \in A <=> C /\ t = x
  BY <1>6
<1> HIDE DEF x, A, C
<1>8. A = IF C THEN {x} ELSE {}
  BY <1>7
<1> QED
  BY <1>5, <1>8 DEF x, A, C

(* The pattern with a colon for its wildcard is the pattern.               *)
LEMMA PatternIs ==
    ASSUME NEW url, IsUrl(url)
    PROVE  /\ Server!AlmostEqual(url, Server!BLOCK_PATTERN) <=> Literal(url) /\ AtSlash(url, 5)
           /\ Server!TakenLiterally(url) <=> Literal(url)
<1> DEFINE S == ToSet(url) \cup {"/", "block", ":"}
           p == Server!BLOCK_PATTERN
           t == <<":">>
           v == Server!Instance(p, t)
<1>1. Len(url) \in Nat /\ url \in Seq(ToSet(url))
  BY UrlChars
<1>2. url \in Seq(S) /\ t \in Seq(S) /\ "/" \in S /\ "block" \in S /\ Len(t) = 1 /\ t[1] = ":"
  BY <1>1
<1>3. /\ Len(p) = 5 /\ p[1] = "/" /\ p[2] = "block" /\ p[3] = "/" /\ p[4] = ":" /\ p[5] = "/"
      /\ p \in Seq(S)
  BY DEF Server!BLOCK_PATTERN
<1> HIDE DEF S, t
<1>4. v = p
  <2>3. /\ v \in Seq(S) /\ Len(v) = Len(t) + 4 /\ v[1] = "/" /\ v[2] = "block" /\ v[3] = "/"
        /\ v[Len(t) + 4] = "/" /\ \A k \in 1..Len(t) : v[3 + k] = t[k]
    <3> HIDE DEF v
    <3>1. "/" \in S /\ "block" \in S /\ t \in Seq(S) /\ v = Server!Instance(Server!BLOCK_PATTERN, t)
      BY <1>2 DEF v
    <3> QED
      BY <3>1, BlockInstance
  <2>4. 1 + 4 = 5 /\ 1 \in 1..1
    OBVIOUS
  <2>1. /\ v \in Seq(S) /\ Len(v) = 5 /\ v[1] = "/" /\ v[2] = "block" /\ v[3] = "/" /\ v[5] = "/"
        /\ v[3 + 1] = t[1]
    <3> HIDE DEF v
    <3> QED
      BY <1>2, <2>3, <2>4
  <2> HIDE DEF v, p
  <2>2. \A k \in 1..5 : v[k] = p[k]
    <3>1. 1..5 = {1, 2, 3, 4, 5} /\ 3 + 1 = 4
      OBVIOUS
    <3> QED
      BY <1>2, <1>3, <2>1, <3>1
  <2> QED
    BY <1>3, <2>1, <2>2, SameSequence
<1>5. Server!AlmostEqual(url, v) <=> Fits(url, t)
  BY <1>2, FitsIs
<1>6. Fits(url, t) <=> Literal(url) /\ AtSlash(url, 5)
  <2>1. 1..1 = {1} /\ 3 + 1 = 4 /\ 4 + 1 = 5
    OBVIOUS
  <2> QED
    BY <1>2, <2>1 DEF Fits, Literal
<1>7. Server!TakenLiterally(url) <=> Literal(url)
  <2>1. Server!TakenLiterally(url) <=>
            /\ Server!At(url, 1) = "/" /\ Server!At(url, 2) = "block"
            /\ Server!At(url, 3) = "/" /\ Server!At(url, 4) = ":"
    <3>1. 1..4 = {1, 2, 3, 4}
      OBVIOUS
    <3> HIDE DEF p
    <3> QED
      BY <1>3, <3>1 DEF Server!TakenLiterally, p
  <2>2. CASE 4 <= Len(url)
    <3>1. 1 \in 1..Len(url) /\ 2 \in 1..Len(url) /\ 3 \in 1..Len(url) /\ 4 \in 1..Len(url)
      BY <1>1, <2>2
    <3>2. 3 <= Len(url) /\ 3 >= 1 /\ 3 >= 2 /\ 3 >= 3
      BY <1>1, <2>2
    <3> QED
      BY <2>1, <2>2, <3>1, <3>2, UrlChars DEF Literal, Begins
  <2>3. CASE ~ (4 <= Len(url))
    <3>1. Server!At(url, 4) = "nul"
      BY <1>1, <2>3 DEF Server!At
    <3> QED
      BY <2>1, <2>3, <3>1 DEF Literal
  <2> QED
    BY <2>2, <2>3
<1> QED
  BY <1>4, <1>5, <1>6, <1>7

(* What is asked for when a colon is not taken for the wildcard.           *)
Expected(url) ==
    IF Server!AlmostEqual(url, Server!BLOCK_PATTERN) THEN Server!FAILURE
    ELSE IF Server!TakenLiterally(url) THEN Server!Reply(404, Server!NONE)
    ELSE Server!RightReply(url)

(* The handlers find what the patterns ask for.                            *)
LEMMA AnswerIsRight ==
    ASSUME NEW url, IsUrl(url)
    PROVE  Server!Answer(url) = Expected(url)
<1> DEFINE x == SubSeq(url, 4, WordEnd(url, 4) - 1)
           B == Begins(url, 2) /\ AtSlash(url, 3)
           C == Begins(url, 3) /\ AtSlash(url, WordEnd(url, 4))
           L == Literal(url)
           E == AtSlash(url, 5)
           RB == Server!resolve_pattern(Server!BLOCKS_PATTERN, url)
           RC == Server!resolve_pattern(Server!BLOCK_PATTERN, url)
           AB == Server!Asks(Server!BLOCKS_PATTERN, url)
           AC == Server!Asks(Server!BLOCK_PATTERN, url)
           none == Server!Reply(404, Server!NONE)
<1>1. /\ RB = IF B THEN {<< >>} ELSE {}
      /\ RC = IF L THEN IF E THEN {<< >>} ELSE {}
             ELSE IF C THEN {<<x>>} ELSE {}
  BY BlocksMatched, BlockMatched
<1>2. (AB # {} <=> B) /\ AC = IF C THEN {x} ELSE {}
  BY AsksIs
<1>3. Server!Answer(url) = CASE RB # {} -> Server!on_http_blocks_request
                             [] RB = {} /\ RC # {} ->
                                  Server!on_http_block_request(CHOOSE ps \in RC : TRUE)
                             [] OTHER -> none
  BY DEF Server!Answer
<1>4. Expected(url) = IF L /\ E THEN Server!FAILURE
                      ELSE IF L THEN none
                      ELSE IF AB # {} THEN Server!on_http_blocks_request
                      ELSE IF AC = {} THEN none
                      ELSE Server!Lookup(CHOOSE t \in AC : TRUE)
  BY PatternIs DEF Expected, Server!RightReply
<1>5. L => ~ B
  <2> SUFFICES ASSUME L, AtSlash(url, 3) PROVE FALSE
    OBVIOUS
  <2>1. Len(url) \in Nat /\ 4 <= Len(url) /\ url[4] = ":"
    BY UrlChars DEF Literal
  <2>2. 3 # Len(url) + 1 /\ 3 + 1 # Len(url) + 1 /\ 3 + 1 = 4
    BY <2>1
  <2>3. AtEnd(url, 3 + 1)
    BY <2>2 DEF AtSlash
  <2>4. url[4] = "/"
    BY <2>2, <2>3 DEF AtEnd
  <2> QED
    BY <2>1, <2>4
<1>6. /\ \A ps : Server!on_http_block_request(ps) =
                    IF ps = << >> THEN Server!FAILURE ELSE Server!Lookup(ps[1])
      /\ <<x>> # << >> /\ <<x>>[1] = x
      /\ (CHOOSE ps \in {<< >>} : TRUE) = << >>
      /\ (CHOOSE ps \in {<<x>>} : TRUE) = <<x>> /\ (CHOOSE t \in {x} : TRUE) = x
  BY DEF Server!on_http_block_request
<1> HIDE DEF x, B, C, L, E, RB, RC, AB, AC, none
<1>7. CASE L /\ E
  <2>1. RB = {} /\ RC = {<< >>}
    BY <1>1, <1>5, <1>7
  <2> QED
    BY <1>3, <1>4, <1>6, <1>7, <2>1
<1>8. CASE L /\ ~ E
  <2>1. RB = {} /\ RC = {}
    BY <1>1, <1>5, <1>8
  <2> QED
    BY <1>3, <1>4, <1>8, <2>1
<1>9. CASE ~ L /\ B
  <2>1. RB # {} /\ AB # {}
    BY <1>1, <1>2, <1>9
  <2> QED
    BY <1>3, <1>4, <1>9, <2>1
<1>10. CASE ~ L /\ ~ B /\ C
  <2>1. RB = {} /\ RC = {<<x>>} /\ AB = {} /\ AC = {x}
    BY <1>1, <1>2, <1>10
  <2> QED
    BY <1>3, <1>4, <1>6, <1>10, <2>1
<1>11. CASE ~ L /\ ~ B /\ ~ C
  <2>1. RB = {} /\ RC = {} /\ AB = {} /\ AC = {}
    BY <1>1, <1>2, <1>11
  <2> QED
    BY <1>3, <1>4, <1>11, <2>1
<1> QED
  BY <1>7, <1>8, <1>9, <1>10, <1>11

-----------------------------------------------------------------------------
(* Requests and the cells of a connection.                                 *)
HttpCell == {Server!NUL, Server!LINE, Server!END} \cup UNION {ToSet(r) : r \in First \cup Later}

LEMMA RequestIs ==
    ASSUME NEW r, Server!IsRequest(r)
    PROVE  /\ IsUrl(r[2].url) /\ r \in Seq(ToSet(r)) /\ Len(r) \in 3..4
           /\ r[1].kind = "word" /\ r[2].kind = "word" /\ r[Len(r)].kind = "end"
           /\ \A i \in 1..Len(r) : r[i].kind # "nul"
<1> DEFINE u == r[2].url
           S == {Server!METHOD, Server!LINE, Server!END, Server!URL(u)}
<1>1. IsUrl(u) /\ (r = Server!Short(u) \/ r = Server!Long(u))
  <2>1. u \in Seq(Server!ToSet(u) \ {"nul"})
    BY DEF Server!IsRequest
  <2> QED
    BY <2>1, SameToSet DEF Server!IsRequest, IsUrl
<1>2. /\ Server!METHOD.kind = "word" /\ Server!URL(u).kind = "word"
      /\ Server!LINE.kind = "word" /\ Server!END.kind = "end"
  BY DEF Server!METHOD, Server!URL, Server!LINE, Server!END
<1> HIDE DEF u
<1>3. /\ r \in Seq(S) /\ Len(r) \in 3..4
      /\ r[1] = Server!METHOD /\ r[2] = Server!URL(u) /\ r[Len(r)] = Server!END
      /\ \A i \in 1..Len(r) : r[i] \in S
  <2>1. CASE r = Server!Short(u)
    BY <2>1 DEF Server!Short
  <2>2. CASE r = Server!Long(u)
    BY <2>2 DEF Server!Long
  <2> QED
    BY <1>1, <2>1, <2>2
<1>4. r \in Seq(ToSet(r))
  <2>1. r \in [1..Len(r) -> ToSet(r)] /\ Len(r) \in Nat
    BY <1>3 DEF ToSet
  <2> QED
    BY <2>1
<1>5. \A c \in S : c.kind # "nul"
  BY <1>2
<1> HIDE DEF S
<1> QED
  BY <1>1, <1>2, <1>3, <1>4, <1>5 DEF u

(* The first position that a test picks.                                   *)
FirstKind(data, kind) == Server!SelectInSeq(data, LAMBDA c : c.kind = kind)

LEMMA FirstOf ==
    ASSUME NEW S, NEW data \in Seq(S), NEW kind
    PROVE  LET p == FirstKind(data, kind)
           IN  /\ p \in 0..Len(data)
               /\ p # 0 => data[p].kind = kind
               /\ p = 0 => \A i \in 1..Len(data) : data[i].kind # kind
<1> DEFINE I == {i \in 1..Len(data) : data[i].kind = kind}
           p == FirstKind(data, kind)
<1>1. p = IF I # {} THEN Server!Min(I) ELSE 0
  BY DEF FirstKind, Server!SelectInSeq
<1>2. Server!Min(I) = Min(I)
  BY DEF Server!Min, Min
<1>3. I \in SUBSET Nat
  OBVIOUS
<1>4. I # {} => Min(I) \in I
  BY <1>3, LeastNumber
<1> HIDE DEF p
<1>5. p \in 0..Len(data) /\ (p # 0 => data[p].kind = kind)
  BY <1>1, <1>2, <1>4
<1>6. p = 0 => \A i \in 1..Len(data) : data[i].kind # kind
  BY <1>1, <1>2, <1>4
<1> QED
  BY <1>5, <1>6 DEF p

(* Whatever follows a request, the request is answered.                    *)
LEMMA RequestHandled ==
    ASSUME NEW r, Server!IsRequest(r), NEW S, NEW data \in Seq(S),
           Len(r) <= Len(data), \A i \in 1..Len(r) : data[i] = r[i]
    PROVE  /\ Server!find_header_end(data) # 0
           /\ Server!on_request(data) = {<<Expected(r[2].url)>>}
<1>1. /\ IsUrl(r[2].url) /\ Len(r) \in 3..4
      /\ r[1].kind = "word" /\ r[2].kind = "word" /\ r[Len(r)].kind = "end"
      /\ \A i \in 1..Len(r) : r[i].kind # "nul"
  BY RequestIs
<1>2. Len(data) \in Nat
  OBVIOUS
<1>3. Server!find_header_end(data) # 0
  <2>1. Len(r) \in 1..Len(data) /\ data[Len(r)].kind = "end"
    BY <1>1, <1>2
  <2> QED
    BY <2>1, FirstOf DEF FirstKind, Server!find_header_end
<1> DEFINE nul   == FirstKind(data, "nul")
           part  == IF nul = 0 THEN data ELSE SubSeq(data, 1, nul - 1)
           words == {i \in DOMAIN part : part[i].kind = "word"}
           urls  == {j \in words : \E i \in words : {k \in words : k < j} = {i}}
<1>4. Server!on_request(data) =
         IF urls # {} THEN {<<Server!Answer(part[j].url)>> : j \in urls}
         ELSE IF nul = 0 THEN {<< >>, <<Server!Reply(404, Server!NONE)>>}
         ELSE {<< >>}
  BY DEF Server!on_request, FirstKind
<1>5. nul \in 0..Len(data) /\ (nul # 0 => nul \notin 1..Len(r))
  <2>1. nul \in 0..Len(data) /\ (nul # 0 => data[nul].kind = "nul")
    BY FirstOf
  <2> HIDE DEF nul
  <2> QED
    BY <1>1, <2>1
<1> HIDE DEF nul
<1>6. 1 \in DOMAIN part /\ 2 \in DOMAIN part /\ part[1] = r[1] /\ part[2] = r[2] /\ DOMAIN part \subseteq Nat \ {0}
  <2>1. CASE nul = 0
    BY <1>1, <1>2, <2>1
  <2>2. CASE nul # 0
    <3>1. nul - 1 \in 1..Len(data) /\ Len(r) <= nul - 1 /\ 2 <= nul - 1
      BY <1>1, <1>2, <1>5, <2>2
    <3>2. part \in Seq(S) /\ Len(part) = nul - 1 /\ \A i \in 1..(nul - 1) : part[i] = data[i]
      BY <1>2, <2>2, <3>1
    <3>3. DOMAIN part = 1..(nul - 1) /\ 1 \in 1..(nul - 1) /\ 2 \in 1..(nul - 1)
      BY <3>1, <3>2
    <3>4. data[1] = r[1] /\ data[2] = r[2] /\ 1..(nul - 1) \subseteq Nat \ {0}
      BY <1>1
    <3> QED
      BY <3>2, <3>3, <3>4
  <2> QED
    BY <2>1, <2>2
<1> HIDE DEF part
<1>7. 1 \in words /\ 2 \in words /\ words \subseteq Nat \ {0}
  BY <1>1, <1>6
<1> HIDE DEF words
<1>8. urls = {2}
  <2>1. 2 \in urls
    <3>1. \A k \in words : k < 2 <=> k = 1
      BY <1>7
    <3>2. {k \in words : k < 2} = {1}
      BY <1>7, <3>1
    <3> QED
      BY <1>7, <3>2
  <2>2. ASSUME NEW j \in urls PROVE j = 2
    <3>1. PICK i \in words : {k \in words : k < j} = {i}
      OBVIOUS
    <3>2. j \in Nat \ {0} /\ i \in Nat /\ i < j
      BY <1>7, <3>1
    <3>3. ~ (2 < j)
      <4> SUFFICES ASSUME 2 < j PROVE FALSE
        OBVIOUS
      <4>1. 1 < j
        BY <3>2
      <4>2. 1 \in {i} /\ 2 \in {i}
        BY <1>7, <3>1, <4>1
      <4> QED
        BY <4>2
    <3>4. j # 1
      BY <1>7, <3>2
    <3> QED
      BY <3>2, <3>3, <3>4
  <2> QED
    BY <2>1, <2>2
<1> HIDE DEF urls
<1>9. Server!on_request(data) = {<<Server!Answer(part[2].url)>>}
  BY <1>4, <1>8
<1>10. Server!Answer(part[2].url) = Expected(r[2].url)
  BY <1>1, <1>6, AnswerIsRight
<1> QED
  BY <1>3, <1>9, <1>10

(* Until the first read the connection holds what was sent.                *)
NotYetRead ==
    /\ text = << >> /\ replies = << >>
    /\ asked # << >> => /\ Len(asked[1]) <= Len(bytes)
                        /\ \A i \in 1..Len(asked[1]) : bytes[i] = asked[1][i]

HttpInv == /\ asked \in Seq(First \cup Later)
           /\ bytes \in Seq(HttpCell)
           /\ reads \in Nat
           /\ reads = 0 => NotYetRead /\ (asked = << >> => bytes = << >>)

LEMMA RequestCells ==
    ASSUME Server!HttpAssumption, NEW r \in First \cup Later
    PROVE  Server!IsRequest(r) /\ r \in Seq(HttpCell) /\ Len(r) \in Nat
<1>1. Server!IsRequest(r)
  BY DEF Server!HttpAssumption
<1>2. r \in Seq(ToSet(r)) /\ ToSet(r) \subseteq HttpCell
  BY <1>1, RequestIs DEF HttpCell
<1> QED
  BY <1>1, <1>2

LEMMA HttpInvInductive ==
    ASSUME Server!HttpAssumption, HttpInv, [Server!Next]_(Server!vars)
    PROVE  HttpInv'
<1> USE DEF HttpInv
<1>1. ASSUME NEW r \in First \cup Later, Server!Ask(r) PROVE HttpInv'
  <2>1. /\ r \in Seq(HttpCell) /\ Len(r) \in Nat
        /\ asked' = Append(asked, r) /\ bytes' = bytes \o r
        /\ text' = text /\ reads' = reads /\ replies' = replies
    BY <1>1, RequestCells DEF Server!Ask
  <2>2. asked' \in Seq(First \cup Later) /\ bytes' \in Seq(HttpCell) /\ reads' \in Nat /\ asked' # << >>
    BY <2>1
  <2>3. ASSUME reads' = 0
        PROVE  /\ Len(asked'[1]) <= Len(bytes')
               /\ \A i \in 1..Len(asked'[1]) : bytes'[i] = asked'[1][i]
    <3>1. CASE asked = << >>
      <4>1. asked'[1] = r /\ bytes' = r
        BY <2>1, <2>3, <3>1
      <4> QED
        BY <2>1, <4>1
    <3>2. CASE asked # << >>
      <4>1. asked'[1] = asked[1] /\ asked[1] \in First \cup Later
        BY <2>1, <3>2
      <4>2. Len(asked[1]) \in Nat
        BY <4>1, RequestCells
      <4>3. Len(bytes') = Len(bytes) + Len(r) /\ Len(bytes) \in Nat
        BY <2>1
      <4>4. \A i \in 1..Len(bytes) : bytes'[i] = bytes[i]
        BY <2>1
      <4>5. /\ Len(asked[1]) <= Len(bytes)
            /\ \A i \in 1..Len(asked[1]) : bytes[i] = asked[1][i]
        BY <2>1, <2>3, <3>2 DEF NotYetRead
      <4> QED
        BY <2>1, <4>1, <4>2, <4>3, <4>4, <4>5
    <3> QED
      BY <3>1, <3>2
  <2> QED
    BY <2>1, <2>2, <2>3 DEF NotYetRead
<1>2. ASSUME NEW n \in 0..BufferSize, NEW rest, Server!on_read(n, rest) PROVE HttpInv'
  <2>1. /\ asked' = asked /\ reads' = reads + 1
        /\ bytes' = SubSeq(bytes, n + 1, Len(bytes))
    BY <1>2 DEF Server!on_read
  <2>2. BufferSize \in Nat
    BY DEF Server!HttpAssumption
  <2>3. bytes' \in Seq(HttpCell)
    BY <2>1, <2>2
  <2> QED
    BY <2>1, <2>3
<1>3. CASE Server!on_close
  BY <1>3 DEF Server!on_close, NotYetRead
<1>4. CASE UNCHANGED Server!vars
  BY <1>4 DEF Server!vars, NotYetRead
<1> QED
  BY <1>1, <1>2, <1>3, <1>4 DEF Server!Next, Server!Read

LEMMA FirstReadAnswers ==
    ASSUME Server!HttpAssumption, HttpInv, [Server!Next]_(Server!vars),
           Server!FirstIsWhole
    PROVE  /\ crashed' = (<<Expected(asked[1][2].url)>> = <<Server!FAILURE>>)
           /\ ~ crashed' => replies' = <<Expected(asked[1][2].url)>>
<1>0. /\ reads = 0 /\ reads' = 1 /\ asked # << >>
      /\ Len(bytes) - Len(bytes') >= Len(asked[1])
  BY DEF Server!FirstIsWhole
<1>1. PICK n \in 0..BufferSize : n <= Len(bytes)
             /\ \E rest \in Server!Garbage(BufferSize - n) : Server!on_read(n, rest)
  BY <1>0 DEF Server!Next, Server!Read, Server!Ask, Server!on_close, Server!vars
<1>2. PICK rest \in Server!Garbage(BufferSize - n) : Server!on_read(n, rest)
  BY <1>1
<1> DEFINE r == asked[1]
           data == text \o SubSeq(bytes, 1, n) \o rest
<1>3. /\ r \in First \cup Later /\ bytes \in Seq(HttpCell) /\ BufferSize \in Nat
      /\ text = << >> /\ replies = << >> /\ Len(r) <= Len(bytes)
      /\ \A i \in 1..Len(r) : bytes[i] = r[i]
  BY <1>0 DEF HttpInv, NotYetRead, Server!HttpAssumption
<1>4. Server!IsRequest(r) /\ Len(r) \in Nat
  BY <1>3, RequestCells
<1>5. rest \in Seq(HttpCell)
  <2>1. PICK g \in {Server!NUL, Server!LINE, Server!END} : rest = [i \in 1..(BufferSize - n) |-> g]
    BY DEF Server!Garbage
  <2>2. g \in HttpCell
    BY DEF HttpCell
  <2>3. BufferSize - n \in Nat
    BY <1>3
  <2> QED
    BY <2>1, <2>2, <2>3
<1>6. Len(bytes') = Len(bytes) - n /\ Len(r) <= n
  <2>1. bytes' = SubSeq(bytes, n + 1, Len(bytes))
    BY <1>2 DEF Server!on_read
  <2>2. n \in Nat /\ Len(bytes) \in Nat
    BY <1>3
  <2>3. Len(bytes') = Len(bytes) - n
    BY <1>1, <1>3, <2>1, <2>2
  <2> QED
    BY <1>0, <1>4, <2>2, <2>3
<1> DEFINE read == SubSeq(bytes, 1, n)
<1>7. read \in Seq(HttpCell) /\ Len(read) = n /\ \A i \in 1..n : read[i] = bytes[i]
  BY <1>1, <1>3
<1>8. data = read \o rest
  BY <1>3, <1>5, <1>7
<1> HIDE DEF read, data
<1>9. /\ data \in Seq(HttpCell) /\ Len(r) <= Len(data)
      /\ \A i \in 1..Len(r) : data[i] = r[i]
  <2>0. read \in Seq(HttpCell) /\ rest \in Seq(HttpCell)
    BY <1>5, <1>7
  <2>1. data \in Seq(HttpCell) /\ Len(data) = Len(read) + Len(rest)
    BY <1>8, <2>0
  <2>4. n \in Nat /\ Len(rest) \in Nat /\ Len(data) = n + Len(rest)
    BY <1>3, <1>5, <1>7, <2>1
  <2>2. \A i \in 1..n : data[i] = read[i]
    BY <1>5, <1>7, <1>8
  <2>3. \A i \in 1..Len(r) : i \in 1..n
    BY <1>4, <1>6, <2>4
  <2> QED
    BY <1>3, <1>4, <1>6, <1>7, <2>1, <2>2, <2>3, <2>4
<1>10. /\ Server!find_header_end(data) # 0
       /\ Server!on_request(data) = {<<Expected(r[2].url)>>}
  BY <1>4, <1>9, RequestHandled
<1>11. \E reply \in (IF Server!find_header_end(data) = 0 THEN {<< >>} ELSE Server!on_request(data)) :
           /\ crashed' = (reply = <<Server!FAILURE>>)
           /\ replies' = IF crashed' THEN replies ELSE replies \o reply
  BY <1>2 DEF Server!on_read, data
<1> DEFINE answer == <<Expected(r[2].url)>>
<1>12. crashed' = (answer = <<Server!FAILURE>>) /\ (~ crashed' => replies' = << >> \o answer)
  BY <1>3, <1>10, <1>11
<1>13. << >> \o answer = answer
  OBVIOUS
<1> QED
  BY <1>12, <1>13

(* Only FAILURE has the code zero.                                         *)
LEMMA NoOtherFailure ==
    ASSUME NEW url
    PROVE  /\ Server!RightReply(url) # Server!FAILURE
           /\ Server!Reply(404, Server!NONE) # Server!FAILURE
<1>1. \A code, what : Server!Reply(code, what).code = code
  BY DEF Server!Reply
<1>2. Server!FAILURE.code = 0
  BY <1>1 DEF Server!FAILURE
<1>3. \A t : Server!Lookup(t).code \in {200, 400, 404}
  BY <1>1 DEF Server!Lookup
<1>4. Server!RightReply(url).code \in {200, 400, 404}
  BY <1>1, <1>3 DEF Server!RightReply, Server!on_http_blocks_request
<1>5. Server!Reply(404, Server!NONE).code = 404
  BY <1>1
<1> QED
  BY <1>2, <1>4, <1>5

(* A request that the first read brings whole is answered at once and      *)
(* right, whatever on_alloc left in the memory behind it, unless it has a  *)
(* colon where the pattern has its wildcard: then it is not found, and the *)
(* node stops at the pattern itself.                                       *)
THEOREM WholeRequestIsAnswered ==
    ASSUME Server!HttpAssumption
    PROVE  Server!Spec => Server!WholeIsAnswered
<1>1. Server!Init => HttpInv
  BY DEF Server!Init, HttpInv, NotYetRead
<1>2. HttpInv /\ [Server!Next]_(Server!vars) => HttpInv'
  BY HttpInvInductive
<1>3. HttpInv /\ [Server!Next]_(Server!vars) =>
        [ LET url == asked[1][2].url
          IN  Server!FirstIsWhole =>
                /\ crashed' <=> Server!AlmostEqual(url, Server!BLOCK_PATTERN)
                /\ ~ crashed' => replies' = <<IF Server!TakenLiterally(url)
                                              THEN Server!Reply(404, Server!NONE)
                                              ELSE Server!RightReply(url)>> ]_(Server!vars)
  <2> DEFINE url == asked[1][2].url
             literal == Server!AlmostEqual(url, Server!BLOCK_PATTERN)
             right == IF Server!TakenLiterally(url) THEN Server!Reply(404, Server!NONE)
                      ELSE Server!RightReply(url)
  <2> SUFFICES ASSUME HttpInv, [Server!Next]_(Server!vars), Server!FirstIsWhole
               PROVE  (crashed' <=> literal) /\ (~ crashed' => replies' = <<right>>)
    OBVIOUS
  <2>1. /\ crashed' = (<<Expected(url)>> = <<Server!FAILURE>>)
        /\ ~ crashed' => replies' = <<Expected(url)>>
    BY FirstReadAnswers
  <2>2. Expected(url) = IF literal THEN Server!FAILURE ELSE right
    BY DEF Expected
  <2>3. right # Server!FAILURE
    BY NoOtherFailure
  <2> HIDE DEF url, literal, right
  <2>4. <<Expected(url)>> = <<Server!FAILURE>> <=> literal
    BY <2>2, <2>3
  <2> QED
    BY <2>1, <2>2, <2>4
<1> QED
  BY <1>1, <1>2, <1>3, PTL DEF Server!Spec, Server!WholeIsAnswered
=============================================================================
