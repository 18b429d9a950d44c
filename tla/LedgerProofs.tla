---------------------------- MODULE LedgerProofs ----------------------------
(***************************************************************************)
(* Proofs about Ledger, for every set of keys and of amounts, every reward *)
(* and every width of the integer types.                                   *)
(*                                                                         *)
(* The records of a block are built in a loop over its transactions, what  *)
(* the branch says is a sum over them.  The invariant of that loop is that *)
(* the record an account has or would be given (RecordIn) holds, modulo    *)
(* U64, the value below the block and the sum so far; that it modulo is    *)
(* taken after every step makes no difference (RemainderOfSum).  The       *)
(* inductive invariant adds to RecordsMatchBranch which accounts have a    *)
(* record in a block and that prev is the newest record below it.          *)
(*                                                                         *)
(* The supply is a sum over the accounts (Total): it is taken pass by pass *)
(* through the same loops, and each transfer adds nothing to it.           *)
(***************************************************************************)
EXTENDS Ledger, BlockTreeProofs, SequenceTheorems, FiniteSetTheorems

-----------------------------------------------------------------------------
(* Division with remainder.                                                *)
LEMMA Division ==
    ASSUME NEW U \in Nat \ {0}, NEW x \in Int
    PROVE  x % U \in 0..(U - 1) /\ \E q \in Int : x = U * q + (x % U)
<1>1. x % U \in 0..(U - 1)
  OBVIOUS
<1>2. x \div U \in Int
  OBVIOUS
<1>3. x = U * (x \div U) + (x % U)
  OBVIOUS
<1> QED
  BY <1>1, <1>2, <1>3

LEMMA Remainder ==
    ASSUME NEW U \in Nat \ {0}, NEW q \in Int, NEW r \in 0..(U - 1)
    PROVE  (U * q + r) % U = r
  OBVIOUS

(* What is within the type already is the remainder of itself.             *)
LEMMA SmallRemainder ==
    ASSUME NEW U \in Nat \ {0}, NEW r \in 0..(U - 1)
    PROVE  r % U = r
  BY Remainder, U * 0 + r = r

(* A value that overflows and is added to is what it would have been with  *)
(* room for it.                                                            *)
LEMMA RemainderOfSum ==
    ASSUME NEW U \in Nat \ {0}, NEW x \in Int, NEW y \in Int
    PROVE  ((x % U) + y) % U = (x + y) % U
<1>1. PICK p \in Int : x = U * p + (x % U)
  BY Division
<1> DEFINE z == (x % U) + y
<1>2. z \in Int /\ x + y = U * p + z
  <2>1. x % U \in Int
    BY Division
  <2>2. (U * p + (x % U)) + y = U * p + ((x % U) + y)
    BY <2>1
  <2> QED
    BY <1>1, <2>1, <2>2
<1> HIDE DEF z
<1>3. PICK q \in Int : z = U * q + (z % U)
  BY <1>2, Division
<1> DEFINE r == z % U
<1>4. r \in 0..(U - 1)
  BY <1>2, Division
<1> HIDE DEF r
<1>5. x + y = U * p + (U * q + r)
  BY <1>2, <1>3 DEF r
<1>6. U * p + (U * q + r) = U * (p + q) + r
  BY <1>4
<1>7. (U * (p + q) + r) % U = r
  BY <1>4, Remainder
<1> QED
  BY <1>5, <1>6, <1>7 DEF r, z

(* Max and Min of heights.                                                 *)
LEMMA MaxHeightOf ==
    ASSUME NEW n \in Nat, NEW D \in SUBSET (0..n), D # {}
    PROVE  Max(D) \in D /\ \A d \in D : d <= Max(D)
<1> DEFINE E == {e \in 0..n : n - e \in D}
<1>1. \A d \in D : n - d \in 0..n /\ n - (n - d) = d
  OBVIOUS
<1>2. E \in SUBSET Nat /\ \A d \in D : n - d \in E
  BY <1>1
<1>3. PICK m \in E : \A e \in E : m <= e
  BY <1>2, LeastNumber
<1>4. ASSUME NEW d \in D PROVE n - m >= d
  <2>1. m <= n - d
    BY <1>2, <1>3
  <2> QED
    BY <2>1
<1>5. \E y \in D : \A d \in D : y >= d
  BY <1>4
<1> DEFINE M == CHOOSE y \in D : \A d \in D : y >= d
<1>6. M \in D /\ \A d \in D : M >= d
  BY <1>5
<1>7. Max(D) = M
  BY DEF Max
<1> QED
  BY <1>6, <1>7

LEMMA MinHeightOf ==
    ASSUME NEW D \in SUBSET Nat, D # {}
    PROVE  Min(D) \in D /\ \A d \in D : Min(D) <= d
<1>1. \E y \in D : \A d \in D : y <= d
  BY LeastNumber
<1> DEFINE M == CHOOSE y \in D : \A d \in D : y <= d
<1>2. M \in D /\ \A d \in D : M <= d
  BY <1>1
<1>3. Min(D) = M
  BY DEF Min
<1> QED
  BY <1>2, <1>3

-----------------------------------------------------------------------------
(* Two loops that start alike and whose passes agree.                      *)
Alike(n, r, q) ==
    /\ r[0] = q[0]
    /\ \A i \in 1..n : r[i - 1] = q[i - 1] => r[i] = q[i]

LEMMA SameLoop ==
    ASSUME NEW n \in Nat, NEW r, NEW q, Alike(n, r, q)
    PROVE  \A i \in 0..n : r[i] = q[i]
<1> USE DEF Alike
<1> DEFINE D == {k \in 0..n : r[k] # q[k]}
<1>1. SUFFICES ASSUME NEW d \in D, \A e \in D : d <= e PROVE FALSE
  <2>1. D \in SUBSET Nat
    OBVIOUS
  <2> QED
    BY <2>1, LeastNumber
<1>2. d # 0 /\ d \in 1..n
  OBVIOUS
<1>3. d - 1 \in 0..n /\ ~ (d <= d - 1)
  BY <1>2
<1> QED
  BY <1>1, <1>2, <1>3

(* A loop that sums up the numbers F[i].                                   *)
Sums(s, n, base, F) ==
    /\ s \in [0..n -> Int]
    /\ s[0] = base
    /\ \A i \in 1..n : s[i] = s[i - 1] + F[i]

LEMMA SumRuns ==
    ASSUME NEW n \in Nat, NEW base \in Int, NEW F \in [1..n -> Int]
    PROVE  \E s : /\ Sums(s, n, base, F)
                  /\ s = [i \in 0..n |-> IF i = 0 THEN base ELSE s[i - 1] + F[i]]
<1> DEFINE G == [i \in 1..n |-> [x \in Int |-> x + F[i]]]
<1>1. \A x \in Int, i \in 1..n : G[i][x] = x + F[i] /\ G[i][x] \in Int
  OBVIOUS
<1>2. G \in [1..n -> [Int -> Int]]
  OBVIOUS
<1> HIDE DEF G
<1>3. PICK s : LoopValues(s, n, Int, base, G)
  BY <1>2, LoopRuns DEF LoopPasses
<1>4. \A i \in 0..n : i = 0 \/ (i \in 1..n /\ i - 1 \in 0..n)
  OBVIOUS
<1>5. Sums(s, n, base, F)
  <2>1. ASSUME NEW i \in 1..n PROVE s[i] = s[i - 1] + F[i]
    <3>1. s[i - 1] \in Int
      BY <1>3 DEF LoopValues
    <3> QED
      BY <1>1, <1>3, <3>1 DEF LoopValues
  <2> QED
    BY <1>3, <2>1 DEF Sums, LoopValues
<1>6. \A i \in 0..n : s[i] = IF i = 0 THEN base ELSE s[i - 1] + F[i]
  BY <1>4, <1>5 DEF Sums
<1> QED
  BY <1>5, <1>6 DEF Sums
-----------------------------------------------------------------------------
Header     == [pk : PublicKey, txns : Seq(Txn)]
AccountMap == UNION {[S -> Record] : S \in SUBSET PublicKey}

Reward(pk, header)    == IF header.pk = pk THEN COINBASE_TRANSACTION ELSE 0
Transfers(pk, header) == [i \in 1..Len(header.txns) |-> TransferTo(pk, header.txns[i])]

LEMMA TransferType ==
    ASSUME NEW pk, NEW txn \in Txn
    PROVE  TransferTo(pk, txn) \in Int
<1>1. txn.value \in Value
  BY DEF Txn
<1>2. txn.value \in Int
  <2>1. Value \subseteq Int
    BY LedgerAssumption
  <2> QED
    BY <1>1, <2>1
<1> DEFINE got   == IF txn.recipient = pk THEN txn.value ELSE 0
           spent == IF txn.sender = pk THEN txn.value ELSE 0
<1>3. got \in Int /\ spent \in Int
  BY <1>2
<1>4. TransferTo(pk, txn) = got - spent
  BY DEF TransferTo
<1> HIDE DEF got, spent
<1> QED
  BY <1>3, <1>4

(* The change a block makes is the sum that the loop over its transactions *)
(* arrives at.                                                             *)
LEMMA ChangeSum ==
    ASSUME NEW pk, NEW header \in Header
    PROVE  \E s : /\ Sums(s, Len(header.txns), Reward(pk, header), Transfers(pk, header))
                  /\ ChangeTo(pk, header) = s[Len(header.txns)]
<1> DEFINE n == Len(header.txns)
           F == Transfers(pk, header)
           Pass(f, i) == IF i = 0 THEN Reward(pk, header)
                         ELSE f[i - 1] + TransferTo(pk, header.txns[i])
           sum == CHOOSE f : f = [i \in 0..n |-> Pass(f, i)]
<1>1. n \in Nat /\ \A i \in 1..n : header.txns[i] \in Txn
  BY DEF Header
<1>2. ChangeTo(pk, header) = sum[n]
  BY DEF ChangeTo, Reward
<1>3. Reward(pk, header) \in Int
  BY LedgerAssumption DEF Reward
<1>4. F \in [1..n -> Int] /\ \A i \in 1..n : F[i] = TransferTo(pk, header.txns[i])
  BY <1>1, TransferType DEF Transfers
<1> HIDE DEF n, F
<1>5. PICK s : /\ Sums(s, n, Reward(pk, header), F)
               /\ s = [i \in 0..n |-> IF i = 0 THEN Reward(pk, header) ELSE s[i - 1] + F[i]]
  BY <1>1, <1>3, <1>4, SumRuns
<1>6. \A i \in 0..n : i = 0 \/ i \in 1..n
  BY <1>1
<1>7. \A i \in 0..n : s[i] = Pass(s, i)
  BY <1>4, <1>5, <1>6
<1> HIDE DEF Pass
<1>8. sum = [i \in 0..n |-> Pass(sum, i)]
  <2>1. s = [i \in 0..n |-> Pass(s, i)]
    BY <1>7, <1>5 DEF Sums
  <2> QED
    BY <2>1
<1> HIDE DEF sum
<1>9. 0 \in 0..n /\ n \in 0..n /\ \A i \in 1..n : i \in 0..n /\ i # 0
  BY <1>1
<1>10. sum[0] = s[0]
  BY <1>5, <1>8, <1>9 DEF Pass, Sums
<1>11. \A i \in 1..n : sum[i - 1] = s[i - 1] => sum[i] = s[i]
  BY <1>4, <1>5, <1>8, <1>9 DEF Pass, Sums
<1>12. sum[n] = s[n]
  <2>1. Alike(n, sum, s)
    BY <1>10, <1>11 DEF Alike
  <2> QED
    BY <1>1, <1>9, <2>1, SameLoop
<1> QED
  BY <1>2, <1>5, <1>12 DEF n, F

LEMMA ChangeType ==
    ASSUME NEW pk, NEW header \in Header
    PROVE  ChangeTo(pk, header) \in Int
<1>1. Len(header.txns) \in 0..Len(header.txns)
  BY DEF Header
<1> QED
  BY <1>1, ChangeSum DEF Sums

Changes(b, pk) == [h \in 1..Len(b) |-> ChangeTo(pk, b[h])]

(* What an account is worth is the sum of the changes along the branch.    *)
LEMMA NetWorthSum ==
    ASSUME NEW pk, NEW b \in Seq(Header)
    PROVE  \E s : Sums(s, Len(b), 0, Changes(b, pk)) /\ NetWorth(b, pk) = s[Len(b)]
<1> DEFINE n == Len(b)
           F == Changes(b, pk)
           Pass(f, i) == IF i = 0 THEN 0 ELSE f[i - 1] + ChangeTo(pk, b[i])
           sum == CHOOSE f : f = [i \in 0..n |-> Pass(f, i)]
<1>1. n \in Nat /\ \A i \in 1..n : b[i] \in Header
  OBVIOUS
<1>2. NetWorth(b, pk) = sum[n]
  BY DEF NetWorth
<1>3. F \in [1..n -> Int] /\ \A i \in 1..n : F[i] = ChangeTo(pk, b[i])
  BY <1>1, ChangeType DEF Changes
<1> HIDE DEF n, F
<1>4. PICK s : /\ Sums(s, n, 0, F)
               /\ s = [i \in 0..n |-> IF i = 0 THEN 0 ELSE s[i - 1] + F[i]]
  <2>1. 0 \in Int /\ n \in Nat
    BY <1>1
  <2> QED
    BY <1>3, <2>1, SumRuns
<1>5. \A i \in 0..n : i = 0 \/ i \in 1..n
  BY <1>1
<1>6. \A i \in 0..n : s[i] = Pass(s, i)
  BY <1>3, <1>4, <1>5
<1> HIDE DEF Pass
<1>7. sum = [i \in 0..n |-> Pass(sum, i)]
  <2>1. s = [i \in 0..n |-> Pass(s, i)]
    BY <1>4, <1>6 DEF Sums
  <2> QED
    BY <2>1
<1> HIDE DEF sum
<1>8. 0 \in 0..n /\ n \in 0..n /\ \A i \in 1..n : i \in 0..n /\ i # 0
  BY <1>1
<1>9. sum[0] = s[0]
  BY <1>4, <1>7, <1>8 DEF Pass, Sums
<1>10. \A i \in 1..n : sum[i - 1] = s[i - 1] => sum[i] = s[i]
  BY <1>3, <1>4, <1>7, <1>8 DEF Pass, Sums
<1>11. sum[n] = s[n]
  <2>1. n \in Nat
    BY <1>1
  <2>2. \A i \in 0..n : sum[i] = s[i]
    <3>1. Alike(n, sum, s)
      BY <1>9, <1>10 DEF Alike
    <3> QED
      BY <2>1, <3>1, SameLoop
  <2> QED
    BY <1>8, <2>2
<1> QED
  BY <1>2, <1>4, <1>11 DEF n, F

LEMMA NetWorthType ==
    ASSUME NEW pk, NEW b \in Seq(Header)
    PROVE  NetWorth(b, pk) \in Int /\ (b = << >> => NetWorth(b, pk) = 0)
<1>1. Len(b) \in 0..Len(b) /\ (b = << >> => Len(b) = 0)
  OBVIOUS
<1> QED
  BY <1>1, NetWorthSum DEF Sums

(* A block at the end of a branch adds its change.                         *)
LEMMA NetWorthOfAppend ==
    ASSUME NEW pk, NEW b \in Seq(Header), NEW header \in Header
    PROVE  NetWorth(Append(b, header), pk) = NetWorth(b, pk) + ChangeTo(pk, header)
<1> DEFINE c == Append(b, header)
           n == Len(b)
<1>1. /\ c \in Seq(Header) /\ n \in Nat /\ Len(c) = n + 1
      /\ \A i \in 1..n : c[i] = b[i]
      /\ c[n + 1] = header
  OBVIOUS
<1> HIDE DEF c, n
<1>2. PICK s : Sums(s, n, 0, Changes(b, pk)) /\ NetWorth(b, pk) = s[n]
  BY NetWorthSum DEF n
<1>3. PICK t : Sums(t, n + 1, 0, Changes(c, pk)) /\ NetWorth(c, pk) = t[n + 1]
  BY <1>1, NetWorthSum
<1>4. /\ 0 \in 0..n /\ n \in 0..n /\ n + 1 \in 1..(n + 1) /\ (n + 1) - 1 = n
      /\ \A i \in 1..n : i \in 1..(n + 1)
  BY <1>1
<1>5. \A i \in 1..n : Changes(c, pk)[i] = Changes(b, pk)[i]
  BY <1>1, <1>4 DEF Changes, n
<1>6. Changes(c, pk)[n + 1] = ChangeTo(pk, header)
  BY <1>1, <1>4 DEF Changes
<1>7. s[0] = t[0]
  BY <1>2, <1>3 DEF Sums
<1>8. \A i \in 1..n : s[i - 1] = t[i - 1] => s[i] = t[i]
  BY <1>2, <1>3, <1>4, <1>5 DEF Sums
<1>9. s[n] = t[n]
  <2>1. n \in Nat
    BY <1>1
  <2>2. \A i \in 0..n : s[i] = t[i]
    <3>1. Alike(n, s, t)
      BY <1>7, <1>8 DEF Alike
    <3> QED
      BY <2>1, <3>1, SameLoop
  <2> QED
    BY <1>4, <2>2
<1>10. t[n + 1] = t[n] + ChangeTo(pk, header)
  BY <1>3, <1>4, <1>6 DEF Sums
<1> QED
  BY <1>2, <1>3, <1>9, <1>10 DEF c
-----------------------------------------------------------------------------
(* The newest record of an account at or below a height.                   *)
LEMMA Newest ==
    ASSUME NEW h \in Nat, NEW pk
    PROVE  LET k == block_get_account(h, pk)
           IN  /\ k \in 0..h
               /\ k # 0 => k \in 1..h /\ pk \in DOMAIN accounts[k]
               /\ \A j \in 1..h : pk \in DOMAIN accounts[j] => j <= k
<1> DEFINE D == {0} \cup {k \in 1..h : pk \in DOMAIN accounts[k]}
           m == Max(D)
<1>1. D \in SUBSET (0..h) /\ D # {}
  OBVIOUS
<1>2. m \in D /\ \A d \in D : d <= m
  BY <1>1, MaxHeightOf
<1>3. block_get_account(h, pk) = m
  BY DEF block_get_account
<1> HIDE DEF m
<1> QED
  BY <1>1, <1>2, <1>3

(* The value of an account at the leaf, below the next block.              *)
Below(pk) == account_get_value(block_get_account(Leaf, pk), pk)

LEMMA Heights ==
    ASSUME TypeOK
    PROVE  /\ Leaf \in Nat /\ DOMAIN branch = 1..Leaf /\ branch \in Seq(Header)
           /\ DOMAIN accounts = 1..Leaf /\ accounts \in Seq(AccountMap)
           /\ \A h \in 1..Leaf : /\ accounts[h] \in AccountMap /\ DOMAIN accounts[h] \subseteq PublicKey
                                 /\ \A pk \in DOMAIN accounts[h] : accounts[h][pk] \in Record
<1>1. branch \in Seq(Header) /\ accounts \in Seq(AccountMap) /\ Len(accounts) = Leaf
  BY DEF TypeOK, Header, AccountMap
<1>2. Leaf \in Nat /\ DOMAIN branch = 1..Leaf /\ DOMAIN accounts = 1..Leaf
  BY <1>1 DEF Leaf
<1>3. \A h \in 1..Leaf : accounts[h] \in AccountMap
  BY <1>1, <1>2
<1> QED
  BY <1>1, <1>2, <1>3 DEF AccountMap

LEMMA BelowType ==
    ASSUME TypeOK, NEW pk
    PROVE  Below(pk) \in 0..(U64 - 1)
<1>1. Leaf \in Nat
  BY Heights
<1> DEFINE k == block_get_account(Leaf, pk)
<1>2. k = 0 \/ (k \in 1..Leaf /\ pk \in DOMAIN accounts[k])
  BY <1>1, Newest
<1> HIDE DEF k
<1>3. CASE k = 0
  <2>1. Below(pk) = 0
    BY <1>3 DEF Below, account_get_value, k
  <2>2. 0 \in 0..(U64 - 1)
    BY LedgerAssumption
  <2> QED
    BY <2>1, <2>2
<1>4. CASE k # 0
  <2>1. accounts[k][pk] \in Record
    BY <1>2, <1>4, Heights
  <2>2. Below(pk) = accounts[k][pk].value
    BY <1>4 DEF Below, account_get_value, k
  <2> QED
    BY <2>1, <2>2 DEF Record
<1> QED
  BY <1>3, <1>4

-----------------------------------------------------------------------------
(* The record of an account in a map, or the one it would be given.        *)
LEMMA RecordInType ==
    ASSUME TypeOK, Leaf < MaxHeight, NEW m \in AccountMap, NEW pk
    PROVE  RecordIn(m, pk) \in Record
<1>1. CASE pk \in DOMAIN m
  BY <1>1 DEF RecordIn, AccountMap
<1>2. CASE pk \notin DOMAIN m
  <2>1. RecordIn(m, pk) = [value |-> Below(pk), prev |-> block_get_account(Leaf, pk)]
    BY <1>2 DEF RecordIn, Below
  <2>2. block_get_account(Leaf, pk) \in 0..Leaf /\ Leaf \in Nat
    BY Heights, Newest
  <2>3. block_get_account(Leaf, pk) \in 0..(MaxHeight - 1)
    BY <2>2, LedgerAssumption
  <2> QED
    BY <2>1, <2>3, BelowType DEF Record
<1> QED
  BY <1>1, <1>2

(* What an amount that is added to an account does to the records.         *)
LEMMA CreditStep ==
    ASSUME TypeOK, Leaf < MaxHeight, NEW m \in AccountMap, NEW pk \in PublicKey,
           NEW amount \in Int
    PROVE  LET c == Credit(m, pk, amount)
           IN  /\ c \in AccountMap /\ DOMAIN c = DOMAIN m \cup {pk}
               /\ \A q : /\ RecordIn(c, q).prev = RecordIn(m, q).prev
                         /\ q # pk => RecordIn(c, q) = RecordIn(m, q)
               /\ RecordIn(c, pk).value = (RecordIn(m, pk).value + amount) % U64
<1> DEFINE old == RecordIn(m, pk)
           new == [value |-> (old.value + amount) % U64, prev |-> old.prev]
           c   == [k \in DOMAIN m \cup {pk} |-> IF k = pk THEN new ELSE m[k]]
<1>1. old \in Record
  BY RecordInType
<1> HIDE DEF old
<1>2. /\ old.value \in Int /\ old.prev \in 0..(MaxHeight - 1)
      /\ [old EXCEPT !.value = (old.value + amount) % U64] = new
  BY <1>1 DEF Record
<1>3. new \in Record /\ new.value = (old.value + amount) % U64 /\ new.prev = old.prev
  <2>1. (old.value + amount) % U64 \in 0..(U64 - 1)
    BY <1>2, LedgerAssumption, Division
  <2> QED
    BY <1>2, <2>1 DEF Record
<1>4. Credit(m, pk, amount) = c
  BY <1>2 DEF Credit, Put, old
<1> HIDE DEF new
<1>5. DOMAIN m \subseteq PublicKey /\ \A k \in DOMAIN m : m[k] \in Record
  BY DEF AccountMap
<1>6. c \in [DOMAIN m \cup {pk} -> Record]
  BY <1>3, <1>5
<1>7. c \in AccountMap /\ DOMAIN c = DOMAIN m \cup {pk}
  BY <1>5, <1>6 DEF AccountMap
<1>8. \A q \in DOMAIN m : q # pk => c[q] = m[q]
  OBVIOUS
<1>9. c[pk] = new
  OBVIOUS
<1> HIDE DEF c
<1>10. \A q : q # pk => RecordIn(c, q) = RecordIn(m, q)
  BY <1>7, <1>8 DEF RecordIn
<1>11. RecordIn(c, pk) = new
  BY <1>7, <1>9 DEF RecordIn
<1> QED
  BY <1>3, <1>4, <1>7, <1>10, <1>11 DEF old
(* What a transaction does to the records, also one to oneself.            *)
LEMMA TransferStep ==
    ASSUME TypeOK, Leaf < MaxHeight, NEW m \in AccountMap, NEW txn \in Txn
    PROVE  LET t == Transfer(m, txn)
           IN  /\ t \in AccountMap
               /\ DOMAIN t = DOMAIN m \cup {txn.sender, txn.recipient}
               /\ \A q : /\ RecordIn(t, q).prev = RecordIn(m, q).prev
                         /\ RecordIn(t, q).value
                              = (RecordIn(m, q).value + TransferTo(q, txn)) % U64
<1> DEFINE v == txn.value
           d == Credit(m, txn.sender, - v)
           t == Credit(d, txn.recipient, v)
<1>1. txn.sender \in PublicKey /\ txn.recipient \in PublicKey /\ v \in Int /\ - v \in Int
  <2>1. txn.sender \in PublicKey /\ txn.recipient \in PublicKey /\ txn.value \in Value
    BY DEF Txn
  <2>2. Value \subseteq Int
    BY LedgerAssumption
  <2>3. v \in Int
    BY <2>1, <2>2
  <2> HIDE DEF v
  <2>4. - v \in Int
    BY <2>3
  <2> QED
    BY <2>1, <2>3, <2>4
<1>2. Transfer(m, txn) = t
  BY DEF Transfer
<1>3. \A q : TransferTo(q, txn) = (IF txn.recipient = q THEN v ELSE 0)
                                  - (IF txn.sender = q THEN v ELSE 0)
  BY DEF TransferTo
<1> HIDE DEF v
<1>4. /\ d \in AccountMap /\ DOMAIN d = DOMAIN m \cup {txn.sender}
      /\ \A q : /\ RecordIn(d, q).prev = RecordIn(m, q).prev
                /\ q # txn.sender => RecordIn(d, q) = RecordIn(m, q)
      /\ RecordIn(d, txn.sender).value = (RecordIn(m, txn.sender).value + (- v)) % U64
  BY <1>1, CreditStep
<1> HIDE DEF d
<1>5. /\ t \in AccountMap /\ DOMAIN t = DOMAIN d \cup {txn.recipient}
      /\ \A q : /\ RecordIn(t, q).prev = RecordIn(d, q).prev
                /\ q # txn.recipient => RecordIn(t, q) = RecordIn(d, q)
      /\ RecordIn(t, txn.recipient).value = (RecordIn(d, txn.recipient).value + v) % U64
  BY <1>1, <1>4, CreditStep
<1> HIDE DEF t
<1>6. ASSUME NEW q
      PROVE  RecordIn(t, q).value = (RecordIn(m, q).value + TransferTo(q, txn)) % U64
  <2> DEFINE x == RecordIn(m, q).value
  <2>1. x \in 0..(U64 - 1)
    BY RecordInType DEF Record
  <2> HIDE DEF x
  <2>2. x \in Int /\ U64 \in Nat \ {0} /\ x % U64 = x
    BY <2>1, LedgerAssumption, SmallRemainder
  <2>3. CASE q = txn.sender /\ q = txn.recipient
    <3>1. TransferTo(q, txn) = v - v
      BY <1>3, <2>3
    <3>2. RecordIn(t, q).value = (((x + (- v)) % U64) + v) % U64
      BY <1>4, <1>5, <2>3 DEF x
    <3>3. x + (- v) \in Int
      BY <1>1, <2>2
    <3>4. (((x + (- v)) % U64) + v) % U64 = ((x + (- v)) + v) % U64
      BY <1>1, <2>2, <3>3, RemainderOfSum
    <3>5. (x + (- v)) + v = x + (v - v)
      BY <1>1, <2>2
    <3> QED
      BY <3>1, <3>2, <3>4, <3>5 DEF x
  <2>4. CASE q = txn.sender /\ q # txn.recipient
    <3>1. TransferTo(q, txn) = - v
      BY <1>1, <1>3, <2>4
    <3> QED
      BY <1>4, <1>5, <2>4, <3>1
  <2>5. CASE q # txn.sender /\ q = txn.recipient
    <3>1. TransferTo(q, txn) = v
      BY <1>1, <1>3, <2>5
    <3> QED
      BY <1>4, <1>5, <2>5, <3>1
  <2>6. CASE q # txn.sender /\ q # txn.recipient
    <3>1. TransferTo(q, txn) = 0
      BY <1>3, <2>6
    <3>2. RecordIn(t, q).value = x /\ x + 0 = x
      BY <1>4, <1>5, <2>2, <2>6 DEF x
    <3> QED
      BY <2>2, <3>1, <3>2 DEF x
  <2> QED
    BY <2>3, <2>4, <2>5, <2>6
<1> QED
  BY <1>2, <1>4, <1>5, <1>6

(* Where the loop starts: no record is in the new block.                   *)
LEMMA NoRecords ==
    /\ << >> \in AccountMap
    /\ DOMAIN << >> = {}
    /\ \A q : RecordIn(<< >>, q) = [value |-> Below(q), prev |-> block_get_account(Leaf, q)]
<1>1. << >> \in [{} -> Record] /\ DOMAIN << >> = {}
  OBVIOUS
<1>2. << >> \in AccountMap
  BY <1>1 DEF AccountMap
<1>3. \A q : RecordIn(<< >>, q) = [value |-> Below(q), prev |-> block_get_account(Leaf, q)]
  BY <1>1 DEF RecordIn, Below
<1> QED
  BY <1>1, <1>2, <1>3

(* The loop of are_transactions_valid.                                     *)
LEMMA RecordsLoop ==
    ASSUME TypeOK, Leaf < MaxHeight, NEW pk \in PublicKey, NEW txns \in Seq(Txn)
    PROVE  \E r : /\ r \in [0..Len(txns) -> AccountMap]
                  /\ r[0] = Credit(<< >>, pk, COINBASE_TRANSACTION)
                  /\ \A i \in 1..Len(txns) : r[i] = Transfer(r[i - 1], txns[i])
                  /\ Records(pk, txns) = r[Len(txns)]
<1> DEFINE n == Len(txns)
           base == Credit(<< >>, pk, COINBASE_TRANSACTION)
           F == [i \in 1..n |-> [m \in AccountMap |-> Transfer(m, txns[i])]]
           Pass(f, i) == IF i = 0 THEN base ELSE Transfer(f[i - 1], txns[i])
           after == CHOOSE f : f = [i \in 0..n |-> Pass(f, i)]
<1>1. n \in Nat /\ \A i \in 1..n : txns[i] \in Txn
  OBVIOUS
<1>2. base \in AccountMap
  <2>1. COINBASE_TRANSACTION \in Int
    BY LedgerAssumption
  <2> QED
    BY <2>1, NoRecords, CreditStep
<1>3. \A m \in AccountMap, i \in 1..n : Transfer(m, txns[i]) \in AccountMap
  BY <1>1, TransferStep
<1>4. Records(pk, txns) = after[n]
  BY DEF Records
<1> HIDE DEF n, base
<1>5. F \in [1..n -> [AccountMap -> AccountMap]]
  BY <1>3
<1>6. \A m \in AccountMap, i \in 1..n : F[i][m] = Transfer(m, txns[i])
  OBVIOUS
<1> HIDE DEF F
<1>7. PICK r : LoopValues(r, n, AccountMap, base, F)
  BY <1>1, <1>2, <1>5, LoopRuns DEF LoopPasses
<1>8. \A i \in 0..n : i = 0 \/ (i \in 1..n /\ i - 1 \in 0..n)
  BY <1>1
<1>9. ASSUME NEW i \in 0..n PROVE r[i] = Pass(r, i)
  <2>1. CASE i = 0
    BY <1>7, <2>1 DEF LoopValues
  <2>2. CASE i # 0
    <3>1. i \in 1..n /\ r[i - 1] \in AccountMap
      BY <1>7, <1>8, <2>2 DEF LoopValues
    <3> QED
      BY <1>6, <1>7, <2>2, <3>1 DEF LoopValues
  <2> QED
    BY <2>1, <2>2
<1> HIDE DEF Pass
<1>10. after = [i \in 0..n |-> Pass(after, i)]
  <2>1. r = [i \in 0..n |-> Pass(r, i)]
    BY <1>7, <1>9 DEF LoopValues
  <2> QED
    BY <2>1
<1> HIDE DEF after
<1>11. after[0] = base /\ \A i \in 1..n : after[i] = Transfer(after[i - 1], txns[i])
  <2>1. 0 \in 0..n /\ \A i \in 1..n : i \in 0..n /\ i # 0
    BY <1>1
  <2> QED
    BY <1>10, <2>1 DEF Pass
<1>12. \A i \in 0..n : after[i] \in AccountMap
  <2>1. n \in Nat
    BY <1>1
  <2> QED
    BY <1>2, <1>3, <1>11, <2>1, LoopInvariant
<1>13. after \in [0..n -> AccountMap]
  BY <1>10, <1>12
<1> QED
  BY <1>4, <1>11, <1>13 DEF n, base
(* The records of a new block: who has one, what it replaces and what it   *)
(* holds.                                                                  *)
LEMMA RecordsStep ==
    ASSUME TypeOK, Leaf < MaxHeight, NEW header \in Header
    PROVE  LET R == Records(header.pk, header.txns)
           IN  /\ R \in AccountMap
               /\ \A q : q \in DOMAIN R <=> Touches(header, q)
               /\ \A q : /\ RecordIn(R, q).prev = block_get_account(Leaf, q)
                         /\ RecordIn(R, q).value = (Below(q) + ChangeTo(q, header)) % U64
<1> DEFINE R == Records(header.pk, header.txns)
           txns == header.txns
           n == Len(txns)
<1>1. /\ header.pk \in PublicKey /\ txns \in Seq(Txn) /\ n \in Nat
      /\ \A i \in 1..n : txns[i] \in Txn
  BY DEF Header
<1>2. PICK r : /\ r \in [0..n -> AccountMap]
               /\ r[0] = Credit(<< >>, header.pk, COINBASE_TRANSACTION)
               /\ \A i \in 1..n : r[i] = Transfer(r[i - 1], txns[i])
               /\ R = r[n]
  BY <1>1, RecordsLoop
<1>3. \A q : Touches(header, q) <=>
                \/ header.pk = q
                \/ \E i \in 1..n : q \in {txns[i].sender, txns[i].recipient}
  BY DEF Touches
<1>4. \A q : \E s : /\ Sums(s, n, Reward(q, header), Transfers(q, header))
                    /\ ChangeTo(q, header) = s[n]
                    /\ \A i \in 1..n : Transfers(q, header)[i] = TransferTo(q, txns[i])
  BY ChangeSum DEF Transfers
<1> HIDE DEF R, txns, n
<1>5. /\ 0 \in 0..n /\ n \in 0..n
      /\ \A i \in 1..n : i \in 0..n /\ i - 1 \in 0..n
  BY <1>1
<1>6. ASSUME NEW i \in 1..n
      PROVE  /\ DOMAIN r[i] = DOMAIN r[i - 1] \cup {txns[i].sender, txns[i].recipient}
             /\ \A q : /\ RecordIn(r[i], q).prev = RecordIn(r[i - 1], q).prev
                       /\ RecordIn(r[i], q).value
                            = (RecordIn(r[i - 1], q).value + TransferTo(q, txns[i])) % U64
  <2> DEFINE m   == r[i - 1]
             txn == txns[i]
             t   == Transfer(m, txn)
  <2>1. m \in AccountMap /\ txn \in Txn /\ r[i] = t
    BY <1>1, <1>2, <1>5
  <2> HIDE DEF m, txn
  <2>2. /\ DOMAIN t = DOMAIN m \cup {txn.sender, txn.recipient}
        /\ \A q : /\ RecordIn(t, q).prev = RecordIn(m, q).prev
                  /\ RecordIn(t, q).value
                       = (RecordIn(m, q).value + TransferTo(q, txn)) % U64
    BY <2>1, TransferStep
  <2> QED
    BY <2>1, <2>2 DEF m, txn
<1>7. /\ DOMAIN r[0] = {header.pk}
      /\ \A q : RecordIn(r[0], q).prev = block_get_account(Leaf, q)
      /\ \A q : q # header.pk => RecordIn(r[0], q).value = Below(q)
      /\ RecordIn(r[0], header.pk).value = (Below(header.pk) + COINBASE_TRANSACTION) % U64
  <2>1. COINBASE_TRANSACTION \in Int
    BY LedgerAssumption
  <2> DEFINE m == << >>
             c == Credit(m, header.pk, COINBASE_TRANSACTION)
  <2>2. /\ m \in AccountMap /\ DOMAIN m = {}
        /\ \A q : RecordIn(m, q) = [value |-> Below(q), prev |-> block_get_account(Leaf, q)]
    BY NoRecords
  <2>3. r[0] = c
    BY <1>2
  <2> HIDE DEF m
  <2>4. /\ DOMAIN c = DOMAIN m \cup {header.pk}
        /\ \A q : /\ RecordIn(c, q).prev = RecordIn(m, q).prev
                  /\ q # header.pk => RecordIn(c, q) = RecordIn(m, q)
        /\ RecordIn(c, header.pk).value
             = (RecordIn(m, header.pk).value + COINBASE_TRANSACTION) % U64
    BY <1>1, <2>1, <2>2, CreditStep
  <2> HIDE DEF c
  <2>5. \A q : /\ RecordIn(m, q).prev = block_get_account(Leaf, q)
               /\ RecordIn(m, q).value = Below(q)
    BY <2>2
  <2> QED
    BY <2>2, <2>3, <2>4, <2>5
<1>8. \A q : q \in DOMAIN R <=> Touches(header, q)
  <2> DEFINE Named(i) == {header.pk} \cup UNION {{txns[j].sender, txns[j].recipient} : j \in 1..i}
             has == [i \in 0..n |-> DOMAIN r[i]]
             nam == [i \in 0..n |-> Named(i)]
  <2>1. has[0] = nam[0]
    <3>1. Named(0) = {header.pk}
      OBVIOUS
    <3> HIDE DEF Named
    <3> QED
      BY <1>5, <1>7, <3>1
  <2>2. ASSUME NEW i \in 1..n, has[i - 1] = nam[i - 1] PROVE has[i] = nam[i]
    <3>1. 1..i = 1..(i - 1) \cup {i}
      BY <1>1
    <3>2. Named(i) = Named(i - 1) \cup {txns[i].sender, txns[i].recipient}
      BY <3>1
    <3> HIDE DEF Named
    <3>3. DOMAIN r[i - 1] = Named(i - 1)
      BY <1>5, <2>2
    <3> QED
      BY <1>5, <1>6, <3>2, <3>3
  <2>3. has[n] = DOMAIN R /\ nam[n] = Named(n)
    BY <1>2, <1>5
  <2> HIDE DEF has, nam
  <2>4. n \in Nat
    BY <1>1 DEF n
  <2>5. \A i \in 0..n : has[i] = nam[i]
    <3>1. Alike(n, has, nam)
      BY <2>1, <2>2 DEF Alike
    <3> QED
      BY <2>4, <3>1, SameLoop
  <2>6. DOMAIN R = Named(n)
    BY <1>5, <2>3, <2>5
  <2> QED
    BY <1>3, <2>6
<1>9. ASSUME NEW q PROVE RecordIn(R, q).prev = block_get_account(Leaf, q)
  <2> DEFINE p == [i \in 0..n |-> RecordIn(r[i], q).prev]
             b == [i \in 0..n |-> block_get_account(Leaf, q)]
  <2>1. p[0] = b[0] /\ p[n] = RecordIn(R, q).prev /\ b[n] = block_get_account(Leaf, q)
    BY <1>2, <1>5, <1>7
  <2>2. \A i \in 1..n : p[i - 1] = b[i - 1] => p[i] = b[i]
    BY <1>5, <1>6
  <2> HIDE DEF p, b
  <2>3. n \in Nat
    BY <1>1 DEF n
  <2>4. \A i \in 0..n : p[i] = b[i]
    <3>1. Alike(n, p, b)
      BY <2>1, <2>2 DEF Alike
    <3> QED
      BY <2>3, <3>1, SameLoop
  <2> QED
    BY <1>5, <2>1, <2>4
<1>10. ASSUME NEW q PROVE RecordIn(R, q).value = (Below(q) + ChangeTo(q, header)) % U64
  <2>1. PICK s : /\ Sums(s, n, Reward(q, header), Transfers(q, header))
                 /\ ChangeTo(q, header) = s[n]
                 /\ \A i \in 1..n : Transfers(q, header)[i] = TransferTo(q, txns[i])
    BY <1>4
  <2>2. /\ s[0] = Reward(q, header) /\ \A i \in 0..n : s[i] \in Int
        /\ \A i \in 1..n : s[i] = s[i - 1] + TransferTo(q, txns[i])
    BY <2>1 DEF Sums
  <2>3. Below(q) \in Int /\ Below(q) % U64 = Below(q) /\ Below(q) + 0 = Below(q)
    <3>1. Below(q) \in 0..(U64 - 1) /\ U64 \in Nat \ {0}
      BY BelowType, LedgerAssumption
    <3> QED
      BY <3>1, SmallRemainder
  <2> DEFINE v == [i \in 0..n |-> RecordIn(r[i], q).value]
             w == [i \in 0..n |-> (Below(q) + s[i]) % U64]
  <2>4. v[0] = w[0]
    <3>1. CASE q = header.pk
      BY <1>5, <1>7, <2>2, <3>1 DEF Reward
    <3>2. CASE q # header.pk
      BY <1>5, <1>7, <2>2, <2>3, <3>2 DEF Reward
    <3> QED
      BY <3>1, <3>2
  <2>5. ASSUME NEW i \in 1..n, v[i - 1] = w[i - 1] PROVE v[i] = w[i]
    <3>1. TransferTo(q, txns[i]) \in Int
      BY <1>1, TransferType
    <3> DEFINE x == Below(q) + s[i - 1]
               y == TransferTo(q, txns[i])
    <3>2. x \in Int /\ y \in Int /\ U64 \in Nat \ {0}
      BY <1>5, <2>2, <2>3, <3>1, LedgerAssumption
    <3>3. v[i] = ((x % U64) + y) % U64
      BY <1>5, <1>6, <2>5
    <3>4. Below(q) + s[i] = x + y
      BY <1>5, <2>2, <2>3, <3>1
    <3>5. w[i] = (x + y) % U64
      BY <1>5, <3>4
    <3> HIDE DEF x, y, v, w
    <3> QED
      BY <3>2, <3>3, <3>5, RemainderOfSum
  <2>6. v[n] = RecordIn(R, q).value /\ w[n] = (Below(q) + s[n]) % U64
    BY <1>2, <1>5
  <2> HIDE DEF v, w
  <2>7. n \in Nat
    BY <1>1 DEF n
  <2>8. \A i \in 0..n : v[i] = w[i]
    <3>1. Alike(n, v, w)
      BY <2>4, <2>5 DEF Alike
    <3> QED
      BY <2>7, <3>1, SameLoop
  <2> QED
    BY <1>5, <2>1, <2>6, <2>8
<1>11. R \in AccountMap
  BY <1>2, <1>5
<1> QED
  BY <1>8, <1>9, <1>10, <1>11 DEF R, txns
-----------------------------------------------------------------------------
(* A block has the records of the accounts that it touches, and each of    *)
(* them replaces the newest one below.                                     *)
Recorded ==
    \A h \in 1..Leaf, pk \in PublicKey : pk \in DOMAIN accounts[h] <=> Touches(branch[h], pk)

Chained ==
    \A h \in 1..Leaf : \A pk \in DOMAIN accounts[h] :
        accounts[h][pk].prev = block_get_account(h - 1, pk)

IInv ==
    /\ TypeOK
    /\ RecordsMatchBranch
    /\ Recorded
    /\ Chained

LEMMA Prefix ==
    ASSUME NEW S, NEW b \in Seq(S), NEW x \in S
    PROVE  /\ \A h \in 0..Len(b) : SubSeq(Append(b, x), 1, h) = SubSeq(b, 1, h)
           /\ SubSeq(Append(b, x), 1, Len(b) + 1) = Append(b, x)
           /\ SubSeq(b, 1, Len(b)) = b
  OBVIOUS

(* At the leaf the records hold what the whole branch says.                *)
LEMMA BelowIsBalance ==
    ASSUME TypeOK, RecordsMatchBranch, NEW pk \in PublicKey
    PROVE  Below(pk) = Balance(branch, pk)
<1>1. Leaf \in Nat /\ branch \in Seq(Header) /\ Leaf = Len(branch)
  BY Heights DEF Leaf
<1>2. CASE Leaf = 0
  <2>1. block_get_account(Leaf, pk) = 0
    <3>1. block_get_account(Leaf, pk) \in 0..Leaf
      BY <1>1, Newest
    <3> QED
      BY <1>2, <3>1
  <2>2. Below(pk) = 0
    BY <2>1 DEF Below, account_get_value
  <2>3. branch = << >>
    BY <1>1, <1>2, EmptySeq
  <2>4. NetWorth(branch, pk) = 0
    BY <1>1, <2>3, NetWorthType
  <2>5. 0 \in 0..(U64 - 1) /\ U64 \in Nat \ {0}
    BY LedgerAssumption
  <2> QED
    BY <2>2, <2>4, <2>5, SmallRemainder DEF Balance
<1>3. CASE Leaf # 0
  <2>1. Leaf \in 1..Leaf
    BY <1>1, <1>3
  <2>2. SubSeq(branch, 1, Leaf) = branch
    BY <1>1
  <2> QED
    BY <2>1, <2>2 DEF RecordsMatchBranch, Below
<1> QED
  BY <1>2, <1>3

LEMMA AppendStep ==
    ASSUME IInv, NEW pk \in PublicKey, NEW txns \in Seq(Txn), AppendBlock(pk, txns)
    PROVE  IInv'
<1> DEFINE header == [pk |-> pk, txns |-> txns]
           R == Records(pk, txns)
<1> PICK n \in Nat : n = Leaf
  BY Heights DEF IInv
<1>1. /\ header \in Header /\ Leaf < MaxHeight
      /\ branch' = Append(branch, header) /\ accounts' = Append(accounts, R)
  BY DEF AppendBlock, Header
<1>2. /\ n \in Nat /\ DOMAIN branch = 1..n /\ branch \in Seq(Header) /\ n = Len(branch)
      /\ DOMAIN accounts = 1..n /\ accounts \in Seq(AccountMap) /\ n = Len(accounts)
  BY Heights DEF IInv, TypeOK, Leaf
<1>3. /\ R \in AccountMap
      /\ \A q : q \in DOMAIN R <=> Touches(header, q)
      /\ \A q : /\ RecordIn(R, q).prev = block_get_account(n, q)
                /\ RecordIn(R, q).value = (Below(q) + ChangeTo(q, header)) % U64
  <2>1. header.pk = pk /\ header.txns = txns
    OBVIOUS
  <2> HIDE DEF header
  <2> QED
    BY <1>1, <2>1, RecordsStep DEF IInv
<1> HIDE DEF R, header
<1>4. /\ branch' \in Seq(Header) /\ Leaf' = n + 1
      /\ accounts' \in Seq(AccountMap) /\ Len(accounts') = n + 1
      /\ \A h \in 1..n : accounts'[h] = accounts[h] /\ branch'[h] = branch[h]
      /\ accounts'[n + 1] = R /\ branch'[n + 1] = header
  BY <1>1, <1>2, <1>3 DEF Leaf
<1>5. /\ \A h \in 0..n : h \in Nat /\ 1..h \subseteq 1..n
      /\ n + 1 \in 1..(n + 1) /\ n + 1 \in Nat /\ n \in 0..n
      /\ \A h \in 1..(n + 1) : (h \in 1..n /\ h \in 0..n /\ h - 1 \in 0..n) \/ h = n + 1
      /\ (n + 1) - 1 = n
  BY <1>2
<1>6. \A h \in 0..n : \A q : block_get_account(h, q)' = block_get_account(h, q)
  BY <1>4, <1>5 DEF block_get_account
<1>7. \A q : /\ q \in DOMAIN R => block_get_account(n + 1, q)' = n + 1
             /\ q \notin DOMAIN R => block_get_account(n + 1, q)' = block_get_account(n, q)
  <2> SUFFICES ASSUME NEW q
               PROVE  /\ q \in DOMAIN R => block_get_account(n + 1, q)' = n + 1
                      /\ q \notin DOMAIN R => block_get_account(n + 1, q)' = block_get_account(n, q)
    OBVIOUS
  <2> DEFINE D == {0} \cup {k \in 1..(n + 1) : q \in DOMAIN accounts'[k]}
  <2>1. block_get_account(n + 1, q)' = Max(D)
    BY DEF block_get_account
  <2>2. ASSUME q \in DOMAIN R PROVE Max(D) = n + 1
    <3>1. n + 1 \in D /\ D \in SUBSET (0..(n + 1)) /\ n + 1 \in Nat
      BY <1>2, <1>4, <1>5, <2>2
    <3> HIDE DEF D
    <3>2. Max(D) \in D /\ \A d \in D : d <= Max(D)
      BY <3>1, MaxHeightOf
    <3>3. Max(D) \in 0..(n + 1) /\ n + 1 <= Max(D)
      BY <3>1, <3>2
    <3> QED
      BY <1>2, <3>3
  <2>3. ASSUME q \notin DOMAIN R PROVE D = {0} \cup {k \in 1..n : q \in DOMAIN accounts[k]}
    <3>1. 1..n \subseteq 1..(n + 1)
      BY <1>2
    <3> QED
      BY <1>4, <1>5, <2>3, <3>1
  <2> QED
    BY <2>1, <2>2, <2>3 DEF block_get_account
<1>8. \A h \in 0..n : \A q : account_get_value(h, q)' = account_get_value(h, q)
  BY <1>4, <1>5 DEF account_get_value
<1>9. TypeOK'
  <2>1. Len(branch') <= MaxHeight /\ Len(accounts') = Leaf'
    BY <1>1, <1>2, <1>4, LedgerAssumption DEF Leaf
  <2> QED
    BY <1>4, <2>1 DEF TypeOK, Header, AccountMap
<1>10. RecordsMatchBranch'
  <2> SUFFICES ASSUME NEW h \in 1..(n + 1), NEW q \in PublicKey
               PROVE  account_get_value(block_get_account(h, q), q)'
                        = Balance(SubSeq(branch', 1, h), q)
    BY <1>4 DEF RecordsMatchBranch, Balance, NetWorth, ChangeTo, TransferTo
  <2>1. CASE h \in 1..n
    <3>1. block_get_account(h, q)' = block_get_account(h, q) /\ block_get_account(h, q) \in 0..n
      <4>1. h \in 0..n /\ h \in Nat
        BY <1>5, <2>1
      <4>2. block_get_account(h, q) \in 0..h
        BY <4>1, Newest
      <4> QED
        BY <1>2, <1>6, <2>1, <4>1, <4>2
    <3>2. account_get_value(block_get_account(h, q), q)' = account_get_value(block_get_account(h, q), q)
      BY <1>8, <3>1
    <3>3. SubSeq(branch', 1, h) = SubSeq(branch, 1, h)
      BY <1>1, <1>2, <1>5, <2>1, Prefix
    <3> QED
      BY <2>1, <3>2, <3>3 DEF IInv, RecordsMatchBranch
  <2>2. CASE h = n + 1
    <3>1. SubSeq(branch', 1, h) = branch'
      BY <1>1, <1>2, <2>2, Prefix
    <3>2. Balance(branch', q) = (Below(q) + ChangeTo(q, header)) % U64
      <4>1. Below(q) = NetWorth(branch, q) % U64
        BY BelowIsBalance DEF IInv, Balance
      <4>2. NetWorth(branch', q) = NetWorth(branch, q) + ChangeTo(q, header)
        BY <1>1, <1>2, NetWorthOfAppend
      <4>3. /\ NetWorth(branch, q) \in Int /\ ChangeTo(q, header) \in Int
            /\ U64 \in Nat \ {0}
        BY <1>1, <1>2, NetWorthType, ChangeType, LedgerAssumption
      <4> QED
        BY <4>1, <4>2, <4>3, RemainderOfSum DEF Balance
    <3>3. account_get_value(block_get_account(n + 1, q), q)' = RecordIn(R, q).value
      <4>1. CASE q \in DOMAIN R
        <5>1. block_get_account(n + 1, q)' = n + 1 /\ n + 1 # 0
          BY <1>2, <1>7, <4>1
        <5>2. RecordIn(R, q) = R[q]
          BY <4>1 DEF RecordIn
        <5> QED
          BY <1>4, <5>1, <5>2 DEF account_get_value
      <4>2. CASE q \notin DOMAIN R
        <5>1. /\ block_get_account(n + 1, q)' = block_get_account(n, q)
              /\ block_get_account(n, q) \in 0..n
          BY <1>2, <1>7, <4>2, Newest
        <5>2. account_get_value(block_get_account(n + 1, q), q)'
                = account_get_value(block_get_account(n, q), q)
          BY <1>8, <5>1
        <5>3. RecordIn(R, q).value = account_get_value(block_get_account(n, q), q)
          BY <4>2 DEF RecordIn
        <5> QED
          BY <5>2, <5>3
      <4> QED
        BY <4>1, <4>2
    <3> QED
      BY <1>3, <2>2, <3>1, <3>2, <3>3
  <2> QED
    BY <1>5, <2>1, <2>2
<1>11. Recorded'
  <2> SUFFICES ASSUME NEW h \in 1..(n + 1), NEW q \in PublicKey
               PROVE  q \in DOMAIN accounts'[h] <=> Touches(branch'[h], q)
    BY <1>4 DEF Recorded, Touches
  <2> QED
    BY <1>3, <1>4, <1>5 DEF IInv, Recorded
<1>12. Chained'
  <2> SUFFICES ASSUME NEW h \in 1..(n + 1), NEW q \in DOMAIN accounts'[h]
               PROVE  accounts'[h][q].prev = block_get_account(h - 1, q)'
    BY <1>4 DEF Chained
  <2>1. CASE h \in 1..n
    <3>1. accounts[h][q].prev = block_get_account(h - 1, q)
      BY <1>4, <2>1 DEF IInv, Chained
    <3>2. block_get_account(h - 1, q)' = block_get_account(h - 1, q)
      BY <1>5, <1>6, <1>2, <2>1
    <3> QED
      BY <1>4, <2>1, <3>1, <3>2
  <2>2. CASE h = n + 1
    <3>1. R[q].prev = block_get_account(n, q)
      BY <1>3, <1>4, <2>2 DEF RecordIn
    <3> QED
      BY <1>4, <1>5, <1>6, <2>2, <3>1
  <2> QED
    BY <1>5, <2>1, <2>2
<1> QED
  BY <1>9, <1>10, <1>11, <1>12 DEF IInv
LEMMA InitIInv == Init => IInv
<1> SUFFICES ASSUME Init PROVE IInv
  OBVIOUS
<1>1. branch = << >> /\ accounts = << >> /\ Leaf = 0
  BY DEF Init, Leaf
<1>2. TypeOK
  <2>1. << >> \in Seq(Header) /\ << >> \in Seq(AccountMap) /\ Len(<< >>) = 0
    OBVIOUS
  <2>2. 0 <= MaxHeight
    BY LedgerAssumption
  <2> QED
    BY <1>1, <2>1, <2>2 DEF TypeOK, Header, AccountMap
<1>3. 1..Leaf = {}
  BY <1>1
<1> QED
  BY <1>2, <1>3 DEF IInv, RecordsMatchBranch, Recorded, Chained

LEMMA NextIInv == IInv /\ [Next]_vars => IInv'
<1> SUFFICES ASSUME IInv, [Next]_vars PROVE IInv'
  OBVIOUS
<1>1. ASSUME NEW pk \in PublicKey, NEW txns \in Payload, AppendBlock(pk, txns) PROVE IInv'
  <2>1. txns \in Seq(Txn)
    <3>1. CASE Leaf = 0
      BY <3>1 DEF Payload
    <3>2. CASE Leaf # 0
      <4>1. PICK k \in 0..MaxTxns(Leaf + 1) : txns \in [1..k -> Txn]
        BY <3>2 DEF Payload, BoundedSeq, SeqOf
      <4>2. k \in Nat
        OBVIOUS
      <4> QED
        BY <4>1, <4>2
    <3> QED
      BY <3>1, <3>2
  <2> QED
    BY <1>1, <2>1, AppendStep
<1>2. ASSUME NEW pk \in PublicKey, NEW txns \in Payload, block_create(pk, txns) PROVE IInv'
  BY <1>1, <1>2 DEF block_create
<1>3. ASSUME NEW pk \in PublicKey, NEW txns \in Payload, block_create_from_tuple(pk, txns)
      PROVE  IInv'
  BY <1>1, <1>3 DEF block_create_from_tuple
<1>4. CASE UNCHANGED vars
  <2>1. TypeOK'
    BY <1>4 DEF IInv, TypeOK, vars, Leaf, Record
  <2>2. \A h, q : /\ block_get_account(h, q)' = block_get_account(h, q)
                  /\ account_get_value(h, q)' = account_get_value(h, q)
    BY <1>4 DEF block_get_account, account_get_value, vars
  <2>3. Leaf' = Leaf /\ branch' = branch /\ accounts' = accounts
    BY <1>4 DEF vars, Leaf
  <2>4. RecordsMatchBranch'
    <3> SUFFICES ASSUME NEW h \in 1..Leaf', NEW q \in PublicKey
                 PROVE  account_get_value(block_get_account(h, q), q)'
                          = Balance(SubSeq(branch', 1, h), q)
      BY DEF RecordsMatchBranch, Balance, NetWorth, ChangeTo, TransferTo
    <3>1. account_get_value(block_get_account(h, q), q)' = account_get_value(block_get_account(h, q), q)
      BY <2>2, <2>3 DEF account_get_value
    <3>2. h \in 1..Leaf
      BY <2>3
    <3>3. account_get_value(block_get_account(h, q), q) = Balance(SubSeq(branch, 1, h), q)
      BY <3>2 DEF IInv, RecordsMatchBranch
    <3>4. SubSeq(branch', 1, h) = SubSeq(branch, 1, h)
      BY <2>3
    <3> HIDE DEF IInv
    <3> QED
      BY <3>1, <3>3, <3>4
  <2>5. Recorded' /\ Chained'
    BY <2>2, <2>3 DEF IInv, Recorded, Chained, Touches
  <2> QED
    BY <2>1, <2>4, <2>5 DEF IInv
<1> QED
  BY <1>2, <1>3, <1>4 DEF Next

(* The inductive invariant holds of the records of every branch.           *)
THEOREM Invariance == Spec => []IInv
  BY InitIInv, NextIInv, PTL DEF Spec

(* Whatever amounts overflow, the branch and the account maps stay of      *)
(* their types: values within an uint64_t, prev below the block.           *)
THEOREM TypeCorrect == Spec => []TypeOK
<1>1. IInv => TypeOK
  BY DEF IInv
<1> QED
  BY <1>1, Invariance, PTL

(* The loop of are_transactions_valid, which debits and credits records in *)
(* place and takes what it does not find from the blocks below, gives      *)
(* every account at every height what the branch says.                     *)
THEOREM RecordsAlwaysMatch == Spec => []RecordsMatchBranch
<1>1. IInv => RecordsMatchBranch
  BY DEF IInv
<1> QED
  BY <1>1, Invariance, PTL

-----------------------------------------------------------------------------
HasRecord(pk) == {k \in 1..Leaf : pk \in DOMAIN accounts[k]}

(* The chain of prev pointers ends at the oldest record of the account.    *)
LEMMA ChainEnds ==
    ASSUME IInv, NEW pk, block_get_account(Leaf, pk) # 0
    PROVE  FirstRecord(pk) = Min(HasRecord(pk))
<1> DEFINE T == HasRecord(pk)
           prev(h) == accounts[h][pk].prev
           Step(f, h) == IF prev(h) = 0 THEN h ELSE f[prev(h)]
           first == CHOOSE f : f = [h \in T |-> Step(f, h)]
           top == block_get_account(Leaf, pk)
           m == Min(T)
<1>1. FirstRecord(pk) = first[top]
  BY DEF FirstRecord, HasRecord
<1>2. Leaf \in Nat /\ top \in T /\ T \in SUBSET Nat
  <2>1. Leaf \in Nat
    BY Heights DEF IInv
  <2> QED
    BY <2>1, Newest DEF HasRecord
<1>3. m \in T /\ \A h \in T : m <= h
  BY <1>2, MinHeightOf
<1>4. ASSUME NEW h \in T
      PROVE  \/ prev(h) = 0 /\ h = m
             \/ prev(h) # 0 /\ prev(h) \in T /\ prev(h) < h
  <2>1. h \in 1..Leaf /\ h \in Nat \ {0} /\ h - 1 \in Nat
    BY <1>2 DEF HasRecord
  <2>2. prev(h) = block_get_account(h - 1, pk)
    BY <2>1 DEF IInv, Chained, HasRecord
  <2> HIDE DEF prev
  <2>3. /\ prev(h) \in 0..(h - 1)
        /\ prev(h) # 0 => prev(h) \in 1..(h - 1) /\ pk \in DOMAIN accounts[prev(h)]
        /\ \A j \in 1..(h - 1) : pk \in DOMAIN accounts[j] => j <= prev(h)
    BY <2>1, <2>2, Newest
  <2>4. CASE prev(h) = 0
    <3> SUFFICES ASSUME m # h PROVE FALSE
      BY <2>4
    <3>1. m \in 1..Leaf /\ pk \in DOMAIN accounts[m] /\ m <= h
      BY <1>3 DEF HasRecord
    <3> HIDE DEF m
    <3>2. m \in 1..(h - 1)
      BY <2>1, <3>1
    <3>3. m <= 0
      BY <2>3, <2>4, <3>1, <3>2
    <3> QED
      BY <3>2, <3>3
  <2>5. CASE prev(h) # 0
    <3>1. prev(h) \in 1..Leaf
      BY <1>2, <2>1, <2>3, <2>5
    <3> QED
      BY <2>1, <2>3, <2>5, <3>1 DEF HasRecord
  <2> QED
    BY <2>4, <2>5
<1> HIDE DEF T, prev, top, m
<1>5. first = [h \in T |-> Step(first, h)]
  <2> DEFINE f == [h \in T |-> m]
  <2>1. \A h \in T : f[h] = Step(f, h)
    BY <1>4
  <2>2. f = [h \in T |-> Step(f, h)]
    BY <2>1
  <2> HIDE DEF f, Step
  <2> QED
    BY <2>2
<1> HIDE DEF first
<1>6. \A h \in T : first[h] = m
  <2> DEFINE D == {h \in T : first[h] # m}
  <2> SUFFICES ASSUME D # {} PROVE FALSE
    OBVIOUS
  <2>1. D \in SUBSET Nat
    BY <1>2
  <2>2. PICK d \in D : \A e \in D : d <= e
    BY <2>1, LeastNumber
  <2>3. d \in T /\ first[d] # m /\ first[d] = Step(first, d)
    BY <1>5, <2>2
  <2>4. prev(d) # 0 /\ prev(d) \in T /\ prev(d) < d /\ first[d] = first[prev(d)]
    BY <1>4, <2>3
  <2>5. prev(d) \in D
    BY <2>3, <2>4
  <2> QED
    BY <1>2, <2>1, <2>2, <2>4, <2>5
<1> QED
  BY <1>1, <1>2, <1>6 DEF T, m

(* Where the branch touches an account, the account has a record.          *)
LEMMA RecordWhereTouched ==
    ASSUME IInv, NEW pk \in PublicKey
    PROVE  /\ Leaf \in Nat /\ Leaf = Len(branch) /\ branch \in Seq(Header)
           /\ TouchedAt(branch, pk) = HasRecord(pk)
           /\ block_get_account(Leaf, pk) # 0 <=> HasRecord(pk) # {}
<1>1. Leaf \in Nat /\ Leaf = Len(branch) /\ branch \in Seq(Header)
  BY Heights DEF IInv, Leaf
<1>2. TouchedAt(branch, pk) = HasRecord(pk)
  BY <1>1 DEF TouchedAt, HasRecord, IInv, Recorded
<1> DEFINE h == block_get_account(Leaf, pk)
<1>3. /\ h # 0 => h \in 1..Leaf /\ pk \in DOMAIN accounts[h]
      /\ \A j \in 1..Leaf : pk \in DOMAIN accounts[j] => j <= h
  BY <1>1, Newest
<1> HIDE DEF h
<1>4. ASSUME h = 0 PROVE HasRecord(pk) = {}
  BY <1>1, <1>3, <1>4 DEF HasRecord
<1>5. h # 0 <=> HasRecord(pk) # {}
  BY <1>3, <1>4 DEF HasRecord
<1> QED
  BY <1>1, <1>2, <1>5 DEF h

(* The walk along the prev pointers of any account, as is_staking_allowed  *)
(* does it, ends at the first block of the branch that touched it.         *)
THEOREM AgeAlwaysFound == Spec => []AccountAge
<1>1. IInv => AccountAge
  <2> SUFFICES ASSUME IInv, NEW pk \in PublicKey, HasAccount(branch, pk)
               PROVE  FirstRecord(pk) = Min(TouchedAt(branch, pk))
    BY DEF AccountAge
  <2>1. TouchedAt(branch, pk) = HasRecord(pk) /\ block_get_account(Leaf, pk) # 0
    BY RecordWhereTouched DEF HasAccount
  <2> QED
    BY <2>1, ChainEnds
<1> QED
  BY <1>1, Invariance, PTL

(* StakingAllowed, which the nodes use in place of the records, is the     *)
(* rule of is_staking_allowed.                                             *)
THEOREM StakingByBranch ==
    Spec => [](\A pk \in PublicKey : is_staking_allowed(pk) <=> StakingAllowed(branch, pk))
<1>1. ASSUME IInv, NEW pk \in PublicKey
      PROVE  is_staking_allowed(pk) <=> StakingAllowed(branch, pk)
  <2>1. Leaf = 0 <=> branch = << >>
    BY <1>1, RecordWhereTouched, EmptySeq
  <2> DEFINE h == block_get_account(Leaf, pk)
  <2>2. h # 0 <=> HasRecord(pk) # {}
    BY <1>1, RecordWhereTouched
  <2>3. account_get_delegates(h, pk) = Delegates(Balance(branch, pk))
    <3>1. Below(pk) = Balance(branch, pk)
      BY <1>1, BelowIsBalance DEF IInv
    <3> QED
      BY <3>1 DEF account_get_delegates, Below
  <2>4. h # 0 => FirstRecord(pk) = Min(HasRecord(pk))
    BY <1>1, ChainEnds
  <2>5. is_staking_allowed(pk) <=>
           \/ Leaf = 0
           \/ /\ h # 0 /\ account_get_delegates(h, pk) # 0
              /\ Leaf <= WAITING_PERIOD \/ FirstRecord(pk) + WAITING_PERIOD <= Leaf
    BY DEF is_staking_allowed
  <2>6. StakingAllowed(branch, pk) <=>
           \/ branch = << >>
           \/ /\ HasRecord(pk) # {} /\ Delegates(Balance(branch, pk)) # 0
              /\ Leaf <= WAITING_PERIOD \/ Min(HasRecord(pk)) + WAITING_PERIOD <= Leaf
    BY <1>1, RecordWhereTouched DEF StakingAllowed, HasAccount
  <2> HIDE DEF h
  <2> QED
    BY <2>1, <2>2, <2>3, <2>4, <2>5, <2>6
<1>2. IInv => \A pk \in PublicKey : is_staking_allowed(pk) <=> StakingAllowed(branch, pk)
  BY <1>1
<1> QED
  BY <1>2, Invariance, PTL

(* The lottery of block_create and the checks of block_create_from_tuple   *)
(* count the delegates of the account alike, so no block that its creator  *)
(* builds is refused for its delegate or its age.                          *)
THEOREM CreatedAlwaysAccepted == Spec => []CreatedIsAccepted
<1>1. TypeOK => CreatedIsAccepted
  <2> SUFFICES ASSUME TypeOK, NEW pk \in PublicKey, NEW delegate \in 0..(U32 - 1),
                      CanCreate(pk, delegate)
               PROVE  CanReceive(pk, delegate)
    BY DEF CreatedIsAccepted
  <2> DEFINE h == block_get_account(Leaf, pk)
  <2>1. h \in 0..Leaf /\ Leaf \in Nat
    BY Heights, Newest
  <2>2. h # 0 => Leaf # 0
    BY <2>1
  <2> QED
    BY <2>2 DEF CanCreate, CanReceive, OwnDelegates
<1> QED
  BY <1>1, TypeCorrect, PTL
-----------------------------------------------------------------------------
(* Sums over the accounts.                                                 *)

(* The member of s that the fold over a set takes next.                    *)
Chosen(s) == CHOOSE x \in s : TRUE

(* What holds of the empty set and of s as soon as it holds of s without   *)
(* its chosen member holds of every subset of S.                           *)
LEMMA EverySubset ==
    ASSUME NEW S, IsFiniteSet(S), NEW A, {} \in A,
           \A s \in SUBSET S : s # {} /\ s \ {Chosen(s)} \in A => s \in A
    PROVE  \A s \in SUBSET S : s \in A
<1> DEFINE D == {Cardinality(s) : s \in (SUBSET S) \ A}
<1>1. \A s \in SUBSET S : IsFiniteSet(s) /\ Cardinality(s) \in Nat
  BY FS_Subset, FS_CardinalityType
<1>2. SUFFICES ASSUME NEW s \in SUBSET S, s \notin A, \A d \in D : Cardinality(s) <= d
               PROVE  FALSE
  <2>1. ASSUME NEW u \in SUBSET S, u \notin A PROVE FALSE
    <3>1. D \in SUBSET Nat /\ D # {}
      BY <1>1, <2>1
    <3>2. PICK c \in D : \A d \in D : c <= d
      BY <3>1, LeastNumber
    <3> QED
      BY <1>2, <3>2
  <2> QED
    BY <2>1
<1> DEFINE x == Chosen(s)
           u == s \ {x}
<1>3. s # {}
  BY <1>2
<1>4. x \in s
  BY <1>3 DEF Chosen
<1>5. Cardinality(u) = Cardinality(s) - 1 /\ Cardinality(s) \in Nat
  BY <1>1, <1>4, FS_RemoveElement
<1>6. u \notin A /\ u \in SUBSET S
  BY <1>2, <1>3
<1>7. Cardinality(s) <= Cardinality(u)
  BY <1>2, <1>6
<1> HIDE DEF u
<1> QED
  BY <1>5, <1>7

(* g[s] is the sum of the numbers f[x] for x in s.                         *)
Totals(g, S, f) ==
    /\ g \in [SUBSET S -> Int]
    /\ g[{}] = 0
    /\ \A s \in SUBSET S : s # {} => g[s] = f[Chosen(s)] + g[s \ {Chosen(s)}]

LEMMA ChosenIn ==
    ASSUME NEW S, NEW s \in SUBSET S, s # {}
    PROVE  Chosen(s) \in s /\ Chosen(s) \in S /\ s \ {Chosen(s)} \in SUBSET S
<1>1. Chosen(s) \in s
  BY DEF Chosen
<1> QED
  BY <1>1

(* There is such a sum, built up by the number of members.                 *)
LEMMA TotalsExist ==
    ASSUME NEW S, IsFiniteSet(S), NEW f \in [S -> Int]
    PROVE  \E g : Totals(g, S, f)
<1> DEFINE Small(k) == {s \in SUBSET S : Cardinality(s) <= k}
           Rule(g, T) == \A s \in T : g[s] = IF s = {} THEN 0
                                             ELSE f[Chosen(s)] + g[s \ {Chosen(s)}]
           Upto(k) == \E g \in [Small(k) -> Int] : Rule(g, Small(k))
           D == {k \in Nat : ~ Upto(k)}
<1>1. \A s \in SUBSET S : /\ IsFiniteSet(s) /\ Cardinality(s) \in Nat
                          /\ Cardinality(s) <= Cardinality(S)
                          /\ Cardinality(s) = 0 <=> s = {}
  BY FS_Subset, FS_CardinalityType, FS_EmptySet
<1>2. \A s \in SUBSET S : s # {} =>
          /\ Chosen(s) \in S /\ s \ {Chosen(s)} \in SUBSET S
          /\ Cardinality(s \ {Chosen(s)}) = Cardinality(s) - 1
  <2> SUFFICES ASSUME NEW s \in SUBSET S, s # {}
               PROVE  /\ Chosen(s) \in S /\ s \ {Chosen(s)} \in SUBSET S
                      /\ Cardinality(s \ {Chosen(s)}) = Cardinality(s) - 1
    OBVIOUS
  <2>1. Chosen(s) \in s /\ Chosen(s) \in S /\ s \ {Chosen(s)} \in SUBSET S
    BY ChosenIn
  <2> QED
    BY <1>1, <2>1, FS_RemoveElement
<1>3. Upto(0)
  <2> DEFINE g == [s \in Small(0) |-> 0]
  <2>1. g \in [Small(0) -> Int]
    OBVIOUS
  <2>2. \A s \in Small(0) : s = {} /\ g[s] = 0
    BY <1>1
  <2> QED
    BY <2>1, <2>2
<1>4. ASSUME NEW k \in Nat \ {0}, Upto(k - 1) PROVE Upto(k)
  <2>1. PICK g \in [Small(k - 1) -> Int] : Rule(g, Small(k - 1))
    BY <1>4
  <2> DEFINE Here(s) == IF s = {} THEN 0 ELSE f[Chosen(s)] + g[s \ {Chosen(s)}]
             g2 == [s \in Small(k) |-> Here(s)]
  <2>2. \A s \in Small(k) : s # {} => s \ {Chosen(s)} \in Small(k - 1) \cap Small(k)
    BY <1>1, <1>2
  <2>3. \A s \in Small(k) : Here(s) \in Int
    BY <1>2, <2>2
  <2>4. g2 \in [Small(k) -> Int]
    BY <2>3
  <2>5. \A s \in Small(k - 1) : g[s] = Here(s)
    BY <2>1
  <2>6. \A s \in Small(k) : g2[s] = Here(s)
    OBVIOUS
  <2> HIDE DEF g2
  <2>7. ASSUME NEW s \in Small(k), s # {} PROVE g2[s] = f[Chosen(s)] + g2[s \ {Chosen(s)}]
    <3> DEFINE u == s \ {Chosen(s)}
    <3>1. u \in Small(k - 1) /\ u \in Small(k)
      BY <2>2, <2>7
    <3>2. g2[u] = g[u]
      BY <2>5, <2>6, <3>1
    <3> QED
      BY <2>6, <2>7, <3>2
  <2>8. \A s \in Small(k) : s = {} => g2[s] = 0
    BY <2>6
  <2> QED
    BY <2>4, <2>7, <2>8
<1> HIDE DEF Upto, Small, Rule
<1>5. D = {}
  <2> SUFFICES ASSUME D # {} PROVE FALSE
    OBVIOUS
  <2>1. PICK d \in D : \A e \in D : d <= e
    BY LeastNumber
  <2>2. d \in Nat \ {0} /\ d - 1 \in Nat /\ ~ (d <= d - 1)
    BY <1>3
  <2>3. Upto(d - 1)
    BY <2>1, <2>2
  <2> QED
    BY <1>4, <2>2, <2>3
<1> DEFINE n == Cardinality(S)
<1>6. n \in Nat /\ Small(n) = SUBSET S /\ {} \in SUBSET S
  BY <1>1 DEF Small
<1>7. PICK g \in [SUBSET S -> Int] : Rule(g, SUBSET S)
  <2> HIDE DEF n
  <2>1. Upto(n)
    BY <1>5, <1>6
  <2> QED
    BY <1>6, <2>1 DEF Upto
<1> QED
  BY <1>6, <1>7 DEF Totals, Rule

Total(S, f) == (CHOOSE g : Totals(g, S, f))[S]

LEMMA TotalFacts ==
    ASSUME NEW S, IsFiniteSet(S), NEW f \in [S -> Int]
    PROVE  \E g : Totals(g, S, f) /\ Total(S, f) = g[S] /\ Total(S, f) \in Int
<1> DEFINE g == CHOOSE g : Totals(g, S, f)
<1>1. Totals(g, S, f)
  BY TotalsExist
<1> HIDE DEF g
<1>2. g[S] \in Int
  BY <1>1 DEF Totals
<1> QED
  BY <1>1, <1>2 DEF Total, g

(* The fold of the library is this sum.                                    *)
LEMMA FoldIsTotal ==
    ASSUME NEW S, IsFiniteSet(S), NEW f \in [S -> Int]
    PROVE  FoldFunction(+, 0, f) = Total(S, f)
<1> DEFINE Rule(g) == [s \in SUBSET S |-> IF s = {} THEN 0
                                          ELSE f[Chosen(s)] + g[s \ {Chosen(s)}]]
           iter == CHOOSE g : g = Rule(g)
<1>1. FoldFunction(+, 0, f) = iter[S]
  <2>1. DOMAIN f = S
    OBVIOUS
  <2>2. FoldFunction(+, 0, f)
          = (CHOOSE g : g = [s \in SUBSET (DOMAIN f) |->
                               IF s = {} THEN 0
                               ELSE f[Chosen(s)] + g[s \ {Chosen(s)}]])[DOMAIN f]
    BY DEF FoldFunction, FoldFunctionOnSet, MapThenFoldSet, Chosen
  <2> QED
    BY <2>1, <2>2
<1>2. PICK g : Totals(g, S, f) /\ Total(S, f) = g[S]
  BY TotalFacts
<1>3. g = Rule(g)
  <2>1. \A s \in SUBSET S : g[s] = IF s = {} THEN 0 ELSE f[Chosen(s)] + g[s \ {Chosen(s)}]
    BY <1>2 DEF Totals
  <2> QED
    BY <1>2, <2>1 DEF Totals
<1>4. iter = Rule(iter)
  <2> HIDE DEF Rule
  <2> QED
    BY <1>3
<1> HIDE DEF iter
<1>5. \A s \in SUBSET S : iter[s] = IF s = {} THEN 0
                                    ELSE f[Chosen(s)] + iter[s \ {Chosen(s)}]
  BY <1>4
<1> DEFINE A == {s \in SUBSET S : iter[s] = g[s]}
<1>6. {} \in A
  BY <1>2, <1>5 DEF Totals
<1>7. ASSUME NEW s \in SUBSET S, s # {}, s \ {Chosen(s)} \in A PROVE s \in A
  BY <1>2, <1>5, <1>7 DEF Totals
<1> HIDE DEF A
<1>8. S \in A
  BY <1>6, <1>7, EverySubset
<1> QED
  BY <1>1, <1>2, <1>8 DEF A

(* The sum of sums.                                                        *)
LEMMA TotalOfSum ==
    ASSUME NEW S, IsFiniteSet(S), NEW f \in [S -> Int], NEW g \in [S -> Int]
    PROVE  Total(S, [x \in S |-> f[x] + g[x]]) = Total(S, f) + Total(S, g)
<1> DEFINE h == [x \in S |-> f[x] + g[x]]
<1>1. h \in [S -> Int] /\ \A x \in S : h[x] = f[x] + g[x] /\ f[x] \in Int /\ g[x] \in Int
  OBVIOUS
<1> HIDE DEF h
<1>2. PICK a : Totals(a, S, f) /\ Total(S, f) = a[S]
  BY TotalFacts
<1>3. PICK b : Totals(b, S, g) /\ Total(S, g) = b[S]
  BY TotalFacts
<1>4. PICK c : Totals(c, S, h) /\ Total(S, h) = c[S]
  BY <1>1, TotalFacts
<1> DEFINE A == {s \in SUBSET S : c[s] = a[s] + b[s]}
<1>5. {} \in A
  BY <1>2, <1>3, <1>4 DEF Totals
<1>6. ASSUME NEW s \in SUBSET S, s # {}, s \ {Chosen(s)} \in A PROVE s \in A
  <2> DEFINE x == Chosen(s)
             u == s \ {x}
  <2>1. x \in S /\ u \in SUBSET S
    BY <1>6, ChosenIn
  <2>2. a[s] = f[x] + a[u] /\ b[s] = g[x] + b[u] /\ c[s] = h[x] + c[u]
    BY <1>2, <1>3, <1>4, <1>6 DEF Totals
  <2>3. a[u] \in Int /\ b[u] \in Int /\ c[u] = a[u] + b[u]
    BY <1>2, <1>3, <1>6, <2>1 DEF Totals
  <2> HIDE DEF x, u
  <2>4. c[s] = a[s] + b[s]
    BY <1>1, <2>1, <2>2, <2>3
  <2> QED
    BY <2>4
<1> HIDE DEF A
<1>7. S \in A
  BY <1>5, <1>6, EverySubset
<1> QED
  BY <1>2, <1>3, <1>4, <1>7 DEF A, h

(* A sum with one term.                                                    *)
LEMMA TotalOfOne ==
    ASSUME NEW S, IsFiniteSet(S), NEW y \in S, NEW v \in Int
    PROVE  Total(S, [x \in S |-> IF x = y THEN v ELSE 0]) = v
<1> DEFINE f == [x \in S |-> IF x = y THEN v ELSE 0]
<1>1. f \in [S -> Int] /\ \A x \in S : f[x] = IF x = y THEN v ELSE 0
  OBVIOUS
<1> HIDE DEF f
<1>2. PICK a : Totals(a, S, f) /\ Total(S, f) = a[S]
  BY <1>1, TotalFacts
<1> DEFINE A == {s \in SUBSET S : a[s] = IF y \in s THEN v ELSE 0}
<1>3. {} \in A
  BY <1>2 DEF Totals
<1>4. ASSUME NEW s \in SUBSET S, s # {}, s \ {Chosen(s)} \in A PROVE s \in A
  <2> DEFINE x == Chosen(s)
             u == s \ {x}
  <2>1. x \in S /\ x \in s /\ u \in SUBSET S
    BY <1>4, ChosenIn
  <2>2. a[s] = f[x] + a[u] /\ a[u] = IF y \in u THEN v ELSE 0
    BY <1>2, <1>4 DEF Totals
  <2>3. CASE x = y
    <3>1. y \in s /\ y \notin u /\ f[x] = v
      BY <1>1, <2>1, <2>3
    <3> QED
      BY <2>2, <3>1
  <2>4. CASE x # y
    <3>1. (y \in s <=> y \in u) /\ f[x] = 0
      BY <1>1, <2>1, <2>4
    <3> HIDE DEF x, u
    <3> QED
      BY <2>2, <3>1
  <2> QED
    BY <2>3, <2>4
<1> HIDE DEF A
<1>5. S \in A
  BY <1>3, <1>4, EverySubset
<1> QED
  BY <1>2, <1>5 DEF A, f

(* Whether the remainder is taken of every term makes no difference to the *)
(* remainder of the sum.                                                   *)
LEMMA TotalOfRemainders ==
    ASSUME NEW S, IsFiniteSet(S), NEW f \in [S -> Int], NEW U \in Nat \ {0}
    PROVE  Total(S, [x \in S |-> f[x] % U]) % U = Total(S, f) % U
<1> DEFINE g == [x \in S |-> f[x] % U]
<1>1. g \in [S -> Int] /\ \A x \in S : g[x] = f[x] % U /\ f[x] \in Int
  BY Division
<1> HIDE DEF g
<1>2. PICK a : Totals(a, S, f) /\ Total(S, f) = a[S]
  BY TotalFacts
<1>3. PICK b : Totals(b, S, g) /\ Total(S, g) = b[S]
  BY <1>1, TotalFacts
<1> DEFINE A == {s \in SUBSET S : b[s] % U = a[s] % U}
<1>4. {} \in A
  BY <1>2, <1>3 DEF Totals
<1>5. ASSUME NEW s \in SUBSET S, s # {}, s \ {Chosen(s)} \in A PROVE s \in A
  <2> DEFINE x == Chosen(s)
             u == s \ {x}
  <2>1. x \in S /\ u \in SUBSET S
    BY <1>5, ChosenIn
  <2>2. a[s] = f[x] + a[u] /\ b[s] = g[x] + b[u]
    BY <1>2, <1>3, <1>5 DEF Totals
  <2>3. a[u] \in Int /\ b[u] \in Int /\ b[u] % U = a[u] % U
    BY <1>2, <1>3, <1>5, <2>1 DEF Totals
  <2>4. g[x] = f[x] % U /\ f[x] \in Int /\ f[x] % U \in Int
    BY <1>1, <2>1, Division
  <2> HIDE DEF x, u
  <2>5. (g[x] + b[u]) % U = (f[x] + b[u]) % U
    BY <2>3, <2>4, RemainderOfSum
  <2>6. \A z \in Int : (f[x] + z) % U = ((z % U) + f[x]) % U
    <3> SUFFICES ASSUME NEW z \in Int PROVE (f[x] + z) % U = ((z % U) + f[x]) % U
      OBVIOUS
    <3>1. ((z % U) + f[x]) % U = (z + f[x]) % U
      BY <2>4, RemainderOfSum
    <3>2. f[x] + z = z + f[x]
      BY <2>4
    <3> QED
      BY <3>1, <3>2
  <2>7. (f[x] + b[u]) % U = (f[x] + a[u]) % U
    BY <2>3, <2>6
  <2>8. b[s] % U = a[s] % U
    BY <2>2, <2>5, <2>7
  <2> QED
    BY <2>8
<1> HIDE DEF A
<1>6. S \in A
  BY <1>4, <1>5, EverySubset
<1> QED
  BY <1>2, <1>3, <1>6 DEF A, g

LEMMA NextMultiple ==
    ASSUME NEW c \in Int, NEW i \in Int
    PROVE  c * i = c * (i - 1) + c /\ c * 0 = 0
OBVIOUS

(* Every account sums up in a loop; in each pass the accounts together     *)
(* take c.                                                                 *)
Tallies(s, S, n, base, F, c) ==
    /\ \A x \in S : Sums(s[x], n, base[x], F[x]) /\ F[x] \in [1..n -> Int]
    /\ \A i \in 1..n : Total(S, [x \in S |-> F[x][i]]) = c

LEMMA TotalOfLoops ==
    ASSUME NEW S, IsFiniteSet(S), NEW n \in Nat, NEW c \in Int, NEW base \in [S -> Int],
           NEW F, NEW s, Tallies(s, S, n, base, F, c)
    PROVE  Total(S, [x \in S |-> s[x][n]]) = Total(S, base) + c * n
<1> USE DEF Tallies
<1> DEFINE at(i) == [x \in S |-> s[x][i]]
           more(i) == [x \in S |-> F[x][i]]
           B == Total(S, base)
           r == [i \in 0..n |-> Total(S, at(i))]
           q == [i \in 0..n |-> B + c * i]
<1>1. /\ \A i \in 0..n : at(i) \in [S -> Int]
      /\ \A i \in 1..n : more(i) \in [S -> Int] /\ i - 1 \in 0..n /\ i \in 0..n
      /\ at(0) = base
      /\ 0 \in 0..n /\ n \in 0..n
  BY DEF Sums
<1>2. \A i \in 0..n : Total(S, at(i)) \in Int
  BY <1>1, TotalFacts
<1>3. B \in Int
  BY TotalFacts
<1>4. ASSUME NEW i \in 1..n, r[i - 1] = q[i - 1] PROVE r[i] = q[i]
  <2>1. at(i) = [x \in S |-> at(i - 1)[x] + more(i)[x]]
    BY DEF Sums
  <2> HIDE DEF at, more
  <2>2. Total(S, [x \in S |-> at(i - 1)[x] + more(i)[x]]) = Total(S, at(i - 1)) + Total(S, more(i))
    <3> DEFINE a == at(i - 1)
               m == more(i)
    <3>1. a \in [S -> Int] /\ m \in [S -> Int]
      BY <1>1
    <3> HIDE DEF a, m
    <3>2. Total(S, [x \in S |-> a[x] + m[x]]) = Total(S, a) + Total(S, m)
      BY <3>1, TotalOfSum
    <3> QED
      BY <3>2 DEF a, m
  <2>3. Total(S, more(i)) = c
    BY DEF more
  <2>4. Total(S, at(i - 1)) = B + c * (i - 1)
    BY <1>1, <1>4
  <2>5. Total(S, at(i)) = (B + c * (i - 1)) + c
    BY <2>1, <2>2, <2>3, <2>4
  <2>6. c * i = c * (i - 1) + c /\ c * (i - 1) \in Int
    BY NextMultiple
  <2>7. Total(S, at(i)) = B + c * i
    BY <1>3, <2>5, <2>6
  <2> QED
    BY <1>1, <2>7
<1>5. r[0] = q[0]
  <2> HIDE DEF at
  <2>1. c * 0 = 0
    BY NextMultiple
  <2> QED
    BY <1>1, <1>3, <2>1
<1>6. r[n] = Total(S, at(n)) /\ q[n] = B + c * n
  BY <1>1
<1> HIDE DEF r, q
<1>7. \A i \in 0..n : r[i] = q[i]
  <2>1. Alike(n, r, q)
    BY <1>4, <1>5 DEF Alike
  <2> QED
    BY <2>1, SameLoop
<1> QED
  BY <1>1, <1>6, <1>7

(* A transfer gives one account what it takes from another.                *)
LEMMA TransferMovesValue ==
    ASSUME NEW txn \in Txn
    PROVE  Total(PublicKey, [pk \in PublicKey |-> TransferTo(pk, txn)]) = 0
<1> DEFINE v == txn.value
           got == [pk \in PublicKey |-> IF pk = txn.recipient THEN v ELSE 0]
           spent == [pk \in PublicKey |-> IF pk = txn.sender THEN - v ELSE 0]
<1>1. v \in Int /\ - v \in Int /\ txn.sender \in PublicKey /\ txn.recipient \in PublicKey
  <2>1. /\ txn.value \in Value
        /\ txn.sender \in PublicKey /\ txn.recipient \in PublicKey
    BY DEF Txn
  <2>2. Value \subseteq Int
    BY LedgerAssumption
  <2>3. v \in Int
    BY <2>1, <2>2
  <2> HIDE DEF v
  <2> QED
    BY <2>1, <2>3
<1>2. IsFiniteSet(PublicKey)
  BY LedgerAssumption
<1>3. got \in [PublicKey -> Int] /\ spent \in [PublicKey -> Int]
  BY <1>1
<1>4. Total(PublicKey, got) = v /\ Total(PublicKey, spent) = - v
  <2> HIDE DEF v
  <2> QED
    BY <1>1, <1>2, TotalOfOne
<1>5. ASSUME NEW pk \in PublicKey PROVE TransferTo(pk, txn) = got[pk] + spent[pk]
  <2>1. got[pk] = (IF txn.recipient = pk THEN v ELSE 0) /\ got[pk] \in Int
    BY <1>1
  <2>2. spent[pk] = - (IF txn.sender = pk THEN v ELSE 0)
    BY <1>1
  <2>3. (IF txn.sender = pk THEN v ELSE 0) \in Int
    BY <1>1
  <2>4. TransferTo(pk, txn) = got[pk] - (IF txn.sender = pk THEN v ELSE 0)
    BY <2>1 DEF TransferTo
  <2> HIDE DEF got, spent
  <2> QED
    BY <2>1, <2>2, <2>3, <2>4
<1> HIDE DEF got, spent, v
<1>6. [pk \in PublicKey |-> TransferTo(pk, txn)] = [pk \in PublicKey |-> got[pk] + spent[pk]]
  BY <1>5
<1>7. Total(PublicKey, [pk \in PublicKey |-> got[pk] + spent[pk]])
        = Total(PublicKey, got) + Total(PublicKey, spent)
  BY <1>2, <1>3, TotalOfSum
<1> QED
  BY <1>1, <1>4, <1>6, <1>7

(* A block makes one coinbase.                                             *)
LEMMA BlockMints ==
    ASSUME NEW header \in Header
    PROVE  Total(PublicKey, [pk \in PublicKey |-> ChangeTo(pk, header)]) = COINBASE_TRANSACTION
<1> DEFINE n == Len(header.txns)
           Run(pk, t) == /\ Sums(t, n, Reward(pk, header), Transfers(pk, header))
                         /\ ChangeTo(pk, header) = t[n]
           s == [pk \in PublicKey |-> CHOOSE t : Run(pk, t)]
           base == [pk \in PublicKey |-> Reward(pk, header)]
           F == [pk \in PublicKey |-> Transfers(pk, header)]
<1>1. /\ n \in Nat /\ header.pk \in PublicKey
      /\ \A i \in 1..n : header.txns[i] \in Txn
      /\ IsFiniteSet(PublicKey) /\ COINBASE_TRANSACTION \in Int
  BY LedgerAssumption DEF Header
<1>2. \A pk \in PublicKey : Run(pk, s[pk])
  <2> SUFFICES ASSUME NEW pk \in PublicKey PROVE Run(pk, s[pk])
    OBVIOUS
  <2>1. \E t : Run(pk, t)
    BY ChangeSum
  <2> HIDE DEF Run
  <2> QED
    BY <2>1
<1>3. base \in [PublicKey -> Int] /\ Total(PublicKey, base) = COINBASE_TRANSACTION
  <2>1. base = [pk \in PublicKey |-> IF pk = header.pk THEN COINBASE_TRANSACTION ELSE 0]
    BY DEF Reward
  <2>2. base \in [PublicKey -> Int]
    BY <1>1, <2>1
  <2> HIDE DEF base
  <2> QED
    BY <1>1, <2>1, <2>2, TotalOfOne
<1>4. \A pk \in PublicKey : /\ Sums(s[pk], n, base[pk], F[pk])
                            /\ F[pk] \in [1..n -> Int]
  <2> SUFFICES ASSUME NEW pk \in PublicKey
               PROVE  Sums(s[pk], n, base[pk], F[pk]) /\ F[pk] \in [1..n -> Int]
    OBVIOUS
  <2>1. Transfers(pk, header) \in [1..n -> Int]
    BY <1>1, TransferType DEF Transfers
  <2>2. base[pk] = Reward(pk, header) /\ F[pk] = Transfers(pk, header)
    OBVIOUS
  <2>3. Sums(s[pk], n, Reward(pk, header), Transfers(pk, header))
    BY <1>2
  <2> HIDE DEF s, base, F
  <2> QED
    BY <2>1, <2>2, <2>3
<1>5. ASSUME NEW i \in 1..n PROVE Total(PublicKey, [pk \in PublicKey |-> F[pk][i]]) = 0
  <2>1. [pk \in PublicKey |-> F[pk][i]] = [pk \in PublicKey |-> TransferTo(pk, header.txns[i])]
    BY DEF Transfers
  <2> QED
    BY <1>1, <2>1, TransferMovesValue
<1>6. [pk \in PublicKey |-> ChangeTo(pk, header)] = [pk \in PublicKey |-> s[pk][n]]
  BY <1>2
<1> HIDE DEF n, s, base, F
<1>7. Total(PublicKey, [pk \in PublicKey |-> s[pk][n]]) = Total(PublicKey, base) + 0 * n
  <2>1. Tallies(s, PublicKey, n, base, F, 0)
    BY <1>4, <1>5 DEF Tallies
  <2>2. 0 \in Int
    OBVIOUS
  <2> QED
    BY <1>1, <1>3, <2>1, <2>2, TotalOfLoops
<1> QED
  BY <1>1, <1>3, <1>6, <1>7

(* A branch makes one coinbase for each of its blocks.                     *)
LEMMA BranchMints ==
    ASSUME NEW b \in Seq(Header)
    PROVE  Total(PublicKey, [pk \in PublicKey |-> NetWorth(b, pk)]) = COINBASE_TRANSACTION * Len(b)
<1> DEFINE n == Len(b)
           c == COINBASE_TRANSACTION
           Run(pk, t) == Sums(t, n, 0, Changes(b, pk)) /\ NetWorth(b, pk) = t[n]
           s == [pk \in PublicKey |-> CHOOSE t : Run(pk, t)]
           base == [pk \in PublicKey |-> 0]
           F == [pk \in PublicKey |-> Changes(b, pk)]
<1>1. /\ n \in Nat /\ IsFiniteSet(PublicKey) /\ c \in Int
      /\ \A i \in 1..n : b[i] \in Header
  BY LedgerAssumption
<1>2. \A pk \in PublicKey : Run(pk, s[pk])
  <2> SUFFICES ASSUME NEW pk \in PublicKey PROVE Run(pk, s[pk])
    OBVIOUS
  <2>1. \E t : Run(pk, t)
    BY NetWorthSum
  <2> HIDE DEF Run
  <2> QED
    BY <2>1
<1>3. base \in [PublicKey -> Int] /\ Total(PublicKey, base) = 0
  <2>1. base \in [PublicKey -> Int] /\ base = [pk \in PublicKey |-> base[pk] + base[pk]]
    OBVIOUS
  <2> HIDE DEF base
  <2>2. Total(PublicKey, base) \in Int
    BY <1>1, <2>1, TotalFacts
  <2>3. Total(PublicKey, [pk \in PublicKey |-> base[pk] + base[pk]])
          = Total(PublicKey, base) + Total(PublicKey, base)
    BY <1>1, <2>1, TotalOfSum
  <2> DEFINE z == Total(PublicKey, base)
  <2>4. z = z + z /\ z \in Int
    <3> HIDE DEF z
    <3>1. [pk \in PublicKey |-> base[pk] + base[pk]] = base
      BY <2>1
    <3> QED
      BY <2>2, <2>3, <3>1 DEF z
  <2> HIDE DEF z
  <2>5. z = 0
    BY <2>4
  <2> QED
    BY <2>1, <2>5 DEF z
<1>4. \A pk \in PublicKey : /\ Sums(s[pk], n, base[pk], F[pk])
                            /\ F[pk] \in [1..n -> Int]
  <2> SUFFICES ASSUME NEW pk \in PublicKey
               PROVE  Sums(s[pk], n, base[pk], F[pk]) /\ F[pk] \in [1..n -> Int]
    OBVIOUS
  <2>1. Changes(b, pk) \in [1..n -> Int]
    BY <1>1, ChangeType DEF Changes
  <2>2. base[pk] = 0 /\ F[pk] = Changes(b, pk)
    OBVIOUS
  <2>3. Sums(s[pk], n, 0, Changes(b, pk))
    BY <1>2
  <2> HIDE DEF s, base, F
  <2> QED
    BY <2>1, <2>2, <2>3
<1>5. ASSUME NEW i \in 1..n PROVE Total(PublicKey, [pk \in PublicKey |-> F[pk][i]]) = c
  <2>1. [pk \in PublicKey |-> F[pk][i]] = [pk \in PublicKey |-> ChangeTo(pk, b[i])]
    BY DEF Changes
  <2> QED
    BY <1>1, <2>1, BlockMints
<1>6. [pk \in PublicKey |-> NetWorth(b, pk)] = [pk \in PublicKey |-> s[pk][n]]
  BY <1>2
<1> HIDE DEF n, c, s, base, F
<1>7. Total(PublicKey, [pk \in PublicKey |-> s[pk][n]]) = Total(PublicKey, base) + c * n
  <2>1. Tallies(s, PublicKey, n, base, F, c)
    BY <1>4, <1>5 DEF Tallies
  <2> QED
    BY <1>1, <1>3, <2>1, TotalOfLoops
<1>8. c * n \in Int /\ 0 + c * n = c * n
  BY <1>1
<1> QED
  BY <1>3, <1>6, <1>7, <1>8 DEF c, n

(* Transactions make no value and lose none: the accounts together hold    *)
(* the coinbases of the branch, for every width of the type.               *)
THEOREM SupplyAlwaysConserved == Spec => []SupplyConserved
<1>1. ASSUME IInv PROVE SupplyConserved
  <2> DEFINE f == [pk \in PublicKey |-> account_get_value(block_get_account(Leaf, pk), pk)]
             w == [pk \in PublicKey |-> NetWorth(branch, pk)]
  <2>1. /\ TypeOK /\ RecordsMatchBranch /\ branch \in Seq(Header)
        /\ IsFiniteSet(PublicKey) /\ U64 \in Nat \ {0}
    BY <1>1, LedgerAssumption DEF IInv, TypeOK, Header
  <2>2. w \in [PublicKey -> Int] /\ \A pk \in PublicKey : w[pk] = NetWorth(branch, pk)
    BY <2>1, NetWorthType
  <2>3. f = [pk \in PublicKey |-> w[pk] % U64]
    BY <2>1, <2>2, BelowIsBalance DEF Below, Balance
  <2>4. f \in [PublicKey -> Int]
    BY <2>1, <2>2, <2>3, Division
  <2>5. Total(PublicKey, w) = COINBASE_TRANSACTION * Leaf
    BY <2>1, BranchMints DEF Leaf
  <2> HIDE DEF f, w
  <2>6. FoldFunction(+, 0, f) = Total(PublicKey, f)
    BY <2>1, <2>4, FoldIsTotal
  <2>7. Total(PublicKey, f) % U64 = Total(PublicKey, w) % U64
    BY <2>1, <2>2, <2>3, TotalOfRemainders
  <2>8. FoldFunction(+, 0, f) % U64 = (COINBASE_TRANSACTION * Leaf) % U64
    BY <2>5, <2>6, <2>7
  <2> QED
    BY <2>8 DEF SupplyConserved, f
<1> QED
  BY <1>1, Invariance, PTL
=============================================================================
