----------------------------- MODULE NodeProofs -----------------------------
(***************************************************************************)
(* Proofs about Node, for every set of nodes, of links and of branches to  *)
(* start with, every rule of staking, and every lottery in which no two    *)
(* keys draw the same number on one parent.                                *)
(*                                                                         *)
(* The handlers are operators on the local state of a node, so most of the *)
(* work is done on local states: Sound says what every one of them keeps.  *)
(* The inductive invariant adds to TypeOK that every local state is Sound  *)
(* and Producing, and the one fact that relates the nodes, OwnStored: a    *)
(* block is stored by its creator, wherever else it is stored or in        *)
(* flight.  Without it a node could be handed a block of its own that it   *)
(* does not know, and the look at its child list would miss it.            *)
(***************************************************************************)
EXTENDS Node, BlockTreeProofs, SequenceTheorems

-----------------------------------------------------------------------------
(* The pool holds transactions.                                            *)
LEMMA PoolAddAllType ==
    ASSUME NEW pool \in Seq(Transaction), NEW txns \in Seq(Transaction)
    PROVE  pool_add_all(pool, txns) \in Seq(Transaction)
<1> DEFINE n == Len(txns)
           P == Seq(Transaction)
           F == [i \in 1..n |-> [q \in P |-> pool_add(q, txns[i])]]
           Pass(f, i) == IF i = 0 THEN pool ELSE pool_add(f[i - 1], txns[i])
           after == CHOOSE f : f = [i \in 0..n |-> Pass(f, i)]
<1>1. /\ n \in Nat /\ pool \in P
      /\ \A i \in 1..n : txns[i] \in Transaction
  OBVIOUS
<1>2. ASSUME NEW q \in P, NEW i \in 1..n PROVE pool_add(q, txns[i]) \in P
  BY <1>1 DEF pool_add
<1>3. pool_add_all(pool, txns) = after[n]
  BY DEF pool_add_all
<1> HIDE DEF n, P
<1>4. F \in [1..n -> [P -> P]]
  BY <1>2
<1>5. \A q \in P, i \in 1..n : F[i][q] = pool_add(q, txns[i])
  OBVIOUS
<1> HIDE DEF F
<1>6. PICK r : LoopValues(r, n, P, pool, F)
  BY <1>1, <1>4, LoopRuns DEF LoopPasses
<1>7. \A i \in 0..n : i = 0 \/ (i \in 1..n /\ i - 1 \in 0..n)
  BY <1>1
<1>8. ASSUME NEW i \in 0..n PROVE r[i] = Pass(r, i)
  <2>1. CASE i = 0
    BY <1>6, <2>1 DEF LoopValues
  <2>2. CASE i # 0
    <3>1. i \in 1..n /\ r[i - 1] \in P
      BY <1>6, <1>7, <2>2 DEF LoopValues
    <3> QED
      BY <1>5, <1>6, <2>2, <3>1 DEF LoopValues
  <2> QED
    BY <2>1, <2>2
<1> HIDE DEF Pass
<1>9. after = [i \in 0..n |-> Pass(after, i)]
  <2>1. r = [i \in 0..n |-> Pass(r, i)]
    BY <1>6, <1>8 DEF LoopValues
  <2> QED
    BY <2>1
<1> HIDE DEF after
<1>10. after[0] = pool /\ \A i \in 1..n : after[i] = pool_add(after[i - 1], txns[i])
  <2>1. 0 \in 0..n /\ \A i \in 1..n : i \in 0..n /\ i # 0
    BY <1>1
  <2> QED
    BY <1>9, <2>1 DEF Pass
<1>11. \A i \in 0..n : after[i] \in P
  BY <1>1, <1>2, <1>10, LoopInvariant
<1> QED
  BY <1>1, <1>3, <1>11 DEF P

(* What the blocks of a path are.                                          *)
LEMMA BlockFacts ==
    ASSUME NEW b \in Block
    PROVE  /\ Path(b) /\ b # NULL
           /\ Len(b) \in Nat \ {0}
           /\ \A k \in 1..Len(b) : b[k] \in Header /\ Ancestor(b, k) \in Block
           /\ Creator(b) \in Node
           /\ block_get_prev(b) \in Block \cup {NULL}
<1>1. b \in Seq(Header) /\ Path(b) /\ b # NULL
  BY DEF Block, Path
<1>2. Len(b) \in Nat \ {0}
  BY <1>1, PrevType
<1>3. \A k \in 1..Len(b) : b[k] \in Header
  BY <1>1
<1>4. ASSUME NEW k \in 1..Len(b) PROVE Ancestor(b, k) \in Block
  <2>1. k \in 0..Len(b)
    BY <1>2
  <2>2. Ancestor(b, k) # NULL
    BY <1>1, <2>1, AncestorType, AncestorEnds
  <2>3. Ancestor(b, k) \in Seq(Header)
    BY <1>1, <1>2 DEF Ancestor
  <2> QED
    BY <2>2, <2>3 DEF Block
<1>5. Creator(b) \in Node
  BY <1>2, <1>3 DEF Creator, Header
<1>6. block_get_prev(b) \in Block \cup {NULL}
  <2>1. CASE Len(b) = 1
    BY <1>1, <2>1, AncestorEnds DEF block_get_prev
  <2>2. CASE Len(b) # 1
    <3>1. Len(b) - 1 \in 1..Len(b)
      BY <1>2, <2>2
    <3> QED
      BY <1>4, <3>1 DEF block_get_prev
  <2> QED
    BY <2>1, <2>2
<1> QED
  BY <1>1, <1>2, <1>3, <1>4, <1>5, <1>6

(* on_extended returns transactions to the pool.                           *)
LEMMA RollBackType ==
    ASSUME NEW pool \in Seq(Transaction), NEW prev \in Block, NEW block
    PROVE  RollBack(pool, prev, block) \in Seq(Transaction)
<1> DEFINE n == Len(prev)
           P == Seq(Transaction)
           Step(q, i) == IF block_has_ancestor(block, Ancestor(prev, n + 1 - i)) THEN q
                         ELSE pool_add_all(q, prev[n + 1 - i].txns)
           F == [i \in 1..n |-> [q \in P |-> Step(q, i)]]
           Pass(f, i) == IF i = 0 THEN pool ELSE Step(f[i - 1], i)
           after == CHOOSE f : f = [i \in 0..n |-> Pass(f, i)]
<1>1. /\ n \in Nat /\ pool \in P
      /\ \A i \in 1..n : prev[i].txns \in P
  BY BlockFacts DEF Header
<1>2. ASSUME NEW q \in P, NEW i \in 1..n PROVE Step(q, i) \in P
  <2>1. n + 1 - i \in 1..n
    BY <1>1
  <2> QED
    BY <1>1, <2>1, PoolAddAllType
<1>3. RollBack(pool, prev, block) = after[n]
  BY DEF RollBack
<1> HIDE DEF n, P, Step
<1>4. F \in [1..n -> [P -> P]]
  BY <1>2
<1>5. \A q \in P, i \in 1..n : F[i][q] = Step(q, i)
  OBVIOUS
<1> HIDE DEF F
<1>6. PICK r : LoopValues(r, n, P, pool, F)
  BY <1>1, <1>4, LoopRuns DEF LoopPasses
<1>7. \A i \in 0..n : i = 0 \/ (i \in 1..n /\ i - 1 \in 0..n)
  BY <1>1
<1>8. ASSUME NEW i \in 0..n PROVE r[i] = Pass(r, i)
  <2>1. CASE i = 0
    BY <1>6, <2>1 DEF LoopValues
  <2>2. CASE i # 0
    <3>1. i \in 1..n /\ r[i - 1] \in P
      BY <1>6, <1>7, <2>2 DEF LoopValues
    <3> QED
      BY <1>5, <1>6, <2>2, <3>1 DEF LoopValues
  <2> QED
    BY <2>1, <2>2
<1> HIDE DEF Pass
<1>9. after = [i \in 0..n |-> Pass(after, i)]
  <2>1. r = [i \in 0..n |-> Pass(r, i)]
    BY <1>6, <1>8 DEF LoopValues
  <2> QED
    BY <2>1
<1> HIDE DEF after
<1>10. after[0] = pool /\ \A i \in 1..n : after[i] = Step(after[i - 1], i)
  <2>1. 0 \in 0..n /\ \A i \in 1..n : i \in 0..n /\ i # 0
    BY <1>1
  <2> QED
    BY <1>9, <2>1 DEF Pass
<1>11. \A i \in 0..n : after[i] \in P
  BY <1>1, <1>2, <1>10, LoopInvariant
<1> QED
  BY <1>1, <1>3, <1>11 DEF P

-----------------------------------------------------------------------------
(* The local state of node n while one of its handlers runs: the principal *)
(* block is a true leaf of the stored tree, what was broadcast is stored,  *)
(* and n has built at most one block on any parent.                        *)
OwnOnce(S, n) ==
    \A b, c \in S : Siblings(b, c) /\ Creator(b) = n /\ Creator(c) = n => b = c

Sound(s, n) ==
    /\ s \in LocalState
    /\ Rooted(s.blocks)
    /\ TrueLeaf(s.principal, s.blocks)
    /\ s.principal \in s.blocks
    /\ s.built \in Seq(s.blocks)
    /\ OwnOnce(s.blocks, n)

(* The timer of a node that may stake on its principal block runs.         *)
Producing(s, n) == StakingAllowed(s.principal, n) => s.timer

(* From s to t the blocks of R are added and some that n has built.        *)
Grown(s, t, n, R) ==
    /\ s.blocks \subseteq t.blocks
    /\ \A b \in t.blocks \ s.blocks : b \in R \/ Creator(b) = n

LEMMA SoundTree ==
    ASSUME Lottery(Block), NEW s, NEW n, Sound(s, n)
    PROVE  /\ Tree(s.blocks)
           /\ \A b \in Block : /\ b \notin s.blocks
                               /\ block_get_prev(b) \in s.blocks \cup {NULL}
                               => Fits(b, s.blocks)
<1>1. s.blocks \subseteq Block
  BY DEF Sound, LocalState
<1> QED
  BY <1>1, BlockFacts DEF Sound, Tree, Fits, Lottery

(* A new block that is stored.                                             *)
LEMMA AddBlockSound ==
    ASSUME Lottery(Block), NEW n, NEW s, Sound(s, n), NEW b \in Block,
           b \notin s.blocks, block_get_prev(b) \in s.blocks \cup {NULL},
           \A c \in s.blocks : Siblings(c, b) => Creator(c) # n \/ Creator(b) # n
    PROVE  LET t == blockchain_add_block(s, b)
           IN  /\ Sound(t, n)
               /\ t.blocks = s.blocks \cup {b}
               /\ t.principal = NewPrincipal(s.principal, b)
               /\ Producing(s, n) => Producing(t, n)
               /\ t.principal # s.principal => t.timer
<1> DEFINE t == blockchain_add_block(s, b)
           p == NewPrincipal(s.principal, b)
           pool == RollBack(s.pool, s.principal, p)
<1>1. Fits(b, s.blocks) /\ Tree(s.blocks)
  BY SoundTree
<1>2. Tree(s.blocks \cup {b}) /\ TrueLeaf(p, s.blocks \cup {b})
  BY <1>1, AddBlock, NewPrincipalIsTrueLeaf DEF Sound
<1>3. p \in s.blocks \cup {b}
  BY DEF NewPrincipal, Sound
<1>4. s \in LocalState /\ s.blocks \subseteq Block /\ s.principal \in Block /\ p \in Block
  BY <1>3 DEF Sound, LocalState
<1>5. pool \in Seq(Transaction)
  BY <1>4, RollBackType DEF LocalState
<1>6. /\ t.blocks = s.blocks \cup {b} /\ t.principal = p /\ t.built = s.built
      /\ t \in LocalState
      /\ p = s.principal => t.timer = s.timer
      /\ p # s.principal => t.timer
  <2> HIDE DEF p
  <2>1. CASE p = s.principal
    BY <1>4, <2>1 DEF LocalState, blockchain_add_block, p
  <2>2. CASE p # s.principal
    <3>1. t = [s EXCEPT !.blocks = s.blocks \cup {b}, !.principal = p,
                        !.pool = pool, !.timer = TRUE]
      BY <1>4, <2>2 DEF LocalState, blockchain_add_block, on_extended, p
    <3> QED
      <4>1. t = [blocks |-> s.blocks \cup {b}, principal |-> p, pool |-> pool,
                 timer |-> TRUE, built |-> s.built]
        BY <1>4, <3>1 DEF LocalState
      <4>2. s.blocks \cup {b} \in SUBSET Block /\ s.built \in Seq(Block)
        BY <1>4 DEF LocalState
      <4> HIDE DEF t, pool
      <4> QED
        BY <1>4, <1>5, <2>2, <4>1, <4>2 DEF LocalState
  <2> QED
    BY <2>1, <2>2
<1>7. OwnOnce(s.blocks \cup {b}, n)
  BY DEF OwnOnce, Siblings, Sound
<1>8. t.built \in Seq(t.blocks)
  BY <1>6 DEF Sound
<1>9. Sound(t, n)
  BY <1>2, <1>3, <1>6, <1>7, <1>8 DEF Sound, Tree
<1> QED
  BY <1>6, <1>9 DEF Producing

(* The next block of n on b.                                               *)
LEMMA NextBlockFacts ==
    ASSUME NEW n \in Node, NEW s \in LocalState, NEW b \in Block
    PROVE  LET next == NextBlock(s, n, b)
           IN  /\ next \in Block
               /\ block_get_prev(next) = b
               /\ Creator(next) = n
<1> DEFINE h == [pk |-> n, txns |-> s.pool]
           next == Append(b, h)
<1>1. b \in Seq(Header) /\ h \in Header
  BY DEF Block, Header, LocalState
<1> HIDE DEF h
<1>2. /\ next \in Seq(Header) /\ Len(next) = Len(b) + 1 /\ Len(b) \in Nat
      /\ next[Len(b) + 1] = h
      /\ next # << >>
  BY <1>1
<1>3. SubSeq(next, 1, Len(b)) = b
  BY <1>1
<1>4. Creator(next) = n
  BY <1>2 DEF Creator, h
<1>5. block_get_prev(next) = b
  BY <1>2, <1>3 DEF block_get_prev, Ancestor
<1> QED
  BY <1>2, <1>4, <1>5 DEF NextBlock, Block, NULL, h

(* The drained pool is dropped or goes into a new block of n on b, which   *)
(* is stored.  When b is the principal block a new block takes its place.  *)
LEMMA CreateOnSound ==
    ASSUME Lottery(Block), NEW n \in Node, NEW s, Sound(s, n), NEW b \in s.blocks,
           ~ HasOwnChild(s, n, b)
    PROVE  LET t == CreateOn(s, n, b)
           IN  /\ Sound(t, n)
               /\ Grown(s, t, n, {})
               /\ Producing(s, n) \/ b = s.principal => Producing(t, n)
<1> DEFINE t == CreateOn(s, n, b)
           d == [s EXCEPT !.pool = << >>]
           next == NextBlock(s, n, b)
           v == blockchain_add_block(d, next)
<1>1. s \in LocalState /\ b \in Block
  BY DEF Sound, LocalState
<1>2. /\ d \in LocalState
      /\ d.blocks = s.blocks /\ d.principal = s.principal
      /\ d.timer = s.timer /\ d.built = s.built
  <2>1. << >> \in Seq(Transaction)
    OBVIOUS
  <2> QED
    BY <1>1, <2>1 DEF LocalState
<1>3. Sound(d, n)
  BY <1>2 DEF Sound
<1>4. next \in Block /\ block_get_prev(next) = b /\ Creator(next) = n
  BY <1>1, NextBlockFacts
<1>5. CASE ~ StakingAllowed(b, n)
  <2>1. t = d
    BY <1>5 DEF CreateOn
  <2> QED
    BY <1>2, <1>3, <1>5, <2>1 DEF Grown, Producing
<1>6. CASE StakingAllowed(b, n)
  <2>1. t = [v EXCEPT !.built = Append(v.built, next)]
    BY <1>6 DEF CreateOn
  <2> HIDE DEF next, d
  <2>3. next \notin d.blocks
    BY <1>2, <1>4 DEF HasOwnChild
  <2>4. \A c \in d.blocks : Siblings(c, next) => Creator(c) # n
    BY <1>2, <1>4 DEF HasOwnChild, Siblings
  <2>5. /\ Sound(v, n)
        /\ v.blocks = s.blocks \cup {next}
        /\ v.principal = NewPrincipal(s.principal, next)
        /\ Producing(d, n) => Producing(v, n)
        /\ v.principal # s.principal => v.timer
    <3>1. block_get_prev(next) \in d.blocks \cup {NULL}
      BY <1>2, <1>4
    <3> QED
      BY <1>2, <1>3, <1>4, <2>3, <2>4, <3>1, AddBlockSound
  <2> HIDE DEF v, t
  <2>6. /\ t.blocks = v.blocks /\ t.principal = v.principal /\ t.timer = v.timer
        /\ t.built = Append(v.built, next) /\ t \in LocalState
    <3>1. v \in LocalState
      BY <2>5 DEF Sound
    <3>2. Append(v.built, next) \in Seq(Block)
      BY <1>4, <3>1 DEF LocalState
    <3> QED
      BY <2>1, <3>1, <3>2 DEF LocalState
  <2>7. t.built \in Seq(t.blocks)
    BY <2>5, <2>6 DEF Sound
  <2>8. Sound(t, n)
    BY <2>5, <2>6, <2>7 DEF Sound
  <2>9. Grown(s, t, n, {})
    BY <1>4, <2>5, <2>6 DEF Grown
  <2>10. ASSUME b = s.principal PROVE t.timer
    <3>1. v.principal = next
      BY <1>4, <2>5, <2>10 DEF NewPrincipal, BecomesPrincipal, Extends
    <3>2. s.principal \in s.blocks
      BY DEF Sound
    <3> QED
      BY <1>2, <2>3, <2>5, <2>6, <3>1, <3>2
  <2> QED
    BY <1>2, <2>5, <2>6, <2>8, <2>9, <2>10 DEF Producing, t
<1> QED
  BY <1>5, <1>6

(* A received block is stored, and the node competes with it.              *)
LEMMA ReceiveBlockSound ==
    ASSUME Lottery(Block), NEW n \in Node, NEW s, Sound(s, n), NEW b \in Block,
           Creator(b) = n => b \in s.blocks
    PROVE  LET t == ReceiveBlock(s, n, b)
           IN  /\ Sound(t, n)
               /\ Grown(s, t, n, {b})
               /\ Producing(s, n) => Producing(t, n)
<1> DEFINE t == ReceiveBlock(s, n, b)
           parent == block_get_prev(b)
           u == blockchain_add_block(s, b)
<1>1. CASE ~ Acceptable(s, b) \/ b \in s.blocks
  <2>1. t = s
    BY <1>1 DEF ReceiveBlock
  <2> QED
    BY <2>1 DEF Grown
<1>2. CASE Acceptable(s, b) /\ b \notin s.blocks
  <2>1. parent \in s.blocks \cup {NULL}
    BY <1>2 DEF Acceptable
  <2>2. /\ Sound(u, n)
        /\ u.blocks = s.blocks \cup {b}
        /\ Producing(s, n) => Producing(u, n)
    BY <1>2, <2>1, AddBlockSound
  <2>3. t = IF parent = NULL \/ HasOwnChild(u, n, parent) THEN u ELSE CreateOn(u, n, parent)
    BY <1>2 DEF ReceiveBlock
  <2> HIDE DEF u, t, parent
  <2>4. Grown(s, u, n, {b})
    BY <2>2 DEF Grown
  <2>5. CASE parent = NULL \/ HasOwnChild(u, n, parent)
    BY <2>2, <2>3, <2>4, <2>5 DEF t
  <2>6. CASE ~ (parent = NULL \/ HasOwnChild(u, n, parent))
    <3>1. /\ Sound(t, n) /\ Grown(u, t, n, {})
          /\ Producing(u, n) => Producing(t, n)
      BY <2>1, <2>2, <2>3, <2>6, CreateOnSound
    <3>2. Grown(s, t, n, {b})
      BY <2>4, <3>1 DEF Grown
    <3> QED
      BY <2>2, <3>1, <3>2 DEF t
  <2> QED
    BY <2>5, <2>6
<1> QED
  BY <1>1, <1>2

(* A received branch is stored block by block.                             *)
LEMMA ReceiveBranchSound ==
    ASSUME Lottery(Block), NEW n \in Node, NEW s, Sound(s, n),
           NEW leaf \in Block, NEW above \in 0..Len(leaf),
           \A b \in Branch(leaf) : Creator(b) = n => b \in s.blocks
    PROVE  LET t == ReceiveBranch(s, n, leaf, above)
           IN  /\ Sound(t, n)
               /\ Grown(s, t, n, Branch(leaf))
               /\ Producing(s, n) => Producing(t, n)
<1> DEFINE m == Len(leaf) - above
           P == {x \in LocalState : /\ Sound(x, n)
                                    /\ Grown(s, x, n, Branch(leaf))
                                    /\ Producing(s, n) => Producing(x, n)}
           Step(x, i) == ReceiveBlock(x, n, Ancestor(leaf, above + i))
           F == [i \in 1..m |-> [x \in P |-> Step(x, i)]]
           Pass(f, i) == IF i = 0 THEN s ELSE Step(f[i - 1], i)
           after == CHOOSE f : f = [i \in 0..m |-> Pass(f, i)]
<1>1. m \in Nat /\ s \in P
  <2>1. s \in P
    BY DEF Sound, Grown
  <2> QED
    BY <2>1, BlockFacts
<1>2. ASSUME NEW x \in P, NEW i \in 1..m PROVE Step(x, i) \in P
  <2>1. above + i \in 1..Len(leaf)
    BY BlockFacts
  <2> DEFINE b == Ancestor(leaf, above + i)
             y == Step(x, i)
  <2>2. b \in Block /\ b \in Branch(leaf)
    BY <2>1, BlockFacts DEF Branch
  <2>3. Creator(b) = n => b \in x.blocks
    BY <2>2 DEF Grown
  <2>4. Sound(y, n) /\ Grown(x, y, n, {b}) /\ (Producing(x, n) => Producing(y, n))
    BY <2>2, <2>3, ReceiveBlockSound
  <2>5. Grown(s, y, n, Branch(leaf))
    BY <2>2, <2>4 DEF Grown
  <2> QED
    BY <2>4, <2>5 DEF Sound
<1>3. ReceiveBranch(s, n, leaf, above) = after[m]
  BY DEF ReceiveBranch
<1> HIDE DEF m, P, Step
<1>4. F \in [1..m -> [P -> P]]
  BY <1>2
<1>5. \A x \in P, i \in 1..m : F[i][x] = Step(x, i)
  OBVIOUS
<1> HIDE DEF F
<1>6. PICK r : LoopValues(r, m, P, s, F)
  BY <1>1, <1>4, LoopRuns DEF LoopPasses
<1>7. \A i \in 0..m : i = 0 \/ (i \in 1..m /\ i - 1 \in 0..m)
  BY <1>1
<1>8. ASSUME NEW i \in 0..m PROVE r[i] = Pass(r, i)
  <2>1. CASE i = 0
    BY <1>6, <2>1 DEF LoopValues
  <2>2. CASE i # 0
    <3>1. i \in 1..m /\ r[i - 1] \in P
      BY <1>6, <1>7, <2>2 DEF LoopValues
    <3> QED
      BY <1>5, <1>6, <2>2, <3>1 DEF LoopValues
  <2> QED
    BY <2>1, <2>2
<1> HIDE DEF Pass
<1>9. after = [i \in 0..m |-> Pass(after, i)]
  <2>1. r = [i \in 0..m |-> Pass(r, i)]
    BY <1>6, <1>8 DEF LoopValues
  <2> QED
    BY <2>1
<1> HIDE DEF after
<1>10. after[0] = s /\ \A i \in 1..m : after[i] = Step(after[i - 1], i)
  <2>1. 0 \in 0..m /\ \A i \in 1..m : i \in 0..m /\ i # 0
    BY <1>1
  <2> QED
    BY <1>9, <2>1 DEF Pass
<1>11. \A i \in 0..m : after[i] \in P
  BY <1>1, <1>2, <1>10, LoopInvariant
<1> QED
  BY <1>1, <1>3, <1>11 DEF P

-----------------------------------------------------------------------------
(* The blocks of the network.                                              *)
Known == UNION {node[n].blocks : n \in Node}

(* The creator of a block stores it, wherever else it is stored: that is   *)
(* what makes a look at the own child list enough.                         *)
OwnStored ==
    \A m, n \in Node : \A b \in node[m].blocks : Creator(b) = n => b \in node[n].blocks

NodesSound == \A n \in Node : Sound(node[n], n) /\ Producing(node[n], n)

IInv == TypeOK /\ NodesSound /\ OwnStored

(* A genesis block.                                                        *)
LEMMA GenesisFacts ==
    ASSUME NEW n \in Node
    PROVE  /\ Genesis(n) \in Block
           /\ Creator(Genesis(n)) = n
           /\ block_get_prev(Genesis(n)) = NULL
           /\ Branch(Genesis(n)) = {Genesis(n)}
<1> DEFINE h == [pk |-> n, txns |-> << >>]
           g == <<h>>
<1>1. h \in Header /\ g = Genesis(n)
  <2>1. << >> \in Seq(Transaction)
    OBVIOUS
  <2> QED
    BY <2>1 DEF Header, Genesis
<1>2. Creator(g) = n
  BY DEF Creator
<1> HIDE DEF h
<1>3. g \in Seq(Header) /\ Len(g) = 1 /\ g # << >>
  BY <1>1
<1>4. g \in Block /\ Path(g) /\ g # NULL
  BY <1>3 DEF Block, NULL, Path
<1>5. block_get_prev(g) = NULL
  BY <1>3, <1>4, AncestorEnds DEF block_get_prev
<1>6. Branch(g) = {g}
  BY <1>4, <1>5, BranchStep, BranchOfNull
<1> QED
  BY <1>1, <1>2, <1>4, <1>5, <1>6

(* Two siblings of one branch are one block.                               *)
LEMMA SiblingsOfBranch ==
    ASSUME NEW b, Path(b), NEW c \in Branch(b), NEW d \in Branch(b), Siblings(c, d)
    PROVE  c = d
  BY BranchMember, SiblingHeight

(* What a node stores when it starts.                                      *)
LEMMA InitSound ==
    ASSUME Lottery(Block), NEW base \in Bases, NEW n \in Node,
           NEW s, s = [blocks |-> Branch(base) \cup {Genesis(n)},
                       principal |-> IF base = NULL THEN Genesis(n) ELSE base,
                       pool |-> << >>,
                       timer |-> TRUE,
                       built |-> << >>]
    PROVE  Sound(s, n) /\ Producing(s, n)
<1> DEFINE g == Genesis(n)
<1>1. /\ g \in Block /\ Creator(g) = n /\ block_get_prev(g) = NULL
      /\ Branch(g) = {g} /\ Path(g) /\ g # NULL
  BY GenesisFacts, BlockFacts
<1>2. << >> \in Seq(Transaction) /\ \A S : << >> \in Seq(S)
  OBVIOUS
<1> HIDE DEF g
<1>3. CASE base = NULL
  <2>1. s = [blocks |-> {g}, principal |-> g, pool |-> << >>, timer |-> TRUE, built |-> << >>]
    BY <1>3, BranchOfNull DEF g
  <2>2. Rooted({g}) /\ OwnOnce({g}, n)
    BY <1>1 DEF Rooted, OwnOnce
  <2>3. TrueLeaf(g, {g})
    <3>1. Priority(g) \in Nat
      BY <1>1 DEF Lottery
    <3> QED
      BY <1>1, <3>1 DEF TrueLeaf, IsLeaf, LowestPriority, Beats
  <2>4. s \in LocalState
    BY <1>1, <1>2, <2>1 DEF LocalState
  <2>5. /\ s.blocks = {g} /\ s.principal = g /\ s.timer = TRUE
        /\ s.built \in Seq(s.blocks)
    BY <1>2, <2>1
  <2> QED
    BY <2>2, <2>3, <2>4, <2>5 DEF Sound, Producing
<1>4. CASE base # NULL
  <2> DEFINE S == Branch(base) \cup {g}
             first == Ancestor(base, 1)
  <2>1. /\ base \in Block /\ ~ Beats(g, first)
        /\ Creator(first) = n => first = g
    BY <1>4, BasesAssumption DEF g
  <2>2. Path(base) /\ base \in Branch(base) /\ Branch(base) \subseteq Block
    <3>1. Path(base) /\ base # NULL /\ \A k \in 1..Len(base) : Ancestor(base, k) \in Block
      BY <2>1, BlockFacts
    <3>2. base \in Branch(base)
      BY <3>1, BranchStep
    <3> QED
      BY <3>1, <3>2 DEF Branch
  <2>3. ASSUME NEW b \in Branch(base), Siblings(b, g) \/ Siblings(g, b)
        PROVE  b = first
    <3>1. Len(b) = 1
      <4>1. Path(b) /\ b # NULL /\ Len(b) \in Nat /\ Len(g) \in Nat
        BY <1>1, <2>2, <2>3, BranchMember, AncestorEnds
      <4>2. block_get_prev(b) = NULL
        BY <1>1, <2>3 DEF Siblings
      <4>3. Len(b) \in Nat \ {0} /\ Len(NULL) = Len(b) - 1
        BY <4>1, <4>2, PrevType
      <4> QED
        BY <4>3 DEF NULL
    <3> QED
      BY <2>2, <2>3, <3>1, BranchMember
  <2>4. Rooted(S)
    BY <1>1, <2>2, BranchMember DEF Rooted
  <2>5. OwnOnce(S, n)
    BY <2>1, <2>2, <2>3, SiblingsOfBranch DEF OwnOnce
  <2>6. IsLeaf(base, S)
    <3>1. ASSUME NEW b \in Branch(base) PROVE block_get_prev(b) # base
      BY <2>2, <3>1, BranchMember, PrevType
    <3> QED
      BY <1>1, <1>4, <3>1 DEF IsLeaf
  <2>7. LowestPriority(base, S)
    <3> SUFFICES ASSUME NEW r \in Branch(base), NEW b \in S, Siblings(b, r)
                 PROVE  ~ Beats(b, r)
      BY DEF LowestPriority
    <3>1. CASE b \in Branch(base)
      <4>1. b = r /\ Priority(r) \in Nat
        BY <2>2, <3>1, SiblingsOfBranch DEF Lottery
      <4> QED
        BY <4>1 DEF Beats
    <3>2. CASE b = g
      BY <2>1, <2>3, <3>2
    <3> QED
      BY <3>1, <3>2
  <2>8. TrueLeaf(base, S)
    BY <2>2, <2>6, <2>7 DEF TrueLeaf
  <2>9. s = [blocks |-> S, principal |-> base, pool |-> << >>, timer |-> TRUE, built |-> << >>]
    BY <1>4 DEF g
  <2>10. S \subseteq Block
    BY <1>1, <2>2
  <2>11. base \in S
    BY <2>2
  <2> HIDE DEF S
  <2>12. s \in LocalState
    BY <1>2, <2>1, <2>9, <2>10 DEF LocalState
  <2>13. /\ s.blocks = S /\ s.principal = base /\ s.timer = TRUE
         /\ s.built \in Seq(s.blocks)
    BY <1>2, <2>9
  <2> QED
    BY <2>4, <2>5, <2>8, <2>11, <2>12, <2>13 DEF Sound, Producing
<1> QED
  BY <1>3, <1>4

LEMMA InitIInv == ASSUME Lottery(Block) PROVE Init => IInv
<1> SUFFICES ASSUME Init PROVE IInv
  OBVIOUS
<1> DEFINE Start(base, n) ==
             [blocks |-> Branch(base) \cup {Genesis(n)},
              principal |-> IF base = NULL THEN Genesis(n) ELSE base,
              pool |-> << >>,
              timer |-> TRUE,
              built |-> << >>]
<1>1. PICK base \in Bases : /\ node = [n \in Node |-> Start(base, n)]
                            /\ history = [n \in Node |-> Branch(base) \cup {Genesis(n)}]
  BY DEF Init
<1>2. \A n \in Node : Sound(Start(base, n), n) /\ Producing(Start(base, n), n)
  BY InitSound
<1>3. \A n \in Node : /\ node[n] = Start(base, n)
                       /\ node[n].blocks = Branch(base) \cup {Genesis(n)}
                       /\ node[n].built = << >>
  BY <1>1
<1> HIDE DEF Start
<1>4. NodesSound
  BY <1>2, <1>3 DEF NodesSound
<1>5. OwnStored
  BY <1>3, GenesisFacts DEF OwnStored
<1>6. TypeOK
  <2>1. node \in [Node -> LocalState]
    BY <1>1, <1>2 DEF Sound
  <2>2. \A n \in Node : node[n].principal \in node[n].blocks /\ node[n].built = << >>
    BY <1>3, <1>4 DEF NodesSound, Sound
  <2>3. history \in [Node -> SUBSET UNION {node[n].blocks : n \in Node}]
    BY <1>1, <1>3
  <2>4. \A T : channel \in [Node -> [Node -> Seq(T)]]
    <3>1. \A T : << >> \in Seq(T)
      OBVIOUS
    <3> QED
      BY <3>1 DEF Init
  <2>5. peers \in [Node -> SUBSET Node] /\ submitted \subseteq Txn
    BY DEF Init
  <2>6. drops \in 0..MaxDrops
    BY BoundAssumption DEF Init
  <2> QED
    BY <2>1, <2>2, <2>3, <2>4, <2>5, <2>6 DEF TypeOK
<1> QED
  BY <1>4, <1>5, <1>6 DEF IInv

(* A handler of n that takes the local state of n to t and has received    *)
(* only blocks of the network keeps what is said of nodes and blocks.      *)
LEMMA HandlerStep ==
    ASSUME IInv, NEW n \in Node, NEW t, Sound(t, n), Producing(t, n),
           NEW R \in SUBSET Known, Grown(node[n], t, n, R),
           node' = [node EXCEPT ![n] = Idle(t)]
    PROVE  /\ NodesSound' /\ OwnStored'
           /\ node' \in [Node -> LocalState]
           /\ \A m \in Node : /\ node'[m].principal \in node'[m].blocks
                              /\ node'[m].built = << >>
           /\ Known \subseteq Known' /\ t.blocks \subseteq Known'
           /\ Message \subseteq Message'
<1> DEFINE u == Idle(t)
<1>1. node \in [Node -> LocalState]
  BY DEF IInv, TypeOK
<1>2. /\ u \in LocalState /\ u.blocks = t.blocks /\ u.principal = t.principal
      /\ u.timer = t.timer /\ u.built = << >>
  <2>1. << >> \in Seq(Block)
    OBVIOUS
  <2> QED
    BY <2>1 DEF Idle, Sound, LocalState
<1>3. << >> \in Seq(u.blocks)
  OBVIOUS
<1> HIDE DEF u
<1>4. Sound(u, n) /\ Producing(u, n)
  BY <1>2, <1>3 DEF Sound, Producing
<1>5. node' \in [Node -> LocalState]
      /\ \A m \in Node : node'[m] = IF m = n THEN u ELSE node[m]
  BY <1>1, <1>2 DEF u
<1>6. \A m \in Node : node[m].blocks \subseteq node'[m].blocks
  BY <1>2, <1>5 DEF Grown
<1>7. NodesSound'
  <2>1. ASSUME NEW m \in Node PROVE Sound(node'[m], m) /\ Producing(node'[m], m)
    BY <1>4, <1>5 DEF IInv, NodesSound
  <2> QED
    BY <2>1 DEF NodesSound, Producing, Sound
<1>8. \A m \in Node : /\ node'[m].principal \in node'[m].blocks
                       /\ node'[m].built = << >>
  BY <1>2, <1>4, <1>5 DEF IInv, TypeOK, Sound
<1>9. Known \subseteq Known' /\ t.blocks \subseteq Known'
  BY <1>2, <1>5, <1>6 DEF Known
<1>10. OwnStored'
  <2> SUFFICES ASSUME NEW m \in Node, NEW k \in Node, NEW b \in node'[m].blocks,
                      Creator(b) = k
               PROVE  b \in node'[k].blocks
    BY DEF OwnStored
  <2>1. CASE b \in Known
    BY <2>1, <1>6 DEF Known, IInv, OwnStored
  <2>2. CASE b \notin Known
    <3>1. m = n /\ b \in t.blocks \ node[n].blocks
      BY <2>2, <1>2, <1>5 DEF Known
    <3>2. Creator(b) = n
      BY <2>2, <3>1 DEF Grown
    <3> QED
      BY <3>1, <3>2
  <2> QED
    BY <2>1, <2>2
<1>11. Message \subseteq Message'
  BY <1>9 DEF Message, Known
<1> QED
  BY <1>5, <1>7, <1>8, <1>9, <1>10, <1>11

(* Writes and broadcasts keep the type of the channels, and so does a read *)
(* of a channel that is not empty.                                         *)
LEMMA WriteType ==
    ASSUME NEW M, NEW ch \in [Node -> [Node -> Seq(M)]], NEW n \in Node, NEW m \in Node,
           NEW msgs \in Seq(M)
    PROVE  /\ Write(ch, n, m, msgs) \in [Node -> [Node -> Seq(M)]]
           /\ Broadcast(ch, n, msgs) \in [Node -> [Node -> Seq(M)]]
           /\ ch[n][m] # << >> => [ch EXCEPT ![n][m] = Tail(@)] \in [Node -> [Node -> Seq(M)]]
<1>1. \A k \in Node : ch[n][k] \in Seq(M) /\ ch[n][k] \o msgs \in Seq(M)
  OBVIOUS
<1>2. Write(ch, n, m, msgs) \in [Node -> [Node -> Seq(M)]]
  BY <1>1 DEF Write
<1>3. [k \in Node |-> IF k \in peers[n] THEN ch[n][k] \o msgs ELSE ch[n][k]] \in [Node -> Seq(M)]
  BY <1>1
<1>4. Broadcast(ch, n, msgs) \in [Node -> [Node -> Seq(M)]]
  BY <1>3 DEF Broadcast
<1>5. ASSUME ch[n][m] # << >> PROVE Tail(ch[n][m]) \in Seq(M)
  BY <1>1, <1>5
<1> QED
  BY <1>2, <1>4, <1>5

(* The blocks that a handler broadcasts are messages.                      *)
LEMMA BlockMsgsType ==
    ASSUME NEW K, NEW M, \A b \in K : BlockMsg(b) \in M, NEW bs \in Seq(K)
    PROVE  BlockMsgs(bs) \in Seq(M)
<1>1. \A i \in 1..Len(bs) : BlockMsg(bs[i]) \in M
  OBVIOUS
<1> QED
  BY <1>1 DEF BlockMsgs

(* A handler of n that takes the local state of n to t, records blocks H   *)
(* and broadcasts the blocks bs keeps the invariant.                       *)
LEMMA HandlerEnds ==
    ASSUME IInv, NEW n \in Node, NEW t, Sound(t, n), Producing(t, n),
           NEW R \in SUBSET Known, Grown(node[n], t, n, R),
           NEW H \in SUBSET (Known \cup t.blocks), NEW bs \in Seq(Known \cup t.blocks),
           NEW ch \in [Node -> [Node -> Seq(Message)]],
           node' = [node EXCEPT ![n] = Idle(t)],
           history' = [history EXCEPT ![n] = @ \cup H],
           channel' = Broadcast(ch, n, BlockMsgs(bs)),
           UNCHANGED <<peers, submitted, drops>>
    PROVE  IInv'
<1>1. /\ NodesSound' /\ OwnStored'
      /\ node' \in [Node -> LocalState]
      /\ \A k \in Node : node'[k].principal \in node'[k].blocks /\ node'[k].built = << >>
      /\ Known \subseteq Known' /\ t.blocks \subseteq Known'
      /\ Message \subseteq Message'
  BY HandlerStep
<1>2. channel' \in [Node -> [Node -> Seq(Message')]]
  <2>1. bs \in Seq(Known') /\ \A b \in Known' : BlockMsg(b) \in Message'
    <3>1. bs \in Seq(Known')
      BY <1>1
    <3>2. \A b \in Known' : BlockMsg(b) \in Message'
      BY DEF Known, Message
    <3> QED
      BY <3>1, <3>2
  <2>2. BlockMsgs(bs) \in Seq(Message')
    BY <2>1, BlockMsgsType
  <2>3. ch \in [Node -> [Node -> Seq(Message')]]
    BY <1>1
  <2> QED
    BY <2>2, <2>3, WriteType
<1>3. history' \in [Node -> SUBSET Known']
  BY <1>1 DEF IInv, TypeOK, Known
<1>4. TypeOK'
  BY <1>1, <1>2, <1>3 DEF IInv, TypeOK, Known
<1> QED
  BY <1>1, <1>4 DEF IInv

(* So does a handler that leaves the nodes and what they have recorded     *)
(* alone.                                                                  *)
LEMMA NodesKept ==
    ASSUME IInv, UNCHANGED <<node, history>>,
           peers' \in [Node -> SUBSET Node],
           channel' \in [Node -> [Node -> Seq(Message)]],
           submitted' \subseteq Txn, drops' \in 0..MaxDrops
    PROVE  IInv'
<1>1. TypeOK'
  <2>1. node' = node /\ Message' = Message
    BY DEF Message
  <2> QED
    BY <2>1 DEF IInv, TypeOK
<1>2. NodesSound'
  BY DEF IInv, NodesSound, Sound, Producing
<1>3. OwnStored'
  BY DEF IInv, OwnStored
<1> QED
  BY <1>1, <1>2, <1>3 DEF IInv

(* The message that n reads next from m.                                   *)
LEMMA ReadingFacts ==
    ASSUME TypeOK, NEW n \in Node, NEW m \in Node, NEW type, Reading(n, m, type)
    PROVE  LET msg == Head(channel[m][n])
           IN  /\ msg \in Message /\ msg.type = type
               /\ type = "block" => msg.block \in Known
               /\ type = "blocks_response" => /\ msg.leaf \in Known
                                              /\ msg.above \in 0..Len(msg.leaf)
               /\ Read(n, m) \in [Node -> [Node -> Seq(Message)]]
<1>1. /\ channel \in [Node -> [Node -> Seq(Message)]]
      /\ channel[m][n] \in Seq(Message) /\ channel[m][n] # << >>
  BY DEF TypeOK, Reading
<1>2. Head(channel[m][n]) \in Message /\ Head(channel[m][n]).type = type
  BY <1>1 DEF Reading
<1>3. Read(n, m) \in [Node -> [Node -> Seq(Message)]]
  <2>1. << >> \in Seq(Message)
    OBVIOUS
  <2> QED
    BY <1>1, <2>1, WriteType DEF Read
<1>4. ASSUME NEW x \in Message
      PROVE  /\ x.type = "block" => x.block \in Known
             /\ x.type = "blocks_response" => x.leaf \in Known /\ x.above \in 0..Len(x.leaf)
  BY DEF Message, Known, BlockMsg, RequestMsg, ResponseMsg
<1> QED
  BY <1>2, <1>3, <1>4

(* A known block is a block, its branch is known, and if n is its creator  *)
(* n stores it.                                                            *)
LEMMA KnownFacts ==
    ASSUME IInv, NEW b \in Known
    PROVE  /\ b \in Block
           /\ Branch(b) \subseteq Known
           /\ \A n \in Node : \A c \in Branch(b) : Creator(c) = n => c \in node[n].blocks
<1>1. PICK m \in Node : b \in node[m].blocks
  BY DEF Known
<1>2. Branch(b) \subseteq node[m].blocks /\ b \in Block
  BY <1>1 DEF IInv, NodesSound, Sound, Rooted, LocalState
<1> QED
  BY <1>1, <1>2 DEF Known, IInv, OwnStored

LEMMA BlockIInv ==
    ASSUME Lottery(Block), IInv, NEW n \in Node, NEW m \in Node, on_block(n, m)
    PROVE  IInv'
<1> DEFINE b == Head(channel[m][n]).block
           t == ReceiveBlock(node[n], n, b)
           ch == Read(n, m)
<1>1. TypeOK /\ Sound(node[n], n) /\ Producing(node[n], n)
  BY DEF IInv, NodesSound
<1>2. b \in Known /\ ch \in [Node -> [Node -> Seq(Message)]]
  BY <1>1, ReadingFacts DEF on_block
<1>3. CASE b \in history[n]
  <2>1. channel' = ch /\ UNCHANGED <<node, history, peers, submitted, drops>>
    BY <1>3 DEF on_block
  <2> HIDE DEF ch
  <2> QED
    BY <1>1, <1>2, <2>1, NodesKept DEF TypeOK
<1>4. CASE b \notin history[n]
  <2>1. /\ node' = [node EXCEPT ![n] = Idle(t)]
        /\ history' = [history EXCEPT ![n] = @ \cup (ToSet(t.built) \cup {b})]
        /\ channel' = Broadcast(ch, n, BlockMsgs(Append(t.built, b)))
        /\ UNCHANGED <<peers, submitted, drops>>
    BY <1>4 DEF on_block
  <2> HIDE DEF b, ch
  <2>2. b \in Block /\ (Creator(b) = n => b \in node[n].blocks)
    <3>1. b \in Block
      BY <1>2, KnownFacts
    <3>2. b \in Branch(b)
      BY <3>1, BlockFacts, BranchStep
    <3> QED
      BY <1>2, <3>1, <3>2, KnownFacts
  <2>3. Sound(t, n) /\ Producing(t, n) /\ Grown(node[n], t, n, {b})
    BY <1>1, <2>2, ReceiveBlockSound
  <2> HIDE DEF t
  <2>4. /\ Append(t.built, b) \in Seq(Known \cup t.blocks)
        /\ ToSet(t.built) \cup {b} \in SUBSET (Known \cup t.blocks)
        /\ {b} \in SUBSET Known
    <3>1. t.built \in Seq(t.blocks)
      BY <2>3 DEF Sound
    <3> QED
      BY <1>2, <3>1 DEF ToSet
  <2> QED
    BY <1>2, <2>1, <2>3, <2>4, HandlerEnds
<1> QED
  BY <1>3, <1>4

LEMMA BranchIInv ==
    ASSUME Lottery(Block), IInv, NEW n \in Node, NEW m \in Node, on_blocks_response(n, m)
    PROVE  IInv'
<1> DEFINE msg == Head(channel[m][n])
           t == ReceiveBranch(node[n], n, msg.leaf, msg.above)
           ch == Read(n, m)
<1>1. TypeOK /\ Sound(node[n], n) /\ Producing(node[n], n)
  BY DEF IInv, NodesSound
<1>2. /\ msg.leaf \in Known /\ msg.above \in 0..Len(msg.leaf)
      /\ ch \in [Node -> [Node -> Seq(Message)]]
  BY <1>1, ReadingFacts DEF on_blocks_response
<1>3. /\ node' = [node EXCEPT ![n] = Idle(t)]
      /\ history' = [history EXCEPT ![n] = @ \cup ToSet(t.built)]
      /\ channel' = Broadcast(ch, n, BlockMsgs(t.built))
      /\ UNCHANGED <<peers, submitted, drops>>
  BY DEF on_blocks_response
<1> HIDE DEF msg, ch
<1>4. /\ msg.leaf \in Block /\ Branch(msg.leaf) \in SUBSET Known
      /\ \A b \in Branch(msg.leaf) : Creator(b) = n => b \in node[n].blocks
  BY <1>2, KnownFacts
<1>5. Sound(t, n) /\ Producing(t, n) /\ Grown(node[n], t, n, Branch(msg.leaf))
  BY <1>1, <1>2, <1>4, ReceiveBranchSound
<1> HIDE DEF t
<1>6. /\ t.built \in Seq(Known \cup t.blocks)
      /\ ToSet(t.built) \in SUBSET (Known \cup t.blocks)
  <2>1. t.built \in Seq(t.blocks)
    BY <1>5 DEF Sound
  <2> QED
    BY <2>1 DEF ToSet
<1> QED
  BY <1>2, <1>3, <1>4, <1>5, <1>6, HandlerEnds

LEMMA TimerIInv ==
    ASSUME Lottery(Block), IInv, NEW n \in Node, on_timer(n)
    PROVE  IInv'
<1> DEFINE p == node[n].principal
           s == [node[n] EXCEPT !.timer = FALSE]
           t == CreateOn(s, n, p)
<1>1. TypeOK /\ Sound(node[n], n)
  BY DEF IInv, NodesSound
<1>2. /\ s \in LocalState /\ s.blocks = node[n].blocks /\ s.principal = p
      /\ s.built = node[n].built
  BY <1>1 DEF Sound, LocalState
<1>3. Sound(s, n) /\ p \in s.blocks
  BY <1>1, <1>2 DEF Sound
<1>4. ~ HasOwnChild(s, n, p)
  BY <1>1, <1>2 DEF Sound, TrueLeaf, IsLeaf, HasOwnChild
<1>5. /\ node' = [node EXCEPT ![n] = Idle(t)]
      /\ history' = [history EXCEPT ![n] = @ \cup ToSet(t.built)]
      /\ channel' = Broadcast(channel, n, BlockMsgs(t.built))
      /\ UNCHANGED <<peers, submitted, drops>>
  BY <1>4 DEF on_timer
<1> HIDE DEF s
<1>6. Sound(t, n) /\ Producing(t, n) /\ Grown(s, t, n, {})
  BY <1>2, <1>3, <1>4, CreateOnSound
<1>7. Grown(node[n], t, n, {})
  BY <1>2, <1>6 DEF Grown
<1> HIDE DEF t
<1>8. /\ t.built \in Seq(Known \cup t.blocks)
      /\ ToSet(t.built) \in SUBSET (Known \cup t.blocks)
      /\ {} \in SUBSET Known
  <2>1. t.built \in Seq(t.blocks)
    BY <1>6 DEF Sound
  <2> QED
    BY <2>1 DEF ToSet
<1>9. channel \in [Node -> [Node -> Seq(Message)]]
  BY <1>1 DEF TypeOK
<1> QED
  BY <1>5, <1>6, <1>7, <1>8, <1>9, HandlerEnds

LEMMA OtherIInv ==
    ASSUME IInv, NEW n \in Node, NEW m \in Node,
           on_connect(n, m) \/ on_disconnect(n, m) \/ on_blocks_request(n, m)
    PROVE  IInv'
<1>1. /\ TypeOK /\ Sound(node[n], n)
      /\ channel \in [Node -> [Node -> Seq(Message)]]
      /\ peers \in [Node -> SUBSET Node] /\ submitted \subseteq Txn /\ drops \in 0..MaxDrops
      /\ MaxDrops \in Nat
  BY BoundAssumption DEF IInv, NodesSound, TypeOK
<1>2. node[n].principal \in Known
  BY <1>1 DEF Sound, Known
<1>3. CASE on_connect(n, m)
  <2>1. <<RequestMsg(node[n].principal)>> \in Seq(Message)
    <3>1. RequestMsg(node[n].principal) \in Message
      BY <1>2 DEF Message, Known
    <3> QED
      BY <3>1
  <2>2. channel' \in [Node -> [Node -> Seq(Message)]]
    BY <1>1, <1>3, <2>1, WriteType DEF on_connect
  <2> QED
    BY <1>1, <1>3, <2>2, NodesKept DEF on_connect
<1>4. CASE on_disconnect(n, m)
  <2>1. channel' \in [Node -> [Node -> Seq(Message)]]
    <3>1. << >> \in Seq(Message)
      OBVIOUS
    <3> QED
      BY <1>1, <1>4, <3>1 DEF on_disconnect
  <2>2. drops' \in 0..MaxDrops /\ peers' \in [Node -> SUBSET Node]
    <3>1. drops < MaxDrops /\ drops' = drops + 1
      BY <1>4 DEF on_disconnect
    <3>2. peers[n] \ {m} \in SUBSET Node /\ peers[m] \ {n} \in SUBSET Node
      BY <1>1
    <3>3. peers' \in [Node -> SUBSET Node]
      BY <1>1, <1>4, <3>2 DEF on_disconnect
    <3> QED
      BY <1>1, <3>1, <3>3
  <2> QED
    BY <1>1, <1>4, <2>1, <2>2, NodesKept DEF on_disconnect
<1>5. CASE on_blocks_request(n, m)
  <2> DEFINE p == node[n].principal
             b == Head(channel[m][n]).hash
             k == IF b \in Branch(p) THEN Len(b) ELSE 0
  <2>1. Path(p) /\ Len(p) \in Nat
    BY <1>1, BlockFacts DEF Sound, LocalState
  <2>2. k \in 0..Len(p)
    <3> HIDE DEF b, p
    <3>1. CASE b \in Branch(p)
      BY <2>1, <3>1, BranchMember
    <3>2. CASE b \notin Branch(p)
      BY <2>1, <3>2
    <3> QED
      BY <3>1, <3>2
  <2> HIDE DEF k
  <2>3. <<ResponseMsg(p, k)>> \in Seq(Message)
    <3>1. ResponseMsg(p, k) \in Message
      BY <1>2, <2>2 DEF Message, Known
    <3> QED
      BY <3>1
  <2>4. Read(n, m) \in [Node -> [Node -> Seq(Message)]]
    BY <1>1, <1>5, ReadingFacts DEF on_blocks_request
  <2>5. channel' = Write(Read(n, m), n, m, <<ResponseMsg(p, k)>>)
    BY <1>5 DEF on_blocks_request, k
  <2>6. channel' \in [Node -> [Node -> Seq(Message)]]
    BY <2>3, <2>4, <2>5, WriteType
  <2> QED
    BY <1>1, <1>5, <2>6, NodesKept DEF on_blocks_request
<1> QED
  BY <1>3, <1>4, <1>5

LEMMA SendIInv ==
    ASSUME IInv, NEW n \in Node, NEW txn \in Txn, handle_send_command(n, txn)
    PROVE  IInv'
<1> DEFINE s == node[n]
           t == [s EXCEPT !.pool = pool_add(s.pool, txn)]
<1>1. TypeOK /\ Sound(s, n) /\ Producing(s, n) /\ s \in LocalState
  BY DEF IInv, NodesSound, Sound
<1>2. pool_add(s.pool, txn) \in Seq(Transaction)
  BY <1>1 DEF LocalState, pool_add, Transaction
<1>3. /\ t \in LocalState /\ t.blocks = s.blocks /\ t.principal = s.principal
      /\ t.timer = s.timer /\ t.built = s.built /\ s.built = << >>
  BY <1>1, <1>2 DEF LocalState, TypeOK
<1>4. t = Idle(t)
  BY <1>3 DEF LocalState, Idle
<1>5. Sound(t, n) /\ Producing(t, n) /\ Grown(s, t, n, {})
  BY <1>1, <1>3 DEF Sound, Producing, Grown
<1>6. /\ node' = [node EXCEPT ![n] = t] /\ submitted' \subseteq Txn
      /\ UNCHANGED <<peers, history, channel, drops>>
  BY <1>1 DEF handle_send_command, TypeOK
<1> HIDE DEF t
<1>7. /\ NodesSound' /\ OwnStored'
      /\ node' \in [Node -> LocalState]
      /\ \A k \in Node : node'[k].principal \in node'[k].blocks /\ node'[k].built = << >>
      /\ Known \subseteq Known' /\ Message \subseteq Message'
  <2>1. node' = [node EXCEPT ![n] = Idle(t)] /\ {} \in SUBSET Known
    BY <1>4, <1>6
  <2> QED
    BY <1>5, <2>1, HandlerStep
<1>8. /\ channel' \in [Node -> [Node -> Seq(Message')]]
      /\ history' \in [Node -> SUBSET Known']
  <2>1. channel \in [Node -> [Node -> Seq(Message)]] /\ history \in [Node -> SUBSET Known]
    BY <1>1 DEF TypeOK, Known
  <2>2. \A x \in Seq(Message) : x \in Seq(Message')
    BY <1>7
  <2>3. channel \in [Node -> [Node -> Seq(Message')]]
    BY <2>1, <2>2
  <2>4. history \in [Node -> SUBSET Known']
    BY <1>7, <2>1
  <2> QED
    BY <1>6, <2>3, <2>4
<1>9. TypeOK'
  BY <1>1, <1>6, <1>7, <1>8 DEF TypeOK, Known
<1> QED
  BY <1>7, <1>9 DEF IInv

LEMMA NextIInv == ASSUME Lottery(Block) PROVE IInv /\ [Next]_vars => IInv'
<1> SUFFICES ASSUME IInv, [Next]_vars PROVE IInv'
  OBVIOUS
<1>1. CASE UNCHANGED vars
  BY <1>1, NodesKept DEF vars, IInv, TypeOK
<1>2. CASE Next
  BY <1>2, OtherIInv, BlockIInv, BranchIInv, TimerIInv, SendIInv DEF Next
<1> QED
  BY <1>1, <1>2

(* The inductive invariant holds after every handler of every node.        *)
THEOREM Invariance == ASSUME Lottery(Block) PROVE Spec => []IInv
<1>1. Init => IInv
  BY InitIInv
<1>2. IInv /\ [Next]_vars => IInv'
  BY NextIInv
<1> QED
  BY <1>1, <1>2, PTL DEF Spec

-----------------------------------------------------------------------------
(* Local states, connections, channels and histories keep their types: all *)
(* that is in flight or recorded is a block that a node stores, and the    *)
(* principal block of a node is one of its own.                            *)
THEOREM TypeCorrect == ASSUME Lottery(Block) PROVE Spec => []TypeOK
<1>1. IInv => TypeOK
  BY DEF IInv
<1> QED
  BY <1>1, Invariance, PTL

(* After every handler the principal block is a true leaf of a rooted      *)
(* tree, however many blocks the handler has added.                        *)
THEOREM PrincipalAlwaysTrueLeaf == ASSUME Lottery(Block) PROVE Spec => []PrincipalIsTrueLeaf
<1>1. IInv => PrincipalIsTrueLeaf
  BY DEF IInv, NodesSound, Sound, PrincipalIsTrueLeaf
<1> QED
  BY <1>1, Invariance, PTL

(* No key ever builds two blocks on one parent, anywhere in the network.   *)
THEOREM NeverTwoOnOneParent == ASSUME Lottery(Block) PROVE Spec => []OneBlockPerParent
<1>1. IInv => OneBlockPerParent
  <2> SUFFICES ASSUME IInv, NEW n \in Node, NEW m \in Node,
                      NEW b \in node[n].blocks, NEW c \in node[m].blocks,
                      Siblings(b, c), Creator(b) = Creator(c)
               PROVE  b = c
    BY DEF OneBlockPerParent
  <2>1. b \in Known /\ Creator(b) \in Node
    <3>1. b \in Known
      BY DEF Known
    <3> QED
      BY <3>1, KnownFacts, BlockFacts
  <2>2. b \in node[Creator(b)].blocks /\ c \in node[Creator(b)].blocks
    BY <2>1 DEF IInv, OwnStored
  <2> QED
    BY <2>1, <2>2 DEF IInv, NodesSound, Sound, OwnOnce
<1> QED
  BY <1>1, Invariance, PTL

(* Nodes that store the same blocks have the same principal block: siblings *)
(* have different creators, so no two of them tie.                         *)
THEOREM SameBlocksAlwaysSamePrincipal ==
    ASSUME Lottery(Block) PROVE Spec => []SameBlocksSamePrincipal
<1>1. IInv => SameBlocksSamePrincipal
  <2> SUFFICES ASSUME IInv, NEW n \in Node, NEW m \in Node, node[n].blocks = node[m].blocks
               PROVE  node[n].principal = node[m].principal
    BY DEF SameBlocksSamePrincipal
  <2> DEFINE S == node[n].blocks
  <2>1. /\ Sound(node[n], n) /\ Tree(S) /\ S \subseteq Block
        /\ TrueLeaf(node[n].principal, S) /\ TrueLeaf(node[m].principal, S)
    BY SoundTree DEF IInv, NodesSound, Sound, LocalState
  <2>2. DistinctPriorities(S)
    <3> SUFFICES ASSUME NEW b \in S, NEW c \in S, Siblings(b, c), Priority(b) = Priority(c)
                 PROVE  b = c
      BY DEF DistinctPriorities
    <3>1. Creator(b) = Creator(c) /\ Creator(b) \in Node
      BY <2>1, BlockFacts DEF Lottery
    <3>2. b \in node[Creator(b)].blocks /\ c \in node[Creator(b)].blocks
      BY <3>1 DEF IInv, OwnStored
    <3> QED
      BY <3>1, <3>2 DEF IInv, NodesSound, Sound, OwnOnce
  <2> HIDE DEF S
  <2> QED
    BY <2>1, <2>2, UniqueTrueLeaf
<1> QED
  BY <1>1, Invariance, PTL

(* A node whose timer is off may not stake on its principal block.         *)
THEOREM StakerAlwaysKeepsTimer == ASSUME Lottery(Block) PROVE Spec => []StakerKeepsTimer
<1>1. IInv => StakerKeepsTimer
  BY DEF IInv, NodesSound, Producing, StakerKeepsTimer
<1> QED
  BY <1>1, Invariance, PTL
=============================================================================
