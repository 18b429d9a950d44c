-------------------------- MODULE BlockTreeProofs --------------------------
(***************************************************************************)
(* Facts about the block tree and the rule that picks its principal leaf,  *)
(* for all headers and every assignment of priorities.                     *)
(*                                                                         *)
(* The first section has what the proofs of this project cite of numbers   *)
(* and of loops that compute a value pass by pass.  Everything about       *)
(* sequences is in the three lemmas that follow it: they make              *)
(* Ancestor(b, k) a path of length k whose own ancestors are those of b.   *)
(* The rest reasons about heights and ancestors alone.                     *)
(***************************************************************************)
EXTENDS BlockTree, WellFoundedInduction, TLAPS

(* A non-empty set of numbers has a least member.                          *)
LEMMA LeastNumber ==
    ASSUME NEW D \in SUBSET Nat, D # {}
    PROVE  \E d \in D : \A e \in D : d <= e
<1>1. PICK d \in D : \A e \in D : <<e, d>> \notin OpToRel(<, Nat)
  BY WFMin, NatLessThanWellFounded
<1>2. \A e \in D : ~ (e < d)
  BY <1>1 DEF OpToRel
<1> QED
  BY <1>2

(* The values after each of n passes of a loop that starts with base and   *)
(* applies F[i] in pass i.                                                 *)
LoopValues(r, n, S, base, F) ==
    /\ r \in [0..n -> S]
    /\ r[0] = base
    /\ \A i \in 1..n : r[i] = F[i][r[i - 1]]

LoopPasses(n, S, F) == F \in [1..n -> [S -> S]]

(* A loop that starts in a set S and whose passes lead from S to S has a   *)
(* value in S after every pass.                                            *)
LEMMA LoopRuns ==
    ASSUME NEW n \in Nat, NEW S, NEW base \in S, NEW F, LoopPasses(n, S, F)
    PROVE  \E r : LoopValues(r, n, S, base, F)
<1> USE DEF LoopValues, LoopPasses
<1> DEFINE Runs(k) == \E r \in [0..k -> S] : /\ r[0] = base
                                             /\ \A i \in 1..k : r[i] = F[i][r[i - 1]]
           D == {k \in 0..n : ~ Runs(k)}
<1>1. Runs(0)
  <2> DEFINE r == [i \in 0..0 |-> base]
  <2>1. r \in [0..0 -> S] /\ r[0] = base
    OBVIOUS
  <2>2. \A i \in 1..0 : r[i] = F[i][r[i - 1]]
    OBVIOUS
  <2> QED
    BY <2>1, <2>2
<1>2. ASSUME NEW k \in 1..n, Runs(k - 1) PROVE Runs(k)
  <2>1. PICK r \in [0..(k - 1) -> S] : /\ r[0] = base
                                       /\ \A i \in 1..(k - 1) : r[i] = F[i][r[i - 1]]
    BY <1>2
  <2> DEFINE q == [i \in 0..k |-> IF i = k THEN F[k][r[k - 1]] ELSE r[i]]
  <2>2. F[k][r[k - 1]] \in S
    OBVIOUS
  <2>3. q \in [0..k -> S]
    BY <2>2
  <2>4. q[0] = base /\ \A i \in 1..k : q[i] = F[i][q[i - 1]]
    BY <2>1
  <2> QED
    BY <2>3, <2>4
<1> HIDE DEF Runs
<1>3. D = {}
  <2>1. SUFFICES ASSUME NEW d \in D, \A e \in D : d <= e PROVE FALSE
    <3>1. D \in SUBSET Nat
      OBVIOUS
    <3> QED
      BY <3>1, LeastNumber
  <2>2. d # 0 /\ d \in 1..n
    BY <1>1
  <2>3. d - 1 \in 0..n /\ ~ (d <= d - 1)
    BY <2>2
  <2>4. Runs(d - 1)
    BY <2>1, <2>3
  <2> QED
    BY <1>2, <2>2, <2>4
<1>4. Runs(n)
  <2>1. n \in 0..n
    OBVIOUS
  <2> QED
    BY <1>3, <2>1
<1> QED
  BY <1>4 DEF Runs

(* What holds of every pass of a loop that starts right.                   *)
LEMMA LoopInvariant ==
    ASSUME NEW n \in Nat, NEW S, NEW r, r[0] \in S,
           \A i \in 1..n : r[i - 1] \in S => r[i] \in S
    PROVE  \A i \in 0..n : r[i] \in S
<1> DEFINE D == {k \in 0..n : r[k] \notin S}
<1>1. SUFFICES ASSUME NEW d \in D, \A e \in D : d <= e PROVE FALSE
  <2>1. D \in SUBSET Nat
    OBVIOUS
  <2> QED
    BY <2>1, LeastNumber
<1>2. d # 0 /\ d \in 1..n
  OBVIOUS
<1>3. d - 1 \in 0..n /\ ~ (d <= d - 1)
  BY <1>2
<1> QED
  BY <1>1, <1>2, <1>3

-----------------------------------------------------------------------------
(* A path is a finite sequence of headers, whatever they are.              *)
Path(b) == \E H : b \in Seq(H)

(* The ancestor of b at height k is a path of length k.                    *)
LEMMA AncestorType ==
    ASSUME NEW b, Path(b), NEW k \in 0..Len(b)
    PROVE  /\ Path(Ancestor(b, k))
           /\ Len(Ancestor(b, k)) = k
           /\ \A i \in 1..k : Ancestor(b, k)[i] = b[i]
  BY DEF Path, Ancestor

(* A path is its own ancestor at its own height; at height 0 there is no   *)
(* block.                                                                  *)
LEMMA AncestorEnds ==
    ASSUME NEW b, Path(b)
    PROVE  /\ Len(b) \in Nat
           /\ Ancestor(b, Len(b)) = b
           /\ Ancestor(b, 0) = NULL
           /\ Len(b) = 0 <=> b = NULL
  BY DEF Path, Ancestor, NULL

(* The ancestors of an ancestor are ancestors.                             *)
LEMMA AncestorOfAncestor ==
    ASSUME NEW b, Path(b), NEW k \in 0..Len(b), NEW j \in 0..k
    PROVE  Ancestor(Ancestor(b, k), j) = Ancestor(b, j)
  BY DEF Path, Ancestor

(* The parent of a block is one lower.                                     *)
LEMMA PrevType ==
    ASSUME NEW b, Path(b), b # NULL
    PROVE  /\ Len(b) \in Nat \ {0}
           /\ Path(block_get_prev(b))
           /\ Len(block_get_prev(b)) = Len(b) - 1
           /\ block_get_prev(b) # b
<1>1. Len(b) \in Nat \ {0} /\ Len(b) - 1 \in 0..Len(b)
  BY AncestorEnds
<1> QED
  BY <1>1, AncestorType DEF block_get_prev

(* The members of a branch are blocks, and the branch of a member is part  *)
(* of it.                                                                  *)
LEMMA BranchMember ==
    ASSUME NEW b, Path(b), NEW r \in Branch(b)
    PROVE  /\ Path(r) /\ r # NULL
           /\ Len(r) \in 1..Len(b)
           /\ r = Ancestor(b, Len(r))
           /\ Branch(r) \subseteq Branch(b)
<1>1. PICK k \in 1..Len(b) : r = Ancestor(b, k)
  BY DEF Branch
<1>2. k \in 0..Len(b) /\ Len(b) \in Nat
  BY AncestorEnds
<1>3. Path(r) /\ Len(r) = k
  BY <1>1, <1>2, AncestorType
<1>4. r # NULL
  BY <1>3, AncestorEnds
<1>5. ASSUME NEW q \in Branch(r) PROVE q \in Branch(b)
  <2>1. PICK j \in 1..k : q = Ancestor(r, j)
    BY <1>3 DEF Branch
  <2>2. q = Ancestor(b, j) /\ j \in 1..Len(b)
    BY <2>1, <1>1, <1>2, AncestorOfAncestor
  <2> QED
    BY <2>2 DEF Branch
<1> QED
  BY <1>1, <1>3, <1>4, <1>5

(* A branch is its leaf on top of the branch of the leaf's parent.         *)
LEMMA BranchStep ==
    ASSUME NEW b, Path(b), b # NULL
    PROVE  Branch(b) = Branch(block_get_prev(b)) \cup {b}
<1> DEFINE a == block_get_prev(b)
<1>1. /\ Len(b) \in Nat \ {0} /\ Len(a) = Len(b) - 1
      /\ Ancestor(b, Len(b)) = b
  BY PrevType, AncestorEnds
<1>2. \A j \in 1..(Len(b) - 1) : Ancestor(a, j) = Ancestor(b, j)
  BY <1>1, AncestorOfAncestor DEF block_get_prev
<1>3. 1..Len(b) = 1..(Len(b) - 1) \cup {Len(b)}
  BY <1>1
<1> QED
  BY <1>1, <1>2, <1>3 DEF Branch

(* There is no block on the branch of the null pointer.                    *)
LEMMA BranchOfNull == Branch(NULL) = {} /\ Path(NULL)
  BY DEF Branch, NULL, Path

(* Two blocks with one parent have one height, and the branch below a      *)
(* block does not reach its height.                                        *)
LEMMA SiblingHeight ==
    ASSUME NEW b, Path(b), b # NULL, NEW c, Path(c), c # NULL, Siblings(b, c)
    PROVE  /\ Len(b) = Len(c)
           /\ c \notin Branch(block_get_prev(b))
<1>1. Len(b) = Len(c)
  BY PrevType DEF Siblings
<1>2. ASSUME c \in Branch(block_get_prev(b)) PROVE FALSE
  BY <1>1, <1>2, PrevType, BranchMember
<1> QED
  BY <1>1, <1>2

-----------------------------------------------------------------------------
(* A set of blocks as a node stores them.                                  *)
Tree(S) ==
    /\ \A b \in S : Path(b) /\ b # NULL /\ Priority(b) \in Nat
    /\ Rooted(S)

(* A block that can be added to the tree S.                                *)
Fits(b, S) ==
    /\ Path(b) /\ b # NULL /\ Priority(b) \in Nat
    /\ b \notin S
    /\ block_get_prev(b) \in S \cup {NULL}

(* The parent of a stored block is stored.                                 *)
LEMMA PrevStored ==
    ASSUME NEW S, Tree(S), NEW b \in S
    PROVE  block_get_prev(b) \in S \cup {NULL}
<1> DEFINE a == block_get_prev(b)
<1>1. /\ Path(b) /\ b # NULL /\ Path(a)
      /\ Branch(b) \subseteq S
  BY PrevType DEF Tree, Rooted
<1>2. CASE a = NULL
  BY <1>2
<1>3. CASE a # NULL
  BY <1>1, <1>3, BranchStep
<1> QED
  BY <1>2, <1>3

(* A tree with a new block on a stored parent is a tree, and the new block *)
(* is a leaf of it.                                                        *)
LEMMA AddBlock ==
    ASSUME NEW S, Tree(S), NEW b, Fits(b, S)
    PROVE  Tree(S \cup {b}) /\ IsLeaf(b, S \cup {b})
<1>1. Path(b) /\ b # NULL /\ block_get_prev(b) # b
  BY PrevType DEF Fits
<1>2. Branch(block_get_prev(b)) \subseteq S
  BY BranchOfNull DEF Fits, Tree, Rooted
<1>3. Branch(b) \subseteq S \cup {b}
  BY <1>1, <1>2, BranchStep
<1>4. Tree(S \cup {b})
  BY <1>3 DEF Tree, Rooted, Fits
<1>5. IsLeaf(b, S \cup {b})
  BY <1>1, PrevStored DEF IsLeaf, Fits
<1> QED
  BY <1>4, <1>5

-----------------------------------------------------------------------------
(* The three ways to a new principal block and the way to keep it, each    *)
(* with the part of TrueLeaf that is not shared.                           *)

(* A block on top of the principal leaf has no sibling yet.                *)
LEMMA ExtendLowest ==
    ASSUME NEW S, Tree(S), NEW p, TrueLeaf(p, S), NEW b, Fits(b, S), Extends(p, b)
    PROVE  LowestPriority(b, S \cup {b})
<1> SUFFICES ASSUME NEW r \in Branch(b), NEW s \in S \cup {b}, Siblings(s, r)
             PROVE  ~ Beats(s, r)
  BY DEF LowestPriority
<1>1. Path(b) /\ b # NULL /\ Priority(b) \in Nat /\ Branch(b) = Branch(p) \cup {b}
  BY BranchStep DEF Fits, Extends
<1>2. CASE r = b
  <2>1. s = b
    BY <1>2 DEF TrueLeaf, IsLeaf, Siblings, Extends
  <2> QED
    BY <2>1, <1>1, <1>2 DEF Beats
<1>3. CASE r \in Branch(p) /\ s \in S
  BY <1>3 DEF TrueLeaf, LowestPriority
<1>4. CASE r \in Branch(p) /\ s = b
  <2>1. Path(p)
    BY <1>1, PrevType DEF Extends
  <2>2. Path(r) /\ r # NULL
    BY <2>1, <1>4, BranchMember
  <2> QED
    BY <1>1, <1>4, <2>2, SiblingHeight DEF Extends
<1> QED
  BY <1>1, <1>2, <1>3, <1>4

(* A block that beats its sibling r on the principal branch beats all of   *)
(* its siblings, and below it the branch is unchanged.                     *)
LEMMA OvertakeLowest ==
    ASSUME NEW S, Tree(S), NEW p \in S, TrueLeaf(p, S), NEW b, Fits(b, S),
           NEW r0 \in Branch(p), Siblings(b, r0), Beats(b, r0)
    PROVE  LowestPriority(b, S \cup {b})
<1> SUFFICES ASSUME NEW r \in Branch(b), NEW s \in S \cup {b}, Siblings(s, r)
             PROVE  ~ Beats(s, r)
  BY DEF LowestPriority
<1>1. /\ Path(b) /\ b # NULL /\ Priority(b) \in Nat
      /\ Path(p) /\ p # NULL /\ Branch(p) \subseteq S
  BY DEF Fits, Tree, Rooted
<1>2. Path(r0) /\ r0 # NULL /\ r0 \in S /\ Priority(r0) \in Nat /\ Branch(r0) \subseteq Branch(p)
  BY <1>1, BranchMember DEF Tree
<1>3. Branch(b) = Branch(block_get_prev(b)) \cup {b}
  BY <1>1, BranchStep
<1>4. Branch(block_get_prev(b)) \subseteq Branch(p)
  BY <1>2, BranchStep DEF Siblings
<1>5. CASE r = b /\ s = b
  BY <1>1, <1>5 DEF Beats
<1>6. CASE r = b /\ s \in S
  <2>1. ~ Beats(s, r0) /\ Priority(s) \in Nat
    BY <1>6 DEF TrueLeaf, LowestPriority, Siblings, Tree
  <2> QED
    BY <2>1, <1>1, <1>2, <1>6 DEF Beats
<1>7. CASE r # b /\ s \in S
  BY <1>3, <1>4, <1>7 DEF TrueLeaf, LowestPriority
<1>8. CASE r # b /\ s = b
  <2>1. r \in Branch(block_get_prev(b)) /\ Path(r) /\ r # NULL
    BY <1>1, <1>3, <1>4, <1>8, BranchMember
  <2> QED
    BY <1>1, <1>8, <2>1, SiblingHeight
<1> QED
  BY <1>5, <1>6, <1>7, <1>8

(* A new block never takes the principal block from being a true leaf but  *)
(* by becoming the principal block itself.                                 *)
THEOREM NewPrincipalIsTrueLeaf ==
    ASSUME NEW S, Tree(S), NEW p, TrueLeaf(p, S), NEW b, Fits(b, S)
    PROVE  TrueLeaf(NewPrincipal(p, b), S \cup {b})
<1>1. IsLeaf(b, S \cup {b})
  BY AddBlock
<1>2. CASE Extends(p, b)
  BY <1>1, <1>2, ExtendLowest DEF TrueLeaf, NewPrincipal, BecomesPrincipal
<1>3. CASE OvertakesLeaf(p, b)
  <2>1. p \in S /\ Path(p) /\ p # NULL
    BY <1>3 DEF OvertakesLeaf, TrueLeaf, Tree
  <2>2. p \in Branch(p)
    BY <2>1, BranchStep
  <2>3. LowestPriority(b, S \cup {b})
    BY <1>3, <2>1, <2>2, OvertakeLowest DEF OvertakesLeaf
  <2> QED
    BY <1>1, <1>3, <2>3 DEF TrueLeaf, NewPrincipal, BecomesPrincipal
<1>4. CASE OvertakesBranch(p, b)
  <2>1. PICK r \in Branch(p) : Siblings(b, r) /\ Beats(b, r)
    BY <1>4 DEF OvertakesBranch
  <2>2. p \in S
    BY <2>1, BranchOfNull DEF TrueLeaf
  <2>3. LowestPriority(b, S \cup {b})
    BY <2>1, <2>2, OvertakeLowest
  <2> QED
    BY <1>1, <1>4, <2>3 DEF TrueLeaf, NewPrincipal, BecomesPrincipal
<1>5. CASE ~ BecomesPrincipal(p, b)
  <2>1. NewPrincipal(p, b) = p
    BY <1>5 DEF NewPrincipal
  <2>2. IsLeaf(p, S \cup {b})
    BY <1>5 DEF TrueLeaf, IsLeaf, BecomesPrincipal, Extends
  <2>3. ASSUME NEW r \in Branch(p), Siblings(b, r) PROVE ~ Beats(b, r)
    <3>1. CASE r = p
      <4>1. p # NULL
        BY BranchOfNull
      <4> QED
        BY <1>5, <2>3, <3>1, <4>1 DEF BecomesPrincipal, OvertakesLeaf
    <3>2. CASE r # p
      BY <1>5, <2>3, <3>2 DEF BecomesPrincipal, OvertakesBranch
    <3> QED
      BY <3>1, <3>2
  <2>4. LowestPriority(p, S \cup {b})
    BY <2>3 DEF TrueLeaf, LowestPriority
  <2> QED
    BY <2>1, <2>2, <2>4 DEF TrueLeaf
<1> QED
  BY <1>2, <1>3, <1>4, <1>5 DEF BecomesPrincipal

-----------------------------------------------------------------------------
(* A rule that replaces the leaf by the new block or keeps it never puts   *)
(* an old block onto the principal branch.                                 *)
THEOREM NewPrincipalBranch ==
    ASSUME NEW S, Tree(S), NEW p, TrueLeaf(p, S), NEW b, Fits(b, S)
    PROVE  Branch(NewPrincipal(p, b)) \cap S \subseteq Branch(p)
<1>1. Path(b) /\ b # NULL /\ b \notin S /\ Branch(b) = Branch(block_get_prev(b)) \cup {b}
  BY BranchStep DEF Fits
<1>2. CASE Extends(p, b)
  BY <1>1, <1>2 DEF NewPrincipal, BecomesPrincipal, Extends
<1>3. ASSUME NEW r \in Branch(p), Path(p), Siblings(b, r)
      PROVE  Branch(block_get_prev(b)) \subseteq Branch(p)
  <2>1. Path(r) /\ r # NULL /\ Branch(r) \subseteq Branch(p)
    BY <1>3, BranchMember
  <2> QED
    BY <2>1, <1>3, BranchStep DEF Siblings
<1>4. p # NULL => Path(p) /\ p \in Branch(p)
  BY BranchStep DEF TrueLeaf, Tree
<1>5. Path(p)
  BY <1>4, BranchOfNull
<1>6. CASE OvertakesLeaf(p, b)
  BY <1>1, <1>3, <1>4, <1>6 DEF OvertakesLeaf, NewPrincipal, BecomesPrincipal
<1>7. CASE OvertakesBranch(p, b)
  BY <1>1, <1>3, <1>5, <1>7 DEF OvertakesBranch, NewPrincipal, BecomesPrincipal
<1>8. CASE ~ BecomesPrincipal(p, b)
  BY <1>8 DEF NewPrincipal
<1> QED
  BY <1>2, <1>6, <1>7, <1>8 DEF BecomesPrincipal

(* The parent of the block at height k is the block at height k - 1.       *)
LEMMA PrevOfAncestor ==
    ASSUME NEW b, Path(b), NEW k \in 1..Len(b)
    PROVE  block_get_prev(Ancestor(b, k)) = Ancestor(b, k - 1)
<1>1. k \in 0..Len(b) /\ k - 1 \in 0..k
  BY AncestorEnds
<1> QED
  BY <1>1, AncestorType, AncestorOfAncestor DEF block_get_prev

(* When no two siblings share a priority a tree has one true leaf: the     *)
(* principal block does not depend on the order in which blocks arrived.   *)
THEOREM UniqueTrueLeaf ==
    ASSUME NEW S, Tree(S), DistinctPriorities(S),
           NEW p, TrueLeaf(p, S), NEW q, TrueLeaf(q, S)
    PROVE  p = q
<1>1. /\ Path(p) /\ Branch(p) \subseteq S
      /\ Path(q) /\ Branch(q) \subseteq S
  BY BranchOfNull DEF TrueLeaf, Tree, Rooted
<1>2. Len(p) \in Nat /\ Len(q) \in Nat
  BY <1>1, AncestorEnds
<1> DEFINE Agree(k) == k <= Len(q) /\ Ancestor(p, k) = Ancestor(q, k)
           D == {k \in 1..Len(p) : ~ Agree(k)}
<1> HIDE DEF Agree
<1>3. ASSUME NEW d \in D, \A e \in D : d <= e PROVE FALSE
  <2>1. d \in 1..Len(p) /\ ~ Agree(d)
    OBVIOUS
  <2>2. Agree(d - 1)
    <3>1. CASE d = 1
      BY <3>1, <1>1, <1>2, AncestorEnds DEF Agree
    <3>2. CASE d # 1
      <4>1. d - 1 \in 1..Len(p) /\ ~ (d <= d - 1)
        BY <2>1, <3>2, <1>2
      <4> QED
        BY <4>1, <1>3
    <3> QED
      BY <3>1, <3>2
  <2> DEFINE x == Ancestor(p, d)
             y == Ancestor(q, d)
  <2>3. x \in S /\ x \in Branch(p) /\ block_get_prev(x) = Ancestor(q, d - 1)
    BY <2>1, <2>2, <1>1, PrevOfAncestor DEF Branch, Agree
  <2>4. CASE d - 1 = Len(q)
    BY <2>3, <2>4, <1>1, AncestorEnds DEF TrueLeaf, IsLeaf
  <2>5. CASE d <= Len(q)
    <3>1. d \in 1..Len(q)
      BY <2>1, <2>5, <1>2
    <3>2. y \in S /\ y \in Branch(q) /\ Siblings(x, y) /\ Siblings(y, x)
      BY <2>3, <3>1, <1>1, PrevOfAncestor DEF Branch, Siblings
    <3>3. ~ Beats(x, y) /\ ~ Beats(y, x)
      BY <2>3, <3>2 DEF TrueLeaf, LowestPriority
    <3>4. x = y
      BY <2>3, <3>2, <3>3 DEF Beats, Tree, DistinctPriorities
    <3> QED
      BY <2>1, <2>5, <3>4 DEF Agree
  <2> QED
    BY <2>1, <2>2, <2>4, <2>5, <1>2 DEF Agree
<1>4. D = {}
  <2>1. D \in SUBSET Nat
    BY <1>2
  <2> QED
    BY <2>1, <1>3, LeastNumber
<1>5. Len(p) <= Len(q) /\ Ancestor(q, Len(p)) = p
  <2>1. CASE Len(p) = 0
    BY <2>1, <1>1, <1>2, AncestorEnds
  <2>2. CASE Len(p) # 0
    <3>1. Agree(Len(p))
      BY <2>2, <1>2, <1>4
    <3> QED
      BY <3>1, <1>1, AncestorEnds DEF Agree
  <2> QED
    BY <2>1, <2>2
<1>6. ASSUME Len(p) < Len(q) PROVE FALSE
  <2>1. Len(p) + 1 \in 1..Len(q)
    BY <1>2, <1>6
  <2>2. /\ Ancestor(q, Len(p) + 1) \in S
        /\ block_get_prev(Ancestor(q, Len(p) + 1)) = p
    BY <2>1, <1>1, <1>2, <1>5, PrevOfAncestor DEF Branch
  <2> QED
    BY <2>2 DEF TrueLeaf, IsLeaf
<1>7. Len(p) = Len(q)
  BY <1>2, <1>5, <1>6
<1> QED
  BY <1>1, <1>5, <1>7, AncestorEnds

(* A tree with a block in it has a genesis block, so its true leaf is a    *)
(* block.                                                                  *)
LEMMA TrueLeafIsBlock ==
    ASSUME NEW S, Tree(S), NEW b \in S, NEW p, TrueLeaf(p, S)
    PROVE  p \in S
<1>1. Path(b) /\ Branch(b) \subseteq S /\ 1 \in 1..Len(b)
  BY AncestorEnds DEF Tree, Rooted
<1>2. Ancestor(b, 1) \in S
  BY <1>1 DEF Branch
<1>3. block_get_prev(Ancestor(b, 1)) = NULL
  BY <1>1, PrevOfAncestor, AncestorEnds
<1> QED
  BY <1>2, <1>3 DEF TrueLeaf, IsLeaf
=============================================================================
