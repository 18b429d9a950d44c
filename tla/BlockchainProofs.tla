------------------------- MODULE BlockchainProofs -------------------------
(***************************************************************************)
(* Proofs about Blockchain, for every set of blocks, every assignment of   *)
(* priorities (ties included) and every assignment of transactions.        *)
(*                                                                         *)
(* The inductive invariant adds to TypeOK and IndexesConsistent that the   *)
(* principal block is a true leaf of the stored tree.  PrincipalIsLeaf and *)
(* LowestPrioritySibling are parts of it, but neither is inductive alone:  *)
(* that a block overtaking an inner block r beats all of r's siblings      *)
(* needs LowestPriority for r, that it has no child needs the tree to be   *)
(* complete, and that a block on top of the leaf has no sibling needs the  *)
(* leaf to be one.                                                         *)
(***************************************************************************)
EXTENDS Blockchain, BlockTreeProofs

IInv == /\ TypeOK
        /\ IndexesConsistent
        /\ TrueLeaf(principal, blocks)

(* The stored blocks form a tree.                                          *)
LEMMA StoredTree ==
    ASSUME TypeOK, IndexesConsistent
    PROVE  Tree(blocks)
  BY BlockAssumption DEF TypeOK, IndexesConsistent, Tree, Path

(* What every block that is added does to the tree and the indexes.        *)
LEMMA StoreKeepsIndexes ==
    ASSUME TypeOK, IndexesConsistent, NEW b \in Block, Store(b)
    PROVE  /\ Fits(b, blocks)
           /\ Tree(blocks')
           /\ blocks' \subseteq Block
           /\ children' \in [blocks' -> SUBSET blocks']
           /\ txns' \subseteq UNION {Transactions(c) : c \in Block}
           /\ IndexesConsistent'
<1>1. Tree(blocks)
  BY StoredTree
<1>2. Fits(b, blocks)
  BY BlockAssumption DEF Store, Parented, Fits, Path
<1>3. blocks' = blocks \cup {b} /\ Tree(blocks') /\ IsLeaf(b, blocks')
  BY <1>1, <1>2, AddBlock DEF Store, Parented
<1>4. blocks' \subseteq Block /\ children' \in [blocks' -> SUBSET blocks']
  BY DEF Store, Parented, TypeOK
<1>5. ASSUME NEW p \in blocks'
      PROVE  children'[p] = {c \in blocks' : block_get_prev(c) = p}
  <2>1. CASE p \in blocks
    BY <1>3, <2>1 DEF Store, Parented, IndexesConsistent
  <2>2. CASE p \notin blocks
    <3>1. p = b /\ children'[p] = {}
      BY <1>3, <2>2 DEF Store, Parented, IsLeaf
    <3> QED
      BY <1>3, <3>1 DEF IsLeaf
  <2> QED
    BY <2>1, <2>2
<1>6. txns' = UNION {Transactions(c) : c \in blocks'}
  BY DEF Store, Parented, IndexesConsistent
<1>7. IndexesConsistent'
  BY <1>3, <1>5, <1>6 DEF IndexesConsistent, Tree
<1> QED
  BY <1>2, <1>3, <1>4, <1>6, <1>7

(* The four actions that store a block follow one rule for the principal.  *)
LEMMA StepRule ==
    ASSUME Next
    PROVE  \/ UNCHANGED vars
           \/ \E b \in Block : /\ Store(b)
                               /\ principal' = NewPrincipal(principal, b)
  BY DEF Next, ExtendPrincipal, OvertakeLeaf, OvertakeBranch, KeepPrincipal,
         RejectDuplicate, NewPrincipal, BecomesPrincipal

LEMMA InitIInv == Init => IInv
  BY BranchOfNull DEF Init, IInv, TypeOK, IndexesConsistent, TrueLeaf, IsLeaf,
                      LowestPriority, Rooted

LEMMA NextIInv == IInv /\ [Next]_vars => IInv'
<1> SUFFICES ASSUME IInv, [Next]_vars PROVE IInv'
  OBVIOUS
<1>1. CASE UNCHANGED vars
  BY <1>1 DEF IInv, vars, TypeOK, IndexesConsistent
<1>2. ASSUME NEW b \in Block, Store(b), principal' = NewPrincipal(principal, b)
      PROVE  IInv'
  <2>1. Tree(blocks) /\ Fits(b, blocks) /\ blocks' = blocks \cup {b}
    BY <1>2, StoredTree, StoreKeepsIndexes DEF IInv, Store, Parented
  <2>2. TrueLeaf(principal', blocks')
    BY <1>2, <2>1, NewPrincipalIsTrueLeaf DEF IInv
  <2>3. TypeOK'
    BY <1>2, <2>2, StoreKeepsIndexes DEF IInv, TypeOK, TrueLeaf
  <2>4. IndexesConsistent'
    BY <1>2, StoreKeepsIndexes DEF IInv
  <2> QED
    BY <2>2, <2>3, <2>4 DEF IInv
<1> QED
  BY <1>1, <1>2, StepRule

(* The inductive invariant holds in every state that blockchain_add_block  *)
(* can reach.                                                              *)
THEOREM Invariance == Spec => []IInv
  BY InitIInv, NextIInv, PTL DEF Spec

-----------------------------------------------------------------------------
(* Every variable of blockchain_t keeps its type.                          *)
THEOREM TypeCorrect == Spec => []TypeOK
<1>1. IInv => TypeOK
  BY DEF IInv
<1> QED
  BY <1>1, Invariance, PTL

(* blockchain_add_block keeps parent pointers, child lists and the         *)
(* transaction index in step.                                              *)
THEOREM IndexesAlwaysConsistent == Spec => []IndexesConsistent
<1>1. IInv => IndexesConsistent
  BY DEF IInv
<1> QED
  BY <1>1, Invariance, PTL

(* on_timer never finds a child under the principal block.                 *)
THEOREM PrincipalAlwaysLeaf == Spec => []PrincipalIsLeaf
<1>1. IInv => PrincipalIsLeaf
  BY DEF IInv, IndexesConsistent, TrueLeaf, IsLeaf, PrincipalIsLeaf
<1> QED
  BY <1>1, Invariance, PTL

(* The documented rule among siblings holds at every height of the         *)
(* principal branch.                                                       *)
THEOREM LowestAlwaysChosen == Spec => []LowestPrioritySibling
<1>1. IInv => LowestPrioritySibling
  BY DEF IInv, TrueLeaf, LowestPrioritySibling
<1> QED
  BY <1>1, Invariance, PTL

(* Without ties the principal block depends on the stored blocks alone.    *)
THEOREM PrincipalIsDetermined == Spec => []OrderIrrelevant
<1>1. IInv => OrderIrrelevant
  <2> SUFFICES ASSUME IInv, DistinctPriorities(blocks),
                      NEW q \in blocks, TrueLeaf(q, blocks)
               PROVE  q = principal
    BY DEF OrderIrrelevant
  <2> QED
    BY StoredTree, UniqueTrueLeaf DEF IInv
<1> QED
  BY <1>1, Invariance, PTL

(* What a branch switch removes from the principal branch stays off it.    *)
THEOREM RollbackAlwaysFinal == Spec => RollbackIsFinal
<1> DEFINE A == \A b \in blocks \ Branch(principal) : b \notin Branch(principal')
<1>1. IInv /\ [Next]_vars => [A]_vars
  <2> SUFFICES ASSUME IInv, Next PROVE A \/ UNCHANGED vars
    OBVIOUS
  <2>1. ASSUME NEW c \in Block, Store(c), principal' = NewPrincipal(principal, c)
        PROVE  A
    <3>1. Tree(blocks) /\ Fits(c, blocks)
      BY <2>1, StoredTree, StoreKeepsIndexes DEF IInv
    <3>2. Branch(principal') \cap blocks \subseteq Branch(principal)
      BY <2>1, <3>1, NewPrincipalBranch DEF IInv
    <3> QED
      BY <3>2
  <2> QED
    BY <2>1, StepRule
<1> QED
  BY <1>1, Invariance, PTL DEF Spec, RollbackIsFinal

(* blockchain_add_block implements the abstract fork choice.               *)
THEOREM Refinement == Spec => ImplementsForkChoice
<1>1. Init => Promise!Init
  BY DEF Init, Promise!Init, Promise!NULL, NULL
<1>2. IInv /\ IInv' /\ [Next]_vars => [Promise!Next]_(Promise!fcVars)
  <2> SUFFICES ASSUME IInv, IInv', Next
               PROVE  Promise!Next \/ UNCHANGED Promise!fcVars
    BY DEF vars, Promise!fcVars
  <2>1. CASE UNCHANGED vars
    BY <2>1 DEF vars, Promise!fcVars
  <2>2. ASSUME NEW b \in Block, Store(b), principal' = NewPrincipal(principal, b)
        PROVE  Promise!Next
    <3>1. TrueLeaf(principal', blocks') /\ principal' \in blocks'
      <4>1. Tree(blocks') /\ b \in blocks'
        BY <2>2, StoreKeepsIndexes DEF IInv, Store, Parented
      <4> QED
        BY <4>1, TrueLeafIsBlock DEF IInv
    <3>2. Promise!AddBlock(b)
      BY <2>2, <3>1 DEF Store, Parented, Promise!AddBlock, Promise!block_get_prev, block_get_prev,
            Promise!Ancestor, Ancestor, Promise!NULL, NULL, Promise!TrueLeaf, TrueLeaf,
            Promise!IsLeaf, IsLeaf, Promise!LowestPriority, LowestPriority,
            Promise!Branch, Branch, Promise!Siblings, Siblings, Promise!Beats, Beats
    <3> QED
      BY <3>2 DEF Promise!Next
  <2> QED
    BY <2>1, <2>2, StepRule
<1> QED
  BY <1>1, <1>2, Invariance, PTL DEF Spec, ImplementsForkChoice, Promise!Spec
=============================================================================
