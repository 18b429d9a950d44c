---------------------------- MODULE Blockchain ----------------------------
(***************************************************************************)
(* blockchain_t: the stored blocks, the child lists of the blocks, the     *)
(* index of transactions and the principal leaf, under                     *)
(* blockchain_add_block.                                                   *)
(*                                                                         *)
(* A block reaches blockchain_add_block only from block_create, which is   *)
(* given a stored parent or none, or from block_create_from_tuple, which   *)
(* looks the parent up among the stored blocks: a block whose parent is    *)
(* unknown gets the seed and the header hash of a genesis block and fails  *)
(* the proof and signature checks.  So the parent of an added block is     *)
(* stored, or the block is a genesis block.                                *)
(***************************************************************************)
EXTENDS BlockTree

CONSTANTS Header,           \* what a block adds to its parent
          Block,            \* the blocks the creators may build
          Transactions(_)   \* the transactions a block contains

ASSUME BlockAssumption ==
    \A b \in Block : /\ b \in Seq(Header)
                     /\ b # NULL
                     /\ Priority(b) \in Nat

VARIABLES blocks,      \* map_t *blocks
          children,    \* the list_t *children of every stored block
          txns,        \* map_t *txns
          principal    \* block_t *principal

vars == <<blocks, children, txns, principal>>

Init == /\ blocks = {}
        /\ children = << >>
        /\ txns = {}
        /\ principal = NULL

Parented(b) == b \notin blocks /\ block_get_prev(b) \in blocks \cup {NULL}

(* Wrong variants (see BlockTree): map_set or block_add_child forgotten.   *)
Store_Unstored(b) ==
    /\ Parented(b)
    /\ txns' = txns \cup Transactions(b)
    /\ UNCHANGED <<blocks, children>>

Store_Childless(b) ==
    /\ Parented(b)
    /\ blocks' = blocks \cup {b}
    /\ children' = [p \in blocks' |-> IF p \in blocks THEN children[p] ELSE {}]
    /\ txns' = txns \cup Transactions(b)

(* The part of blockchain_add_block before the fork choice.                *)
Store(b) ==
    /\ Parented(b)
    /\ blocks' = blocks \cup {b}
    /\ children' = [p \in blocks' |->
                      (IF p \in blocks THEN children[p] ELSE {})
                        \cup (IF p = block_get_prev(b) THEN {b} ELSE {})]
    /\ txns' = txns \cup Transactions(b)

(* The new block is built on the principal leaf.                           *)
ExtendPrincipal(b) ==
    /\ Store(b)
    /\ Extends(principal, b)
    /\ principal' = b

(* The new block beats the principal leaf, its sibling.                    *)
OvertakeLeaf(b) ==
    /\ Store(b)
    /\ OvertakesLeaf(principal, b)
    /\ principal' = b

(* The new block beats an inner block of the principal branch.             *)
OvertakeBranch(b) ==
    /\ Store(b)
    /\ OvertakesBranch(principal, b)
    /\ principal' = b

KeepPrincipal(b) ==
    /\ Store(b)
    /\ ~ BecomesPrincipal(principal, b)
    /\ UNCHANGED principal

(* A block with a known hash is destroyed; nothing changes.                *)
RejectDuplicate(b) ==
    /\ b \in blocks
    /\ UNCHANGED vars

Next == \E b \in Block : \/ ExtendPrincipal(b)
                         \/ OvertakeLeaf(b)
                         \/ OvertakeBranch(b)
                         \/ KeepPrincipal(b)
                         \/ RejectDuplicate(b)

Spec == Init /\ [][Next]_vars

-----------------------------------------------------------------------------
TypeOK == /\ blocks \subseteq Block
          /\ children \in [blocks -> SUBSET blocks]
          /\ txns \subseteq UNION {Transactions(b) : b \in Block}
          /\ principal \in blocks \cup {NULL}

(* Every stored branch is complete, the child lists mirror the parent      *)
(* pointers and the index holds the transactions of every stored block.    *)
(* block_get_account and block_has_ancestor walk the parents,              *)
(* block_get_child_with_public_key searches the child list: they must see  *)
(* one tree.                                                               *)
IndexesConsistent ==
    /\ Rooted(blocks)
    /\ \A p \in blocks : children[p] = {b \in blocks : block_get_prev(b) = p}
    /\ txns = UNION {Transactions(b) : b \in blocks}

(* The principal block has no child.  on_timer relies on it: the search    *)
(* for an own child of the principal block must not find one left by an    *)
(* earlier branch switch, or the node stops producing blocks.  A switch to *)
(* a block other than the one just added would break it.                   *)
PrincipalIsLeaf == principal # NULL => children[principal] = {}

(* block.h: of the blocks with one parent the one with the lowest priority *)
(* is chosen as the true block.  It must hold at every height of the       *)
(* principal branch, whatever the order in which the blocks arrived.       *)
LowestPrioritySibling == LowestPriority(principal, blocks)

(* A stored block that has left the principal branch, or never was on it,  *)
(* never gets onto it: a rollback is final.  on_extended hands the         *)
(* transactions of such a block back to the pool and never takes them out  *)
(* again.                                                                  *)
RollbackIsFinal ==
    [][\A b \in blocks \ Branch(principal) : b \notin Branch(principal')]_vars

(* With one block per parent and priority the principal block is a         *)
(* function of the stored blocks alone: it is the only true leaf, so nodes *)
(* that store the same blocks agree, in whatever order they got them.      *)
OrderIrrelevant ==
    DistinctPriorities(blocks) =>
        \A q \in blocks : TrueLeaf(q, blocks) => q = principal

(* blockchain_add_block provides the service that ForkChoice describes.    *)
Promise == INSTANCE ForkChoice
ImplementsForkChoice == Promise!Spec

=============================================================================
