----------------------------- MODULE BlockTree -----------------------------
(***************************************************************************)
(* The tree of blocks (block.c) and the rule that picks its principal      *)
(* leaf (blockchain.c).                                                    *)
(*                                                                         *)
(* A block's hash covers its header and the header covers the hash of the  *)
(* previous block, so with a collision-free hash a block IS its path from  *)
(* the genesis block: a non-empty sequence of headers.  Two pointers to    *)
(* blocks of one node are equal exactly when the paths are, because the    *)
(* node stores one object per hash.  The null pointer is the empty path.   *)
(*                                                                         *)
(* Priority(b) is sortition_priority.  The program only ever compares the  *)
(* priorities of two blocks with one parent.                               *)
(***************************************************************************)
EXTENDS Naturals, Sequences

CONSTANT Priority(_)    \* the sortition priority of a block

NULL == << >>

block_get_height(b) == Len(b)

(* The block at height k of the branch that ends in b; NULL for k = 0.     *)
Ancestor(b, k) == SubSeq(b, 1, k)

block_get_prev(b) == Ancestor(b, Len(b) - 1)

(* The blocks of the branch that ends in b, b included.                    *)
Branch(b) == {Ancestor(b, k) : k \in 1..Len(b)}

block_has_ancestor(b, a) == a = NULL \/ a \in Branch(b)

Siblings(b, c) == block_get_prev(b) = block_get_prev(c)

(* memcmp(block_get_priority(b), block_get_priority(c)) < 0                *)
Beats(b, c) == Priority(b) < Priority(c)

-----------------------------------------------------------------------------
(* The three ways in which a new block b replaces the principal leaf p.    *)
(* A definition whose name ends in _<Word> is a wrong variant of the one   *)
(* that follows it, kept to show that the properties can tell them apart.  *)

Extends(p, b) == block_get_prev(b) = p

OvertakesLeaf(p, b) ==
    /\ p # NULL
    /\ Siblings(b, p)
    /\ Beats(b, p)

(* The comparison uses the leaf: the inner prev shadows the outer one.     *)
OvertakesBranch_Shadowed(p, b) ==
    \E r \in Branch(p) \ {p} : Siblings(b, r) /\ Beats(b, p)

(* The rule of the proof-of-work build.                                    *)
OvertakesBranch_Higher(p, b) == block_get_height(b) > block_get_height(p)

(* The walk from p towards the genesis block stops at b's parent; r is the *)
(* last block it passed, the child of b's parent on the branch of p.       *)
OvertakesBranch(p, b) ==
    \E r \in Branch(p) \ {p} :
        /\ Siblings(b, r)
        /\ Beats(b, r)

BecomesPrincipal(p, b) ==
    Extends(p, b) \/ OvertakesLeaf(p, b) \/ OvertakesBranch(p, b)

NewPrincipal(p, b) == IF BecomesPrincipal(p, b) THEN b ELSE p

-----------------------------------------------------------------------------
(* What the rule promises.                                                 *)

(* Every stored branch reaches back to a genesis block.                    *)
Rooted(S) == \A b \in S : Branch(b) \subseteq S

IsLeaf(p, S) == \A b \in S : block_get_prev(b) # p

(* At every height the branch of p goes through a sibling of lowest        *)
(* priority.                                                               *)
LowestPriority(p, S) ==
    \A r \in Branch(p), b \in S : Siblings(b, r) => ~ Beats(b, r)

TrueLeaf(p, S) == /\ p \in S \cup {NULL}
                  /\ IsLeaf(p, S)
                  /\ LowestPriority(p, S)

(* Two blocks with one parent and one priority are the same block.  This   *)
(* is so as long as no key builds two blocks on one parent.                *)
DistinctPriorities(S) ==
    \A b, c \in S : Siblings(b, c) /\ Priority(b) = Priority(c) => b = c
=============================================================================
