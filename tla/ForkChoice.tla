---------------------------- MODULE ForkChoice ----------------------------
(***************************************************************************)
(* What a blockchain_t promises its users, and no more: blocks accumulate, *)
(* each on a parent that is stored, and the principal block is always a    *)
(* leaf reached from the genesis level through lowest-priority siblings.   *)
(* How the leaf is found is not said; among siblings of one priority the   *)
(* promise leaves the choice open.                                         *)
(***************************************************************************)
EXTENDS BlockTree

CONSTANT Block

VARIABLES blocks, principal

fcVars == <<blocks, principal>>

Init == blocks = {} /\ principal = NULL

AddBlock(b) ==
    /\ b \notin blocks
    /\ block_get_prev(b) \in blocks \cup {NULL}
    /\ blocks' = blocks \cup {b}
    /\ principal' \in {q \in blocks' : TrueLeaf(q, blocks')}

Next == \E b \in Block : AddBlock(b)

Spec == Init /\ [][Next]_fcVars
=============================================================================
