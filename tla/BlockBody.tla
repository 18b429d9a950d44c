----------------------------- MODULE BlockBody -----------------------------
(***************************************************************************)
(* The part of block.c that ties the list of transactions of a block to    *)
(* its header: the merkle root and the check of a received block.  The     *)
(* creator signs the hash of the header, so the list itself is protected   *)
(* by the root and the number of transactions alone.                       *)
(*                                                                         *)
(* Hashes are collision-free: the hash of a transaction t is <<t>>, that   *)
(* of two hashes in a row is the pair of them, and << >> is the hash of    *)
(* zeros that stands for no transaction at all.                            *)
(***************************************************************************)
EXTENDS Naturals, Sequences, SequencesExt

CONSTANTS Txn,      \* transactions
          MaxTxns   \* bound: transactions in a block

BodyAssumption == MaxTxns \in Nat

VARIABLES phase,     \* whether the block was created, and has come in
          txns,      \* list_t *transactions of the creator
          header,    \* the fields merkle_root and number of transactions
          received,  \* the list that came with the header
          accepted   \* whether the block was found valid

vars == <<phase, txns, header, received, accepted>>

Lists == BoundedSeq(Txn, MaxTxns)

NoHeader == [root |-> << >>, count |-> 0]

Init == /\ phase = "none"
        /\ txns = << >>
        /\ header = NoHeader
        /\ received = << >>
        /\ accepted = FALSE

-----------------------------------------------------------------------------
(* Wrong: the last of an odd number of hashes is dropped.                  *)
NextLevel_Even(hashes) ==
    [k \in 1..(Len(hashes) \div 2) |-> <<hashes[2 * k - 1], hashes[2 * k]>>]

(* Two neighbours make one hash; the last of an odd number stays.          *)
NextLevel(hashes) ==
    [k \in 1..((Len(hashes) + 1) \div 2) |->
        IF 2 * k > Len(hashes) THEN hashes[2 * k - 1]
                               ELSE <<hashes[2 * k - 1], hashes[2 * k]>>]

(* The calls of compute_merkle_root: each makes a level of the one below,  *)
(* until one hash is left.                                                 *)
compute_merkle_root(hashes) ==
    LET level[i \in 0..Len(hashes)] ==
            IF i = 0 THEN hashes
            ELSE IF Len(level[i - 1]) <= 1 THEN level[i - 1] ELSE NextLevel(level[i - 1])
    IN  level[Len(hashes)]

(* merkle_root_from_list and merkle_root_from_tuple take the same hashes,  *)
(* those that transactions carry and those of the bytes that are read.     *)
merkle_root(list) ==
    LET root == compute_merkle_root([i \in 1..Len(list) |-> <<list[i]>>])
    IN  IF list = << >> THEN << >> ELSE root[1]

(* The number of transactions in the header, and the root of them.         *)
block_is_valid(h, list) == /\ Len(list) = h.count
                           /\ merkle_root(list) = h.root

-----------------------------------------------------------------------------
block_create(list) ==
    /\ phase = "none"
    /\ phase' = "created"
    /\ txns' = list
    /\ header' = [root |-> merkle_root(list), count |-> Len(list)]
    /\ UNCHANGED <<received, accepted>>

(* The block comes in, with its list or with one that was damaged.         *)
block_create_from_tuple(list) ==
    /\ phase = "created"
    /\ phase' = "received"
    /\ received' = list
    /\ accepted' = block_is_valid(header, list)
    /\ UNCHANGED <<txns, header>>

Next == \E list \in Lists : block_create(list) \/ block_create_from_tuple(list)

Spec == Init /\ [][Next]_vars

-----------------------------------------------------------------------------
(* The largest power of two below n.                                       *)
Split(n) ==
    LET power[e \in 0..n] == IF e = 0 THEN 1 ELSE 2 * power[e - 1]
    IN  CHOOSE k \in {power[e] : e \in 0..n} : k < n /\ 2 * k >= n

(* The root of a merkle tree from the top: the left half is a full tree.   *)
TreeRoot[list \in Lists] ==
    LET k == Split(Len(list))
    IN  IF Len(list) <= 1 THEN list
        ELSE <<TreeRoot[SubSeq(list, 1, k)], TreeRoot[SubSeq(list, k + 1, Len(list))]>>

(* The root that is computed in place, level by level, is that of the tree *)
(* over all transactions; and a list that comes with a header is taken if  *)
(* and only if it is the one the creator signed, in its order.             *)
HeaderCommits ==
    /\ header.root = TreeRoot[txns]
    /\ accepted => received = txns
    /\ phase = "received" /\ received = txns => accepted
=============================================================================
