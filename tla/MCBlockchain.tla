--------------------------- MODULE MCBlockchain ---------------------------
(***************************************************************************)
(* A small instance of Blockchain.  A header carries the rank of its block *)
(* among the siblings; only siblings are ever compared.                    *)
(***************************************************************************)
EXTENDS Blockchain

Head1 == [id |-> 1, rank |-> 1]
Head2 == [id |-> 2, rank |-> 2]
Head3 == [id |-> 3, rank |-> 2]

MCHeader == {Head1, Head2, Head3}

(* Three genesis blocks, of which two tie; above each of them every block  *)
(* has two children of distinct rank, up to height 2 on the genesis block  *)
(* that wins and up to height 3 on the others.                             *)
MCBlock ==
    {<<g>> : g \in MCHeader}
      \cup {<<g, b>> : g \in MCHeader, b \in {Head1, Head2}}
      \cup {<<g, b, c>> : g \in {Head2, Head3}, b, c \in {Head1, Head2}}

MCPriority(b) == b[Len(b)].rank

(* A rolled-back transaction may be confirmed again on another branch, so  *)
(* blocks of one parity of height share their transaction.                 *)
MCTransactions(b) == IF Len(b) = 1 THEN {} ELSE {<<b[Len(b)].id, Len(b) % 2>>}
=============================================================================
