------------------------------ MODULE MCNode ------------------------------
(***************************************************************************)
(* Small instances of Node.  One unit of value is one delegate.            *)
(***************************************************************************)
EXTENDS Node, TLC

CONSTANTS A, B, C       \* nodes

(* The blocks of A win at even heights, those of B at odd heights, so that *)
(* branches overtake each other in both directions; C is always last.      *)
Rank == [n \in {A, B, C} |-> CASE n = A -> 0 [] n = B -> 1 [] n = C -> 2]

MCPriority(b) ==
    LET r == Rank[Creator(b)]
    IN  IF r = 2 \/ Len(b) % 2 = 1 THEN r ELSE 1 - r

Pay(m, n) == [sender |-> m, recipient |-> n, value |-> 1]

(* The blocks up to height 3 with at most one transaction each.            *)
LowBlocks ==
    UNION {[1..h -> [pk : Node, txns : {<< >>, <<Pay(B, A)>>}]] : h \in 1..3}

(* This instance has the lottery that the proofs assume.                   *)
ASSUME LotteryAssumption == Lottery(LowBlocks)

Warm(m, n) == <<[pk |-> m, txns |-> << >>], [pk |-> m, txns |-> <<Pay(m, n)>>]>>

(* The nodes start on a branch that A won, on which A has paid B and both  *)
(* may stake; or each starts with its own genesis block only.              *)
WarmStart == {Warm(A, B)}

BothStarts == {NULL, Warm(A, B)}

Height5(p) == 5

(* Two blocks above a warm start, three above a cold one.                  *)
Height3Or4(p) == IF Warm(A, B) \in Branch(p) THEN 4 ELSE 3

PayBack == {Pay(B, A)}

AllPairs == {l \in Node \X Node : l[1] # l[2]}
=============================================================================
