------------------------------ MODULE MCPeers ------------------------------
(***************************************************************************)
(* Small instances of Peers.                                               *)
(***************************************************************************)
EXTENDS Peers

CONSTANTS A, B, C       \* nodes

Conn(n, m) == [client |-> n, server |-> m]

(* A is the bootstrap node.  B joins through A, and C through A or B.       *)
Joining == {<<Conn(B, A), Conn(C, A)>>,
            <<Conn(B, A), Conn(C, B)>>}

(* C may be of another version.                                            *)
OneOther == {[n \in Node |-> 1], [n \in Node |-> IF n = C THEN 2 ELSE 1]}
=============================================================================
