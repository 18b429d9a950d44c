----------------------------- MODULE MCGossip -----------------------------
(***************************************************************************)
(* Small instances of Gossip.                                              *)
(***************************************************************************)
EXTENDS Gossip

CONSTANTS A, B, C, D     \* nodes

Both(pairs) == pairs \cup {<<l[2], l[1]>> : l \in pairs}

(* A message may go round, and D is out of reach of A and B.               *)
TriangleAndOne == Both({<<A, B>>, <<B, C>>, <<C, A>>, <<C, D>>})

Triangle == Both({<<A, B>>, <<B, C>>, <<C, A>>})
=============================================================================
