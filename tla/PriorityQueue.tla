--------------------------- MODULE PriorityQueue ---------------------------
(***************************************************************************)
(* What heap.h promises: a collection of elements of which the smallest is *)
(* at hand, and from which any other can be removed.  reply is the last    *)
(* call with its argument and what it returned.                            *)
(***************************************************************************)
EXTENDS Integers

CONSTANTS Elem, Rank(_), NULL

VARIABLES count,   \* how often every element is in the queue
          reply

queueVars == <<count, reply>>

Empty == [e \in Elem |-> 0]

Init == count = Empty /\ reply = <<"create", NULL, NULL>>

Within == {e \in Elem : count[e] > 0}

Smallest == {e \in Within : \A f \in Within : Rank(e) <= Rank(f)}

Add(e) == /\ count' = [count EXCEPT ![e] = @ + 1]
          /\ reply' = <<"add", e, NULL>>

Top == /\ reply' \in {<<"top", NULL, e>> : e \in Smallest}
       /\ UNCHANGED count

Pop(e) == /\ e \in Smallest
          /\ count' = [count EXCEPT ![e] = @ - 1]
          /\ reply' = <<"pop", NULL, e>>

Nothing == /\ Within = {}
           /\ reply' \in {<<"top", NULL, NULL>>, <<"pop", NULL, NULL>>}
           /\ UNCHANGED count

Remove(e) == /\ e \in Within
             /\ count' = [count EXCEPT ![e] = @ - 1]
             /\ reply' = <<"remove", e, e>>

Next == \/ \E e \in Elem : Add(e) \/ Pop(e) \/ Remove(e)
        \/ Top
        \/ Nothing

Spec == Init /\ [][Next]_queueVars
=============================================================================
