---------------------------- MODULE Dictionary ----------------------------
(***************************************************************************)
(* What map.h promises: a value for every name that has one, and the calls *)
(* that ask for it, set it and remove it.  reply is the last call with the *)
(* value that it returned.                                                 *)
(***************************************************************************)
CONSTANTS Name, Val, NULL

VARIABLES value, reply

dictVars == <<value, reply>>

Empty == [n \in Name |-> NULL]

Init == value = Empty /\ reply = <<"create", NULL, NULL>>

Get(n) == /\ reply' = <<"get", n, value[n]>>
          /\ UNCHANGED value

Set(n, v) == /\ value' = [value EXCEPT ![n] = v]
             /\ reply' = <<"set", n, value[n]>>

Remove(n) == /\ value' = [value EXCEPT ![n] = NULL]
             /\ reply' = <<"remove", n, value[n]>>

Clear == /\ value' = Empty
         /\ reply' = <<"create", NULL, NULL>>

Next == \/ \E n \in Name : Get(n) \/ Remove(n) \/ \E v \in Val : Set(n, v)
        \/ Clear

Spec == Init /\ [][Next]_dictVars
=============================================================================
