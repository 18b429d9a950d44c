------------------------------- MODULE Heap -------------------------------
(***************************************************************************)
(* heap.c: a binary heap in an array that grows.  The elements of the      *)
(* array that are in use are a sequence; indexes count from zero, as in    *)
(* the code.  The heap is a sequential object, so a call is one step.      *)
(***************************************************************************)
EXTENDS Integers, FiniteSets, Sequences, SequencesExt

CONSTANTS Elem,      \* elements
          Rank(_),   \* what e_compare compares
          NULL,      \* the null pointer
          HEAP_DEFAULT_CAPACITY,
          MaxSize    \* bound: elements in the heap

HeapAssumption == /\ \A e \in Elem : Rank(e) \in Int
                  /\ HEAP_DEFAULT_CAPACITY \in Nat \ {0}
                  /\ MaxSize \in Nat

VARIABLES data,      \* void **data, up to size
          capacity,  \* size_t capacity
          reply      \* the last call, its argument and what it returned

vars == <<data, capacity, reply>>

Init == /\ data = << >>
        /\ capacity = HEAP_DEFAULT_CAPACITY
        /\ reply = <<"create", NULL, NULL>>

-----------------------------------------------------------------------------
parent(i)      == (i - 1) \div 2
left_child(i)  == 2 * i + 1
right_child(i) == 2 * i + 2

heap_get(d, i) == d[i + 1]

swap_element(d, a, b) ==
    [d EXCEPT ![a + 1] = heap_get(d, b), ![b + 1] = heap_get(d, a)]

Less(d, a, b) == Rank(heap_get(d, a)) < Rank(heap_get(d, b))

(* A loop changes the array and the index of the element that moves.       *)
Moved(d, i, j) == [data |-> swap_element(d, i, j), at |-> j]

(* The index falls with every pass, so i passes are enough.                *)
move_to_top(d, i) ==
    LET pass[k \in 0..i] ==
            IF k = 0 THEN [data |-> d, at |-> i]
            ELSE LET s == pass[k - 1]
                 IN  IF s.at > 0 THEN Moved(s.data, s.at, parent(s.at)) ELSE s
    IN  pass[i].data

shift_up(d, i) ==
    LET pass[k \in 0..i] ==
            IF k = 0 THEN [data |-> d, at |-> i]
            ELSE LET s == pass[k - 1]
                 IN  IF s.at > 0 /\ Less(s.data, s.at, parent(s.at))
                     THEN Moved(s.data, s.at, parent(s.at))
                     ELSE s
    IN  pass[i].data

(* Wrong: the children are tried in turn, not compared.                    *)
SmallestOf_FirstChild(d, i) ==
    LET smaller == {c \in {left_child(i), right_child(i)} : c < Len(d) /\ Less(d, c, i)}
    IN  IF smaller = {} THEN i ELSE CHOOSE c \in smaller : \A e \in smaller : c <= e

(* The first smallest of an element and its two children.                  *)
SmallestOf(d, i) ==
    LET family == {c \in {i, left_child(i), right_child(i)} : c < Len(d)}
    IN  CHOOSE c \in family :
            \A e \in family \ {c} : Less(d, c, e) \/ (~ Less(d, e, c) /\ c < e)

(* A call for each row, the last of which finds nothing to swap.           *)
shift_down(d, i) ==
    LET call[k \in 0..Len(d)] ==
            IF k = 0 THEN [data |-> d, at |-> i]
            ELSE LET s == call[k - 1]
                     c == SmallestOf(s.data, s.at)
                 IN  IF c = s.at THEN s ELSE Moved(s.data, s.at, c)
    IN  call[Len(d)].data

(* The last element takes the place of the first and goes down.            *)
Popped(d) ==
    IF Len(d) = 1 THEN << >>
                  ELSE shift_down(Front([d EXCEPT ![1] = Last(d)]), 0)

-----------------------------------------------------------------------------
heap_add(e) ==
    /\ Len(data) < MaxSize
    /\ capacity' = IF Len(data) = capacity THEN 2 * capacity ELSE capacity
    /\ data' = shift_up(Append(data, e), Len(data))
    /\ reply' = <<"add", e, NULL>>

heap_top ==
    /\ reply' = <<"top", NULL, IF data = << >> THEN NULL ELSE heap_get(data, 0)>>
    /\ UNCHANGED <<data, capacity>>

heap_pop ==
    /\ IF data = << >>
       THEN /\ reply' = <<"pop", NULL, NULL>>
            /\ UNCHANGED data
       ELSE /\ reply' = <<"pop", NULL, heap_get(data, 0)>>
            /\ data' = Popped(data)
    /\ UNCHANGED capacity

(* The element goes up to the top past all its ancestors and is popped.    *)
heap_remove(i) ==
    /\ i < Len(data)
    /\ LET moved == move_to_top(data, i)
       IN  /\ reply' = <<"remove", heap_get(data, i), heap_get(moved, 0)>>
           /\ data' = Popped(moved)
    /\ UNCHANGED capacity

Next == \/ \E e \in Elem : heap_add(e)
        \/ heap_top
        \/ heap_pop
        \/ \E i \in 0..(MaxSize - 1) : heap_remove(i)

Spec == Init /\ [][Next]_vars

-----------------------------------------------------------------------------
(* The heap implements a priority queue: top and pop return an element of  *)
(* least rank, remove returns the element that was asked for, and no       *)
(* element is lost or doubled on the way up or down, also when the heap    *)
(* shrinks to nothing and when the removed element is an inner one.  It    *)
(* never outgrows its array.                                               *)
Promise == INSTANCE PriorityQueue
             WITH count <- [e \in Elem |-> Cardinality({i \in DOMAIN data : data[i] = e})]
HeapImplements == Promise!Spec /\ [](Len(data) <= capacity)
=============================================================================
