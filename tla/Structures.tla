----------------------------- MODULE Structures -----------------------------
(***************************************************************************)
(* The collections of util/ and the merkle root of block.c side by side: a *)
(* map, a heap and the body of a block that do not touch each other.       *)
(***************************************************************************)
EXTENDS HashMap

CONSTANTS Elem, Rank(_), HEAP_DEFAULT_CAPACITY, MaxElems,     \* Heap
          Txn, MaxTxns                                        \* BlockBody

VARIABLES data, capacity, heapReply,
          phase, txns, header, received, accepted

heapVars == <<data, capacity, heapReply>>
bodyVars == <<phase, txns, header, received, accepted>>

TheHeap == INSTANCE Heap WITH reply <- heapReply, MaxSize <- MaxElems
TheBody == INSTANCE BlockBody

ASSUME StructuresAssumption == TheHeap!HeapAssumption /\ TheBody!BodyAssumption

-----------------------------------------------------------------------------
(* A behaviour uses one of them and leaves the others as created.          *)
StructuresInit == Init /\ TheHeap!Init /\ TheBody!Init

MapStep  == Next /\ TheHeap!Init /\ TheBody!Init /\ UNCHANGED <<heapVars, bodyVars>>
HeapStep == Init /\ TheHeap!Next /\ TheBody!Init /\ UNCHANGED <<vars, bodyVars>>
BodyStep == Init /\ TheHeap!Init /\ TheBody!Next /\ UNCHANGED <<vars, heapVars>>

StructuresSpec ==
    StructuresInit /\ [][MapStep \/ HeapStep \/ BodyStep]_<<vars, heapVars, bodyVars>>

-----------------------------------------------------------------------------
(* The heap implements the priority queue that heap.h promises.            *)
HeapImplements == TheHeap!HeapImplements

(* The header of a block stands for its list of transactions.              *)
HeaderCommits  == TheBody!HeaderCommits
=============================================================================
