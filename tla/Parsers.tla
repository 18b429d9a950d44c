------------------------------ MODULE Parsers ------------------------------
(***************************************************************************)
(* The two formats that a node parses side by side: the requests of a      *)
(* client of the REST server, and the tuples that messages are made of.    *)
(* They do not touch each other.                                           *)
(***************************************************************************)
EXTENDS Http

CONSTANTS Scalar, Zeros, MaxElements, MaxDepth                  \* Tuple

VARIABLES pc, openTuples, value, bytes, frames, result, count, intact

tupleVars == <<pc, openTuples, value, bytes, frames, result, count, intact>>

TheTuple == INSTANCE Tuple WITH open <- openTuples, buf <- bytes

-----------------------------------------------------------------------------
(* A behaviour uses one of them and leaves the other as created.           *)
ParsersInit == Init /\ TheTuple!Init

HttpStep  == TheTuple!Init /\ Next /\ UNCHANGED tupleVars
TupleStep == Init /\ TheTuple!Next /\ UNCHANGED vars

ParsersSpec ==
    /\ ParsersInit
    /\ [][HttpStep \/ TupleStep]_<<vars, tupleVars>>
    /\ WF_<<vars, tupleVars>>(TheTuple!Parse /\ UNCHANGED vars)

-----------------------------------------------------------------------------
(* What the getters read is what was written.                              *)
RoundTrip == TheTuple!RoundTrip

(* What a node has written, tuple_parse parses to the end.                 *)
WrittenIsParsed == TheTuple!WrittenIsParsed
=============================================================================
