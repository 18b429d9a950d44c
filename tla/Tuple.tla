------------------------------- MODULE Tuple -------------------------------
(***************************************************************************)
(* The binary format of messages (tuple.c): a program writes a tuple with  *)
(* calls of tuple_write_*, the bytes go to another node, and tuple_parse   *)
(* makes a tuple of pointers into the bytes from which tuple_get_* reads.  *)
(*                                                                         *)
(* A byte is a number.  A value of a fixed size is the sequence of its     *)
(* bytes in the order of the host, which is the little-endian one.         *)
(* tuple_parse calls itself for a tuple in a tuple; frames is its stack.   *)
(***************************************************************************)
EXTENDS Naturals, SequencesExt, FiniteSetsExt

CONSTANTS Scalar,        \* the elements [kind, data] that are written
          Zeros,         \* numbers of zero bytes that delivery may insert
          MaxElements,   \* bound: elements in all tuples of a message
          MaxDepth       \* bound: depth of tuples in tuples

TUPLE_START  == 40
TUPLE_END    == 41
TUPLE_I32    == 105
TUPLE_I64    == 73
TUPLE_U32    == 117
TUPLE_U64    == 85
TUPLE_F32    == 102
TUPLE_F64    == 70
TUPLE_BOOL   == 98
TUPLE_BINARY == 66
TUPLE_STRING == 115
TUPLE_NULL   == 110

Integer == {TUPLE_I32, TUPLE_I64, TUPLE_U32, TUPLE_U64}

(* The sizes of the kinds whose size is fixed.                             *)
Size(kind) ==
    CASE kind \in {TUPLE_I32, TUPLE_U32, TUPLE_F32} -> 4
      [] kind \in {TUPLE_I64, TUPLE_U64, TUPLE_F64} -> 8
      [] kind = TUPLE_BOOL -> 1
      [] kind = TUPLE_NULL -> 0

Leaf == Integer \cup {TUPLE_F32, TUPLE_F64, TUPLE_BOOL, TUPLE_NULL, TUPLE_BINARY, TUPLE_STRING}

VARIABLES pc,       \* "writing", "sent", "parsing", "done" or "aborted"
          open,     \* the tuples that were started and not ended, outermost first
          value,    \* the tuple that was written
          buf,      \* the bytes
          frames,   \* calls of tuple_parse, outermost first
          result,   \* what the outermost call returned
          count,    \* number of elements written so far
          intact    \* the bytes are those that were written

vars == <<pc, open, value, buf, frames, result, count, intact>>

NULL == << >>

Init ==
    /\ pc = "writing"
    /\ open = << >>
    /\ value = NULL
    /\ buf = << >>
    /\ frames = << >>
    /\ result = NULL
    /\ count = 0
    /\ intact = TRUE

-----------------------------------------------------------------------------
(* Writing.                                                                *)

(* A definition whose name ends in _<Word> is a wrong variant of the one   *)
(* that follows it, kept to show that the properties can tell them apart.  *)

(* A size of less than 256 in four bytes.                                  *)
U32Bytes(n) == <<n, 0, 0, 0>>

(* What is read behind the end does not matter: in each place where it may *)
(* happen, iter is at the end or behind it afterwards.                     *)
ByteAt(i) == IF i <= Len(buf) THEN buf[i] ELSE 0

U32At(i) ==
    ByteAt(i) + 256 * (ByteAt(i + 1) + 256 * (ByteAt(i + 2) + 256 * ByteAt(i + 3)))

(* Integers go out in the order of the network, sizes and the rest as they *)
(* are in memory.                                                          *)
Encode(e) ==
    <<e.kind>> \o
    CASE e.kind \in Integer      -> Reverse(e.data)
      [] e.kind = TUPLE_STRING -> Append(e.data, 0)
      [] e.kind = TUPLE_BINARY -> U32Bytes(Len(e.data)) \o e.data
      [] OTHER                 -> e.data

AddTo(stack, e) == [stack EXCEPT ![Len(stack)] = Append(@, e)]

(* tuple_write_i32 and the other calls that write an element.              *)
WriteScalar(e) ==
    /\ pc = "writing" /\ open # << >>
    /\ count < MaxElements
    /\ count' = count + 1
    /\ buf' = buf \o Encode(e)
    /\ open' = AddTo(open, e)
    /\ UNCHANGED <<pc, value, frames, result, intact>>

tuple_write_start ==
    /\ pc = "writing"
    /\ IF open = << >> THEN buf = << >> ELSE Len(open) < MaxDepth /\ count < MaxElements
    /\ count' = IF open = << >> THEN count ELSE count + 1
    /\ buf' = Append(buf, TUPLE_START)
    /\ open' = Append(open, << >>)
    /\ UNCHANGED <<pc, value, frames, result, intact>>

tuple_write_end ==
    /\ pc = "writing" /\ open # << >>
    /\ buf' = Append(buf, TUPLE_END)
    /\ IF Len(open) = 1
       THEN pc' = "sent" /\ value' = open[1] /\ open' = << >>
       ELSE /\ open' = AddTo(Front(open), [kind |-> TUPLE_START, data |-> Last(open)])
            /\ UNCHANGED <<pc, value>>
    /\ UNCHANGED <<frames, result, count, intact>>

-----------------------------------------------------------------------------
(* Delivery and parsing.                                                   *)

NewFrame(i) == [start |-> i, iter |-> i + 1, elements |-> << >>]

(* The message arrives, as on_read of network.c hands it over: where it    *)
(* was split into two reads zeros were put into it, and its end is cut     *)
(* off.  tuple_parse is called; its two tests of the beginning hold.       *)
Deliver(k, zeros) ==
    /\ pc = "sent"
    /\ LET filled == SubSeq(buf, 1, k) \o [i \in 1..zeros |-> 0]
                       \o SubSeq(buf, k + 1, Len(buf))
       IN  buf' = SubSeq(filled, 1, Len(buf))
    /\ intact' = (buf' = buf)
    /\ pc' = "parsing"
    /\ frames' = <<NewFrame(1)>>
    /\ UNCHANGED <<open, value, result, count>>

iter == Last(frames).iter

strlen(i) == Min({k \in 0..(Len(buf) + 1 - i) : ByteAt(i + k) = 0})

Skip_Unterminated(i) ==
    CASE buf[i] = TUPLE_STRING -> 1 + strlen(i + 1)
      [] buf[i] = TUPLE_BINARY -> 5 + U32At(i + 1)
      [] OTHER                 -> 1 + Size(buf[i])

(* The bytes of the element whose tag is at i.                             *)
Skip(i) ==
    CASE buf[i] = TUPLE_STRING -> 1 + strlen(i + 1) + 1
      [] buf[i] = TUPLE_BINARY -> 5 + U32At(i + 1)
      [] OTHER                 -> 1 + Size(buf[i])

Parsing == pc = "parsing" /\ iter <= Len(buf)

(* The assertion that something follows binary data.                       *)
BinaryFits == buf[iter] = TUPLE_BINARY => iter + Skip(iter) <= Len(buf)

(* The pointer to the element is kept.                                     *)
ParseScalar ==
    /\ Parsing
    /\ buf[iter] \in Leaf
    /\ BinaryFits
    /\ frames' = [frames EXCEPT ![Len(frames)].elements =
                       Append(@, [kind |-> buf[iter], at |-> iter, elements |-> << >>]),
                                ![Len(frames)].iter = @ + Skip(@)]
    /\ UNCHANGED <<pc, open, value, buf, result, count, intact>>

(* A tuple in the tuple: two bytes at least must be left for it.           *)
ParseStart ==
    /\ Parsing
    /\ buf[iter] = TUPLE_START
    /\ iter < Len(buf)
    /\ frames' = Append(frames, NewFrame(iter))
    /\ UNCHANGED <<pc, open, value, buf, result, count, intact>>

(* tuple_parse returns, to its caller in a tuple above or for good.        *)
ParseEnd ==
    /\ Parsing
    /\ buf[iter] = TUPLE_END
    /\ LET f      == Last(frames)
           length == f.iter + 1 - f.start
           above  == Len(frames) - 1
       IN  IF above = 0
           THEN result' = f.elements /\ pc' = "done" /\ frames' = << >>
           ELSE /\ frames' = [Front(frames) EXCEPT
                       ![above].elements =
                           Append(@, [kind |-> TUPLE_START, at |-> f.start, elements |-> f.elements]),
                       ![above].iter = @ + length]
                /\ UNCHANGED <<pc, result>>
    /\ UNCHANGED <<open, value, buf, count, intact>>

(* The end is missing: NULL is returned through all calls.                 *)
ParseNothing ==
    /\ pc = "parsing"
    /\ iter > Len(buf) \/ (iter = Len(buf) /\ buf[iter] = TUPLE_START)
    /\ pc' = "done"
    /\ result' = NULL
    /\ frames' = << >>
    /\ UNCHANGED <<open, value, buf, count, intact>>

ParseAborts ==
    /\ Parsing
    /\ ~ BinaryFits
    /\ pc' = "aborted"
    /\ UNCHANGED <<open, value, buf, frames, result, count, intact>>

(* The loop turns without a step when the byte is none of the tags.        *)
Parse == ParseScalar \/ ParseStart \/ ParseEnd \/ ParseNothing \/ ParseAborts

Next == \/ \E e \in Scalar : WriteScalar(e)
        \/ tuple_write_start
        \/ tuple_write_end
        \/ \E k \in 1..Len(buf), zeros \in Zeros : Deliver(k, zeros)
        \/ Parse

Spec == Init /\ [][Next]_vars

FairSpec == Spec /\ WF_vars(Parse)

-----------------------------------------------------------------------------
(* Reading.                                                                *)

Get_HostOrder(i) ==
    CASE buf[i] = TUPLE_STRING -> SubSeq(buf, i + 1, i + strlen(i + 1))
      [] buf[i] = TUPLE_BINARY -> SubSeq(buf, i + 5, i + 4 + U32At(i + 1))
      [] OTHER                 -> SubSeq(buf, i + 1, i + Size(buf[i]))

(* tuple_get_i32 and the others, of the element at i.                      *)
Get(i) ==
    CASE buf[i] \in Integer    -> Reverse(SubSeq(buf, i + 1, i + Size(buf[i])))
      [] buf[i] = TUPLE_STRING -> SubSeq(buf, i + 1, i + strlen(i + 1))
      [] buf[i] = TUPLE_BINARY -> SubSeq(buf, i + 5, i + 4 + U32At(i + 1))
      [] OTHER                 -> SubSeq(buf, i + 1, i + Size(buf[i]))

RECURSIVE ValueOf(_)
(* What the getters find in the elements of a parsed tuple.                *)
ValueOf(elements) ==
    [j \in DOMAIN elements |->
        LET e == elements[j]
        IN  [kind |-> e.kind,
             data |-> IF e.kind = TUPLE_START THEN ValueOf(e.elements) ELSE Get(e.at)]]

-----------------------------------------------------------------------------
(* What is read is what was written, whatever the values are: bytes that   *)
(* look like tags, strings and binary data without bytes, tuples without   *)
(* elements and tuples in tuples.  All hashes and signatures rest on this. *)
RoundTrip == pc = "done" /\ intact => ValueOf(result) = value

(* What a node has written, tuple_parse parses to the end.                 *)
WrittenIsParsed == (pc = "parsing" /\ intact) ~> (pc = "done" /\ intact)
=============================================================================
