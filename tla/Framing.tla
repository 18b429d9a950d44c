------------------------------ MODULE Framing ------------------------------
(***************************************************************************)
(* The receiving end of a connection: on_read (network.c) collects what    *)
(* libuv reads into the buffer of the peer and cuts messages out of it.    *)
(*                                                                         *)
(* The stream is a sequence of bytes.  <<i, j>> is byte j of message i:    *)
(* the magic number, the length of the body in four bytes, the rest of the *)
(* header and the body.  <<0, 0>> is a byte of zeroed memory.  The bytes   *)
(* of the magic number stand in their order at the beginning of a message  *)
(* and nowhere else in it or across two.                                   *)
(***************************************************************************)
EXTENDS Naturals, SequencesExt, FiniteSetsExt

CONSTANTS MAGIC_SIZE,       \* bytes of the magic number
          TAIL_SIZE,        \* bytes of a header behind the length: guid and type
          BASE,             \* number of values of a byte
          SUGGESTED_SIZE,   \* size of the buffers libuv asks for
          MaxMessages,      \* bound: messages on the connection
          MaxLength,        \* bound: length of a body
          MaxShortReads     \* bound: reads that leave room and bytes behind

MESSAGE_HEADER_SIZE == MAGIC_SIZE + 4 + TAIL_SIZE

(* libuv asks for 64 KB, which is more than a header.                      *)
ASSUME FramingAssumption ==
    /\ MAGIC_SIZE \in Nat \ {0} /\ TAIL_SIZE \in Nat /\ BASE \in Nat \ {0}
    /\ SUGGESTED_SIZE \in Nat /\ SUGGESTED_SIZE >= MESSAGE_HEADER_SIZE
    /\ MaxMessages \in Nat /\ MaxLength \in Nat /\ MaxShortReads \in Nat

VARIABLES lengths,   \* lengths[i]: the length of the body of message i, four bytes
          stream,    \* bytes that were written and not yet read
          buf,       \* dynamic_buffer_t buf of the peer
          handled,   \* the messages passed to handle_message
          looping,   \* on_read is in its loop
          closed,    \* network_disconnect was called
          stopped,   \* the node has crashed or hangs
          short,     \* number of such reads so far
          gaps       \* auxiliary: the bytes in front of which zeros were inserted

vars == <<lengths, stream, buf, handled, looping, closed, stopped, short, gaps>>

ZERO == <<0, 0>>

(* The number that four bytes stand for.                                   *)
Number(f) == ((f[1] * BASE + f[2]) * BASE + f[3]) * BASE + f[4]

LengthField == {f \in [1..4 -> 0..(BASE - 1)] : Number(f) <= MaxLength}

Message(i) == [j \in 1..(MESSAGE_HEADER_SIZE + Number(lengths[i])) |-> <<i, j>>]

Init ==
    /\ lengths \in SeqOf(LengthField, MaxMessages)
    /\ stream = FlattenSeq([i \in DOMAIN lengths |-> Message(i)])
    /\ buf = << >>
    /\ handled = << >>
    /\ looping = FALSE
    /\ closed = FALSE
    /\ stopped = FALSE
    /\ short = 0
    /\ gaps = {}

(* A definition whose name ends in _<Word> is a wrong variant of the one   *)
(* that follows it, kept to show that the properties can tell them apart.  *)

(* Byte k of the length in the header that begins b.                       *)
LengthByte(b, k) ==
    LET c == b[MAGIC_SIZE + k]
    IN  IF c = ZERO THEN 0 ELSE lengths[c[1]][c[2] - MAGIC_SIZE]

message_get_length(b) == Number([k \in 1..4 |-> LengthByte(b, k)])

SizeAt_TooLong(b) == MESSAGE_HEADER_SIZE + 1 + message_get_length(b)

(* The size of the message that begins b, from the length in its header.   *)
SizeAt(b) == MESSAGE_HEADER_SIZE + message_get_length(b)

(* The bytes of s from p on are the magic number.                          *)
Magic(s, p) ==
    /\ p + MAGIC_SIZE - 1 <= Len(s)
    /\ \A k \in 1..MAGIC_SIZE : s[p + k - 1][2] = k

Memory_Cleared == buf

(* The buffer and what the message that was just handled has left behind   *)
(* its end: splicing that message out moved the buffer to its place.       *)
Memory == buf \o SubSeq(Last(handled), Len(buf) + 1, Len(Last(handled)))

Starts_BeforeEnd == {p \in 1..(Len(buf) - MESSAGE_HEADER_SIZE) : Magic(buf, p)}

(* The places of a magic number that a whole header may follow.  In a      *)
(* buffer that is too short for one the unsigned difference wraps, and the *)
(* search runs on through the memory.                                      *)
Starts ==
    IF Len(buf) + 1 >= MESSAGE_HEADER_SIZE
    THEN {p \in 1..(Len(buf) + 1 - MESSAGE_HEADER_SIZE) : Magic(buf, p)}
    ELSE {p \in 1..(Len(buf) + 1) : Magic(Memory, p)}

(* The buffer from the first magic number on; what precedes is dropped.    *)
find_message_start == SubSeq(buf, Min(Starts), Len(buf))

Complete ==
    /\ Starts # {}
    /\ LET b == find_message_start
       IN  Len(b) >= MESSAGE_HEADER_SIZE /\ SizeAt(b) <= Len(b)

(* The message that the loop finds.                                        *)
Found == SubSeq(find_message_start, 1, SizeAt(find_message_start))

Intact(m) == m = Message(m[1][1])

Packet_Uninitialized(n) ==
    SubSeq(stream, 1, n) \o [i \in 1..(SUGGESTED_SIZE - n) |-> <<0, 1>>]

Packet_LosesLast(n) ==
    SubSeq(stream, 1, n - 1) \o [i \in 1..(SUGGESTED_SIZE + 1 - n) |-> ZERO]

(* The zeroed buffer of libuv after n bytes were read into it.             *)
Packet(n) == SubSeq(stream, 1, n) \o [i \in 1..(SUGGESTED_SIZE - n) |-> ZERO]

(* The byte that the next read begins with, sent or yet to be sent.        *)
Unread(n) == IF n < Len(stream) THEN stream[n + 1] ELSE <<Len(lengths) + 1, 1>>

(* Only these are bounded, so that all that was sent can be read.          *)
IsShort(n) == n = 0 \/ (n < SUGGESTED_SIZE /\ n < Len(stream))

(* n bytes were read; the whole buffer of libuv is appended.               *)
on_read(n) ==
    /\ ~ closed /\ ~ stopped /\ ~ looping
    /\ n <= Len(stream)
    /\ IsShort(n) => short < MaxShortReads
    /\ short' = IF IsShort(n) THEN short + 1 ELSE short
    /\ stream' = SubSeq(stream, n + 1, Len(stream))
    /\ buf' = buf \o Packet(n)
    /\ gaps' = IF n < SUGGESTED_SIZE THEN gaps \cup {Unread(n)} ELSE gaps
    /\ looping' = TRUE
    /\ UNCHANGED <<lengths, handled, closed, stopped>>

HandleMessage_Unspliced ==
    /\ looping /\ ~ stopped
    /\ Complete
    /\ handled' = Append(handled, Found)
    /\ buf' = find_message_start
    /\ UNCHANGED <<lengths, stream, looping, closed, stopped, short, gaps>>

(* A turn of the loop: the message is handled and spliced out.             *)
HandleMessage ==
    /\ looping /\ ~ stopped
    /\ Complete
    /\ handled' = Append(handled, Found)
    /\ LET b == find_message_start
       IN  buf' = SubSeq(b, SizeAt(b) + 1, Len(b))
    /\ UNCHANGED <<lengths, stream, looping, closed, stopped, short, gaps>>

(* handle_message does not return from a message that is not as it was     *)
(* sent: tuple_parse turns for ever or fails an assertion.                 *)
ParserStops ==
    /\ looping /\ ~ stopped
    /\ Complete
    /\ ~ Intact(Found)
    /\ stopped' = TRUE
    /\ UNCHANGED <<lengths, stream, buf, handled, looping, closed, short, gaps>>

(* The search finds nothing in the memory behind the buffer, or a place to *)
(* which more would have to be dropped than the buffer holds: both crash.  *)
SearchOverruns ==
    /\ looping /\ ~ stopped
    /\ Len(buf) + 1 < MESSAGE_HEADER_SIZE
    /\ Starts = {}
    /\ stopped' = TRUE
    /\ UNCHANGED <<lengths, stream, buf, handled, looping, closed, short, gaps>>

(* No header, or not all of its message: on_read returns.                  *)
AwaitData ==
    /\ looping /\ ~ stopped
    /\ ~ Complete
    /\ Len(buf) + 1 >= MESSAGE_HEADER_SIZE \/ Starts # {}
    /\ buf' = IF Starts = {} THEN buf ELSE find_message_start
    /\ looping' = FALSE
    /\ UNCHANGED <<lengths, stream, handled, closed, stopped, short, gaps>>

(* The read has failed: the connection is closed.                          *)
on_read_error ==
    /\ ~ closed /\ ~ stopped /\ ~ looping
    /\ closed' = TRUE
    /\ UNCHANGED <<lengths, stream, buf, handled, looping, stopped, short, gaps>>

Turn == HandleMessage \/ ParserStops \/ SearchOverruns \/ AwaitData

Next == \/ \E n \in 0..SUGGESTED_SIZE : on_read(n)
        \/ Turn
        \/ on_read_error

Spec == Init /\ [][Next]_vars

(* The loop runs on, and libuv reads what has arrived while the connection *)
(* is open.                                                                *)
FairSpec == Spec /\ WF_vars(Turn) /\ WF_vars(\E n \in 1..SUGGESTED_SIZE : on_read(n))

-----------------------------------------------------------------------------
TypeOK ==
    LET Byte == {ZERO} \cup UNION {ToSet(Message(i)) : i \in DOMAIN lengths}
    IN  /\ ToSet(stream) \cup ToSet(buf) \subseteq Byte
        /\ \A k \in DOMAIN handled : ToSet(handled[k]) \subseteq Byte
        /\ looping \in BOOLEAN /\ closed \in BOOLEAN /\ stopped \in BOOLEAN
        /\ short \in 0..MaxShortReads
        /\ gaps \subseteq (1..(Len(lengths) + 1)) \X (Nat \ {0})

(* Zeros were inserted into the magic number of message i.                 *)
MagicTorn(i) == \E j \in 2..MAGIC_SIZE : <<i, j>> \in gaps

(* Zeros were inserted into message i.                                     *)
Torn(i) == \E j \in 2..Len(Message(i)) : <<i, j>> \in gaps

(* The number of the message that was handled as the k-th.                 *)
NumberOf(k) == handled[k][1][1]

(* The messages are handled in the order in which they were sent and none  *)
(* twice, and only those are skipped into whose magic number a read has    *)
(* inserted zeros, whatever else is damaged and left in the buffer.        *)
HandledInOrder ==
    /\ \A k \in DOMAIN handled : handled[k][1] = <<NumberOf(k), 1>>
    /\ \A k, l \in DOMAIN handled : k < l => NumberOf(k) < NumberOf(l)
    /\ \A k \in DOMAIN handled, i \in DOMAIN lengths :
          i < NumberOf(k) => MagicTorn(i) \/ \E l \in 1..k : NumberOf(l) = i

(* A damaged message damages no other: what is handled for a message holds *)
(* bytes of that message, in their order, and zeros.                       *)
OwnCellsOnly ==
    \A k \in DOMAIN handled :
        LET real == {p \in DOMAIN handled[k] : handled[k][p] # ZERO}
        IN  /\ \A p \in real : handled[k][p] \in ToSet(Message(NumberOf(k)))
            /\ \A p, q \in real :
                    p < q => handled[k][p][2] < handled[k][q][2]

(* A message between whose bytes no read has inserted zeros is handled     *)
(* intact, even if it took several reads, and although zeros and remains   *)
(* of other messages may precede it in the buffer.                         *)
UntornIntact ==
    \A k \in DOMAIN handled : Torn(NumberOf(k)) \/ Intact(handled[k])

(* While every read fills its buffer, the loop neither hands on a message  *)
(* that the parser does not survive nor searches behind the buffer.        *)
FullReadsAreSafe == stopped => gaps # {}

(* Every message whose magic number is whole is handled, or the connection *)
(* is lost, or the node stops.                                             *)
AllHandled ==
    \A i \in 1..MaxMessages :
        <>( \/ i \notin DOMAIN lengths \/ closed \/ stopped \/ MagicTorn(i)
            \/ \E k \in DOMAIN handled : NumberOf(k) = i )

-----------------------------------------------------------------------------
(* What a comment of the program says and on_read does not do.             *)

(* network.c: the data of a large message may be split into several reads; *)
(* new data is appended and messages are parsed out of the whole.  So what *)
(* is handled is what was sent.                                            *)
HandledIsSent == \A k \in DOMAIN handled : handled[k] = Message(k)
=============================================================================
