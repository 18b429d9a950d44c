-------------------------------- MODULE Http --------------------------------
(***************************************************************************)
(* The REST server of http.c on one connection, and the two endpoints that *)
(* main.c registers.                                                       *)
(*                                                                         *)
(* The bytes of a connection are cells.  A request is the method, the url, *)
(* perhaps another header line, and the blank line that ends the header.   *)
(* on_alloc does not clear the memory of a read and on_read takes all of   *)
(* it, also what was not read: that part may hold anything.                *)
(*                                                                         *)
(* A url is a sequence of slashes, colons and words; a hash is a word.     *)
(***************************************************************************)
EXTENDS Naturals, FiniteSets, Sequences, SequencesExt

CONSTANTS Hash,        \* words that are hashes
          Stored,      \* hashes of the blocks of the blockchain
          First,       \* what may be the first request of a connection
          Later,       \* what may follow it
          BufferSize,  \* cells that on_alloc provides
          MaxRequests, \* bound: requests of a connection
          MaxReads     \* bound: reads of a connection

VARIABLES asked,    \* the requests that the client has sent
          stream,   \* cells sent and not yet read
          buf,      \* dynamic_buffer_t buf of the client_context
          reads,    \* number of reads so far
          replies,  \* what was written to the client
          open,     \* whether the connection is open
          stopped   \* an assertion has stopped the node

vars == <<asked, stream, buf, reads, replies, open, stopped>>

METHOD == [kind |-> "word", url |-> <<"GET">>]
LINE   == [kind |-> "word", url |-> <<"Host">>]
END    == [kind |-> "end",  url |-> << >>]
NUL    == [kind |-> "nul",  url |-> << >>]
URL(u) == [kind |-> "word", url |-> u]

Short(u) == <<METHOD, URL(u), END>>
Long(u)  == <<METHOD, URL(u), LINE, END>>

(* What n cells of memory that was not read may hold: zeros, text, or what *)
(* looks like the end of a header.                                         *)
Garbage(n) == {[i \in 1..n |-> g] : g \in {NUL, LINE, END}}

CHAIN == "chain"
NONE  == "none"

Reply(code, what) == [code |-> code, what |-> what]

(* The handler gives no reply: an assertion fails in it.                   *)
FAILURE == Reply(0, NONE)

(* What a client may send; no character of a url is the end of a string.   *)
IsRequest(r) == /\ r = Short(r[2].url) \/ r = Long(r[2].url)
                /\ r[2].url \in Seq(ToSet(r[2].url) \ {"nul"})

HttpAssumption == /\ \A r \in First \cup Later : IsRequest(r)
                  /\ BufferSize \in Nat /\ MaxRequests \in Nat /\ MaxReads \in Nat

-----------------------------------------------------------------------------
(* The endpoints.                                                          *)

on_http_blocks_request == Reply(200, CHAIN)

is_valid_hash(text) == Len(text) = 1 /\ text[1] \in Hash

Lookup(param) ==
    CASE ~ is_valid_hash(param)   -> Reply(400, NONE)
      [] param[1] \in Stored      -> Reply(200, param[1])
      [] OTHER                    -> Reply(404, NONE)

(* The handler asks for its first parameter; list_get asserts that it is   *)
(* there.                                                                  *)
on_http_block_request(params) ==
    IF params = << >> THEN FAILURE ELSE Lookup(params[1])

-----------------------------------------------------------------------------
(* A definition whose name ends in _<Word> is a wrong variant of the one   *)
(* that follows it, kept to show that the properties can tell them apart.  *)

(* The character at a pointer into a string.                               *)
At(s, i) == IF i > Len(s) THEN "nul" ELSE s[i]

(* Wrong: the wildcard takes the rest of the url.                          *)
WildcardEnd_Greedy(url, j) == Len(url) + 1

(* Where a wildcard ends: at the next slash, or at the end of the url.     *)
WildcardEnd(url, j) ==
    LET ends == {k \in j..(Len(url) + 1) : At(url, k) \in {"/", "nul"}}
    IN  CHOOSE k \in ends : \A l \in ends : k <= l

(* The parameters of a match of the pattern from i and the url from j, or  *)
(* nothing: a set of at most one sequence.  A slash at the end may be      *)
(* missing on either side.  Characters are compared before the wildcard is *)
(* looked for, so a colon in the url is no parameter where the pattern has *)
(* its wildcard.  below[k] is what is found from i + 1 and k.              *)
MatchFrom(pattern, url, i, j, below) ==
    LET p == At(pattern, i)
        u == At(url, j)
    IN  CASE p = "nul" /\ u = "nul" -> {<< >>}
          [] p = "nul" /\ u = "/" /\ j = Len(url) -> {<< >>}
          [] u = "nul" /\ p = "/" /\ i = Len(pattern) -> {<< >>}
          [] p = u /\ p # "nul" -> below[j + 1]
          [] p = ":" /\ u # ":" ->
                {<<SubSeq(url, j, WildcardEnd(url, j) - 1)>> \o params :
                     params \in below[WildcardEnd(url, j)]}
          [] OTHER -> {}

resolve_pattern(pattern, url) ==
    LET match[i \in 1..(Len(pattern) + 1)] ==
            [j \in 1..(Len(url) + 1) |-> MatchFrom(pattern, url, i, j, match[i + 1])]
    IN  match[1][1]

BLOCKS_PATTERN == <<"/", "block", "/">>
BLOCK_PATTERN  == <<"/", "block", "/", ":", "/">>

(* The patterns are tried in the order of their registration.              *)
Answer(url) ==
    LET found == resolve_pattern(BLOCK_PATTERN, url)
    IN  CASE resolve_pattern(BLOCKS_PATTERN, url) # {} -> on_http_blocks_request
          [] resolve_pattern(BLOCKS_PATTERN, url) = {} /\ found # {} ->
                on_http_block_request(CHOOSE params \in found : TRUE)
          [] OTHER -> Reply(404, NONE)

(* What may be replied.  The text ends at a zero, and the second word of   *)
(* it is taken for the url.  With fewer words there is no reply, unless    *)
(* there is no zero either: then sscanf reads on behind the buffer and may *)
(* find a word there, which is no url of a block.                          *)
on_request(data) ==
    LET nul   == SelectInSeq(data, LAMBDA c : c.kind = "nul")
        text  == IF nul = 0 THEN data ELSE SubSeq(data, 1, nul - 1)
        words == {i \in DOMAIN text : text[i].kind = "word"}
        urls  == {j \in words : \E i \in words : {k \in words : k < j} = {i}}
    IN  IF urls # {} THEN {<<Answer(text[j].url)>> : j \in urls}
        ELSE IF nul = 0 THEN {<< >>, <<Reply(404, NONE)>>}
        ELSE {<< >>}

(* The position behind the first end of a header; 0 if there is none.      *)
find_header_end(data) == SelectInSeq(data, LAMBDA c : c.kind = "end")

-----------------------------------------------------------------------------
Init == /\ asked = << >>
        /\ stream = << >>
        /\ buf = << >>
        /\ reads = 0
        /\ replies = << >>
        /\ open = TRUE
        /\ stopped = FALSE

(* The client sends a request, perhaps before the last one was answered.   *)
Ask(request) ==
    /\ open /\ ~ stopped
    /\ Len(asked) < MaxRequests
    /\ request \in IF asked = << >> THEN First ELSE Later
    /\ asked' = Append(asked, request)
    /\ stream' = stream \o request
    /\ UNCHANGED <<buf, reads, replies, open, stopped>>

(* n cells are read, and the rest of the memory is taken with them.  Of    *)
(* the headers in the buffer one is handled, from the start of the buffer, *)
(* and everything up to its end is removed.                                *)
on_read(n, rest) ==
    /\ open /\ ~ stopped
    /\ reads < MaxReads
    /\ reads' = reads + 1
    /\ stream' = SubSeq(stream, n + 1, Len(stream))
    /\ LET data == buf \o SubSeq(stream, 1, n) \o rest
           end  == find_header_end(data)
       IN  /\ buf' = SubSeq(data, end + 1, Len(data))
           /\ \E reply \in IF end = 0 THEN {<< >>} ELSE on_request(data) :
                 /\ stopped' = (reply = <<FAILURE>>)
                 /\ replies' = IF stopped' THEN replies ELSE replies \o reply
    /\ UNCHANGED <<asked, open>>

(* The client has gone; the context of the connection is freed.            *)
on_close ==
    /\ open /\ ~ stopped
    /\ open' = FALSE
    /\ buf' = << >>
    /\ UNCHANGED <<asked, stream, reads, replies, stopped>>

Read == \E n \in 0..BufferSize :
            /\ n <= Len(stream)
            /\ \E rest \in Garbage(BufferSize - n) : on_read(n, rest)

Next == \/ \E request \in First \cup Later : Ask(request)
        \/ Read
        \/ on_close

Spec == Init /\ [][Next]_vars

-----------------------------------------------------------------------------
(* http.h: a wildcard stands for any text up to the next slash, and a      *)
(* slash at the end of the url does not matter.  What that asks for, by    *)
(* comparing whole urls.                                                   *)
Instance(pattern, text) ==
    FlattenSeq([i \in 1..Len(pattern) |->
                    IF pattern[i] = ":" THEN text ELSE <<pattern[i]>>])

AlmostEqual(u, v) == u = v \/ u = Append(v, "/") \/ v = Append(u, "/")

TextsWithin(url) ==
    {t \in {SubSeq(url, i, j) : i \in 1..(Len(url) + 1), j \in 0..Len(url)} :
        "/" \notin ToSet(t)}

Asks(pattern, url) ==
    {t \in TextsWithin(url) : AlmostEqual(url, Instance(pattern, t))}

RightReply(url) ==
    IF Asks(BLOCKS_PATTERN, url) # {} THEN on_http_blocks_request
    ELSE IF Asks(BLOCK_PATTERN, url) = {} THEN Reply(404, NONE)
    ELSE Lookup(CHOOSE t \in Asks(BLOCK_PATTERN, url) : TRUE)

(* The url has a colon where BLOCK_PATTERN has its wildcard.               *)
TakenLiterally(url) == \A k \in 1..4 : At(url, k) = BLOCK_PATTERN[k]

(* The first read of the connection brings the whole of its first request. *)
FirstIsWhole ==
    /\ reads = 0 /\ reads' = 1
    /\ asked # << >>
    /\ Len(stream) - Len(stream') >= Len(asked[1])

(* A request that the first read of its connection brings whole, alone or  *)
(* with more behind it, gets its reply at once, and the reply that the     *)
(* patterns ask for, whatever the memory behind it holds.  Only a colon in *)
(* the place of the wildcard makes a difference: it is no hash, not found, *)
(* and the node stops at a url that is the pattern itself.  No more can be *)
(* said: the memory is taken for a part of the next request.               *)
WholeIsAnswered ==
    [][ LET url == asked[1][2].url
        IN  FirstIsWhole =>
              /\ stopped' <=> AlmostEqual(url, BLOCK_PATTERN)
              /\ ~ stopped' => replies' = <<IF TakenLiterally(url) THEN Reply(404, NONE)
                                            ELSE RightReply(url)>> ]_vars

-----------------------------------------------------------------------------
(* What a comment of the program says and resolve_pattern does not do.     *)

(* http.h: the wildcard matches any path up to the next slash.  So every   *)
(* url gets the reply that the patterns ask for.                           *)
WildcardMatchesAny ==
    [][ FirstIsWhole => replies' = <<RightReply(asked[1][2].url)>> ]_vars
=============================================================================
