------------------------------- MODULE Gossip -------------------------------
(***************************************************************************)
(* The gossip of network.c: how a message spreads over the connections of  *)
(* the nodes, and what the history of guids, which is bounded, remembers   *)
(* of it.  What a message says does not matter here; a handler may do      *)
(* nothing, answer its peer or broadcast a message of its own.             *)
(*                                                                         *)
(* Every call of network_send or network_broadcast starts an event; events *)
(* are numbered.  A broadcast carries a new guid, for which the number of  *)
(* the event stands, and a direct message the null guid.                   *)
(*                                                                         *)
(* A list of guids that is bounded can only do its work if old messages    *)
(* leave the network while new ones enter it.  Window says how fast: no    *)
(* event starts while the one Window places before it, or an older one, is *)
(* still on its way.  The assumption relates Window to the length of the   *)
(* history, 1024 in the code, which leaves room for a Window of 512.       *)
(***************************************************************************)
EXTENDS Naturals, FiniteSets, Sequences, SequencesExt

CONSTANTS Node,                  \* nodes
          Links,                 \* connections: ordered pairs, both directions
          MESSAGE_HISTORY_SIZE,  \* length of the history
          Window,                \* events that may be on their way together
          MaxEvents,             \* bound: calls of network_send and network_broadcast
          MaxDirect              \* bound: calls of network_send alone

ASSUME LinksAssumption == /\ Links \subseteq Node \X Node
                          /\ \A l \in Links : <<l[2], l[1]>> \in Links /\ l[1] # l[2]

ASSUME WindowAssumption ==
    /\ MESSAGE_HISTORY_SIZE \in Nat \ {0}
    /\ Window \in Nat \ {0}
    /\ MaxEvents \in Nat
    /\ MaxDirect \in Nat
    /\ 2 * Window - 1 <= MESSAGE_HISTORY_SIZE

VARIABLES events,    \* number of events started so far
          history,   \* list_t *message_history of every node
          channel,   \* messages written to a connection and not yet read
          seen       \* guids that the node has broadcast itself or handled

vars == <<events, history, channel, seen>>

guid_null == 0

Peers(n) == {l[2] : l \in {k \in Links : k[1] = n}}

(* The event is no part of the message; it says what is on its way.        *)
Message == [guid : 0..MaxEvents, event : 1..MaxEvents]

Init == /\ events = 0
        /\ history = [n \in Node |-> << >>]
        /\ channel = [l \in Links |-> << >>]
        /\ seen = [n \in Node |-> {}]

-----------------------------------------------------------------------------
(* A definition whose name ends in _<Word> is a wrong variant of the one   *)
(* that follows it, kept to show that the properties can tell them apart.  *)

(* Wrong: nothing is forgotten.                                            *)
message_history_add_Unbounded(h, guid) == Append(h, guid)

(* Wrong: one guid too few is kept.                                        *)
message_history_add_Short(h, guid) ==
    IF Len(h) + 1 >= MESSAGE_HISTORY_SIZE THEN Append(Tail(h), guid)
                                          ELSE Append(h, guid)

(* A full history forgets its oldest guid, of whatever kind it is.         *)
message_history_add(h, guid) ==
    IF Len(h) >= MESSAGE_HISTORY_SIZE THEN Append(Tail(h), guid)
                                      ELSE Append(h, guid)

message_history_has(h, guid) == guid \in ToSet(h)

(* The message is written to every peer of n in turn, also to the one that *)
(* it came from.                                                           *)
broadcast_message(ch, n, msg) ==
    [l \in Links |-> IF l[1] = n THEN Append(ch[l], msg) ELSE ch[l]]

send_message(ch, n, m, msg) == [ch EXCEPT ![<<n, m>>] = Append(@, msg)]

InFlight == UNION {{channel[l][i].event : i \in DOMAIN channel[l]} : l \in Links}

MayStart == /\ events < MaxEvents
            /\ \A e \in InFlight : events + 1 < e + Window

(* Every event that is not a broadcast is a direct message.                *)
MaySend == /\ MayStart
           /\ events - Cardinality(UNION {seen[n] : n \in Node}) < MaxDirect

-----------------------------------------------------------------------------
(* What a call of network.c does, on the record                            *)
(*    [history, seen, channel, events]                                     *)
(* of what node n sees and changes.                                        *)

View(n, ch) == [history |-> history[n], seen |-> seen[n],
                channel |-> ch, events |-> events]

Becomes(n, r) == /\ history' = [history EXCEPT ![n] = r.history]
                 /\ seen' = [seen EXCEPT ![n] = r.seen]
                 /\ channel' = r.channel
                 /\ events' = r.events

network_broadcast(r, n) ==
    LET e == r.events + 1
    IN  [history |-> message_history_add(r.history, e),
         seen    |-> r.seen \cup {e},
         channel |-> broadcast_message(r.channel, n, [guid |-> e, event |-> e]),
         events  |-> e]

(* The null guid of a direct message takes a place in the history too.     *)
network_send(r, n, m) ==
    LET e == r.events + 1
    IN  [history |-> message_history_add(r.history, guid_null),
         seen    |-> r.seen,
         channel |-> send_message(r.channel, n, m, [guid |-> guid_null, event |-> e]),
         events  |-> e]

(* What a handler may make of r: on_block may broadcast a block of its own *)
(* and the handlers of direct messages may also answer their peer m.       *)
AfterBroadcast(r, n) == {r} \cup {s \in {network_broadcast(r, n)} : MayStart}

AfterDirect(r, n, m) ==
    AfterBroadcast(r, n) \cup {s \in {network_send(r, n, m)} : MaySend}

(* Wrong: the message is not passed on.                                    *)
PassOn_Silent(r, n, msg) ==
    [r EXCEPT !.history = message_history_add(@, msg.guid),
              !.seen    = @ \cup {msg.guid}]

(* After the handler: the guid is recorded and the message is written to   *)
(* all peers, behind anything that the handler has written.                *)
PassOn(r, n, msg) ==
    [history |-> message_history_add(r.history, msg.guid),
     seen    |-> r.seen \cup {msg.guid},
     channel |-> broadcast_message(r.channel, n, msg),
     events  |-> r.events]

-----------------------------------------------------------------------------
(* A timer, a command or a new connection makes n use the network.         *)
Call(n) ==
    \/ /\ MayStart
       /\ Becomes(n, network_broadcast(View(n, channel), n))
    \/ /\ MaySend
       /\ \E m \in Peers(n) : Becomes(n, network_send(View(n, channel), n, m))

(* n reads a message that m has written.                                   *)
Incoming(m, n) == Head(channel[<<m, n>>])

AfterRead(m, n) == View(n, [channel EXCEPT ![<<m, n>>] = Tail(@)])

HandleDirect(m, n) ==
    /\ Incoming(m, n).guid = guid_null
    /\ \E r \in AfterDirect(AfterRead(m, n), n, m) : Becomes(n, r)

HandleKnown(m, n) ==
    /\ Incoming(m, n).guid # guid_null
    /\ message_history_has(history[n], Incoming(m, n).guid)
    /\ Becomes(n, AfterRead(m, n))

HandleNew(m, n) ==
    /\ Incoming(m, n).guid # guid_null
    /\ ~ message_history_has(history[n], Incoming(m, n).guid)
    /\ \E r \in AfterBroadcast(AfterRead(m, n), n) :
          Becomes(n, PassOn(r, n, Incoming(m, n)))

handle_message(m, n) ==
    /\ channel[<<m, n>>] # << >>
    /\ \/ HandleDirect(m, n)
       \/ HandleKnown(m, n)
       \/ HandleNew(m, n)

Next == \/ \E n \in Node : Call(n)
        \/ \E l \in Links : handle_message(l[1], l[2])

Spec == Init /\ [][Next]_vars

(* The event loop reads every connection that has something to read.  This *)
(* is weak fairness with the guard in place of ENABLED: a message can      *)
(* always be handled, and handling it changes the channel.                 *)
FairSpec ==
    /\ Spec
    /\ \A l \in Links : \/ []<>(channel[l] = << >>)
                        \/ []<><<handle_message(l[1], l[2])>>_vars

-----------------------------------------------------------------------------
TypeOK ==
    /\ events \in 0..MaxEvents
    /\ history \in [Node -> Seq(0..events)]
    /\ \A n \in Node : Len(history[n]) <= MESSAGE_HISTORY_SIZE
    /\ seen \in [Node -> SUBSET (1..events)]
    /\ channel \in [Links -> Seq(Message)]

(* No node handles a broadcast twice or handles its own, and flooding      *)
(* ends: of whatever is still on its way to a node that has had it, the    *)
(* history still holds the guid, though it forgets guids all the time, and *)
(* forgets them the sooner the more direct messages the node writes.       *)
Remembered ==
    \A l \in Links : \A i \in DOMAIN channel[l] :
        channel[l][i].guid \in seen[l[2]]
            => message_history_has(history[l[2]], channel[l][i].guid)

(* Every broadcast reaches every node, over nodes that hear of it from     *)
(* several sides and write messages of their own in between: once the      *)
(* calls have ended, all nodes have seen the same.                         *)
Delivered == <>[](\A m, n \in Node : seen[m] = seen[n])
=============================================================================
