------------------------------- MODULE Peers -------------------------------
(***************************************************************************)
(* The connections between nodes: how they come up, the handshake, the     *)
(* exchange of peer lists and how they go down (network.c and the handlers *)
(* on_connect, on_handshake, on_peers_request, on_peers_response of        *)
(* main.c).                                                                *)
(*                                                                         *)
(* A connection has two ends, the client's and the server's.  An end that  *)
(* is up is a peer_t in the peers list of the node that owns it.  Before   *)
(* the handshake the port of a peer is an ephemeral one, or one in the     *)
(* wrong byte order; nobody listens there, so such a port equals none that *)
(* is asked for, and an attempt to connect to it fails without effect.     *)
(* Peer lists are therefore sets of nodes, and shook says that the port of *)
(* a peer is the one on which the remote node listens.                     *)
(*                                                                         *)
(* uv_close stops the reads of an end at once; the end stays in the list   *)
(* until on_socket_closed.  A read that brought several messages hands all *)
(* of them to the handlers, also after one of them has called uv_close:    *)
(* what is left in the inbox of a closing end is the rest of such a read,  *)
(* and its node does nothing else before that is handled.                  *)
(***************************************************************************)
EXTENDS Naturals, FiniteSets, Sequences, SequencesExt

CONSTANTS Node,         \* nodes; a node is the address and port it listens on
          Listening,    \* the nodes that accept connections
          Seeds,        \* sequences of connections [client, server] tried at the start
          Versions,     \* functions that give every node its VERSION_STRING
          MaxConns      \* bound: connections ever made

(* No node is told at the start to connect to itself.                      *)
ASSUME PeersAssumption ==
    /\ Listening \subseteq Node
    /\ IsFiniteSet(Listening)
    /\ MaxConns \in Nat
    /\ \A s \in Seeds : /\ s \in Seq([client : Node, server : Listening])
                        /\ Len(s) <= MaxConns
                        /\ \A i \in DOMAIN s : s[i].client # s[i].server

VARIABLES conns,     \* the connections, in the order of network_connect
          status,    \* status of every end
          shook,     \* the ends whose port was set by a handshake
          inbox,     \* messages that were written to an end and not yet read
          version    \* VERSION_STRING of every node

vars == <<conns, status, shook, inbox, version>>

End == (1..MaxConns) \X {"client", "server"}

Other(e) == <<e[1], IF e[2] = "client" THEN "server" ELSE "client">>

(* The ends of connections that were tried, and the nodes on either side.  *)
Live      == {e \in End : e[1] \in DOMAIN conns}
Owner(e)  == conns[e[1]][e[2]]
Remote(e) == Owner(Other(e))

(* list_t *peers of node n.                                                *)
PeersOf(n) == {e \in Live : Owner(e) = n /\ status[e] \in {"open", "closing"}}

Handshake(v)     == [type |-> "handshake", version |-> v]
PeersRequest     == [type |-> "peers_request"]
PeersResponse(S) == [type |-> "peers_response", nodes |-> S]

Init ==
    /\ conns \in Seeds
    /\ status = [e \in End |-> "new"]
    /\ shook = {}
    /\ inbox = [e \in End |-> << >>]
    /\ version \in Versions

-----------------------------------------------------------------------------
(* A definition whose name ends in _<Word> is a wrong variant of the one   *)
(* that follows it, kept to show that the properties can tell them apart.  *)

(* n has a peer with the address and the port of m.                        *)
network_has_peer(n, m) == \E e \in PeersOf(n) : Remote(e) = m /\ e \in shook

(* What the end e sends is lost unless both ends are there to take it.     *)
Send(box, e, msgs) ==
    IF status[e] \in {"new", "open"} /\ status[Other(e)] \in {"new", "open"}
    THEN [box EXCEPT ![Other(e)] = @ \o msgs]
    ELSE box

(* A node runs the handlers of a read to the end before it does anything   *)
(* else.                                                                   *)
Idle(n) == \A e \in PeersOf(n) : status[e] = "closing" => inbox[e] = << >>

(* on_incoming_connection and on_outgoing_connection: the end is up, and   *)
(* on_connect sends a handshake and asks for the peers of the other side.  *)
Connected(e) ==
    /\ e \in Live
    /\ status[e] = "new"
    /\ Idle(Owner(e))
    /\ status' = [status EXCEPT ![e] = "open"]
    /\ inbox' = Send(inbox, e, <<Handshake(version[Owner(e)]), PeersRequest>>)
    /\ UNCHANGED <<conns, shook, version>>

(* The next message of end e is in the hands of handle_message.            *)
Reading(e, type) ==
    /\ e \in Live
    /\ \/ status[e] = "open" /\ Idle(Owner(e))
       \/ status[e] = "closing"
    /\ inbox[e] # << >>
    /\ Head(inbox[e]).type = type

Read(e) == [inbox EXCEPT ![e] = Tail(@)]

(* network_disconnect while a message of e is handled: of the messages     *)
(* that wait, those remain that came with the same read.                   *)
Disconnect(e) ==
    /\ status' = [status EXCEPT ![e] = "closing"]
    /\ \E k \in 0..Len(Tail(inbox[e])) :
          inbox' = [inbox EXCEPT ![e] = SubSeq(@, 2, k + 1)]

HandshakeRefused_PortFirst(e) ==
    \E d \in PeersOf(Owner(e)) : Remote(d) = Remote(e) /\ d \in shook \cup {e}

HandshakeRefused_Forgetful(e) ==
    \E d \in PeersOf(Owner(e)) : Remote(d) = Remote(e) /\ d \in shook /\ d[2] = e[2]

HandshakeRefused(e) == network_has_peer(Owner(e), Remote(e))

on_handshake_AnyVersion(e) ==
    /\ Reading(e, "handshake")
    /\ IF HandshakeRefused(e)
       THEN Disconnect(e) /\ UNCHANGED shook
       ELSE shook' = shook \cup {e} /\ inbox' = Read(e) /\ UNCHANGED status
    /\ UNCHANGED <<conns, version>>

(* A second connection to a node is closed.  One to a node of another      *)
(* version is closed, too, and its port is set all the same.               *)
on_handshake(e) ==
    /\ Reading(e, "handshake")
    /\ IF HandshakeRefused(e)
       THEN Disconnect(e) /\ UNCHANGED shook
       ELSE /\ shook' = shook \cup {e}
            /\ IF Head(inbox[e]).version = version[Owner(e)]
               THEN inbox' = Read(e) /\ UNCHANGED status
               ELSE Disconnect(e)
    /\ UNCHANGED <<conns, version>>

PeersFor_All(e) == {Remote(d) : d \in PeersOf(Owner(e)) \cap shook}

(* The peers of the node but the one that asks, whose port must be known   *)
(* for that.                                                               *)
PeersFor(e) ==
    {Remote(d) : d \in {p \in PeersOf(Owner(e)) \cap shook :
                          ~ (Remote(p) = Remote(e) /\ e \in shook)}}

on_peers_request(e) ==
    /\ Reading(e, "peers_request")
    /\ inbox' = Send(Read(e), e, <<PeersResponse(PeersFor(e))>>)
    /\ UNCHANGED <<conns, status, shook, version>>

(* n tries the nodes of S; an attempt where nobody listens has no effect.  *)
network_connect(n, S) == SetToSeq({[client |-> n, server |-> m] : m \in S \cap Listening})

(* The node connects to the nodes of the list that it does not know.       *)
on_peers_response(e) ==
    /\ Reading(e, "peers_response")
    /\ LET n     == Owner(e)
           new   == {m \in Head(inbox[e]).nodes : ~ network_has_peer(n, m)}
           tries == network_connect(n, new)
       IN  /\ Len(conns) + Len(tries) <= MaxConns
           /\ conns' = conns \o tries
    /\ inbox' = Read(e)
    /\ UNCHANGED <<status, shook, version>>

on_read_error_Ignored(e) ==
    /\ e \in Live
    /\ status[e] = "open" /\ Idle(Owner(e))
    /\ status[Other(e)] \in {"closing", "closed"}
    /\ inbox' = [inbox EXCEPT ![e] = << >>]
    /\ UNCHANGED <<conns, status, shook, version>>

(* The read of e fails because the other end was closed; what that end     *)
(* sent last may be lost.                                                  *)
on_read_error(e) ==
    /\ e \in Live
    /\ status[e] = "open" /\ Idle(Owner(e))
    /\ status[Other(e)] \in {"closing", "closed"}
    /\ status' = [status EXCEPT ![e] = "closing"]
    /\ inbox' = [inbox EXCEPT ![e] = << >>]
    /\ UNCHANGED <<conns, shook, version>>

on_socket_closed_Listed(e) ==
    /\ status[e] = "closing" /\ inbox[e] = << >>
    /\ Idle(Owner(e))
    /\ status' = [status EXCEPT ![e] = "closed"]
    /\ UNCHANGED <<conns, shook, inbox, version>>

(* The peer leaves the list and is freed.                                  *)
on_socket_closed(e) ==
    /\ status[e] = "closing" /\ inbox[e] = << >>
    /\ Idle(Owner(e))
    /\ status' = [status EXCEPT ![e] = "closed"]
    /\ shook' = shook \ {e}
    /\ UNCHANGED <<conns, inbox, version>>

Next == \E e \in End :
           \/ Connected(e)
           \/ on_handshake(e)
           \/ on_peers_request(e)
           \/ on_peers_response(e)
           \/ on_read_error(e)
           \/ on_socket_closed(e)

Spec == Init /\ [][Next]_vars

(* The loop accepts, reads and closes as long as there is something to do. *)
FairSpec == Spec /\ WF_vars(Next)

-----------------------------------------------------------------------------
Message ==
    [type : {"handshake"}, version : {version[n] : n \in Node}]
      \cup {PeersRequest}
      \cup [type : {"peers_response"}, nodes : SUBSET Node]

(* Ends are new until their connection is tried, and a peer that left the  *)
(* list has no port and no messages.                                       *)
TypeOK ==
    /\ conns \in Seq([client : Node, server : Listening])
    /\ Len(conns) <= MaxConns
    /\ status \in [End -> {"new", "open", "closing", "closed"}]
    /\ shook \subseteq {e \in Live : status[e] \in {"open", "closing"}}
    /\ inbox \in [End -> Seq(Message)]
    /\ version \in Versions
    /\ \A e \in End \ Live : status[e] = "new" /\ inbox[e] = << >>

(* However the connections come about, a node keeps at most one peer under *)
(* an address and port: those that come later, while the first is in the   *)
(* list, are closed by the handshake.                                      *)
SoleConnection ==
    \A n \in Node : \A e, d \in PeersOf(n) \cap shook :
        Remote(e) = Remote(d) => e = d

(* No node is told its own address: the request of a peer is answered      *)
(* after its handshake, when its port is known, or not at all.             *)
NoSelfConnection == \A i \in DOMAIN conns : conns[i].client # conns[i].server

SameVersion(e) == version[Owner(e)] = version[Remote(e)]

EndNodes(i) == {conns[i].client, conns[i].server}

(* A connection closes only for a second one between    *)
(* the same nodes, never because of one that a third node is involved in   *)
(* and never because of itself.                                            *)
OnlyDuplicatesClose ==
    \A e \in Live :
        status[e] \in {"closing", "closed"} /\ SameVersion(e)
          => \E i \in DOMAIN conns \ {e[1]} : EndNodes(i) = EndNodes(e[1])

Quiet ==
    \A e \in Live : /\ status[e] \in {"open", "closed"}
                    /\ inbox[e] = << >>
                    /\ status[e] = "open" => status[Other(e)] = "open"

(* When the exchange has come to rest, every connection that is left has   *)
(* been through the handshake at both ends, between nodes of one version;  *)
(* nothing is left half open although the two ends decide by themselves.   *)
SettledIsUsable ==
    Quiet => \A e \in Live : status[e] = "open" => e \in shook /\ SameVersion(e)

Linked(n, m) == \E e \in PeersOf(n) : Remote(e) = m

(* Two nodes that connect to each other at the same time may close both    *)
(* connections, each end another one.  Where all nodes have joined through *)
(* nodes that were there before, this leaves the network in one piece: the *)
(* peers that told the two of each other still link them.                  *)
Joined ==
    Quiet /\ (\A e \in Live : SameVersion(e)) =>
        \A S \in SUBSET Node \ {{}, Node} : \E n \in S, m \in Node \ S : Linked(n, m)

(* Connecting, exchanging lists, and closing duplicates comes to an end.   *)
Settles == <>[]Quiet
=============================================================================
