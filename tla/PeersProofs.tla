---------------------------- MODULE PeersProofs ----------------------------
(***************************************************************************)
(* Proofs about Peers, for every set of nodes, of nodes that listen, of    *)
(* connections to start with and of versions.                              *)
(*                                                                         *)
(* The properties depend on each other and on the order of the messages.   *)
(* A node is never told its own address because its request is answered    *)
(* after its handshake, and that comes first and once (Mail); a connection *)
(* is not closed because of itself for the same reason, and not because of *)
(* its other end because no node connects to itself.  The inductive        *)
(* invariant is therefore all of them together.  That an end which has not *)
(* shaken hands has a handshake waiting, or coming, also means that no     *)
(* connection is left half open when everything is quiet.                  *)
(***************************************************************************)
EXTENDS Peers, Integers, FiniteSetTheorems, SequenceTheorems, TLAPS

Connection == [client : Node, server : Listening]
Status     == {"new", "open", "closing", "closed"}

(* What may wait in the inbox box of the end e, which own owns: st is the  *)
(* status of the other end and v its version.  The handshake comes first   *)
(* and only once, and no list names own.                                   *)
MailOK(box, e, sh, here, there, own, v) ==
    /\ \A i \in DOMAIN box :
          /\ box[i].type = "handshake" => i = 1 /\ e \notin sh /\ box[i].version = v
          /\ box[i].type = "peers_response" => own \notin box[i].nodes
    /\ there = "new" => box = << >> /\ e \notin sh
    /\ there # "new" /\ here \in {"new", "open"} /\ e \notin sh
          => box # << >> /\ box[1].type = "handshake"

Mail(e) == MailOK(inbox[e], e, shook, status[e], status[Other(e)], Owner(e), version[Remote(e)])

(* SoleConnection, for ends whose port is known.                           *)
Sole == \A e, d \in shook : Owner(e) = Owner(d) /\ Remote(e) = Remote(d) => e = d

HasDouble(e) == \E i \in DOMAIN conns \ {e[1]} : EndNodes(i) = EndNodes(e[1])

ClosedForDouble(e) ==
    status[e] \in {"closing", "closed"} /\ SameVersion(e) => HasDouble(e)

(* An end that shook and is not closed for its version has the right one.  *)
OneVersion == \A e \in shook : status[e] = "open" => SameVersion(e)

IInv ==
    /\ TypeOK
    /\ NoSelfConnection
    /\ Sole
    /\ OneVersion
    /\ \A e \in Live : Mail(e) /\ ClosedForDouble(e)
-----------------------------------------------------------------------------
LEMMA Ends ==
    ASSUME NEW e \in End
    PROVE  /\ Other(e) \in End /\ Other(Other(e)) = e /\ Other(e) # e /\ Other(e)[1] = e[1]
           /\ e[1] \in 1..MaxConns
           /\ \A d \in End : d[1] = e[1] => d = e \/ d = Other(e)
  BY DEF Other, End

LEMMA LiveEnds ==
    ASSUME TypeOK, NEW e \in Live
    PROVE  /\ e \in End /\ Other(e) \in Live /\ Other(Other(e)) = e /\ Other(e) # e
           /\ Other(e)[1] = e[1] /\ e[1] \in DOMAIN conns
           /\ Owner(e) \in Node /\ Remote(e) \in Node
           /\ Owner(Other(e)) = Remote(e) /\ Remote(Other(e)) = Owner(e)
           /\ EndNodes(e[1]) = {Owner(e), Remote(e)}
<1>1. e \in End /\ e[1] \in DOMAIN conns
  BY DEF Live
<1>2. Other(e) \in End /\ Other(e)[1] = e[1] /\ Other(Other(e)) = e /\ Other(e) # e
  BY <1>1, Ends
<1>3. Other(e) \in Live
  BY <1>1, <1>2 DEF Live
<1>4. Owner(Other(e)) = Remote(e) /\ Remote(Other(e)) = Owner(e)
  BY <1>2 DEF Remote
<1>5. conns[e[1]] \in Connection
  <2>1. conns \in Seq(Connection)
    BY DEF TypeOK, Connection
  <2> QED
    BY <1>1, <2>1
<1>6. /\ conns[e[1]].client \in Node /\ conns[e[1]].server \in Node
  BY <1>5, PeersAssumption DEF Connection
<1>7. \/ Owner(e) = conns[e[1]].client /\ Remote(e) = conns[e[1]].server
      \/ Owner(e) = conns[e[1]].server /\ Remote(e) = conns[e[1]].client
  <2>1. CASE e[2] = "client"
    <3>1. Other(e) = <<e[1], "server">>
      BY <2>1 DEF Other
    <3> QED
      BY <2>1, <3>1 DEF Owner, Remote
  <2>2. CASE e[2] # "client"
    <3>1. e[2] = "server" /\ Other(e) = <<e[1], "client">>
      BY <1>1, <2>2 DEF Other, End
    <3> QED
      BY <3>1 DEF Owner, Remote
  <2> QED
    BY <2>1, <2>2
<1>8. EndNodes(e[1]) = {Owner(e), Remote(e)}
  BY <1>7 DEF EndNodes
<1> QED
  BY <1>1, <1>2, <1>3, <1>4, <1>6, <1>7, <1>8

(* No node is connected to itself.                                         *)
LEMMA NotItself ==
    ASSUME TypeOK, NoSelfConnection, NEW e \in Live
    PROVE  Owner(e) # Remote(e)
<1>1. EndNodes(e[1]) = {Owner(e), Remote(e)} /\ e[1] \in DOMAIN conns
  BY LiveEnds
<1> QED
  BY <1>1 DEF EndNodes, NoSelfConnection

LEMMA SoleIsSole == TypeOK => (SoleConnection <=> Sole)
<1> SUFFICES ASSUME TypeOK PROVE SoleConnection <=> Sole
  OBVIOUS
<1>1. \A e \in shook : e \in PeersOf(Owner(e)) /\ Owner(e) \in Node
  BY LiveEnds DEF TypeOK, PeersOf
<1>2. ASSUME SoleConnection PROVE Sole
  BY <1>1, <1>2 DEF SoleConnection, Sole
<1>3. ASSUME Sole PROVE SoleConnection
  BY <1>3 DEF SoleConnection, Sole, PeersOf
<1> QED
  BY <1>2, <1>3

(* Where HandshakeRefused comes from: another connection of the same two   *)
(* nodes, neither e nor its other end.                                     *)
LEMMA RefusedForDouble ==
    ASSUME IInv, NEW e \in Live, e \notin shook, HandshakeRefused(e)
    PROVE  HasDouble(e)
<1>1. PICK d \in PeersOf(Owner(e)) : Remote(d) = Remote(e) /\ d \in shook
  BY DEF HandshakeRefused, network_has_peer
<1>2. d \in Live /\ Owner(d) = Owner(e)
  BY <1>1 DEF PeersOf
<1>3. d[1] \in DOMAIN conns /\ EndNodes(d[1]) = {Owner(d), Remote(d)}
  BY <1>2, LiveEnds DEF IInv
<1>4. EndNodes(e[1]) = {Owner(e), Remote(e)} /\ e \in End /\ d \in End
  BY <1>2, LiveEnds DEF IInv
<1>5. d[1] # e[1]
  <2> SUFFICES ASSUME d[1] = e[1] PROVE FALSE
    OBVIOUS
  <2>1. d = e \/ d = Other(e)
    BY <1>4, Ends
  <2>2. d = Other(e)
    BY <1>1, <2>1
  <2>3. Owner(d) = Remote(e)
    BY <2>2, LiveEnds DEF IInv
  <2> QED
    BY <1>2, <2>3, NotItself DEF IInv
<1> QED
  BY <1>1, <1>2, <1>3, <1>4, <1>5 DEF HasDouble

-----------------------------------------------------------------------------
(* A step of the end e: it may change its status to here, whether its port *)
(* is known, and what waits at both ends of the connection.                *)
LEMMA EndStep ==
    ASSUME IInv, NEW e \in Live, NEW here \in Status,
           UNCHANGED <<conns, version>>,
           status' = [status EXCEPT ![e] = here],
           inbox' \in [End -> Seq(Message)],
           \A d \in End : d # e /\ d # Other(e) => inbox'[d] = inbox[d],
           shook' \subseteq shook \cup {e}, shook \subseteq shook' \cup {e},
           e \in shook' => here \in {"open", "closing"},
           e \in shook' \ shook => ~ HandshakeRefused(e),
           here \in {"closing", "closed"} /\ SameVersion(e) => HasDouble(e),
           e \in shook' /\ here = "open" => SameVersion(e),
           MailOK(inbox'[e], e, shook', here, status[Other(e)], Owner(e), version[Remote(e)]),
           MailOK(inbox'[Other(e)], Other(e), shook, status[Other(e)], here,
                  Remote(e), version[Owner(e)])
    PROVE  IInv'
<1>1. /\ Live' = Live
      /\ \A d \in Live : /\ Owner(d)' = Owner(d) /\ Remote(d)' = Remote(d)
                         /\ Other(d)' = Other(d)
                         /\ SameVersion(d)' = SameVersion(d) /\ HasDouble(d)' = HasDouble(d)
  BY DEF Live, Owner, Remote, Other, SameVersion, HasDouble, EndNodes
<1>2. /\ e \in End /\ Other(e) \in Live /\ Other(e) # e /\ Other(Other(e)) = e
      /\ Owner(Other(e)) = Remote(e) /\ Remote(Other(e)) = Owner(e)
  BY LiveEnds DEF IInv
<1>3. /\ status \in [End -> Status] /\ status'[e] = here
      /\ \A d \in End : d # e => status'[d] = status[d]
  BY <1>2 DEF IInv, TypeOK, Status
<1>4. TypeOK'
  <2>1. status' \in [End -> Status]
    BY <1>3
  <2>2. shook' \subseteq {d \in Live : status'[d] \in {"open", "closing"}}
    BY <1>2, <1>3 DEF IInv, TypeOK, Live
  <2>3. \A d \in End \ Live : status'[d] = "new" /\ inbox'[d] = << >>
    BY <1>2, <1>3 DEF IInv, TypeOK
  <2>4. Message' = Message
    BY DEF Message, PeersRequest
  <2> QED
    BY <1>1, <2>1, <2>2, <2>3, <2>4 DEF IInv, TypeOK, Status
<1>5. NoSelfConnection'
  BY DEF IInv, NoSelfConnection
<1>6. Sole'
  <2> SUFFICES ASSUME NEW c \in shook', NEW d \in shook',
                      Owner(c) = Owner(d), Remote(c) = Remote(d), c # d
               PROVE  FALSE
    <3>1. shook' \subseteq Live
      BY DEF IInv, TypeOK
    <3> QED
      BY <1>1, <3>1 DEF Sole
  <2>1. c = e \/ d = e
    BY DEF IInv, Sole
  <2>2. PICK f \in shook : f # e /\ Owner(f) = Owner(e) /\ Remote(f) = Remote(e)
    BY <2>1
  <2>3. e \notin shook /\ e \in shook'
    BY <2>1, <2>2 DEF IInv, Sole
  <2>4. HandshakeRefused(e)
    BY <2>2 DEF IInv, TypeOK, HandshakeRefused, network_has_peer, PeersOf
  <2> QED
    BY <2>3, <2>4
<1>7. ASSUME NEW d \in Live PROVE Mail(d)'
  <2>1. /\ d \in End /\ Other(d) \in End /\ Other(Other(d)) = d /\ Mail(d)
        /\ Other(d) = e => d = Other(e)
    BY LiveEnds DEF IInv, Live
  <2>2. /\ Mail(d)' = MailOK(inbox'[d], d, shook', status'[d], status'[Other(d)],
                             Owner(d), version[Remote(d)])
    BY <1>1 DEF Mail, MailOK
  <2>3. CASE d = e
    BY <1>2, <1>3, <2>1, <2>2, <2>3
  <2>4. CASE d = Other(e)
    <3>1. MailOK(inbox'[d], d, shook', status'[d], status'[Other(d)],
                 Owner(d), version[Remote(d)])
      BY <1>2, <1>3, <2>1, <2>4 DEF MailOK
    <3> QED
      BY <2>2, <3>1
  <2>5. CASE d # e /\ d # Other(e)
    <3>1. inbox'[d] = inbox[d] /\ status'[d] = status[d] /\ status'[Other(d)] = status[Other(d)]
      BY <1>3, <2>1, <2>5
    <3> QED
      BY <2>1, <2>2, <2>5, <3>1 DEF Mail, MailOK
  <2> QED
    BY <2>3, <2>4, <2>5
<1>8. ASSUME NEW d \in Live PROVE ClosedForDouble(d)'
  <2>1. ClosedForDouble(d) /\ d \in End
    BY LiveEnds DEF IInv
  <2>2. CASE d = e
    BY <1>1, <1>3, <2>2 DEF ClosedForDouble
  <2>3. CASE d # e
    BY <1>1, <1>3, <2>1, <2>3 DEF ClosedForDouble
  <2> QED
    BY <2>2, <2>3
<1>9. OneVersion'
  <2> SUFFICES ASSUME NEW d \in shook', status'[d] = "open" PROVE SameVersion(d)'
    BY DEF OneVersion
  <2>1. shook \subseteq Live /\ d \in Live /\ d \in End
    BY DEF IInv, TypeOK, Live
  <2>2. CASE d = e
    BY <1>1, <1>3, <2>1, <2>2
  <2>3. CASE d # e
    BY <1>1, <1>3, <2>1, <2>3 DEF IInv, OneVersion
  <2> QED
    BY <2>2, <2>3
<1> QED
  BY <1>1, <1>4, <1>5, <1>6, <1>7, <1>8, <1>9 DEF IInv
-----------------------------------------------------------------------------
(* What the two ends of a connection have of each other.                   *)
LEMMA BothMail ==
    ASSUME IInv, NEW e \in Live
    PROVE  /\ e \in End /\ Other(e) \in End /\ Other(e) # e
           /\ inbox[e] \in Seq(Message) /\ inbox[Other(e)] \in Seq(Message)
           /\ inbox \in [End -> Seq(Message)] /\ status[Other(e)] \in Status
           /\ MailOK(inbox[e], e, shook, status[e], status[Other(e)],
                     Owner(e), version[Remote(e)])
           /\ MailOK(inbox[Other(e)], Other(e), shook, status[Other(e)], status[e],
                     Remote(e), version[Owner(e)])
<1>1. /\ e \in End /\ Other(e) \in Live /\ Other(e) \in End /\ Other(e) # e
      /\ Other(Other(e)) = e
      /\ Owner(Other(e)) = Remote(e) /\ Remote(Other(e)) = Owner(e)
  BY LiveEnds DEF IInv, Live
<1>2. Mail(e) /\ Mail(Other(e))
  BY <1>1 DEF IInv
<1>3. MailOK(inbox[Other(e)], Other(e), shook, status[Other(e)], status[e],
             Remote(e), version[Owner(e)])
  BY <1>1, <1>2 DEF Mail
<1>4. MailOK(inbox[e], e, shook, status[e], status[Other(e)], Owner(e), version[Remote(e)])
  BY <1>2 DEF Mail
<1> QED
  BY <1>1, <1>3, <1>4 DEF IInv, TypeOK, Status

(* The other end changes its status, but not to a new one.                 *)
LEMMA MailThere ==
    ASSUME NEW box, NEW e, NEW sh, NEW here, NEW there, there # "new",
           NEW there2, there2 # "new", NEW own, NEW v,
           MailOK(box, e, sh, here, there, own, v)
    PROVE  MailOK(box, e, sh, here, there2, own, v)
  BY DEF MailOK

(* Messages are put behind others.                                         *)
LEMMA MailAppended ==
    ASSUME NEW box \in Seq(Message), NEW e, NEW sh, NEW here, NEW there, NEW own, NEW v,
           MailOK(box, e, sh, here, there, own, v), there # "new",
           NEW msg \in Message, msg.type = "peers_response", own \notin msg.nodes
    PROVE  /\ box \o <<msg>> \in Seq(Message)
           /\ MailOK(box \o <<msg>>, e, sh, here, there, own, v)
<1>1. /\ box \o <<msg>> \in Seq(Message) /\ box \o <<msg>> # << >>
      /\ Len(box) \in Nat /\ DOMAIN (box \o <<msg>>) = 1..(Len(box) + 1)
      /\ \A i \in 1..Len(box) : (box \o <<msg>>)[i] = box[i]
      /\ (box \o <<msg>>)[Len(box) + 1] = msg
  OBVIOUS
<1> DEFINE b == box \o <<msg>>
<1> HIDE DEF b
<1>2. \A i \in DOMAIN b : (i \in DOMAIN box /\ b[i] = box[i]) \/ b[i] = msg
  BY <1>1 DEF b
<1>3. box # << >> => b[1] = box[1]
  BY <1>1 DEF b
<1>4. MailOK(b, e, sh, here, there, own, v)
  BY <1>1, <1>2, <1>3 DEF MailOK, b
<1> QED
  BY <1>1, <1>4 DEF b

(* The first message is taken, and of the others k are left: a handshake   *)
(* is the first, so there is none among them.                              *)
LEMMA MailRead ==
    ASSUME NEW box \in Seq(Message), box # << >>, NEW k \in 0..(Len(box) - 1),
           NEW e, NEW sh, NEW here, NEW there, NEW own, NEW v,
           MailOK(box, e, sh, here, there, own, v),
           NEW here2, NEW sh2, here2 \in {"new", "open"} => e \in sh2
    PROVE  /\ SubSeq(box, 2, k + 1) \in Seq(Message)
           /\ MailOK(SubSeq(box, 2, k + 1), e, sh2, here2, there, own, v)
<1> DEFINE b == SubSeq(box, 2, k + 1)
<1>1. k \in Nat /\ Len(box) \in Nat /\ k + 1 <= Len(box) /\ DOMAIN box = 1..Len(box)
  OBVIOUS
<1>2. /\ b \in Seq(Message) /\ Len(b) = k /\ DOMAIN b = 1..k
      /\ \A i \in 1..k : b[i] = box[i + 1]
  <2>1. \A i \in 2..(k + 1) : box[i] \in Message
    BY <1>1
  <2>2. /\ b \in Seq(Message) /\ Len(b) = IF 2 <= k + 1 THEN (k + 1) - 2 + 1 ELSE 0
        /\ \A i \in 1..((k + 1) - 2 + 1) : b[i] = box[2 + i - 1]
    BY <1>1, <2>1, SubSeqProperties
  <2> HIDE DEF b
  <2>3. (k + 1) - 2 + 1 = k /\ \A i \in 1..k : 2 + i - 1 = i + 1
    BY <1>1
  <2>4. Len(b) = k
    BY <1>1, <2>2, <2>3
  <2> QED
    BY <2>2, <2>3, <2>4
<1> HIDE DEF b
<1>3. \A i \in DOMAIN b : i + 1 \in DOMAIN box /\ i + 1 # 1 /\ b[i] = box[i + 1]
  BY <1>1, <1>2
<1>4. there # "new"
  BY DEF MailOK
<1>5. MailOK(b, e, sh2, here2, there, own, v)
  BY <1>3, <1>4 DEF MailOK
<1> QED
  BY <1>2, <1>5 DEF b
-----------------------------------------------------------------------------
LEMMA Connects ==
    ASSUME IInv, NEW e \in End, Connected(e)
    PROVE  IInv'
<1>1. e \in Live /\ status[e] = "new" /\ UNCHANGED <<conns, shook, version>>
      /\ status' = [status EXCEPT ![e] = "open"] /\ e \notin shook
  BY DEF Connected, IInv, TypeOK
<1>2. /\ Other(e) \in End /\ Other(e) # e /\ inbox \in [End -> Seq(Message)]
      /\ status[Other(e)] \in Status
      /\ MailOK(inbox[e], e, shook, status[e], status[Other(e)], Owner(e), version[Remote(e)])
      /\ MailOK(inbox[Other(e)], Other(e), shook, status[Other(e)], status[e],
                Remote(e), version[Owner(e)])
  BY <1>1, BothMail
<1>3. inbox[Other(e)] = << >> /\ Other(e) \notin shook
  BY <1>1, <1>2 DEF MailOK
<1>4. Handshake(version[Owner(e)]) \in Message /\ PeersRequest \in Message
  <2>1. Owner(e) \in Node
    BY <1>1, LiveEnds DEF IInv
  <2> QED
    BY <2>1 DEF Message, Handshake
<1> DEFINE two == <<Handshake(version[Owner(e)]), PeersRequest>>
<1>5. /\ two \in Seq(Message) /\ two # << >> /\ DOMAIN two = {1, 2}
      /\ two[1].type = "handshake" /\ two[1].version = version[Owner(e)]
      /\ two[2].type = "peers_request" /\ << >> \o two = two
  BY <1>4 DEF Handshake, PeersRequest
<1>6. inbox' = IF status[Other(e)] \in {"new", "open"}
               THEN [inbox EXCEPT ![Other(e)] = inbox[Other(e)] \o two] ELSE inbox
  BY <1>1 DEF Connected, Send
<1> HIDE DEF two
<1>7. /\ inbox' \in [End -> Seq(Message)]
      /\ \A d \in End : d # Other(e) => inbox'[d] = inbox[d]
      /\ inbox'[Other(e)] = IF status[Other(e)] \in {"new", "open"} THEN two ELSE << >>
  BY <1>2, <1>3, <1>5, <1>6
<1>8. MailOK(inbox'[e], e, shook', "open", status[Other(e)], Owner(e), version[Remote(e)])
  BY <1>1, <1>2, <1>7 DEF MailOK
<1>9. MailOK(inbox'[Other(e)], Other(e), shook, status[Other(e)], "open",
             Remote(e), version[Owner(e)])
  BY <1>3, <1>5, <1>7 DEF MailOK
<1> QED
  BY <1>1, <1>7, <1>8, <1>9, EndStep DEF Status

(* What is known of a message that is in the hands of its handler.         *)
LEMMA InHand ==
    ASSUME IInv, NEW e \in End, NEW type, Reading(e, type)
    PROVE  /\ e \in Live /\ status[e] \in {"open", "closing"} /\ status[Other(e)] # "new"
           /\ inbox[e] \in Seq(Message) /\ inbox[e] # << >>
           /\ 1 \in DOMAIN inbox[e] /\ Head(inbox[e]) = inbox[e][1]
           /\ inbox[e][1] \in Message /\ inbox[e][1].type = type
           /\ Len(Tail(inbox[e])) = Len(inbox[e]) - 1
           /\ Tail(inbox[e]) = SubSeq(inbox[e], 2, (Len(inbox[e]) - 1) + 1)
           /\ Len(inbox[e]) - 1 \in 0..(Len(inbox[e]) - 1)
           /\ status[e] = "open" /\ type # "handshake" => e \in shook
<1>1. e \in Live /\ status[e] \in {"open", "closing"} /\ inbox[e] # << >>
      /\ Head(inbox[e]).type = type
  BY DEF Reading
<1>2. inbox[e] \in Seq(Message)
      /\ MailOK(inbox[e], e, shook, status[e], status[Other(e)], Owner(e), version[Remote(e)])
  BY <1>1, BothMail
<1>3. /\ Len(inbox[e]) \in Nat \ {0} /\ 1 \in DOMAIN inbox[e] /\ Head(inbox[e]) = inbox[e][1]
      /\ inbox[e][1] \in Message /\ Len(Tail(inbox[e])) = Len(inbox[e]) - 1
  BY <1>1, <1>2
<1>4. Tail(inbox[e]) = SubSeq(inbox[e], 2, (Len(inbox[e]) - 1) + 1)
  <2>1. (Len(inbox[e]) - 1) + 1 = Len(inbox[e])
    BY <1>3
  <2> QED
    BY <1>1, <1>2, <2>1, TailIsSubSeq
<1>5. status[Other(e)] # "new" /\ (status[e] = "open" /\ type # "handshake" => e \in shook)
  BY <1>1, <1>2, <1>3 DEF MailOK
<1> QED
  BY <1>1, <1>2, <1>3, <1>4, <1>5
(* A message is taken from the inbox, and of those behind it k are left.   *)
LEMMA ReadStep ==
    ASSUME IInv, NEW e \in Live, status[e] \in {"open", "closing"}, inbox[e] # << >>,
           NEW here \in {"open", "closing"}, NEW k \in 0..(Len(inbox[e]) - 1),
           UNCHANGED <<conns, version>>,
           status' = [status EXCEPT ![e] = here],
           inbox' = [inbox EXCEPT ![e] = SubSeq(inbox[e], 2, k + 1)],
           shook' = shook \/ shook' = shook \cup {e},
           e \in shook' \ shook => ~ HandshakeRefused(e),
           here = "open" => e \in shook' /\ SameVersion(e),
           here = "closing" /\ SameVersion(e) => HasDouble(e)
    PROVE  IInv'
<1>1. /\ e \in End /\ Other(e) \in End /\ Other(e) # e
      /\ inbox[e] \in Seq(Message) /\ inbox \in [End -> Seq(Message)]
      /\ MailOK(inbox[e], e, shook, status[e], status[Other(e)], Owner(e), version[Remote(e)])
      /\ MailOK(inbox[Other(e)], Other(e), shook, status[Other(e)], status[e],
                Remote(e), version[Owner(e)])
  BY BothMail
<1> DEFINE left == SubSeq(inbox[e], 2, k + 1)
<1>2. /\ left \in Seq(Message)
      /\ MailOK(left, e, shook', here, status[Other(e)], Owner(e), version[Remote(e)])
  <2>1. here \in {"new", "open"} => e \in shook'
    OBVIOUS
  <2> QED
    BY <1>1, <2>1, MailRead
<1>3. inbox' = [inbox EXCEPT ![e] = left]
  OBVIOUS
<1> HIDE DEF left
<1>4. /\ inbox' \in [End -> Seq(Message)] /\ inbox'[e] = left
      /\ \A d \in End : d # e => inbox'[d] = inbox[d]
  BY <1>1, <1>2, <1>3
<1>5. MailOK(inbox'[Other(e)], Other(e), shook, status[Other(e)], here,
             Remote(e), version[Owner(e)])
  BY <1>1, <1>4, MailThere
<1>6. here \in Status /\ (e \in shook' => here \in {"open", "closing"})
      /\ (e \in shook' /\ here = "open" => SameVersion(e))
      /\ (here \in {"closing", "closed"} /\ SameVersion(e) => HasDouble(e))
      /\ shook' \subseteq shook \cup {e} /\ shook \subseteq shook' \cup {e}
  BY DEF Status
<1> QED
  BY <1>1, <1>2, <1>4, <1>5, <1>6, EndStep

LEMMA Shakes ==
    ASSUME IInv, NEW e \in End, on_handshake(e)
    PROVE  IInv'
<1>1. Reading(e, "handshake") /\ UNCHANGED <<conns, version>>
  BY DEF on_handshake
<1>2. /\ e \in Live /\ status[e] \in {"open", "closing"}
      /\ inbox[e] # << >> /\ Head(inbox[e]) = inbox[e][1] /\ 1 \in DOMAIN inbox[e]
      /\ inbox[e][1].type = "handshake"
      /\ Len(Tail(inbox[e])) = Len(inbox[e]) - 1
      /\ Tail(inbox[e]) = SubSeq(inbox[e], 2, (Len(inbox[e]) - 1) + 1)
      /\ Len(inbox[e]) - 1 \in 0..(Len(inbox[e]) - 1)
  BY <1>1, InHand
<1>3. e \notin shook /\ inbox[e][1].version = version[Remote(e)]
  BY <1>2, BothMail DEF MailOK
<1>4. status \in [End -> Status]
  BY DEF IInv, TypeOK, Status
<1>5. ASSUME Disconnect(e)
      PROVE  /\ status' = [status EXCEPT ![e] = "closing"]
             /\ \E k \in 0..(Len(inbox[e]) - 1) :
                   inbox' = [inbox EXCEPT ![e] = SubSeq(inbox[e], 2, k + 1)]
  BY <1>2, <1>5 DEF Disconnect
<1>6. CASE HandshakeRefused(e)
  <2>1. Disconnect(e) /\ shook' = shook
    BY <1>6 DEF on_handshake
  <2>2. HasDouble(e)
    BY <1>2, <1>3, <1>6, RefusedForDouble
  <2>3. PICK k \in 0..(Len(inbox[e]) - 1) :
           inbox' = [inbox EXCEPT ![e] = SubSeq(inbox[e], 2, k + 1)]
    BY <1>5, <2>1
  <2>4. status' = [status EXCEPT ![e] = "closing"]
    BY <1>5, <2>1
  <2> QED
    BY <1>1, <1>2, <2>1, <2>2, <2>3, <2>4, ReadStep
<1>7. CASE ~ HandshakeRefused(e) /\ Head(inbox[e]).version = version[Owner(e)]
  <2>1. /\ shook' = shook \cup {e} /\ status' = status
        /\ inbox' = [inbox EXCEPT ![e] = Tail(inbox[e])]
    BY <1>7 DEF on_handshake, Read
  <2>2. inbox' = [inbox EXCEPT ![e] = SubSeq(inbox[e], 2, (Len(inbox[e]) - 1) + 1)]
    BY <1>2, <2>1
  <2>3. CASE status[e] = "open"
    <3>1. status' = [status EXCEPT ![e] = "open"]
      BY <1>4, <2>1, <2>3
    <3>2. SameVersion(e)
      BY <1>2, <1>3, <1>7 DEF SameVersion
    <3> QED
      BY <1>1, <1>2, <1>7, <2>1, <2>2, <3>1, <3>2, ReadStep
  <2>4. CASE status[e] = "closing"
    <3>1. status' = [status EXCEPT ![e] = "closing"]
      BY <1>4, <2>1, <2>4
    <3>2. SameVersion(e) => HasDouble(e)
      BY <1>2, <2>4 DEF IInv, ClosedForDouble
    <3> QED
      BY <1>1, <1>2, <1>7, <2>1, <2>2, <3>1, <3>2, ReadStep
  <2> QED
    BY <1>2, <2>3, <2>4
<1>8. CASE ~ HandshakeRefused(e) /\ Head(inbox[e]).version # version[Owner(e)]
  <2>1. Disconnect(e) /\ shook' = shook \cup {e}
    BY <1>8 DEF on_handshake
  <2>2. ~ SameVersion(e)
    BY <1>2, <1>3, <1>8 DEF SameVersion
  <2>3. PICK k \in 0..(Len(inbox[e]) - 1) :
           inbox' = [inbox EXCEPT ![e] = SubSeq(inbox[e], 2, k + 1)]
    BY <1>5, <2>1
  <2>4. status' = [status EXCEPT ![e] = "closing"]
    BY <1>5, <2>1
  <2> QED
    BY <1>1, <1>2, <1>8, <2>1, <2>2, <2>3, <2>4, ReadStep
<1> QED
  BY <1>6, <1>7, <1>8
LEMMA Answers ==
    ASSUME IInv, NEW e \in End, on_peers_request(e)
    PROVE  IInv'
<1>1. /\ Reading(e, "peers_request") /\ UNCHANGED <<conns, status, shook, version>>
      /\ inbox' = Send(Read(e), e, <<PeersResponse(PeersFor(e))>>)
  BY DEF on_peers_request
<1>2. /\ e \in Live /\ status[e] \in {"open", "closing"} /\ status[Other(e)] # "new"
      /\ inbox[e] # << >> /\ (status[e] = "open" => e \in shook)
      /\ Tail(inbox[e]) = SubSeq(inbox[e], 2, (Len(inbox[e]) - 1) + 1)
      /\ Len(inbox[e]) - 1 \in 0..(Len(inbox[e]) - 1)
  BY <1>1, InHand
<1>3. /\ Other(e) \in End /\ Other(e) # e /\ e \in End
      /\ inbox[e] \in Seq(Message) /\ inbox[Other(e)] \in Seq(Message)
      /\ inbox \in [End -> Seq(Message)] /\ status[Other(e)] \in Status
      /\ MailOK(inbox[e], e, shook, status[e], status[Other(e)], Owner(e), version[Remote(e)])
      /\ MailOK(inbox[Other(e)], Other(e), shook, status[Other(e)], status[e],
                Remote(e), version[Owner(e)])
  BY <1>2, BothMail
<1> DEFINE left   == SubSeq(inbox[e], 2, (Len(inbox[e]) - 1) + 1)
           answer == PeersResponse(PeersFor(e))
<1>4. /\ left \in Seq(Message)
      /\ MailOK(left, e, shook, status[e], status[Other(e)], Owner(e), version[Remote(e)])
  <2>1. status[e] \in {"new", "open"} => e \in shook
    BY <1>2
  <2> QED
    BY <1>2, <1>3, <2>1, MailRead
<1>5. answer \in Message /\ answer.type = "peers_response"
      /\ (e \in shook => Remote(e) \notin answer.nodes)
  <2>1. PeersFor(e) \subseteq Node
    <3>1. \A d \in PeersOf(Owner(e)) : Remote(d) \in Node
      BY LiveEnds DEF IInv, PeersOf
    <3> QED
      BY <3>1 DEF PeersFor
  <2>2. e \in shook => Remote(e) \notin PeersFor(e)
    BY DEF PeersFor
  <2> QED
    BY <2>1, <2>2 DEF Message, PeersResponse
<1>6. inbox' = IF status[e] = "open" /\ status[Other(e)] = "open"
               THEN [Read(e) EXCEPT ![Other(e)] = Read(e)[Other(e)] \o <<answer>>]
               ELSE Read(e)
  BY <1>1, <1>2 DEF Send
<1>7. Read(e) = [inbox EXCEPT ![e] = left]
  BY <1>2 DEF Read
<1> HIDE DEF left, answer
<1>8. /\ Read(e) \in [End -> Seq(Message)] /\ Read(e)[e] = left
      /\ \A d \in End : d # e => Read(e)[d] = inbox[d]
  BY <1>3, <1>4, <1>7
<1>9. status[e] = "open" =>
         /\ inbox[Other(e)] \o <<answer>> \in Seq(Message)
         /\ MailOK(inbox[Other(e)] \o <<answer>>, Other(e), shook, status[Other(e)], status[e],
                   Remote(e), version[Owner(e)])
  BY <1>2, <1>3, <1>5, MailAppended
<1>10. /\ inbox' \in [End -> Seq(Message)] /\ inbox'[e] = left
       /\ \A d \in End : d # e /\ d # Other(e) => inbox'[d] = inbox[d]
       /\ MailOK(inbox'[Other(e)], Other(e), shook, status[Other(e)], status[e],
                 Remote(e), version[Owner(e)])
  <2>1. CASE status[e] = "open" /\ status[Other(e)] = "open"
    <3>1. Read(e)[Other(e)] = inbox[Other(e)]
      BY <1>3, <1>8
    <3>2. inbox' = [Read(e) EXCEPT ![Other(e)] = inbox[Other(e)] \o <<answer>>]
      BY <1>6, <2>1, <3>1
    <3>3. /\ inbox' \in [End -> Seq(Message)] /\ inbox'[e] = Read(e)[e]
          /\ inbox'[Other(e)] = inbox[Other(e)] \o <<answer>>
          /\ \A d \in End : d # Other(e) => inbox'[d] = Read(e)[d]
      BY <1>3, <1>8, <1>9, <2>1, <3>2
    <3> QED
      BY <1>8, <1>9, <2>1, <3>3
  <2>2. CASE ~ (status[e] = "open" /\ status[Other(e)] = "open")
    <3>1. inbox' = Read(e)
      BY <1>6, <2>2
    <3>2. inbox'[Other(e)] = inbox[Other(e)]
      BY <1>3, <1>8, <3>1
    <3> QED
      BY <1>3, <1>8, <3>1, <3>2
  <2> QED
    BY <2>1, <2>2
<1>11. /\ status' = [status EXCEPT ![e] = status[e]] /\ status[e] \in Status
       /\ (status[e] \in {"closing", "closed"} /\ SameVersion(e) => HasDouble(e))
       /\ (e \in shook /\ status[e] = "open" => SameVersion(e))
  BY <1>1, <1>2 DEF IInv, TypeOK, Status, ClosedForDouble, OneVersion
<1>12. /\ e \in shook' => status[e] \in {"open", "closing"}
       /\ shook' = shook
  BY <1>1, <1>2
<1>13. MailOK(inbox'[e], e, shook', status[e], status[Other(e)], Owner(e), version[Remote(e)])
  BY <1>4, <1>10, <1>12
<1> QED
  BY <1>1, <1>2, <1>10, <1>11, <1>12, <1>13, EndStep

LEMMA ReadFails ==
    ASSUME IInv, NEW e \in End, on_read_error(e)
    PROVE  IInv'
<1>1. /\ e \in Live /\ status[e] = "open" /\ status[Other(e)] \in {"closing", "closed"}
      /\ status' = [status EXCEPT ![e] = "closing"]
      /\ inbox' = [inbox EXCEPT ![e] = << >>] /\ UNCHANGED <<conns, shook, version>>
  BY DEF on_read_error
<1>2. /\ Other(e) \in End /\ Other(e) # e /\ inbox \in [End -> Seq(Message)]
      /\ MailOK(inbox[Other(e)], Other(e), shook, status[Other(e)], status[e],
                Remote(e), version[Owner(e)])
  BY <1>1, BothMail
<1>3. /\ inbox' \in [End -> Seq(Message)] /\ inbox'[e] = << >>
      /\ \A d \in End : d # e => inbox'[d] = inbox[d]
  <2>1. << >> \in Seq(Message)
    OBVIOUS
  <2> QED
    BY <1>1, <1>2, <2>1
<1>4. MailOK(inbox'[e], e, shook', "closing", status[Other(e)], Owner(e), version[Remote(e)])
  BY <1>1, <1>3 DEF MailOK
<1>5. MailOK(inbox'[Other(e)], Other(e), shook, status[Other(e)], "closing",
             Remote(e), version[Owner(e)])
  BY <1>1, <1>2, <1>3, MailThere
<1>6. SameVersion(e) => HasDouble(e)
  <2>1. /\ Other(e) \in Live /\ Other(e)[1] = e[1]
        /\ Owner(Other(e)) = Remote(e) /\ Remote(Other(e)) = Owner(e)
    BY <1>1, LiveEnds DEF IInv
  <2>2. ClosedForDouble(Other(e))
    BY <2>1 DEF IInv
  <2> QED
    BY <1>1, <2>1, <2>2 DEF ClosedForDouble, SameVersion, HasDouble
<1> QED
  BY <1>1, <1>3, <1>4, <1>5, <1>6, EndStep DEF Status

LEMMA Closes ==
    ASSUME IInv, NEW e \in End, on_socket_closed(e)
    PROVE  IInv'
<1>1. /\ status[e] = "closing" /\ inbox[e] = << >> /\ shook' = shook \ {e}
      /\ status' = [status EXCEPT ![e] = "closed"] /\ UNCHANGED <<conns, inbox, version>>
  BY DEF on_socket_closed
<1>2. e \in Live
  BY <1>1 DEF IInv, TypeOK
<1>3. /\ inbox \in [End -> Seq(Message)]
      /\ MailOK(inbox[Other(e)], Other(e), shook, status[Other(e)], status[e],
                Remote(e), version[Owner(e)])
  BY <1>2, BothMail
<1>4. MailOK(inbox'[e], e, shook', "closed", status[Other(e)], Owner(e), version[Remote(e)])
  BY <1>1 DEF MailOK
<1>5. MailOK(inbox'[Other(e)], Other(e), shook, status[Other(e)], "closed",
             Remote(e), version[Owner(e)])
  BY <1>1, <1>3, MailThere
<1>6. SameVersion(e) => HasDouble(e)
  BY <1>1, <1>2 DEF IInv, ClosedForDouble
<1> QED
  BY <1>1, <1>2, <1>3, <1>4, <1>5, <1>6, EndStep DEF Status
-----------------------------------------------------------------------------
(* The elements of a finite set, in some order.                            *)
LEMMA SeqOfSet ==
    ASSUME NEW S, IsFiniteSet(S)
    PROVE  SetToSeq(S) \in Seq(S)
<1> DEFINE n == Cardinality(S)
<1>1. n \in Nat
  BY FS_CardinalityType
<1> HIDE DEF n
<1>2. IsFiniteSet(1..n) /\ Cardinality(1..n) = n
  BY <1>1, FS_Interval
<1>3. ExistsBijection(1..n, S)
  BY <1>2, FS_SameCardinalityBij DEF n
<1>4. \E f \in [1..n -> S] : IsInjective(f)
  BY <1>3 DEF ExistsBijection, Bijection, Injection
<1>5. SetToSeq(S) \in [1..n -> S]
  BY <1>4 DEF SetToSeq, n
<1> QED
  BY <1>1, <1>5

(* The connections that are tried come from the node and go to others.     *)
LEMMA Tries ==
    ASSUME NEW n \in Node, NEW S, n \notin S
    PROVE  /\ network_connect(n, S) \in Seq(Connection)
           /\ \A i \in DOMAIN network_connect(n, S) :
                 network_connect(n, S)[i].client # network_connect(n, S)[i].server
<1> DEFINE U == S \cap Listening
           T == {[client |-> n, server |-> m] : m \in U}
           f == [m \in U |-> [client |-> n, server |-> m]]
<1>1. IsFiniteSet(U)
  BY PeersAssumption, FS_Subset
<1>2. IsFiniteSet(T)
  <2>1. f \in Surjection(U, T)
    BY DEF Surjection
  <2> QED
    BY <1>1, <2>1, FS_Surjection
<1>3. network_connect(n, S) \in Seq(T)
  BY <1>2, SeqOfSet DEF network_connect
<1>4. \A t \in T : t \in Connection /\ t.client # t.server
  BY DEF Connection
<1> HIDE DEF T, U
<1>5. \A i \in DOMAIN network_connect(n, S) : network_connect(n, S)[i] \in T
  BY <1>3
<1>6. Seq(T) \subseteq Seq(Connection)
  BY <1>4
<1> QED
  BY <1>3, <1>4, <1>5, <1>6

(* New connections are put behind the others, whose ends do not change.    *)
LEMMA Longer ==
    ASSUME TypeOK, NEW tries \in Seq(Connection), conns' = conns \o tries
    PROVE  /\ conns' \in Seq(Connection) /\ Len(conns') = Len(conns) + Len(tries)
           /\ DOMAIN conns \subseteq DOMAIN conns'
           /\ \A i \in DOMAIN conns : conns'[i] = conns[i]
           /\ \A i \in DOMAIN conns' \ DOMAIN conns :
                 \E j \in DOMAIN tries : conns'[i] = tries[j]
<1>1. conns \in Seq(Connection)
  BY DEF TypeOK, Connection
<1>2. /\ conns' \in Seq(Connection) /\ Len(conns') = Len(conns) + Len(tries)
      /\ Len(conns) \in Nat /\ Len(tries) \in Nat
      /\ DOMAIN conns = 1..Len(conns) /\ DOMAIN tries = 1..Len(tries)
      /\ DOMAIN conns' = 1..(Len(conns) + Len(tries))
  BY <1>1
<1>3. \A i \in DOMAIN conns : conns'[i] = conns[i]
  BY <1>1, <1>2
<1>4. ASSUME NEW i \in DOMAIN conns' \ DOMAIN conns
      PROVE  \E j \in DOMAIN tries : conns'[i] = tries[j]
  <2>1. i - Len(conns) \in DOMAIN tries
    BY <1>2
  <2>2. conns'[i] = tries[i - Len(conns)]
    BY <1>1, <1>2
  <2> QED
    BY <2>1, <2>2
<1> QED
  BY <1>2, <1>3, <1>4

LEMMA Learns ==
    ASSUME IInv, NEW e \in End, on_peers_response(e)
    PROVE  IInv'
<1> DEFINE nodes == Head(inbox[e]).nodes
           tries == network_connect(Owner(e), {m \in nodes : ~ network_has_peer(Owner(e), m)})
<1>1. /\ Reading(e, "peers_response") /\ UNCHANGED <<status, shook, version>>
      /\ Len(conns) + Len(tries) <= MaxConns /\ conns' = conns \o tries
      /\ inbox' = Read(e)
  BY DEF on_peers_response
<1>2. /\ e \in Live /\ status[e] \in {"open", "closing"}
      /\ inbox[e] # << >> /\ Head(inbox[e]) = inbox[e][1] /\ 1 \in DOMAIN inbox[e]
      /\ inbox[e][1].type = "peers_response" /\ (status[e] = "open" => e \in shook)
      /\ Tail(inbox[e]) = SubSeq(inbox[e], 2, (Len(inbox[e]) - 1) + 1)
      /\ Len(inbox[e]) - 1 \in 0..(Len(inbox[e]) - 1)
  BY <1>1, InHand
<1>3. /\ e \in End /\ inbox[e] \in Seq(Message) /\ inbox \in [End -> Seq(Message)]
      /\ MailOK(inbox[e], e, shook, status[e], status[Other(e)], Owner(e), version[Remote(e)])
  BY <1>2, BothMail
<1>4. Owner(e) \in Node /\ Owner(e) \notin nodes
  BY <1>2, <1>3, LiveEnds DEF IInv, MailOK
<1>5. tries \in Seq(Connection) /\ \A i \in DOMAIN tries : tries[i].client # tries[i].server
  BY <1>4, Tries
<1> HIDE DEF tries, nodes
<1>6. /\ conns' \in Seq(Connection) /\ Len(conns') <= MaxConns
      /\ DOMAIN conns \subseteq DOMAIN conns'
      /\ \A i \in DOMAIN conns : conns'[i] = conns[i]
      /\ \A i \in DOMAIN conns' \ DOMAIN conns : \E j \in DOMAIN tries : conns'[i] = tries[j]
  BY <1>1, <1>5, Longer DEF IInv
<1> DEFINE left == SubSeq(inbox[e], 2, (Len(inbox[e]) - 1) + 1)
<1>7. /\ left \in Seq(Message)
      /\ MailOK(left, e, shook, status[e], status[Other(e)], Owner(e), version[Remote(e)])
  <2>1. status[e] \in {"new", "open"} => e \in shook
    BY <1>2
  <2> QED
    BY <1>2, <1>3, <2>1, MailRead
<1>8. inbox' = [inbox EXCEPT ![e] = left]
  BY <1>1, <1>2 DEF Read
<1> HIDE DEF left
<1>9. /\ inbox' \in [End -> Seq(Message)] /\ inbox'[e] = left
      /\ \A d \in End : d # e => inbox'[d] = inbox[d]
  BY <1>3, <1>7, <1>8
<1>10. /\ Live \subseteq Live' /\ Live' \subseteq End
       /\ \A d \in Live : Other(d) \in Live
       /\ \A d \in Live : Owner(d)' = Owner(d)
  BY <1>6, LiveEnds DEF IInv, Live, Owner
<1>11. \A d \in Live : /\ Remote(d)' = Remote(d) /\ SameVersion(d)' = SameVersion(d)
                       /\ HasDouble(d) => HasDouble(d)'
  <2>1. \A d \in Live : Remote(d)' = Remote(d)
    BY <1>10 DEF Remote, Other
  <2>2. \A d \in Live : SameVersion(d)' = SameVersion(d)
    BY <1>1, <1>10, <2>1 DEF SameVersion
  <2>3. \A d \in Live : HasDouble(d) => HasDouble(d)'
    BY <1>6 DEF HasDouble, EndNodes, Live
  <2> QED
    BY <2>1, <2>2, <2>3
<1>12. \A d \in End \ Live : /\ status[d] = "new" /\ inbox[d] = << >> /\ d \notin shook
                             /\ Other(d) \in End \ Live /\ d # e
  BY <1>2, Ends DEF IInv, TypeOK, Live
<1>13. TypeOK'
  <2>1. Message' = Message
    BY <1>1 DEF Message, PeersRequest
  <2>2. \A d \in End \ Live' : status'[d] = "new" /\ inbox'[d] = << >>
    BY <1>1, <1>9, <1>10, <1>12
  <2>3. shook' \subseteq {d \in Live' : status'[d] \in {"open", "closing"}}
    BY <1>1, <1>10 DEF IInv, TypeOK
  <2> QED
    BY <1>1, <1>6, <1>9, <2>1, <2>2, <2>3 DEF IInv, TypeOK, Connection
<1>14. NoSelfConnection'
  BY <1>5, <1>6 DEF IInv, NoSelfConnection
<1>15. Sole' /\ OneVersion'
  <2>1. shook \subseteq Live
    BY DEF IInv, TypeOK
  <2>2. Sole'
    BY <1>1, <1>10, <1>11, <2>1 DEF IInv, Sole
  <2>3. OneVersion'
    BY <1>1, <1>11, <2>1 DEF IInv, OneVersion
  <2> QED
    BY <2>2, <2>3
<1>16. ASSUME NEW d \in Live' PROVE Mail(d)'
  <2>1. Mail(d)' = MailOK(inbox'[d], d, shook, status[d], status[Other(d)],
                          Owner(d)', version[Remote(d)'])
    BY <1>1 DEF Mail, MailOK, Other
  <2>2. CASE d \in Live /\ d # e
    <3>1. Mail(d) /\ inbox'[d] = inbox[d]
      BY <1>9, <1>10, <2>2 DEF IInv
    <3> QED
      BY <1>10, <1>11, <2>1, <2>2, <3>1 DEF Mail
  <2>3. CASE d = e
    BY <1>2, <1>7, <1>9, <1>10, <1>11, <2>1, <2>3
  <2>4. CASE d \notin Live
    <3>1. inbox'[d] = << >> /\ status[Other(d)] = "new" /\ d \notin shook
      BY <1>9, <1>10, <1>12, <2>4
    <3> QED
      BY <2>1, <3>1 DEF MailOK
  <2> QED
    BY <2>2, <2>3, <2>4
<1>17. ASSUME NEW d \in Live' PROVE ClosedForDouble(d)'
  <2>1. CASE d \in Live
    BY <1>1, <1>11, <2>1 DEF IInv, ClosedForDouble
  <2>2. CASE d \notin Live
    BY <1>1, <1>10, <1>12, <2>2 DEF ClosedForDouble
  <2> QED
    BY <2>1, <2>2
<1> QED
  BY <1>13, <1>14, <1>15, <1>16, <1>17 DEF IInv
-----------------------------------------------------------------------------
LEMMA InitIInv == Init => IInv
<1> SUFFICES ASSUME Init PROVE IInv
  OBVIOUS
<1>1. /\ conns \in Seq(Connection) /\ Len(conns) <= MaxConns /\ NoSelfConnection
  BY PeersAssumption DEF Init, Connection, NoSelfConnection
<1>2. /\ status \in [End -> Status] /\ inbox \in [End -> Seq(Message)]
      /\ shook = {} /\ version \in Versions
      /\ \A e \in End : status[e] = "new" /\ inbox[e] = << >>
  <2>1. << >> \in Seq(Message)
    OBVIOUS
  <2> QED
    BY <2>1 DEF Init, Status
<1>3. TypeOK
  BY <1>1, <1>2 DEF TypeOK, Status, Connection
<1>4. Sole /\ OneVersion
  BY <1>2 DEF Sole, OneVersion
<1>5. ASSUME NEW e \in Live PROVE Mail(e) /\ ClosedForDouble(e)
  <2>1. e \in End /\ Other(e) \in End
    BY Ends DEF Live
  <2> QED
    BY <1>2, <2>1 DEF Mail, MailOK, ClosedForDouble
<1> QED
  BY <1>1, <1>3, <1>4, <1>5 DEF IInv

LEMMA NextIInv == IInv /\ [Next]_vars => IInv'
<1> SUFFICES ASSUME IInv, [Next]_vars PROVE IInv'
  OBVIOUS
<1>1. ASSUME NEW e \in End, Connected(e) PROVE IInv'
  BY <1>1, Connects
<1>2. ASSUME NEW e \in End, on_handshake(e) PROVE IInv'
  BY <1>2, Shakes
<1>3. ASSUME NEW e \in End, on_peers_request(e) PROVE IInv'
  BY <1>3, Answers
<1>4. ASSUME NEW e \in End, on_peers_response(e) PROVE IInv'
  BY <1>4, Learns
<1>5. ASSUME NEW e \in End, on_read_error(e) PROVE IInv'
  BY <1>5, ReadFails
<1>6. ASSUME NEW e \in End, on_socket_closed(e) PROVE IInv'
  BY <1>6, Closes
<1>7. CASE UNCHANGED vars
  <2>1. TypeOK'
    BY <1>7 DEF vars, IInv, TypeOK, Live, Message, PeersRequest
  <2>2. NoSelfConnection' /\ Sole' /\ OneVersion'
    BY <1>7 DEF vars, IInv, NoSelfConnection, Sole, OneVersion, SameVersion,
                Owner, Remote, Other
  <2>3. Live' = Live /\ \A e \in Live : (Mail(e)' <=> Mail(e)) /\ (ClosedForDouble(e)' <=> ClosedForDouble(e))
    BY <1>7 DEF vars, Live, Mail, MailOK, ClosedForDouble, HasDouble, SameVersion,
                EndNodes, Owner, Remote, Other
  <2> QED
    BY <2>1, <2>2, <2>3 DEF IInv
<1> QED
  BY <1>1, <1>2, <1>3, <1>4, <1>5, <1>6, <1>7 DEF Next

(* The inductive invariant holds however connections come up and close.    *)
THEOREM Invariance == Spec => []IInv
  BY InitIInv, NextIInv, PTL DEF Spec

(* Connections, statuses, inboxes and what is known of the ports stay of   *)
(* their types: nothing is left of an end that was never up.               *)
THEOREM TypeCorrect == Spec => []TypeOK
<1>1. IInv => TypeOK
  BY DEF IInv
<1> QED
  BY <1>1, Invariance, PTL

(* The handshake keeps a node from having two peers under one address and  *)
(* port, whoever connects to whom, in whatever order messages are read.    *)
THEOREM OnePeerPerAddress == Spec => []SoleConnection
<1>1. IInv => SoleConnection
  BY SoleIsSole DEF IInv
<1> QED
  BY <1>1, Invariance, PTL

(* on_peers_request never tells a node its own address, so that            *)
(* on_peers_response never makes it connect to itself.                     *)
THEOREM NeverToItself == Spec => []NoSelfConnection
<1>1. IInv => NoSelfConnection
  BY DEF IInv
<1> QED
  BY <1>1, Invariance, PTL

(* An end closes, by on_handshake or after it by on_read_error, only where *)
(* the nodes have another connection or differ in their version.           *)
THEOREM ClosedOnlyForDouble == Spec => []OnlyDuplicatesClose
<1>1. IInv => OnlyDuplicatesClose
  BY DEF IInv, OnlyDuplicatesClose, ClosedForDouble, HasDouble
<1> QED
  BY <1>1, Invariance, PTL

(* Whatever waits at a quiet end that has not shaken hands is its first    *)
(* handshake, and nothing waits: so both ends have shaken hands, and the   *)
(* versions were compared then.                                            *)
LEMMA QuietIsUsable == IInv => SettledIsUsable
<1> SUFFICES ASSUME IInv, Quiet, NEW e \in Live, status[e] = "open"
             PROVE  e \in shook /\ SameVersion(e)
  BY DEF SettledIsUsable
<1>1. inbox[e] = << >> /\ status[Other(e)] = "open"
  BY DEF Quiet
<1>2. MailOK(inbox[e], e, shook, status[e], status[Other(e)], Owner(e), version[Remote(e)])
  BY BothMail
<1>3. e \in shook
  BY <1>1, <1>2 DEF MailOK
<1> QED
  BY <1>3 DEF IInv, OneVersion

(* When connecting and closing has come to rest, every connection that is  *)
(* left was accepted by on_handshake at both ends, which run one version.  *)
THEOREM SettledAlwaysUsable == Spec => []SettledIsUsable
  BY QuietIsUsable, Invariance, PTL
=============================================================================
