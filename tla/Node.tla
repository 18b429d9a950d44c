------------------------------- MODULE Node -------------------------------
(***************************************************************************)
(* The nodes of a network: the handlers of main.c around the blockchain,   *)
(* the transaction pool, the block timer and the connections.              *)
(*                                                                         *)
(* A node is one libuv loop: a handler runs to its end before the next     *)
(* callback, so a handler is one step.  The handlers are written as        *)
(* operators on the local state of a node                                  *)
(*    [blocks, principal, pool, timer, built]                              *)
(* where timer says whether the one-shot timer is running, and built are   *)
(* the blocks of its own that the running handler has broadcast, none when *)
(* no handler runs.                                                        *)
(*                                                                         *)
(* A connection delivers messages in order; channel[m][n] holds what m     *)
(* wrote and n has not read.  Every block is broadcast once, by its        *)
(* creator, under a new guid, so the block stands for the guid.  A         *)
(* blocks_response is the branch of a leaf above a height.                 *)
(***************************************************************************)
EXTENDS Accounts, BlockTree

CONSTANTS Node,        \* nodes; a node's key is the node
          Txn,         \* the transactions that users send
          Bases,       \* branches that all nodes may hold at the start
          Links,       \* ordered pairs of nodes that may be connected
          MaxHeight(_), \* bound: timers do not build above this height of a branch
          MaxDrops     \* bound: connections lost

VARIABLES node,        \* local state of every node
          peers,       \* list_t *peers of every node
          history,     \* list_t *message_history of every node
          channel,     \* messages written and not yet read
          submitted,   \* transactions the users have sent; each is sent once
          drops        \* number of connections lost so far

vars == <<node, peers, history, channel, submitted, drops>>

(* The transactions that can occur, headers, and blocks as their paths.    *)
Transaction == Txn \cup UNION {Confirmed(base) : base \in Bases}

Header == [pk : Node, txns : Seq(Transaction)]

Block == Seq(Header) \ {NULL}

Creator(b) == b[Len(b)].pk

Genesis(n) == <<[pk |-> n, txns |-> << >>]>>

(* Sortition draws a number for every block, and distinct numbers for two  *)
(* keys that build on one parent.                                          *)
Lottery(S) ==
    \A b, c \in S :
        /\ Priority(b) \in Nat
        /\ Siblings(b, c) /\ Creator(b) # Creator(c) => Priority(b) # Priority(c)

ASSUME BoundAssumption == MaxDrops \in Nat

(* The nodes have agreed on a base: it is a block, and no node's genesis    *)
(* block differs from or beats the one that its key has in the base.       *)
ASSUME BasesAssumption ==
    \A base \in Bases \ {NULL} :
        /\ base \in Block
        /\ \A n \in Node : /\ ~ Beats(Genesis(n), Ancestor(base, 1))
                           /\ Creator(Ancestor(base, 1)) = n => Ancestor(base, 1) = Genesis(n)

BlockMsg(b)         == [type |-> "block", block |-> b]
RequestMsg(b)       == [type |-> "blocks_request", hash |-> b]
ResponseMsg(b, k)   == [type |-> "blocks_response", leaf |-> b, above |-> k]

LocalState == [blocks : SUBSET Block, principal : Block, pool : Seq(Transaction),
               timer : BOOLEAN, built : Seq(Block)]

-----------------------------------------------------------------------------
(* Handlers on the local state s of node n.                                *)

(* A definition whose name ends in _<Word> is a wrong variant of the one   *)
(* that follows it, kept to show that the properties can tell them apart.  *)

pool_add(pool, txn) == IF txn \in ToSet(pool) THEN pool ELSE Append(pool, txn)

(* All of txns are offered to the pool, in their order.                    *)
pool_add_all(pool, txns) ==
    LET after[i \in 0..Len(txns)] ==
            IF i = 0 THEN pool ELSE pool_add(after[i - 1], txns[i])
    IN  after[Len(txns)]

(* The walk from prev towards the genesis block returns the transactions   *)
(* of every block to the pool that block has not as an ancestor.           *)
RollBack(pool, prev, block) ==
    LET after[i \in 0..Len(prev)] ==
            IF i = 0 THEN pool
            ELSE LET h == Len(prev) + 1 - i
                 IN  IF block_has_ancestor(block, Ancestor(prev, h))
                     THEN after[i - 1]
                     ELSE pool_add_all(after[i - 1], prev[h].txns)
    IN  after[Len(prev)]

on_extended_NoTimer(s, prev) ==
    [s EXCEPT !.pool = RollBack(@, prev, s.principal)]

(* The rolled-back transactions return to the pool; the timer starts anew. *)
on_extended(s, prev) ==
    [s EXCEPT !.pool = RollBack(@, prev, s.principal),
              !.timer = TRUE]

blockchain_add_block_Unstored(s, b) ==
    on_extended([s EXCEPT !.principal = NewPrincipal(@, b)], s.principal)

blockchain_add_block(s, b) ==
    LET stored == [s EXCEPT !.blocks = @ \cup {b},
                            !.principal = NewPrincipal(@, b)]
    IN  IF stored.principal = s.principal THEN stored
                                          ELSE on_extended(stored, s.principal)

HasOwnChild_OnPrincipal(s, n, b) ==
    \E c \in Branch(s.principal) : block_get_prev(c) = b /\ Creator(c) = n

HasOwnChild(s, n, b) ==
    \E c \in s.blocks : block_get_prev(c) = b /\ Creator(c) = n

NextBlock(s, n, b) == Append(b, [pk |-> n, txns |-> s.pool])

(* The pool is emptied into a list; block_create takes the list if the key *)
(* may stake on b and drops it otherwise.  A block that is created is      *)
(* stored, then broadcast.                                                 *)
CreateOn(s, n, b) ==
    LET drained == [s EXCEPT !.pool = << >>]
        next    == NextBlock(s, n, b)
    IN  IF StakingAllowed(b, n)
        THEN [blockchain_add_block(drained, next) EXCEPT !.built = Append(@, next)]
        ELSE drained

Acceptable_AnyParent(s, b) == StakingAllowed(block_get_prev(b), Creator(b))

(* block_create_from_tuple finds the parent and accepts the creator.       *)
Acceptable(s, b) ==
    /\ block_get_prev(b) \in s.blocks \cup {NULL}
    /\ StakingAllowed(block_get_prev(b), Creator(b))

(* A block that is new to the node is stored, and the node competes with   *)
(* it by a block of its own on the same parent.                            *)
ReceiveBlock(s, n, b) ==
    LET parent == block_get_prev(b)
        stored == blockchain_add_block(s, b)
    IN  IF ~ Acceptable(s, b) \/ b \in s.blocks THEN s
        ELSE IF parent = NULL \/ HasOwnChild(stored, n, parent) THEN stored
        ELSE CreateOn(stored, n, parent)

ReceiveBranch_TopDown(s, n, leaf, above) ==
    LET after[i \in 0..(Len(leaf) - above)] ==
            IF i = 0 THEN s
            ELSE ReceiveBlock(after[i - 1], n, Ancestor(leaf, Len(leaf) + 1 - i))
    IN  after[Len(leaf) - above]

(* The blocks of a branch above a height, from the lowest up.              *)
ReceiveBranch(s, n, leaf, above) ==
    LET after[i \in 0..(Len(leaf) - above)] ==
            IF i = 0 THEN s
            ELSE ReceiveBlock(after[i - 1], n, Ancestor(leaf, above + i))
    IN  after[Len(leaf) - above]

(* The handler ends.                                                       *)
Idle(s) == [s EXCEPT !.built = << >>]

-----------------------------------------------------------------------------
(* The nodes have agreed on the branch base so far, or, if it is NULL,     *)
(* have just started.  Each has made a genesis block when it started.      *)
Init ==
    /\ \E base \in Bases :
          /\ node = [n \in Node |->
                       [blocks |-> Branch(base) \cup {Genesis(n)},
                        principal |-> IF base = NULL THEN Genesis(n) ELSE base,
                        pool |-> << >>,
                        timer |-> TRUE,
                        built |-> << >>]]
          /\ history = [n \in Node |-> Branch(base) \cup {Genesis(n)}]
    /\ peers = [n \in Node |-> {}]
    /\ channel = [m \in Node |-> [n \in Node |-> << >>]]
    /\ submitted = {}
    /\ drops = 0

Write(ch, n, m, msgs) == [ch EXCEPT ![n][m] = @ \o msgs]

Broadcast(ch, n, msgs) ==
    [ch EXCEPT ![n] = [m \in Node |-> IF m \in peers[n] THEN @[m] \o msgs ELSE @[m]]]

BlockMsgs(bs) == [i \in 1..Len(bs) |-> BlockMsg(bs[i])]

(* The connection with m is up at n's side: the principal block goes out   *)
(* as a request for what m has above it.  Nodes connect when they start    *)
(* and when a list of peers names a node they have no connection with,     *)
(* which may be one that was lost; no code makes them do so.               *)
on_connect(n, m) ==
    /\ <<n, m>> \in Links
    /\ m \notin peers[n]
    /\ peers' = [peers EXCEPT ![n] = @ \cup {m}]
    /\ channel' = Write(channel, n, m, <<RequestMsg(node[n].principal)>>)
    /\ UNCHANGED <<node, history, submitted, drops>>

(* The connection between n and m is lost with all that is in flight.      *)
on_disconnect(n, m) ==
    /\ drops < MaxDrops
    /\ m \in peers[n]
    /\ n \in peers[m]
    /\ peers' = [peers EXCEPT ![n] = @ \ {m}, ![m] = @ \ {n}]
    /\ channel' = [channel EXCEPT ![n][m] = << >>, ![m][n] = << >>]
    /\ drops' = drops + 1
    /\ UNCHANGED <<node, history, submitted>>

(* n reads a message of m.                                                 *)
Reading(n, m, type) ==
    /\ m \in peers[n]
    /\ channel[m][n] # << >>
    /\ Head(channel[m][n]).type = type

Read(n, m) == [channel EXCEPT ![m][n] = Tail(@)]

(* The block is handled, and the blocks built on the way are broadcast;    *)
(* then its guid is recorded and the message goes to all peers, stored or  *)
(* not.                                                                    *)
on_block(n, m) ==
    /\ Reading(n, m, "block")
    /\ LET b   == Head(channel[m][n]).block
           s   == ReceiveBlock(node[n], n, b)
       IN  IF b \in history[n]
           THEN /\ channel' = Read(n, m)
                /\ UNCHANGED <<node, history>>
           ELSE /\ node' = [node EXCEPT ![n] = Idle(s)]
                /\ history' = [history EXCEPT ![n] = @ \cup ToSet(s.built) \cup {b}]
                /\ channel' = Broadcast(Read(n, m), n, BlockMsgs(Append(s.built, b)))
    /\ UNCHANGED <<peers, submitted, drops>>

on_blocks_request(n, m) ==
    /\ Reading(n, m, "blocks_request")
    /\ LET p == node[n].principal
           b == Head(channel[m][n]).hash
           k == IF b \in Branch(p) THEN Len(b) ELSE 0
       IN  channel' = Write(Read(n, m), n, m, <<ResponseMsg(p, k)>>)
    /\ UNCHANGED <<node, peers, history, submitted, drops>>

(* The blocks of a response are handled from the lowest up and are not     *)
(* passed on.                                                              *)
on_blocks_response(n, m) ==
    /\ Reading(n, m, "blocks_response")
    /\ LET msg == Head(channel[m][n])
           s   == ReceiveBranch(node[n], n, msg.leaf, msg.above)
       IN  /\ node' = [node EXCEPT ![n] = Idle(s)]
           /\ history' = [history EXCEPT ![n] = @ \cup ToSet(s.built)]
           /\ channel' = Broadcast(Read(n, m), n, BlockMsgs(s.built))
    /\ UNCHANGED <<peers, submitted, drops>>

(* The timer has run out.  It is started again only by on_extended.        *)
on_timer(n) ==
    /\ node[n].timer
    /\ Len(node[n].principal) < MaxHeight(node[n].principal)
    /\ LET p   == node[n].principal
           s   == [node[n] EXCEPT !.timer = FALSE]
           t   == IF HasOwnChild(s, n, p) THEN s ELSE CreateOn(s, n, p)
       IN  /\ node' = [node EXCEPT ![n] = Idle(t)]
           /\ history' = [history EXCEPT ![n] = @ \cup ToSet(t.built)]
           /\ channel' = Broadcast(channel, n, BlockMsgs(t.built))
    /\ UNCHANGED <<peers, submitted, drops>>

(* The user sends a transaction from the command line.                     *)
handle_send_command(n, txn) ==
    /\ txn.sender = n
    /\ txn \notin submitted
    /\ node' = [node EXCEPT ![n].pool = pool_add(@, txn)]
    /\ submitted' = submitted \cup {txn}
    /\ UNCHANGED <<peers, history, channel, drops>>

Next ==
    \/ \E n, m \in Node :
          \/ on_connect(n, m)
          \/ on_disconnect(n, m)
          \/ on_block(n, m)
          \/ on_blocks_request(n, m)
          \/ on_blocks_response(n, m)
    \/ \E n \in Node :
          \/ on_timer(n)
          \/ \E txn \in Txn : handle_send_command(n, txn)

Spec == Init /\ [][Next]_vars

(* n handles the next message of m.                                        *)
Receive(n, m) == \/ on_block(n, m)
                 \/ on_blocks_request(n, m)
                 \/ on_blocks_response(n, m)

CanReceive(n, m) == m \in peers[n] /\ channel[m][n] # << >>
TimerRuns(n)     == node[n].timer /\ Len(node[n].principal) < MaxHeight(node[n].principal)

(* The event loop serves every connection and every timer: a message that  *)
(* waits is read, a timer that runs goes off.  Nothing forces a connection *)
(* to come up or to break, or a user to send.                              *)
(* This is weak fairness with the guards in place of ENABLED: each of the  *)
(* actions is enabled exactly when its guard holds, and changes the state. *)
Fairness ==
    /\ \A l \in Links :
          []<>(~ CanReceive(l[1], l[2])) \/ []<><<Receive(l[1], l[2])>>_vars
    /\ \A n \in Node :
          []<>(~ TimerRuns(n)) \/ []<><<on_timer(n)>>_vars

FairSpec == Spec /\ Fairness

-----------------------------------------------------------------------------
Message ==
    LET known == UNION {node[n].blocks : n \in Node}
    IN  {BlockMsg(b) : b \in known} \cup {RequestMsg(b) : b \in known}
          \cup UNION {{ResponseMsg(b, k) : k \in 0..Len(b)} : b \in known}

TypeOK ==
    /\ node \in [Node -> LocalState]
    /\ \A n \in Node : /\ node[n].principal \in node[n].blocks
                       /\ node[n].built = << >>
    /\ peers \in [Node -> SUBSET Node]
    /\ history \in [Node -> SUBSET UNION {node[n].blocks : n \in Node}]
    /\ channel \in [Node -> [Node -> Seq(Message)]]
    /\ submitted \subseteq Txn
    /\ drops \in 0..MaxDrops

(* A handler may add several blocks: the received one, its competitor and, *)
(* for a response, a whole branch with competitors at every height.  After *)
(* each handler the principal block is a true leaf of a rooted tree again. *)
PrincipalIsTrueLeaf ==
    \A n \in Node : /\ Rooted(node[n].blocks)
                    /\ TrueLeaf(node[n].principal, node[n].blocks)

(* No key builds two blocks on one parent, anywhere in the network.  Three *)
(* handlers build blocks, each after a look at the own child list; the     *)
(* child list misses nothing because a block is stored before it is sent.  *)
(* Equal keys have equal priorities, so ties between siblings would make   *)
(* the nodes disagree for good.                                            *)
OneBlockPerParent ==
    \A n, m \in Node : \A b \in node[n].blocks, c \in node[m].blocks :
        Siblings(b, c) /\ Creator(b) = Creator(c) => b = c

(* Nodes that store the same blocks have the same principal block, in      *)
(* whatever order the blocks reached them.                                 *)
SameBlocksSamePrincipal ==
    \A n, m \in Node :
        node[n].blocks = node[m].blocks => node[n].principal = node[m].principal

(* The timer is one-shot and on_timer does not start it: when no block is  *)
(* built it stays off until the principal block changes.  So a node whose  *)
(* timer is off must be one that may not stake on its principal block; any *)
(* other would have stopped producing blocks for no reason.                *)
StakerKeepsTimer ==
    \A n \in Node :
        StakingAllowed(node[n].principal, n) => node[n].timer

(* If the connections come up, or come up again, and stay, then, when every *)
(* message has been read and the timers have run out, all nodes hold the   *)
(* same principal block and keep it: what was lost with a connection is    *)
(* made good by the request that each end sends when it is up.             *)
Converges ==
    <>[](\A l \in Links : l[2] \in peers[l[1]])
        => <>[](\A n, m \in Node : node[n].principal = node[m].principal)

-----------------------------------------------------------------------------
(* transaction.h: two identical transactions cannot be spent.  The users   *)
(* send every transaction once, so a branch should confirm it once.        *)
SpentOnce ==
    \A n \in Node :
        LET p == node[n].principal
        IN  Cardinality(Confirmed(p)) = MapThenSumSet(LAMBDA h : Len(p[h].txns), 1..Len(p))
=============================================================================
