# A TLA+ development of whosecoin-core

whosecoin-core is a peer-to-peer proof-of-stake cryptocurrency in C on top of
libuv and libsodium. Every node keeps the tree of all blocks it has seen,
decides which leaf of the tree is the principal block, derives the account
values of every branch, builds blocks of its own when the rules let it and
floods new blocks to its peers. This directory holds models of that protocol,
the TLC configurations that check them and proofs that TLAPS checks.

Source paths below are relative to the repository; `src/` is its directory of
implementation files.

## Inventory

| Component | Code | State | Operations | Hard part |
|---|---|---|---|---|
| Block tree, fork choice | `src/blockchain.c`, `src/block.c` | maps of blocks and transactions, child lists, principal block | `blockchain_add_block`, `block_has_ancestor`, `block_get_child_with_public_key` | order of arrival, forks at every depth, ties |
| Ledger | `src/block.c` | account records of every block | `are_transactions_valid`, `block_get_account`, `is_staking_allowed` | records built in place, unsigned overflow, truncation, age of an account |
| Block creation and verification | `src/block.c` | none | `block_create`, `block_create_from_tuple` | creator and receiver must agree |
| Node | `main/main.c` | blockchain, pool, block timer | network events, timer, `on_extended`, the send command | callbacks inside handlers, pool emptied early, reordering |
| Pool | `src/pool.c` | list of transactions | `pool_add`, `pool_remove` | returned transactions, ownership |
| Gossip | `src/network.c` | history of guids | `network_broadcast`, `network_send`, `handle_message` | duplicates, limit of the history |
| Peers | `src/network.c`, `main/main.c` | list of peers | connect, accept, handshake, close | two nodes connecting at once, double close |
| Framing | `src/network.c`, `src/message.c`, `src/util/buffer.c` | one buffer per connection | `on_read`, `find_message_start` | partial reads |
| Tuples | `src/tuple.c` | none | write, parse | malformed input |
| Collections | `src/util/list.c`, `map.c`, `heap.c` | buckets, array | set, get, remove; add, pop, remove | collisions, ownership of keys, order of the heap |
| Merkle root | `src/block.c` | none | `merkle_root` | odd numbers of leaves |
| REST server | `src/util/http.c`, `main/main.c` | patterns, one buffer per connection | `on_read`, `on_request`, `resolve_pattern`, two endpoints | partial reads, patterns that overlap |
| JSON, CLI, settings, `main/blockchaindb.c` | | | | I/O |

A node is single-threaded: libuv runs one callback to its end before the next.
Concurrency is between nodes. Inside a node it is the callback `on_extended`,
called from `blockchain_add_block` in the middle of a handler, that makes
orders matter. Nothing is persisted: the keys and the tree are made anew at each
start (`main/main.c` 539-542), so a restarted node is a new node and there is
no recovery to model.

What makes each component correct:

* fork choice: the principal block is a leaf; at every height its branch runs
  through a sibling of lowest priority; the outcome depends on the stored blocks
  and not on the order of their arrival; a rollback is final;
* ledger: the record found from any block agrees with the whole branch below
  it; transfers conserve value; the staking rule sees the true age;
* node: no key builds two blocks on a parent (equal keys have equal priorities,
  so a tie would split the network), the timer never stops while the node may
  stake, nodes with the same blocks agree, a quiet network converges;
* peers: one connection to a node, none to itself, both ends agree on what is
  left, and the network stays in one piece;
* framing: messages are handled at most once and in order, and what happens to one
  that a read has torn harms no other;
* tuples: what is read is what was written, and the parser returns;
* gossip: no message is handled twice although guids are forgotten, and every
  broadcast reaches every node;
* collections: a map is a dictionary and owns its keys, a heap is a priority
  queue;
* merkle root: the header commits to the list of transactions;
* REST server: a request gets the reply that the patterns ask for, and no request
  stops the node.

The hazards of the code are listed one by one, each with its line and the
properties that cover it, in `PROJECT.json`.

## Modules

| Module | Models | Extends |
|---|---|---|
| `BlockTree` | blocks as paths of headers, the comparison rules of the fork choice, what a true leaf is | |
| `ForkChoice` | the promise of the fork choice: a nondeterministic abstract specification | `BlockTree` |
| `Blockchain` | `blockchain_t` and `blockchain_add_block` | `BlockTree`; instantiates `ForkChoice` |
| `Accounts` | values, ages and the staking rule as functions of a branch | |
| `Ledger` | the account records of one growing branch | `Accounts` |
| `Node` | the handlers of `main.c`, pool, timer, connections and flooding of several nodes | `Accounts`, `BlockTree` |
| `Peers` | connections, handshakes and the exchange of peer lists of several nodes | |
| `Framing` | the reassembly of messages from the byte stream of one connection | |
| `Tuple` | the binary format of messages: writing, parsing, reading | |
| `Gossip` | broadcasts and direct messages over fixed connections, and the history of guids at its limit | |
| `Dictionary`, `PriorityQueue` | what `map.h` and `heap.h` promise: abstract specifications | |
| `HashMap` | `map.c`, with what it needs of `list.c` | instantiates `Dictionary` |
| `Heap` | `heap.c` | instantiates `PriorityQueue` |
| `BlockBody` | the merkle root and the check of a received block against its header | |
| `Http` | one connection to the REST server | |
| `Parsers` | a connection of the REST server and a message side by side | `Http`; instantiates `Tuple` |
| `Structures` | a map, a heap and the body of a block side by side | `HashMap`; instantiates `Heap` and `BlockBody` |
| `MCBlockchain`, `MCLedger`, `MCStructures`, `MCNode`, `MCPeers`, `MCParsers`, `MCGossip` | instances for TLC (`Framing` needs none) | |
| `BlockTreeProofs` | the fork choice rules, and what the proofs use of numbers and of loops | `BlockTree` |
| `BlockchainProofs`, `NodeProofs`, `LedgerProofs` | theorems and proofs about a component | the component, `BlockTreeProofs` |
| `GossipProofs`, `PeersProofs` | theorems and proofs about a component | the component |
| `StreamProofs` | theorems and proofs about the two readers of byte streams | `Framing`; instantiates `Http` |
| `StructuresProofs` | theorems and proofs about the map, the heap and the merkle root | `Structures` |

### BlockTree, ForkChoice, Blockchain

A block is the sequence of the headers from the genesis block to itself. The
hash of a block covers the hash of its parent, so with a collision-free hash
the path identifies the block, and pointers of one node are equal exactly when
the paths are, because a node stores one object per hash. `NULL` is the empty
path. `Priority` is `sortition_priority`; it is an arbitrary function.

| TLA+ | code |
|---|---|
| `blocks`, `txns`, `principal` | fields of `struct blockchain` |
| `children` | the list `children` of each block |
| `Store` | `blockchain.c` 44-57: duplicate test, `map_set`, `block_add_child`, index of transactions |
| `ExtendPrincipal`, `OvertakeLeaf`, `OvertakeBranch`, `KeepPrincipal` | the branches of the fork choice, 59-86, each with the storing before it |
| `RejectDuplicate` | the early return 45-49 |

The walk of `OvertakeBranch` down the principal branch is written as the
existence of the block it stops at: the child of the new block's parent on the
principal branch. The proof-of-work alternative (`#elif`) is not compiled; its
rule is one of the wrong variants the properties are tried on.

`Parented` is the precondition all callers establish: `block_create` gets a
stored parent or none, and `block_create_from_tuple` refuses a block whose
parent is not stored, because the seed of its proof would be that of a genesis
block.

### Accounts and Ledger

`Accounts` computes from a branch alone what the code keeps in records:
`NetWorth` is all an account got less all it spent, `Balance` is that modulo
the width of `uint64_t`, `StakingAllowed` is the rule by the first height that
touched the account: it is the rule of `block.c`, said of the branch, and not the one that
`block.h` describes (see the end of Runs). `Ledger` keeps the records: `accounts[h]` is the map of the
block at height `h`, a record has a value and the height of the record it
replaces. `Credit` is the update in place that `are_transactions_valid` performs
for the creator, the sender and the recipient: `RecordIn` is the record that the
block has or would take over from an ancestor, `Put` stores it. The test `value < 0` on an
unsigned field never holds and has no counterpart. `block_create` and
`block_create_from_tuple` are the actions; the number of a delegate is a choice
below `OwnDelegates`, since the best one depends on hashes. Branches share
records but never change them after the block is built, so one growing branch
stands for the tree.

### Node

The local state of a node is `[blocks, principal, pool, timer, built]`; `timer` says
whether the one-shot timer runs, `built` are the blocks of its own that the running
handler has broadcast. The handlers are operators on that state, so a
network event, the callbacks it triggers and the blocks it builds on the way are
one step, as they are one callback of the loop.

| TLA+ | code |
|---|---|
| `on_block` | `handle_message` around `on_block`: guid test, handler, record, relay |
| `ReceiveBlock` | the handler: verify, store, compete on the same parent |
| `CreateOn` | empty the pool, `block_create`, add, as in `on_timer` and the two block handlers |
| `on_extended` | rolled-back transactions return to the pool, timer restarts |
| `on_blocks_request`, `on_blocks_response` | synchronisation of a branch |
| `on_timer` | own block on the principal block unless there is one |
| `handle_send_command` | the user sends a transaction |
| `on_connect`, `on_disconnect` | connection up at one side; connection lost with what is in flight |

Connections are ordered and reliable until they break. A block is broadcast once
by its creator under a fresh guid, so the block stands for the guid, and the
history of guids has no limit here; that is the subject of `Gossip`. The
genesis broadcast at start reaches nobody, since no peer is connected yet
(`main/main.c` 565-608), and appears in the initial state. Handshake and peer
requests are left to `Peers`, and messages arrive intact, as they do when one read
brings the whole message (`UntornIntact` of `Framing`). `BlockMsgs` of a handler are sent in the order of height,
which is the order in which the loop builds them. The loops over the transactions
of a rolled-back branch, over a received branch and over the pool are recursive
functions of the pass. The verification of a block by
its receivers is reduced to the lookup of the parent and the staking rule: all
blocks come from nodes that run this code. Account values come from `Accounts`;
the run of `Ledger` shows that they are what the records hold. The handlers of
single transactions and of pool requests are registered, but no code ever sends
such a message.

### Peers

A connection has a client's and a server's end; an end that is up is a `peer_t`
in the list of its node. `status` follows the socket: `new` (the attempt is
under way), `open`, `closing` (between `uv_close` and its callback, when the
peer is still in the list), `closed`. `shook` holds the ends whose port came from
a handshake. Before that the port is the remote's ephemeral one, or the
listening port in network byte order (`peer->port = addr.sin_port`): no query of
`network_has_peer` matches it and nobody listens there, so a list that contains
it leads to an attempt that fails. That is why lists are sets of nodes.

| TLA+ | code |
|---|---|
| `Connected` | `on_incoming_connection`, `on_outgoing_connection`, `on_connect` |
| `on_handshake`, `on_peers_request`, `on_peers_response` | the handlers of `main.c`, run by `on_read` and `handle_message` |
| `Disconnect` | `network_disconnect` inside a handler; the messages of the same read are still handled |
| `on_read_error` | `on_read` with a negative count, after the other end was closed |
| `on_socket_closed` | the callback of `uv_close` |

A closing end cannot send (`uv_write` refuses), and what it has not read is lost
but for the read in progress. Connections that break by themselves are in `Node`
and not here, where the bound on connections would be one on breaks.

### Tuple

Bytes are numbers, values of a fixed size are sequences of bytes in the order of
a little-endian host. The state is one message: it is written by calls of
`tuple_write_*`, delivered, parsed and read. `Deliver` may put zeros into it and
cut off its end, as `on_read` does with a message that is split (`Framing`);
`intact` says whether it did. `frames` is the stack of the recursive
`tuple_parse`, one frame for each tuple that is not finished. `ParseScalar`
stands for ten cases of the switch, `Skip` being the bytes each of them passes;
`ParseNothing` is the return of `NULL` through all levels, `ParseAborts` the
assertion on the size of binary data. On a byte that is no tag no action is
possible: the loop turns without a step. `Get` is what the getters compute from
the kept pointers. What is read behind the end of the buffer is taken to be zero
bytes, since the position is at the end or behind it afterwards whatever is
there. `tuple_set_*` is left out.

### Framing

The stream is a sequence of bytes; `<<i, j>>` is byte `j` of message `i`, which is of the
magic number, of the length, of the rest of the header or of the body by its place. A read
may end anywhere. It brings up to `SUGGESTED_SIZE` bytes in a zeroed buffer of that size,
and the whole buffer is appended, as `dynamic_buffer_write(buf->base, buf->len, ...)`
does, so zeros get between two bytes that were sent together: into a body, into a
length, whose bytes are then read as far as they are there (`LengthByte`), or into a magic
number, which is never found, so that the message is skipped.

| TLA+ | code |
|---|---|
| `on_read` | the start of `on_read`, to `dynamic_buffer_write` |
| `Starts`, `find_message_start` | the search, with its unsigned bound, and the splice of what precedes |
| `HandleMessage`, `AwaitData` | a turn of the loop, and its two exits |
| `ParserStops` | `handle_message` does not return: the loop of `tuple_parse`, or an assertion in it |
| `SearchOverruns` | the search leaves the memory, or the splice is given a negative size |
| `on_read_error` | a negative count |

In a buffer of less than a header the bound `length - MESSAGE_HEADER_SIZE + 1`
(`network.c` 255) wraps, unless just one byte is missing. The search then goes through
`Memory`: the buffer and what the message just handled has left behind its end. While
reads are full it finds that message's magic number there, or that of the remainder, completed by what
lies behind it, and the loop waits for more; otherwise it may find nothing, and the node crashes. Whether the parser survives a damaged message
depends on what it says, so `HandleMessage` and `ParserStops` are both possible
for one. `gaps` is an auxiliary variable: the bytes in front of which zeros
were put. A message is torn if one of its bytes but the first is among them.

### Gossip

Connections are up all the time and what messages say is left out. Each call of
`network_send` or `network_broadcast` is an event with a number; a broadcast
carries the number as its guid, a direct message the null guid, and both put
their guid into the history. `handle_message` is one step: the handler, which may
write messages of its own, then the record of the guid, then the relay, in this
order. The calls of `network.c` are operators on what one node sees and changes.

| TLA+ | code |
|---|---|
| `message_history_add`, `message_history_has` | the functions of those names; a full history drops its oldest guid |
| `network_broadcast`, `network_send` | the functions of those names |
| `HandleDirect`, `HandleKnown`, `HandleNew` | the branches of `handle_message` |
| `Call` | a timer, a command or a new connection uses the network |

A history that is bounded can only do its work if messages leave the network
while others enter it. `WindowAssumption` says how fast: no event starts while
the one `Window` places before it is still on its way, and `2 * Window - 1` guids
fit into the history. It is an assumption about the network: with 1024 guids it
holds as long as at most 512 messages are under way at once. Left out are peers
that are closing while a message is relayed and the memory that the writes to
several peers share.

### Dictionary and HashMap, PriorityQueue and Heap

The abstract specifications say what the headers promise: a value for each name,
and a bag of elements of which the smallest is at hand. Both carry `reply`, the
last call with what it returned, so that a refinement is about the results and
not about the contents alone. In `HashMap` keys are objects with a name: the
comparator sees names, and `allocated` holds the key objects that were handed over
and not destroyed. `list_remove` and `list_find` come from `list.c`; an absent bucket
is an empty list. `map_destroy` is followed by a new `map_create`. In `Heap` the
array is a sequence; indexes count from zero as in the code, and `parent`,
`shift_up`, `shift_down`, `move_to_top` keep their names. A loop of the code, and the
recursion of `shift_down`, is a function of the number of the pass with as many passes
as the loop can ever need; a pass that finds nothing to do changes nothing. Destructors
of values are left out.

### BlockBody

A hash is a nested pair of what it was computed from. `compute_merkle_root` works
level by level, as the code does in place, as a function of the level; `TreeRoot`
defines the root from the top instead. `block_create` writes the header, `block_create_from_tuple` takes any list
with it. Only the parts of the two functions that touch the list of transactions
are here; parents, proofs and accounts are in `Blockchain`, `Node` and `Ledger`.

### Http

The bytes of a connection are cells: words, the blank line that
ends a header, and zeros. `on_alloc` does not clear its memory and `on_read` takes all of
it, so what lies behind a read is `Garbage`, a choice between zeros, text and the
end of a header. `MatchFrom` is one call of the recursive `resolve_pattern` for two positions in pattern
and url, and `resolve_pattern` the table of all of them, row by row; it gives the
set of parameter lists, empty if there is no match. `on_request` is the set of replies that `sscanf` can lead to: with too few words
and no zero it reads on behind the buffer. Replies are status codes with the
block or chain they carry. A url is a sequence of slashes, colons and words. `resolve_pattern` compares
characters before it looks for the wildcard, so a colon in the place of the wildcard
matches as the character and adds no parameter; `/block/:` and `/block/:/` match the whole pattern that way, the
handler asks for a parameter that is not there (`FAILURE`), and the assertion of `list_get` stops
the node (`stopped`). `WholeIsAnswered` says exactly when that is, and that with any other
url the reply is the one that `http.h` promises or, behind such a colon, 404.

### Parsers

`Http` and `Tuple` are joined for one run as the parts of `Structures` are: a
behaviour uses one of them and leaves the other as it was created.

Definitions whose name ends in an underscore and a word (`Store_Childless`) are
wrong variants of the next definition. They are used by no specification; the
properties are tried on them to make sure that each can fail.

## Runs

| Run | Question | Bound |
|---|---|---|
| `Blockchain` | every invariant of the fork choice, and the refinement of `ForkChoice` | 17 blocks on three levels, tied and untied siblings, in every order |
| `Ledger` | records against the branch, supply, age, agreement of creator and receiver | two keys, five blocks, one of them with two transactions |
| `Node` | nodes that start apart or on a common branch where both may stake, compete on the same parents, lose a connection, and converge if connections stay up | two nodes, three or four levels, one lost connection, one transaction |
| `Framing` | order and integrity of messages, wherever the reads end | three messages of up to eight bytes; reads of every size up to eight, three of them short |
| `Peers` | simultaneous connects, closing from both sides, what is left in the end | three nodes, two ways to join, one node of another version or none, five connections |
| `Gossip` | no message handled twice, every broadcast delivered | four nodes, a triangle and one behind it; four events, one of them direct; history 3, window 2 |
| `Structures` | map, heap and merkle root against what they promise | six keys of three names in two buckets, two values, four entries; five elements, two of one rank, six in the heap; lists of up to six transactions of two |
| `Parsers` | what is written is parsed and read back, and the parser's way out on damaged bytes; the reply to the first request of a connection | three elements, three levels, eleven values of nine kinds, one or two zeros at every place; urls of up to three parts, of up to two behind `/block/`, of three slashes, colons and hashes behind it; two requests, three reads of up to four cells |
| `Ledger_overdraft`, `Node_spent_once`, `Framing_split`, `Http_wildcard` | one property each that a comment states and the code violates | as small as shows it |

Why the bounds are enough. The fork choice looks at three places: the leaf, its
parent and one inner block of the principal branch; the forest of `Blockchain`
has an inner fork, a fork at the root, a leaf that ties with a fork, and trees
where nothing ties. In `Ledger` the types are scaled down (`U64`, `U32`, units per
delegate, waiting period) so that wrapping, truncation to zero delegates and the
end of the waiting period occur within five blocks. In `Node` the heights that
timers reach are bounded by `MaxHeight`, which may depend on the branch; blocks
built in answer to a received block are bounded by it as well. The priorities make
each of two nodes win at alternate heights, so branches overtake each other in
both directions. Waiting period and widths are large there, because `Ledger`
covers them. In `Framing` the magic number has two bytes, so that a read
can end inside it, the length four of base two and no header follows it; headers of six
bytes with bodies of up to two, against reads of up to eight, give messages that fit into
a read, that fill it exactly, that leave less than a header behind, and that need
several. Only reads that leave room in the buffer and bytes in the stream are bounded in number: the last
read of what was sent may always be short, so that all of it can be read. In `Peers` no behaviour needs more than four connections, so
the bound of five cuts nothing off (six and seven give the same 31088 states). In `Gossip` the triangle gives each message
two ways to a node and the fourth node a place behind it; with four events the
history forgets in every behaviour that has them all, and a history that is
shorter by one fails. In `Structures` names collide, the heap grows
its array, has elements of one rank and shrinks to nothing. In `Http` the memory
of a read is just larger than the shortest request and as long as the longest,
so a request comes alone, with a part of the next, or in pieces.

Deadlock is not checked in `Ledger`, `Node`, `Framing`, `Peers`, `Gossip`,
`Structures` and `Parsers`: a branch may reach a state in which nobody may stake, the bounds
stop the growth, streams and connections end, peers settle, and a damaged message or a url may
stop the node. `Blockchain` never deadlocks, since a known block can always be
offered again.

Four runs show where the program differs from its own comments:

* `Ledger_overdraft`: nothing stops an overdraft, because the balance is unsigned;
* `Node_spent_once`: a rolled-back transaction is returned to the pool even when
  the new branch confirms it, and is confirmed twice;
* `Framing_split`: a message that is split into two reads is handled with the
  zeros of the first buffer in it and without its end;
* `Http_wildcard`: a colon in the place of the wildcard gives the handler no
  parameter, and its assertion stops the node.

More differences are noted here without a run. A block whose parent is unknown is
refused while its guid is recorded (`network.c` 217-223), and nothing asks for the
parent, so the block is lost to the node, although `main/main.c` 220-222 says that it
is validated and added; with three nodes in a line this happens because blocks
of a `blocks_response` are not passed on. `tuple_parse` has no default case: on a byte
that is no tag, such as the zeros in a message that was split, it never returns,
although `tuple.h` 34-35 says that it returns `NULL`. `map_remove` leaves the size as it was,
while `map.h` promises the number of entries; nothing calls `map_size`. The REST
server takes memory that was not read for a part of the next request
(`http.c` 222), so requests that are split or follow one another are answered
wrongly; `WholeIsAnswered` says what is left. The header of the blockchain
promises that a direct fork becomes the principal leaf (`blockchain.h` 33-37); the
code compares priorities first, and a branch of lower priority wins whatever its
length. The handlers of blocks empty the pool before it is known whether a block
can be built and whether it wins (`main/main.c` 236-246), so that transactions
that `on_extended` has just returned to the pool "so they can be confirmed again"
may be lost. `block.h` 126-129 says that a key may stake
if it was created more than 16 blocks prior, and that all keys may below height 16;
`is_staking_allowed` asks for at least 16 blocks, lets young accounts stake up to
height 16 itself, and refuses a key without an account or without a delegate at
every height above the genesis block. The models follow the code. In `Peers`,
a node closes a new connection also when the one it is "already connected" by is
closing itself, and two nodes that connect to each other at the same time may lose
both connections; `Joined` shows that nodes that joined through others stay linked
all the same. That depends on the order in which they joined: started in a ring, each
of three nodes told to connect to the next before any of them knows the others, they may
close every connection and end up with none, since no node connects again by itself.

### Fairness and convergence

`Fairness` of `Node` says that the event loop serves what is ready: a message that
waits is read, a timer that runs goes off. It is
weak fairness written with the guards, because TLC's `ENABLED` on the handlers
is slow. Users need not send anything, and nothing is asked of connections: they need not come up or
break, and one that was lost need not come back, since `network_connect` is called only at
the start (`main/main.c` 568) and for the peers that a list names (215).
So `Converges` has a condition: if all links are up from some time on, whatever was lost before, then two
nodes end on the same principal block for good. Without the condition it is false, as two
nodes that lose their connection stay apart.

For three nodes in a line `Converges` does not hold: blocks learnt from a
`blocks_response` are not passed on, and a later block that reaches the far node
lacks its parent and is lost. Fully connected, three nodes do
converge in the instance with own genesis blocks and height 2; that run has half
a million states and is not part of the list.

`FairSpec` of `Peers` asks only that some handler runs while one can: the exchange
of peer lists ends under any schedule. `FairSpec` of `Framing` asks that the loop
goes on, if only to stop the node, and that libuv reads what has arrived while the
connection is open. `AllHandled` has what may prevent it: the connection is lost, the node
stops, or a read tears the magic number.
`FairSpec` of `Gossip` asks that each connection is read as long as it has something to
read; it is written with the guard as well, one condition for each connection.
`ParsersSpec` asks that the parser takes a step while it can; it is sequential
code.

## Proofs

`BlockTreeProofs` is about the operators, for all headers and priorities:

* `NewPrincipalIsTrueLeaf`: let `S` be a rooted tree and `p` a true leaf of it.
  If `b` is new and its parent is in `S`, `NewPrincipal(p, b)` is a true leaf of
  `S` with `b`. One case per rule: extending (`ExtendLowest`), overtaking a leaf
  or an inner block (`OvertakeLowest`), and keeping the leaf.
* `NewPrincipalBranch`: the branch of the new principal block contains no stored
  block that was not on the old one.
* `UniqueTrueLeaf`: when siblings have distinct priorities there is only one
  true leaf. Two of them would part at some height; take the lowest, where the
  blocks are siblings, each at most the other, hence equal.

`BlockchainProofs` is about the specification. The inductive invariant is

    IInv == TypeOK /\ IndexesConsistent /\ TrueLeaf(principal, blocks)

The properties alone are not inductive: that the principal block stays a leaf
needs that the tree is rooted and that all branches obey the rule at every
height, because a fork may attach anywhere. From `IInv` follow type correctness,
the consistency of the indexes, `PrincipalIsLeaf`, `LowestPrioritySibling`,
`OrderIrrelevant`, the action property `RollbackIsFinal`, and that `Blockchain`
implements `ForkChoice`. `StepRule` says that the four ways to add a block are
one: store it, and let `NewPrincipal` choose.

The only assumption is `BlockAssumption`: blocks are non-empty paths of headers
and priorities are numbers.

### Loops

Several handlers go through a list: the records of a block, the blocks of a
branch, the transactions that return to the pool. They are recursive functions of
the number of the pass, and what such a function computes in the end is a
statement by induction. `BlockTreeProofs` derives what is needed from the least
number of a set instead: `LoopRuns` (a loop with a base and a function for each
pass has values, and they are the ones that the definition gives), `SameLoop` (two
loops that start alike and step alike are alike) and `LoopInvariant` (a set that
has the base and is closed under every pass has all values).

### NodeProofs

    IInv == TypeOK /\ NodesSound /\ OwnStored

Handlers are operators on a local state, so most of the work is about local
states. `Sound` says that the stored blocks are a rooted tree with the principal
block as a true leaf and that own blocks have different parents, so that with the
lottery no siblings tie (`SoundTree`); every operator that a handler is made of keeps it, and the loops of
`ReceiveBranch` and `pool_add_all` do because each pass does. `Producing` is
`StakerKeepsTimer` for a local state. What ties nodes together is `OwnStored`: a
block is stored by its creator, wherever else it is. Without it a node might be
handed a block of its own that it has forgotten, and the look at its child list
before it builds would miss it. From `IInv` follow `TypeOK`,
`PrincipalIsTrueLeaf`, `OneBlockPerParent`, `SameBlocksSamePrincipal` (with
`UniqueTrueLeaf`) and `StakerKeepsTimer`, for any number of nodes, any links, any
number of lost connections, every staking rule and every bound on the height.

Assumed are `BoundAssumption`, `BasesAssumption` (a common branch to start with is a
branch that the nodes have agreed on) and, as a hypothesis of the theorems,
`Lottery(Block)`: two keys that build on one parent draw different numbers. It is
the fairness of sortition, a hash of 64 bytes. It is a hypothesis and not an
assumption of the module since it speaks of infinitely many blocks;
`LotteryAssumption` of `MCNode` checks it for the blocks that the instance can build
without a transaction.

### GossipProofs

`Remembered` says of a message on its way to a node that has had it that the
history still holds its guid. It is not inductive: it does not say what the oldest
entry of a full history is, which the next event drops. The inductive invariant says of
every node that whatever is in the window and was seen is in its history, and that its
entries can be given the events they stand for (`Tags`), all of them different, none
a window older than an entry behind it, with null guids standing for direct messages; and of every
message on its way that its event is in the window. When a full history drops its
oldest entry, that entry is out of the window: otherwise the entries would stand
for `2 * Window` different events in fewer than `2 * Window` numbers
(`OldestIsGone`, a pigeonhole argument with `FiniteSetTheorems`). Assumed are
`LinksAssumption` and `WindowAssumption`; the latter is described under Gossip above.

### StructuresProofs

Three objects that do not touch each other, each with theorems about its own
specification; the comparison `Rank` of the heap is a parameter.

The map. A bucket is a list, and lists have an order that the dictionary does not. `List`
says that no two entries of a bucket have keys of one name; of such a list, what
`list_find` returns depends only on the set of its entries, and the lemmas about
`list_add`, `list_remove` and the replacement of an entry say what they do to that
set. The inductive invariant adds that every entry is in the bucket of its name and
that the keys of all entries are the keys allocated. `KeysOwned` follows, and so does
the refinement: every call maps to the call of `Dictionary` with the same reply,
`map_destroy` to emptying it. Only `MapAssumption` is needed: there is a bucket, hashes
are numbers, `NULL` is no value.

The heap. Its invariant `HeapInv` is that no element is smaller than its parent and that
the array has room. While `shift_up` runs the array is ordered except that the moving
element may be smaller than its parent (`OrderedBut`, `MayRise`), while `shift_down` runs
except that it may be larger than a child (`MaySink`); what both need besides is that the
parent of the moving element is no larger than its children. Each pass keeps this and either ends the loop
or moves the index strictly up or down (`StepUp`, `StepDown`), so that the passes that
the loop is given are enough (`ShiftUp`, `ShiftDown`). `move_to_top` makes no comparison:
every element on the way is handed down by one place, so what is below stays ordered
and only the top is wrong, and that is the element that is popped (`MoveToTop`,
`HandedOn`). A swap keeps the number of each element (`Swaps`), so the bag of
`PriorityQueue` loses exactly the element of the reply, and the first element of an
ordered array is a least one (`RootIsLeast`). `HeapAssumption` has only types.

The merkle root. Of two rows of one length, the level above determines the row, because hashes
are collision-free, also where the last hash of an odd row is carried up as it is
(`NextLevelInjective`); so the root determines the list once its length is known, which
is why the header has the number of transactions as well (`RootInjective`, `RootCommits`).
That the root is that of the tree from the top needs that levels respect the cut: where
`Split` cuts a row, the level above is cut by `Split` in the same place, and its parts are the levels
above the parts (`SplitOfHalf`, `NextOfParts`). Hence the root of a row is the pair of the roots of its
parts (`RootOfParts`), and by induction on the length the tree's (`RootIsTree`). `BodyAssumption` says
that the bound on the list is a natural number.

`StructuresAssumption` of `Structures` joins `HeapAssumption` and `BodyAssumption`, so that TLC
evaluates them for the instance that is run.

### PeersProofs

The properties need each other. A node is not told its own address because its
request is answered after its handshake, when the other end knows who it is; a
handshake comes first in an inbox and only once (`Mail`); a connection is closed for a
double and not because of its own other end, because no node connects to itself. So
the inductive invariant is their conjunction: `TypeOK`, `NoSelfConnection`, `Sole`
(of two handshaken ends to one address not both are in the list), and for each end
`Mail` and `ClosedForDouble`, and `OneVersion`: an end that has shaken hands and is open
faces a node of its own version. With the first handshake accounted for by `Mail`,
`SettledIsUsable` follows without looking at every message: at rest nothing waits, so an
open end cannot still lack its handshake (`QuietIsUsable`). `PeersAssumption`: servers listen, and no node is told at
its start to connect to itself (`main/main.c` 565-572 takes the address from the
command line; told its own, it would).

### LedgerProofs

    IInv == TypeOK /\ RecordsMatchBranch /\ Recorded /\ Chained

`Recorded` says that a block has a record of exactly the accounts that it touches,
`Chained` that `prev` is the newest record below the block; both are needed to follow
the chain of an account to its first block. `RecordsMatchBranch` compares a loop with
a sum: the invariant of the loop is that after every pass the record that an account
has, or would be given (`RecordIn`), is congruent to the value below the block
and the sum so far. The code takes the remainder after every addition, the sum takes
it in the end; `RemainderOfSum` says that this is the same. `AccountAge` is by
the loop of `FirstRecord` along `prev` (`ChainEnds`), and `CreatedIsAccepted` by the bounds of
`Delegates` in 32 bits. `StakingByBranch` says that `is_staking_allowed` on the records
and `StakingAllowed` on the branch, which `Node` uses, are one rule.

`SupplyConserved` is a sum over the set of keys. `EverySubset` does for sets what
`LeastNumber` does for numbers: a set of sets that has the empty one, and a set
whenever it has that set without its chosen member, has every subset. With it
`Total` is a sum (`TotalsExist`) and the fold that the property is written with
(`FoldIsTotal`), and it is additive. `TotalOfLoops` sums the accounts pass by pass: a
transfer adds zero, so a block makes one coinbase (`BlockMints`) and a branch one for
each block (`BranchMints`).

`LedgerAssumption` has only types: rewards, widths and amounts are natural numbers,
widths and units are not zero, and the set of keys is finite.

### StreamProofs

The messages of `Framing`:

    IInv == Shape /\ Pending /\ InOnePiece /\ Past

The properties speak of what was handled; the invariant must say what can still come.
`Pending` looks at the buffer followed by the stream as one line of bytes. It has bytes
of messages and zeros (`Proper`); they are in the order in which they were sent and no closer to each
other than they were (`Spaced`); a byte is still followed by the one sent behind it, unless `gaps` has
that one (`Linked`); the messages to come begin on it, except those with a torn magic number
(`Awaits`); and without gaps it begins with a message (`Unbroken`). A read inserts the
zeros of a buffer that it did not fill (`InsertZeros`) and the loop drops bytes at the front
(`DropLine`), and neither disturbs a line. Hence the first magic number
that the search finds is that of the next message that is not torn there (`FirstMagic`, also
for the search through the memory behind the buffer), and the length read from
it is no larger than the one sent, since it lacks only what was replaced by zeros
(`LengthOfFound`); so what is handled never reaches the next message (`FoundBytes`), and what is
damaged is torn (`DamagedIsTorn`). `FullReadsAreSafe` is a part of the invariant: without
gaps the buffer begins with a message or, if it is empty, the memory behind it does. That the
line is right at the start is an induction over the messages that
`FlattenSeq` puts end to end (`FlattenAppends`, `MessageBegun`).

The theorems hold for every number and length of messages, every size of the buffers of
libuv and all reads. `FramingAssumption` has types, and that a buffer of libuv has room
for a header, as its 64 KB have.

The requests of `Http`: `WholeRequestIsAnswered` says that the handlers find what the
patterns ask for when whole urls are compared. That is a statement about every url,
and the patterns are short and fixed, so the proof goes along them: the table of
`resolve_pattern` exists because its last row needs no other (`TableExists`), and each
row follows from the one below by the rule of `MatchFrom` for that character
(`MatchEnd`, `MatchLastSlash`, `MatchChar`, `MatchWildcard`). The row of the
wildcard takes the text up to the next slash (`WordEnds`) if that does not begin with a colon
(`MatchWildcard`, `MatchColon`), and no other text without a
slash fits the url (`OneFits`), so that both sides find the same parameter, or the code
finds none (`Expected`, `AnswerIsRight`). Whatever follows a request in the buffer, the end of its header is
found and its url is the second word (`RequestHandled`). The invariant `HttpInv` says
that until the first read the buffer is empty and the stream begins with the first
request. `HttpAssumption` says what a request is; every url without the character that ends a
string is one.

### Model-checked only

* `Joined` of `Peers`. It is not true for all values of the constants: it depends on
  `Seeds`, as the ring of three nodes above shows, so a theorem would need a hypothesis on
  how the nodes joined and an induction over the order in which they did. With three
  nodes that join one another the run is complete, since the bound on connections is
  never reached; four nodes were simulated at random (ten million states) without a
  counterexample.
* `RoundTrip` of `Tuple`: reading back what was written is an induction over nested data,
  and the format is written with recursive operators, which modules with theorems cannot use.
* Liveness (`Converges`, `Settles`, `AllHandled`, `WrittenIsParsed`, `Delivered`),
  which is beyond the prover.

## Plan

Done: all modules of the table above; the proofs of `BlockTreeProofs`,
`BlockchainProofs`, `NodeProofs`, `GossipProofs`, `StructuresProofs`, `PeersProofs`,
`LedgerProofs` and `StreamProofs`. To come, in this order:

1. `Ownership`: which object frees a transaction that is rolled back.
2. A chain on which no key may stake: liveness with a small waiting period.
3. `Joined` of `Peers` as a theorem, for nodes that join one after the other.

## Not modelled

Cryptography (hashes are taken to be collision-free, signatures unforgeable,
the random function fair and verifiable), timestamps, JSON, the command
line apart from the send command, settings, the stand-alone program
`main/blockchaindb.c`, and memory management.
