# A verification of ddsn

ddsn is a distributed data store: peers divide the space of block codes among
themselves, a block is stored at the peer whose code is a prefix of its code,
and a peer that has too many blocks gives half of its code to a newcomer. This
directory holds TLA+ models of that program, the configurations that check them
with TLC, and theorems about them that TLAPS proves.

## The system and its parts

| part | state | operations | modelled in |
|---|---|---|---|
| code (code.cpp) | packed bits, a number of layers | contains, differing_layer, resize_layers, set_layer_code, equality, hash, printing | `Codes`, as sequences of bits; `PackedCodes`, as bytes |
| block (block.cpp) | name, owner, occurrence, data, signature, code; a file | save, load, delete, seal, verify | `BlockHandlers`, `LookupHandlers` (a block is its code and a version) |
| foreign_peer | id, key, host, port, queued, identity_verified, integrated, in and out layer, connection, verification number | setters, connected() | `PeerState`, `MembershipHandlers` |
| local_peer | code, integrated, splitting, mentor, foreign_peers, stored_blocks, store_actions, load_actions, capacity | store, load, redistribute_block, do_store_actions, do_load_actions, connect, add_foreign_peer, out_peer, connected_queued_peer | `PeerState`, `BlockHandlers`, `LookupHandlers`, `MembershipHandlers` |
| peer_server | the acceptor | accept a connection, for ever | `MembershipHandlers` |
| peer_connection | socket, attached foreign_peer, introduced, got_welcome, the message being read, receive and send buffer | start, send, handle_read, handle_write, close | `PeerState`, `Ddsn`, `ReceiveBuffer`, `SendBuffer`, `PeerSession` |
| peer_messages | the state of a message being parsed | 13 messages: first_action, feed, send | what they do: `MembershipHandlers`, `BlockHandlers`, `LookupHandlers`; how they are written and read: `PeerSession` |
| api_messages | the same for clients | HELLO, PING, STORE FILE, LOAD FILE, CONNECT PEER, PEER INFO | `ApiSession`; STORE FILE, LOAD FILE, CONNECT PEER in `Ddsn` |
| api_connection, api_server | a client's session, its buffers; the list of connections | password, requests, late answers, close, broadcast | `ApiSession` (no broadcast) |
| peer_id, utilities | an id; conversions | equality, hash; next_power, hex, hash of a key | ids are model values; next_power in the buffers |
| ddsn.cpp | the objects above | options, one `io_service.run()` | `Ddsn` |

How they interact. Every process has one thread: the io_service runs completion
handlers one at a time. So within a process there is no preemption, but what a
handler leaves for later (an answer in `store_actions_`, a flag such as
`splitting_`, a foreign_peer that may be attached to another connection by
then) meets whatever other handlers have done in the meantime. Between
processes everything is a message on a TCP connection, in order on one
connection and in any order on two. foreign_peer objects are shared between the
map of the local_peer and the connections, which is where most of the
difficulty is: `close()` of one connection changes the object that another may
be using.

A life of a network: a founder (`--integrated`) starts with the empty code. A
client of another process asks it to connect (CONNECT PEER). HELLO, PROVE
IDENTITY, VERIFY IDENTITY and WELCOME go both ways, and each side adds the
other to its foreign peers. When the founder has more blocks than its capacity it
sends SET CODE with its code and a trailing 1; the newcomer answers GET CODE,
upon which the founder takes its own code with a trailing 0 and introduces the
peers of the layers below (INTRODUCE PEER, CONNECT IN). A newcomer that has all
of them is integrated and says so (INTEGRATED), and the founder redistributes
the blocks of the other half, one at a time: STORE BLOCK, STORED BLOCK, delete,
next. A lookup (LOAD FILE) that is for another peer's half goes there as LOAD
BLOCK, perhaps through several peers, and DELIVER BLOCK comes back the same way.

What is hard in it: the interleavings of joins, splits and stores; duplicate
requests to join; state that is not initialised or never reset; null pointers
where a peer has no out peer or no mentor; connections that break in the middle of a
handshake or a redistribution; index arithmetic of buffers that are moved,
doubled and enlarged, one of them while a write is reading from it; messages whose
parts have no marks at their ends; memory of codes that is not cleared.
`PROJECT.json` lists the hazards at their lines.

What makes each part correct:

- the network as a whole divides the blocks among its peers and keeps to the rules
  of that (`ImplementsAreas`): every block has one owner (`OneOwner`) and a routing
  table entry leads towards it (`RoutingTable`);
- membership: no null pointer is followed (`NoCrash`), who is known by an id
  has proved it and is reached under it (`KnownReached`), who is given a code becomes integrated
  (`JoinerIntegrated`), a split ends (`SplitEnds`);
- blocks: no block is lost (`NoBlockLost`), copies are deleted only after the
  answer (`KeptUntilAnswered`), the index agrees with the files
  (`IndexMatchesDisk`), every block ends at its owner and nowhere else
  (`Placed`), a lookup in a quiet network finds it there (`LookupFinds`), every
  client is answered (`StoreAnswered`, `LoadAnswered`);
- codes in bytes are the codes they stand for (`Represents`), and equality, hash and
  prefix test agree with that (`EqualIffSame`, `EqualHash`, `PrefixAgrees`);
- a connection between peers: the receiver stays in step with what is sent
  (`InStep`), understands it (`Understood`) and acts on all of it (`AllActedOn`),
  and on nothing after one that it refuses (`NothingAfterRefusal`);
- the receive buffer: no write behind it (`NoOverrun`), no byte lost
  (`NothingLost`), no connection closed for a line within the limit
  (`LinesAccepted`), no waiting for ever (`AllFed`);
- the send buffer: bytes go out in order and once (`SendsInOrder`), all of them
  (`AllSent`), as there is always a write going on for them (`WriteWhileData`);
- a client's session: nothing without the password (`OnlyAfterHello`), files as
  they were sent (`FilesWhole`), one answer to each request (`RequestsAnswered`),
  no closed connection left in the list (`ClosedForgotten`).

## The modules

| module | what it is |
|---|---|
| `Codes` | codes as sequences of bits: prefix test, first difference, growth by one layer |
| `PeerState` | constants, all variables of a network, their types, the initial state, sending on and closing a connection |
| `BlockHandlers` | store, do_store_actions, redistribute_block, STORE BLOCK, STORED BLOCK |
| `LookupHandlers` | load, do_load_actions, LOAD BLOCK, DELIVER BLOCK |
| `MembershipHandlers` | connect, add_foreign_peer, the handshake, SET CODE, GET CODE, INTRODUCE PEER, CONNECT IN, INTEGRATED |
| `Ddsn` | the whole network: all handlers, clients, failures; the specification and its fairness |
| `Areas` | the abstract specification of a network: areas of blocks, taken and given up, and copies |
| `DdsnProperties` | the properties of a network, with `Ddsn` as an implementation of `Areas` |
| `MCDdsn` | instances of `Ddsn` for TLC: peers, blocks, programs of client requests |
| `PackedCodes` | codes in memory, with `Codes` as their reference |
| `Lines` | the items of a stream of messages: lines, fields, runs of bytes |
| `PeerSession`, `MCPeerSession` | how the messages of one direction of a connection are written and taken apart |
| `ApiSession`, `MCApiSession` | the session of a client |
| `ReceiveBuffer`, `MCReceiveBuffer` | the receive buffer of a connection |
| `ByteChannel` | the abstract specification of sending: a channel that keeps bytes in order |
| `SendBuffer`, `MCSendBuffer` | the send buffer of a connection, an implementation of `ByteChannel` |
| `Ddsn_proofs` | the network: type correctness, the index matches the files, foreign peers are who they are said to be and are reached, copies are kept until the answer, the codes leave out no block |
| `Areas_proofs` | what the abstract specification of a network promises |
| `PackedCodes_proofs` | codes in memory are the codes they stand for |
| `PeerSession_proofs` | the receiver of a peer's messages understands what was sent |
| `ApiSession_proofs` | the session of a client: password and files |
| `ReceiveBuffer_proofs` | the receive buffer: no overrun, no line refused, no byte lost |
| `SendBuffer_proofs` | the send buffer's invariant and its refinement of `ByteChannel` |
| `DataLemmas` | facts for the other proofs: least elements, division, values computed step by step, sequences put together from parts |

How the modules depend on each other: `Ddsn` extends the three modules of
handlers, each of which extends `PeerState`, which extends `Codes`. The other
modules stand for themselves: a connection in `Ddsn` delivers whole messages in
order, and `PeerSession`, `ReceiveBuffer` and `SendBuffer` are why it may. The buffer
modules stand for peer_connection.cpp and api_connection.cpp both, whose code is
the same.

How the model corresponds to the code:

- A connection `c` has two ends `<<c, "out">>` (the process that connected) and
  `<<c, "in">>`. Each end comes with the foreign_peer object that the code
  creates for it; objects are named after ends. `conn[e].att` is
  `peer_connection::foreign_peer_`, `fp[f].conn` is
  `foreign_peer::peer_connection_`; the code keeps these two pointers
  separately and so does the model. INTRODUCE PEER, which creates an object before its
  connection, uses the object of the connection it opens.
- What happens in a behaviour is its `program`, one of `Program`: the clients'
  requests, how many faults there may be, and the values `splitting_` may begin
  with, as the constructor does not initialise it. A request says itself when
  it may be made: after `"anything"`, when no handshake is going on
  (`"handshakes"`), or when everything is `"quiet"`.
- `inbox[e]` are the complete messages on the way to e. An action `Handle...(e)` is
  everything the code does from the first line of a message to its end,
  including the calls into local_peer and the messages these send.
- Several calls in one handler that each make choices of their own (the
  occurrences of a STORE FILE, the actions of do_store_actions, the layers of
  GET CODE) are steps `Run...(p)` of their own, listed in `todo[p]`; no other
  handler of p runs until the list is empty, as in the code. do_store_actions
  erases each entry after running it; here all entries of the block leave the list
  first, which no action can tell: what an action adds to the list is for
  another block.
- What `out_peer`, `connected_queued_peer` and `redistribute_block` pick is the
  first match in the order of a hash table: any match, here.
- A null pointer that is followed stops the process (`up`); `NoCrash` says it
  never happens.
- Hosts and ports are the processes, keys are the ids. Every peer has
  and sends its own key. A signature may be refused all the same (`RefuseIdentity`),
  since a later HELLO replaces the number that was to be signed; the number itself
  is not a field. A block that redistribution could not load travels without content
  and is refused by verify(), or crashes the peer in it, having no owner
  (`RefuseStoreBlock`). A delivered block has been verified by who loaded it. HELLO acts on its fields one by one; here
  the message acts as a whole, its parts arriving together.
- A write completes at once and is in order; only on a closed socket it fails
  (`WRITE ERROR`), which handle_write hears of in a step of its own and closes the
  connection a second time. A read that completed before handle_write closed the
  connection would still be handled; that is modelled in `ApiSession` and left
  out here.
- do_load_actions calls the answers of every lookup of a block at the first
  DELIVER BLOCK for it, and erases them; one entry of `todo` (`"deliver"`) for each.
- Failures are counted by `faults`, which begins with what the program allows: a connection breaks (`Reset`), is refused
  (`ConnectFails`) or its host is not resolved (`HostUnknown`), a file cannot
  be opened when it is saved (`StoreFailed`), looked up (`LoadFailed`) or redistributed
  (the last case of `RedistributeBlock`, where the code does not look at the result and
  sends the block all the same), a signature does not fit (`RefuseIdentity`). A connection whose other side is closed or gone
  fails without a count (`ReadError`).

`Areas` has two variables: the blocks each peer is responsible for, and those it
has copies of. `Ddsn` maps to it by the blocks that a peer's code contains (for a
peer that runs and has a code or is the founder) and by the files on its disk.
SET CODE is `Take`, GET CODE `Yield`, a save in store() `Save`, the deletion in
action_peer_stored_block `GiveAway`, and everything else changes neither.

`PackedCodes` keeps, for two code objects, the layers and the bits in memory next to
the code they stand for. An allocation takes any values for the bits that are
not set. Memory that is too short for what is written to it is a state of the model:
`overrun` then says what has written behind it, growing (`"grown"`) or the cutting of a code
(`"cut"`), and nothing more is done, as what the program does from there is undefined.
Equality is operator==, byte by byte and then layer by layer; the
hash is given by what it is computed of.

`PeerSession` is one direction of a connection. A message is sent as what `send()`
writes: lines with a name and a value, blank lines, runs of bytes with a length.
The receiver has the variables of handle_read and of a message (`state_`, the
fields); it takes a line where it looks for one, or as many bytes as it expects.
A field keeps its value as a number, so that a value that ended up in the wrong
message is seen. Whether a HELLO, a signature, a block or a code is accepted is a choice. What a message does when it has been read is in the handlers of
`Ddsn`; here it is only recorded (`acted`).

`ApiSession` is the same for the requests of a client, with the connection around
it: reads and writes complete and are handled in steps of their own, and late
answers, closes and integration may come in between.

`SendBuffer` is `send`, `handle_write` and `close` of one connection. Bytes are
numbered. A write that is waiting keeps the position in memory it was given;
`Take` is the network taking bytes from there, whenever it has room, and what
it takes is what is in that memory then. `moved` says that send() has
moved or freed the memory of a waiting write, from where on nothing is promised:
the model goes on with the bytes that are in that place, or with any for freed memory.

`ReceiveBuffer` is `handle_read` for one connection. The stream is a sequence
of items, lines or announced runs of bytes, of which only the lengths matter.
`Received` is the completion of a read with any number of the bytes asked for,
`Feed` one round of the loop, and `ReadOn`, `Double`, `Shift`, `Enlarge` and
`ChunkTooLong` the ways out of it. The program reads `read_bytes_` in
arithmetic whose result it does not use when a line is expected; so
`BytesToRead` matters for runs of bytes only.

## What is checked

| run | states | shows |
|---|---|---|
| `MCNetwork` | 28,058 | four programs without failures, in every interleaving: J joins M while clients of both store; J joins M while clients store and look up; J, then K one layer deeper and introduced to J, while clients store; the same with lookups. `OneOwner`, `RoutingTable`, `NoCrash`, `Placed`, `ImplementsAreas`, `LookupFinds`, and with fairness `SplitEnds`, `JoinerIntegrated`, `StoreAnswered`, `LoadAnswered` |
| `MCFaults` | 336,358 | J asked twice to join M, with impatient clients; J joins while clients look up, and three peers of which K is connected to J before it is introduced, each with a failure anywhere: `TypeOK`, `IndexMatchesDisk`, `KeptUntilAnswered`, `KnownReached`, `NoBlockLost` |
| `MCReceiveBuffer` | 86,630 | `TypeOK`, `NoOverrun`, `NothingLost`, `LinesAccepted`, `AllFed` |
| `MCSendBuffer` | 155,800 | `TypeOK`, `NoOverrun`, `WriteWhileData`, `SendsInOrder`, `AllSent` |
| `MCPackedCodes` | 82,881 | `TypeOK`, `Represents`, `EqualIffSame`, `EqualHash`, `PrefixAgrees` |
| `MCPeerSession` | 4,046 | `TypeOK`, `Understood`, `InStep`, `NothingAfterRefusal`, `AllActedOn` |
| `MCApiSession` | 60,569 | `TypeOK`, `OnlyAfterHello`, `FilesWhole`, `ClosedForgotten`, `RequestsAnswered` |

Five more runs show where a comment of the code says more than the code does;
each has the counterexample of one property:

- `MCSplitTwice`, `NoSplitWhileSplitting`: store() splits only when "we are not splitting right now"
  (local_peer.cpp:145), add_foreign_peer splits anyway (342). A peer that is welcomed during a split is
  offered the half that another has already been given.
- `MCConnectTwice`, `OneConnectionPerPeer`: "and I'm already connected to you!"
  (peer_messages.cpp:128) is looked up in foreign_peers_, where a peer enters
  after the handshake only; two handshakes at once both succeed.
- `MCAcquainted`, `IntroducedPeersArrive`: a joiner waits "for peers to be introduced"
  (peer_messages.cpp:442), but the introduction of a peer it is connected to
  already (619) does not look whether the wait is over.
- `MCReceiveSpace`, `SpaceAtTheEnd`: the data is shifted "to create space at the
  end" (peer_connection.cpp:255), and for runs of bytes between the size of the
  buffer and twice that there may be none. The next read completes with no
  bytes and the connection is closed; `AllFed` says that this, at least, is how it ends.
- `MCSendWait`, `WaitingWriteIntact`: what is between the two indices of the send
  buffer is "data still to be sent" (peer_connection.cpp:81), and send() moves it (93) or deletes
  its memory (102) although a pending write reads from there. `SendsInOrder` is
  what holds up to that moment.

Each property of each passing run has a mutant in `PROJECT.json`: a change of one
definition, of the kind a mistake in the code would be, under which TLC finds
the property violated. The mutants' definitions stand before the ones they
change, marked MUTANT.

Bounds, and why they are enough:

- Peers: M founds, J and K join. Two splits are what it takes for a code of two
  layers, an introduction, and a routing table with two entries. `Capacity` of M
  is one block, so that the second one splits; the others never split.
- `CodeLayers = 2`: a block for every code a peer can get. Blocks: all four, or
  three where nobody gets a code of two layers.
- `Program`: the clients' requests, each made once, in any order and at any time
  its `after` allows. A real STORE FILE makes four occurrences; the instances
  make one or two. With two peers requests are made at any time. With three,
  peers join when everything is quiet and clients of `JoinInTurn` store when no
  handshake is going on, because with impatient clients its properties do not
  hold: storing during a handshake is how a mentor comes to split twice
  (`MCSplitTwice`). The lookups of `JoinAndLookUp` come when everything is quiet,
  in every order with the joins and stores, which is what `LookupFinds` is
  about; those of `JoinWhileLookingUp` come at any time.
- `MaxConn` bounds the connections opened. Deadlock is checked, and the only
  step of a settled network is `Idle`: were the bound ever in the way of a
  handler, TLC would report a deadlock.
- One fault, in three peers with four connections, in every state.
- `MCReceiveBuffer` is the buffer at a 32nd of its size, with a smaller slack:
  8 bytes at first, lines up to 16, runs up to 32, and items just below, at
  and above each of these limits. Three items, as it takes one to enlarge the
  buffer, one to leave a rest in it and one to suffer from that. Deadlock is
  not checked: a stream ends, as do what `SendBuffer` is given (`MaxGiven`) and the
  sessions.
- `MCSendBuffer` is a buffer of four bytes that grows to sixteen, with sends of one,
  two, three and five bytes, ten in all: enough to fill it exactly, to shift and
  to enlarge it with and without a write that waits, and to go on after that.
- `MCPackedCodes` has bytes of four bits and digits of two layers, codes of up to
  five layers: the ends of a digit and of a byte, and one behind. One behind is where the
  memory of a code in CONNECT IN is too short: a code without layers that is resized to more than
  one byte gets no memory for them, since `layers_ - 1` is then a large
  number (code.cpp:109). The run reaches that state and `Represents` excludes what comes
  after it, so that it does not say that CONNECT IN is right: with nine
  layers of splits, and codes have up to 256, it is not. What it says without exception
  is that growing layer by layer, which is how peers get their codes, never
  writes behind the memory.
- `MCPeerSession` sends every pair of the thirteen messages, with and without
  success and data: what one message leaves behind can only disturb the next.
- `MCApiSession`: every request first, and pairs after HELLO; files of one or two chunks, one of
  them empty, one larger than `MaxFileSize`.

Where the properties end. Some of the conditions above are needed, and are worth
knowing to whoever changes the code:

- With clients that store during a handshake `JoinInTurn` breaks `OneOwner`,
  `Placed` and `NoCrash`: two newcomers get the same half, or a newcomer
  that is waiting to be introduced gets a second code from the peer it is introduced to.
- With faults `NoCrash` does not hold: an integrated peer whose only out peer of
  a layer has lost its connection follows a null pointer at the next block it
  has to pass on (local_peer.cpp:167-171). `MCFaults` goes on after such a
  crash: the process runs no handler any more, its files remain, and the others
  find its connections closed.
- `StoreAnswered` and `LoadAnswered` excuse a block while some peer has a code and is
  not integrated yet: that peer drops STORE BLOCK and LOAD BLOCK without an
  answer.
- During a redistribution a lookup may be answered "not found" for a block that is
  on its way, so `LookupFinds` is for clients that ask when everything is quiet.

Fairness. In `Ddsn` the io_service of each process is weakly fair: as long as a
process has a handler that runs or one that is ready, it does something
(`Work(p)`). Nothing is said of which handler it picks, and clients and faults have
no fairness. The programs of `MCNetwork` have no faults: with one, a connection that
is lost in a redistribution ends it for good, and the code has no timeouts or
retries that would take it up again. A founder that begins with `splitting_` set
never ends a split it never began; `SplitEnds` is about offers, so it holds for
those as well. In `SendBuffer` the other side reads in the end and handle_write
is run; in `ReceiveBuffer` and `PeerSession` what is sent arrives; in
`ApiSession` every completed operation is handled, other peers answer, and the
client may stay or go.

The two refinements. `ImplementsAreas` is `Areas!Spec` with areas and copies read off
a network's state: it relates any two states of a step, where `OneOwner` looks at one. A second
split of the same half, an area given up that nobody has taken, a block saved
outside its area or a copy deleted before there is another are no steps of
`Areas`. `SendsInOrder` is `ByteChannel!Spec` with `broken` for the first move of
a waiting write's memory.

## What is proved

For every set of peers and blocks, every capacity, every number of connections,
requests and faults, every width of a byte, every size of a buffer and every
sequence of messages or requests. The assumptions on constants are named in the
modules that declare them:

- `CodeLayersAssumption`, `ConstantsAssumption`: the constants are of their kinds,
  and a null pointer is no object;
- `BufferAssumption`, `SendAssumption`: powers of two are powers of two, and
  memory nobody has written to holds no number of a byte;
- `PackedAssumption`: widths are not zero;
- `SessionAssumption`, `ScriptsAssumption`: what is sent are messages or
  requests, and `None` is not the name of one.

- `Ddsn_proofs`: `TypeCorrect` (`Spec => []TypeOK`) and `IndexCorrect`
  (`Spec => []IndexMatchesDisk`). The invariant is
  `TypeInv == TypeOK /\ Owned /\ Identified /\ IndexMatchesDisk`. `Owned` (an
  end in use has a process) and `Identified` (a foreign peer in the map has an
  id) are what handlers rely on when they follow a connection to its process,
  or put the id of an out peer into INTRODUCE PEER. With `IndexMatchesDisk` a block whose file
  is there can be missing in a STORE BLOCK only if the opening failed; such a
  STORE BLOCK is refused, and so no file is ever without content.
- There too: `KnownCorrect` (`Spec => []KnownReached`). A peer verifies whoever is
  at the other end of a connection, but the map leads from an id to an object, and from there
  to a connection, and objects outlive connections, are shared by them, lose them to whichever
  closes first and are given their id by HELLO, before anything is proved.
  `KnownInv` therefore says who is at the
  other end: every HELLO on the way names its sender (`HelloFrom`), the object
  attached to an open connection is called like the peer there or is new and
  came with that very end (`AttachedRight`), and an unused end has an object
  that nothing else refers to (`UnusedEnds`). So HELLO cannot rename an object
  that is in a map. `OwnersRight` says that the connections, the objects attached to them and
  the objects in a map are all of one process, and `LinksRight` that the
  connection of an object leads to the peer the object is called after, and has not
  ended if the object is the one attached to it: close() takes the connection from that one.
  (An object that a HELLO was attached away from keeps its connection when that is closed,
  which is why `KnownReached` asks for `conn[e].att = f`.) Most actions are `Calm` (no
  identity changes, nothing is
  attached or opened, no HELLO is wrong) and share one lemma; HELLO, the two
  additions to the map and connecting have their own. `OwnersKept`, that a
  connection keeps its process, comes out of each and is what the proofs about codes use.
- And `KeptCorrect` (`Spec => []KeptUntilAnswered`). The property is
  not inductive, since an answer that is about to run deletes a block as well. The
  invariant `KeptInv` adds that all answers that a handler has still to run are about one
  block (`OneAnswered`), and that no redistribution of that block is awaited
  any more (`NoneLeft`), as do_store_actions has taken out all of them. The
  redistribution that an answer starts is of another block, being the first
  misplaced one after the answered block has been erased.
- There too, of the codes: `CodesCoverBlocks` (`BlocksCovered`: the codes leave out no block)
  and from it `NetworkCovered` (`A!Covered`, what `Areas` says of the peers' areas). A mentor
  gives half of its code away in two steps, SET CODE to the joiner and GET CODE
  back, between which it may split again, and GET CODE checks the length of the code
  only (peer_messages.cpp:502). `SplitInv` says that a code on the way is the upper half of one
  its mentor has or once had (`HalfOf`); that with GET CODE that half is taken: every
  block of it belongs to a peer whose code is at least as long (`HalfTaken`), which the
  joiner need not be any more; and that who has a mentor got its code there (`MentorsRight`).
  That connections and objects belong together, so that GET CODE goes back to whom SET CODE
  came from, is `KnownInv`.
  The hypothesis is `OnlyFirstCodes`: SET CODE overwrites no code with another. The
  handler does not see to that (peer_messages.cpp:427), and a peer that joins at two
  mentors is where it fails. Lost connections, crashes and second splits of the
  same half are no hypotheses of `CodesCoverBlocks`; `NetworkCovered` has `NoCrash`, since a peer that is gone
  has no area.
- `Areas_proofs`: `AreasCovered`, of the abstract specification
  `Areas`. If one peer was started with --integrated there is a peer for every
  block at any time (`Spec => []Covered`), since what a peer yields another has
  taken. `ImplementsAreas` carries it over to the network, for
  the programs of `MCNetwork`.
- `ReceiveBuffer_proofs`: `NeverOverrun` (`Spec => []NoOverrun`),
  `LinesAlwaysAccepted` (`Spec => []LinesAccepted`), `ReceiveTypeCorrect` (`Spec => []TypeOK`)
  and `NothingEverLost` (`Spec => []NothingLost`), for all sizes of the buffer
  and all streams. The first three come from one invariant, which adds two facts: the size is
  a power of two while the connection is open, so that doubling the buffer does not
  step over the limit of a line, and there is space for every read that
  waits for the end of a line (`SpaceForLine`; `SpaceAtTheEnd` without the
  exception for runs of bytes is what `MCReceiveSpace` refutes).
  `NothingLost` is about the sum of the lengths of all items. A sum is a recursive function,
  of which the provers know nothing; `Steps` (in `DataLemmas`) is a
  function of partial results, which exists and is unique for every sequence, and gives what
  is needed: the sum of no items, and that of a sequence in terms of its tail.
- `SendBuffer_proofs`: `SendNeverOverruns` (`Spec => []NoOverrun`), `SendTypeCorrect` (`Spec => []TypeOK`), `DataIsWritten`
  (`Spec => []WriteWhileData`) and `SendImplementsChannel` (`Spec => SendsInOrder`), for all
  sizes and all sequences of sends, writes, failures and closes. The invariant
  `SendInv` adds to the two that a write is for a part of the data (`WriteOfData`), and
  what is in memory as long as nothing has been moved (`Intact`): the bytes from
  `start` to `end` are the last ones given, in their order, a write that waits
  begins with the first of them, and what the network has taken and what is left
  add up to what was given. From that each step is one of `ByteChannel` or a stutter.
- `PackedCodes_proofs`: `PackedCorrect` (`Spec => []Inv`), and from it
  `PackedTypeCorrect`, `RepresentsCorrect`, `EqualIffSameCorrect`,
  `EqualHashCorrect` and `PrefixAgreesCorrect` for the properties of `MCPackedCodes`. `Inv` says that
  growing has written behind no memory, and, unless cutting has, `AllPacked`:
  an object has the bytes its layers take and no others, and layer by layer
  the memory is the code. There is no assumption on the layers of a cut; from
  the step on in which one writes behind the memory, which the model reaches, the
  theorems say nothing of what is in memory. The last three are about what is computed from such
  memory: operator== compares whole bytes and then the layers of the last one, and the
  proof is that every layer is in one of the two and that neither it nor hash()
  reads a bit behind the last layer. Growth needs that the bytes copied are
  those of the layers there are, by the arithmetic of `\div`, and that a code without layers
  that grows by one has the byte for it.
- `PeerSession_proofs`: `SessionTypeCorrect`, `AllUnderstood`
  (`Spec => []Understood`), `AlwaysInStep` (`Spec => []InStep`) and
  `RefusalIsTheEnd` (`Spec => NothingAfterRefusal`), for messages of all kinds, in any number
  and order and with any values. `SessionInv` says that for some n the first n
  messages have been acted on with their values, and that what is coming begins
  right behind them (`Between`), or at a place within the next one where
  message, `state_`, what is read next and the fields so far are what that
  place calls for (`Within`), or that a GET CODE was refused (`Refused`): the
  connection stays in that message, and the next line, which names the type of a message
  and no field, is not accepted. Whatever else is refused closes the connection. That one message is not taken for another where it has no
  mark at its end is the step from the last place in one message to the first of the
  next.
- `ApiSession_proofs`: `ApiTypeCorrect`, `PasswordFirst` (`Spec => []OnlyAfterHello`)
  and `EveryFileWhole` (`Spec => []FilesWhole`), for every script of requests and
  files of any number and size of chunks. What is in the buffer and what is on the way
  are together one stream (`Stream`), so that it does not matter how reads
  divide it; the invariant, again called `SessionInv`, gives the place in it. For
  STORE FILE the place includes how many chunks have been copied: `pointer`
  is the sum of the chunks before (`Position`), and the file is filled up to there
  and empty behind it. `PasswordGiven` says that a client that has authenticated
  itself said HELLO before anything else and that no later HELLO was wrong, as
  that closes the connection. A closed or refused connection is one that reads nothing more, whatever
  writes and late answers still complete on it.

In each module there is one lemma, or one step of a lemma, per action that
says it preserves the invariant, lemmas for the helpers they share (`Send`, `Close`, `PassOn`,
`AddForeignPeer`), one theorem that puts the cases of `Next` together, and the
temporal theorem at the end.

What is only model-checked:

- `OneOwner`, for the programs of `MCNetwork`. With impatient clients it does not hold, as
  `MCSplitTwice` shows.
- Liveness: `SplitEnds`, `JoinerIntegrated`, `StoreAnswered`, `LoadAnswered`,
  `AllFed`, `AllSent`, `AllActedOn`, `RequestsAnswered`, `ClosedForgotten`. Rules about fairness and ENABLED are out of the
  provers' reach.
- `RoutingTable`, `NoCrash`, `Placed`, `LookupFinds` and
  `ImplementsAreas` hold for the programs of `MCNetwork` and not for all: with
  impatient clients or with faults they break, as said above. A theorem needs an
  invariant that carries what the clients may ask through every handshake.
- `NoBlockLost`: checked in `MCFaults`, where only one peer splits. We do not state it for all constants. With
  several mentors a newcomer can be sent a second code, which replaces the first
  (the hazard at peer_messages.cpp:427), after peers have sent it blocks for the
  first one and deleted theirs; and do_store_actions gives an answer to whoever waits for
  the block, whichever request it answers. What is proved for all
  constants is the part each peer answers for alone: `KeptCorrect`.

## What is not modelled, and why

- Restarts: the program reads back nothing but its key, so a restarted peer is
  a new one that happens to have an old id.
- The verification number of a foreign_peer that two connections share: that a
  signature is refused is a choice in `PeerSession` and one of the failures in the network, so
  the model does not tell when it must be.
- What cutting a code to nine layers or more does after it has written behind the memory
  of the new code: anything may happen.
- A file without chunks: the model has the code for it, and the instances do not send one.
  The program waits for its first chunk, so such a STORE FILE is never answered.
- HELLO's check of a foreign id against the key sets an error, which the end of the
  message overwrites (peer_messages.cpp:186-202). Peers that tell their own id never
  meet it.
- PEER BLOCKS, which create_message does not know, the content of PEER INFO, and
  broadcast, which nobody calls.
- The send buffer of a new api_connection, whose pointer and indices the constructor does
  not set: the model begins with what peer_connection sets.
- Text and formats, keys, signatures and hashes: conversions, which honest peers
  undo. The files of blocks are whole or absent.
- Options, directories and the key file of the main program.

## The plan

Done: the network (`Codes`, `PeerState`, the three modules of handlers, `Ddsn`), its
properties and its abstract specification `Areas`; packed codes; both buffers and
`ByteChannel`; the sessions of peers and clients; theorems for every safety property
of packed codes, buffers and sessions, for those of the network that hold for all programs,
and, where no SET CODE overwrites a code, that the codes cover the blocks.

What is left, in this order:

1. A proof that `Ddsn` implements `Areas`. The steps that change neither a code nor a
   copy are stutters by `TypeInv`; for SET CODE and GET CODE `SplitInv`
   says what is known of the codes on the way; that no half is given twice, as `OneOwner` needs, takes a
   condition on the programs (at most one joiner that is not
   integrated yet, and nobody stores during its handshake) and an invariant that carries it
   through the handshakes; deleting a copy needs 2.
2. `NoBlockLost` for a network in which only the founder splits: the invariant says that a redistribution
   that is answered with success has a copy at the sender of the answer, or at a peer that one
   waits for in turn.
3. Verification numbers as a field of the foreign peers, with two connections
   at one object.
4. Two mentors in one network: a second peer with too many blocks, for SET CODE at a
   peer that has a code.
