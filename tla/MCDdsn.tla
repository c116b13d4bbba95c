------------------------------- MODULE MCDdsn -------------------------------
(***************************************************************************)
(* Instances of Ddsn for TLC: a founder M with room for one block, J and K *)
(* that join it, and blocks of two layers.  The configurations choose the  *)
(* peers and one of the sets of client requests below.                     *)
(***************************************************************************)
EXTENDS DdsnProperties

CONSTANTS M, J, K, v1, v2

b00 == <<0, 0>>
b01 == <<0, 1>>
b10 == <<1, 0>>
b11 == <<1, 1>>
AllBlocks == {b00, b01, b10, b11}
ThreeBlocks == {b00, b10, b11}

FounderHasRoomForOne == [p \in Peer |-> IF p = M THEN 1 ELSE 5]

Join(id, at, to, after) ==
  [op |-> "connect", id |-> id, at |-> at, after |-> after, to |-> to]
StoreFile(id, at, file, version, after) ==
  [op |-> "store", id |-> id, at |-> at, after |-> after, file |-> file,
   version |-> version]
LoadFile(id, at, block, after) ==
  [op |-> "load", id |-> id, at |-> at, after |-> after, block |-> block]

\* J joins while clients of both store, M twice the same block.
JoinWhileStoring ==
  { Join(1, J, M, "anything"),
    StoreFile(2, M, <<b10, b00>>, v1, "anything"),
    StoreFile(3, J, <<b00, b11>>, v1, "anything"),
    StoreFile(4, M, <<b10, b11>>, v2, "anything") }

\* J joins while clients of M store and look up.
JoinWhileLookingUp ==
  { Join(7, J, M, "anything"),
    StoreFile(8, M, <<b10, b00>>, v1, "anything"),
    LoadFile(9, M, b10, "anything"),
    LoadFile(10, M, b10, "anything"),
    LoadFile(17, J, b00, "anything") }

\* The same with a client that asks J a second time to join.
JoinTwice == { Join(6, J, M, "anything") } \cup JoinWhileStoring

\* J and then K join: K becomes a peer of the second layer and is introduced
\* to J.
JoinInTurn(stores) ==
  { Join(11, J, M, "quiet"),
    Join(12, K, M, "quiet"),
    StoreFile(13, M, <<b10, b00>>, v1, stores),
    StoreFile(14, J, <<b01, b11>>, v1, stores),
    StoreFile(15, K, <<b00, b10>>, v2, stores),
    StoreFile(16, M, <<b01>>, v1, stores) }

\* J, then K join, with lookups at any time between stores and splits.
JoinAndLookUp ==
  { Join(21, J, M, "quiet"),
    Join(22, K, M, "quiet"),
    StoreFile(23, M, <<b10, b00>>, v1, "quiet"),
    StoreFile(24, M, <<b01, b10>>, v2, "quiet"),
    LoadFile(25, J, b01, "quiet"),
    LoadFile(26, K, b10, "quiet") }

\* As JoinInTurn, and K is connected to J before it is introduced.
JoinAcquainted(stores) ==
  { Join(31, J, M, "quiet"),
    Join(32, K, J, "quiet"),
    Join(33, K, M, "quiet"),
    StoreFile(34, M, <<b10, b00>>, v1, stores),
    StoreFile(35, M, <<b01>>, v1, stores),
    StoreFile(36, J, <<b01>>, v2, stores) }

\* What splitting_ may be at the start: nothing in particular at M, the one peer
\* of these programs that comes to have too many blocks.
Zero == [p \in Peer |-> FALSE]
Any == { Zero, [Zero EXCEPT ![M] = TRUE] }

Sound(requests, initially) ==
  [requests |-> requests, faults |-> 0, splitting |-> initially]

Faulty(requests) ==
  [requests |-> requests, faults |-> 1, splitting |-> {Zero}]

\* The programs of the configurations.
NetworkPrograms ==
  { Sound(JoinWhileStoring, Any),
    Sound(JoinWhileLookingUp, {Zero}),
    Sound(JoinInTurn("handshakes"), Any),
    Sound(JoinAndLookUp, {Zero}) }

FaultPrograms ==
  { Sound(JoinTwice, {Zero}),
    Faulty(JoinWhileLookingUp),
    Faulty(JoinAcquainted("handshakes")) }

SplitTwicePrograms == { Sound(JoinInTurn("anything"), {Zero}) }
ConnectTwicePrograms == { Sound(JoinTwice, {Zero}) }
AcquaintedPrograms == { Sound(JoinAcquainted("quiet"), {Zero}) }

=============================================================================
