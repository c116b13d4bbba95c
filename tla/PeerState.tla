------------------------------ MODULE PeerState ------------------------------
(***************************************************************************)
(* The state of a network of ddsn peers, and how a message is sent.        *)
(*                                                                         *)
(* Every process owns one local_peer (local_peer.h), a map of foreign_peer *)
(* objects (foreign_peer.h) and its ends of the TCP connections            *)
(* (peer_connection.h).  A connection c has the end <<c, "out">> at the    *)
(* process that opened it and <<c, "in">> at the one that accepted it.     *)
(* Every end comes with a foreign_peer object created for it, so objects   *)
(* are named by ends as well; an end may be attached to the object of      *)
(* another end once HELLO has told who is there.                           *)
(***************************************************************************)
EXTENDS Codes, FiniteSets

CONSTANTS
  Peer,              \* the processes
  Founder,           \* the ones started with --integrated
  Capacity,          \* capacity_ of each peer
  Block,             \* the codes of the blocks in play
  Version,           \* contents of a block: a later STORE FILE has another
  MaxConn,           \* bound: connections opened in a behaviour
  Program,           \* what clients ask, and what may fail meanwhile
  None,              \* a null pointer, or no entry
  NoData             \* no file for the block

Conn == 1 .. MaxConn
End == Conn \X {"out", "in"}
Other(e) == IF e[2] = "out" THEN <<e[1], "in">> ELSE <<e[1], "out">>

\* What is bound to a store() or a load(): what to do with its outcome.
ClientAction == [kind : {"client"}, file : Nat]
ReplyAction == [kind : {"reply"}, end : End]
Redistribute == [kind |-> "redistribute"]
LoadAction == ClientAction \cup ReplyAction
Action == LoadAction \cup {Redistribute}

\* What is found of a block.
Found == Version \cup {NoData}

\* What is left to do of the handler that is running.
Task == [op : {"store"}, block : Block, version : Version,
         action : ClientAction]
          \cup [op : {"answer"}, block : Block, success : BOOLEAN,
                action : Action]
          \cup [op : {"deliver"}, block : Block, found : Found,
                action : LoadAction]
          \cup [op : {"introduce"}, end : End, layer : Nat]

Message ==
  [type : {"HELLO"}, id : Peer, kind : {"queued", "introduce", "?"}]
    \cup [type : {"PROVE IDENTITY", "VERIFY IDENTITY", "WELCOME",
                  "INTEGRATED", "WRITE ERROR"}]
    \cup [type : {"SET CODE", "GET CODE"}, code : PeerCode]
    \cup [type : {"INTRODUCE PEER"}, peer : Peer, layer : Nat]
    \cup [type : {"CONNECT IN"}, layer : Nat]
    \cup [type : {"STORE BLOCK"}, block : Block, version : Found]
    \cup [type : {"STORED BLOCK"}, block : Block, success : BOOLEAN]
    \cup [type : {"LOAD BLOCK"}, block : Block]
    \cup [type : {"DELIVER BLOCK"}, block : Block, found : Found]

Layer == Nat \cup {-1}   \* -1: not set

ForeignPeer ==
  [id : Peer \cup {None}, queued : BOOLEAN, verified : BOOLEAN,
   integrated : BOOLEAN, in : Layer, out : Layer, conn : End \cup {None}]

\* "failed": a write on the closed socket has failed, no other is tried.
Connection ==
  [own : Peer \cup {None}, status : {"unused", "open", "closed", "failed"},
   att : End, introduced : BOOLEAN, gotWelcome : BOOLEAN, stuck : BOOLEAN]

\* A request of an API client, which is made once and after some event:
\* any time, when nobody is in a handshake, or when nothing is going on.
After == {"anything", "handshakes", "quiet"}
Request ==
  [op : {"connect"}, id : Nat, at : Peer, after : After, to : Peer]
    \cup [op : {"store"}, id : Nat, at : Peer, after : After,
          file : Seq(Block), version : Version]
    \cup [op : {"load"}, id : Nat, at : Peer, after : After, block : Block]

\* What a client is told.
Answer == [file : Nat, block : Block, success : BOOLEAN]
            \cup [file : Nat, block : Block, found : Found]

\* The requests of all programs.
Command == UNION { program.requests : program \in Program }

ASSUME ConstantsAssumption ==
  /\ Founder \subseteq Peer
  /\ Capacity \in [Peer -> Nat]
  /\ Block \subseteq BlockCode
  /\ MaxConn \in Nat
  /\ Program \subseteq [requests : SUBSET Request, faults : Nat,
                         splitting : SUBSET [Peer -> BOOLEAN]]
  /\ None \notin Peer \cup End
  /\ NoData \notin Version

VARIABLES
  up,           \* the process has not crashed
  code,         \* local_peer::code_
  integrated,   \* local_peer::integrated_
  splitting,    \* local_peer::splitting_
  mentor,       \* local_peer::mentor_
  known,        \* local_peer::foreign_peers_, from ids to objects
  stored,       \* local_peer::stored_blocks_
  disk,         \* the files of blocks/
  storeActions, \* local_peer::store_actions_, one list per block
  loadActions,  \* local_peer::load_actions_, likewise
  todo,         \* the rest of the handler the process is in
  conn,         \* the peer_connection of every end
  fp,           \* the foreign_peer objects
  inbox,        \* bytes on the way to every end, as messages
  commands,     \* client requests not issued yet
  answered,     \* what the clients have been answered
  faults        \* bound: failures of the network and of disks still to come

localVars == <<code, integrated, splitting, mentor>>
blockVars == <<stored, disk, storeActions, loadActions>>
clientVars == <<commands, answered>>
vars == <<up, localVars, known, blockVars, todo, conn, fp, inbox, clientVars,
          faults>>

TypeOK ==
  /\ up \in [Peer -> BOOLEAN]
  /\ code \in [Peer -> PeerCode]
  /\ integrated \in [Peer -> BOOLEAN]
  /\ splitting \in [Peer -> BOOLEAN]
  /\ mentor \in [Peer -> End \cup {None}]
  /\ known \in [Peer -> [Peer -> End \cup {None}]]
  /\ stored \in [Peer -> SUBSET Block]
  /\ disk \in [Peer -> [Block -> Found]]
  /\ storeActions \in [Peer -> [Block -> Seq(Action)]]
  /\ loadActions \in [Peer -> [Block -> Seq(LoadAction)]]
  /\ todo \in [Peer -> Seq(Task)]
  /\ conn \in [End -> Connection]
  /\ fp \in [End -> ForeignPeer]
  /\ inbox \in [End -> Seq(Message)]
  /\ commands \subseteq Command
  /\ answered \subseteq Answer
  /\ faults \in Nat

Init ==
  /\ up = [p \in Peer |-> TRUE]
  /\ code = [p \in Peer |-> << >>]
  /\ integrated = [p \in Peer |-> p \in Founder]
  /\ mentor = [p \in Peer |-> None]
  /\ known = [p \in Peer |-> [q \in Peer |-> None]]
  /\ stored = [p \in Peer |-> {}]
  /\ disk = [p \in Peer |-> [b \in Block |-> NoData]]
  /\ storeActions = [p \in Peer |-> [b \in Block |-> << >>]]
  /\ loadActions = [p \in Peer |-> [b \in Block |-> << >>]]
  /\ todo = [p \in Peer |-> << >>]
  /\ conn = [e \in End |->
       [own |-> None, status |-> "unused", att |-> e, introduced |-> FALSE,
        gotWelcome |-> FALSE, stuck |-> FALSE]]
  /\ fp = [e \in End |->
       [id |-> None, queued |-> FALSE, verified |-> FALSE,
        integrated |-> FALSE, in |-> -1, out |-> -1, conn |-> None]]
  /\ inbox = [e \in End |-> << >>]
  /\ \E program \in Program :
       /\ commands = program.requests
       /\ faults = program.faults
       /\ splitting \in program.splitting
  /\ answered = {}

-----------------------------------------------------------------------------
\* foreign_peer::connected(): the object has a connection.
Connected(objects, f) == objects[f].conn # None

\* The objects of a foreign_peers_ map.
Entries(map) == { map[q] : q \in Peer } \ {None}

\* The objects out_peer(layer) may return, every caller asking for one that
\* is connected: the first match in the order of an unordered_map.
OutPeers(objects, map, layer) ==
  { f \in Entries(map) : /\ Connected(objects, f)
                        /\ objects[f].out = layer
                        /\ objects[f].verified }

\* The objects connected_queued_peer() may return.
QueuedPeers(objects, map) ==
  { f \in Entries(map) : /\ Connected(objects, f)
                        /\ objects[f].queued
                        /\ objects[f].verified }

-----------------------------------------------------------------------------
IsOpen(e) == conn[e].status = "open"

\* peer_connection::send of a sequence of messages at end e, in a network
\* whose messages on the way are box.  On an open connection they queue up
\* at the other end; what is sent to an end closed meanwhile is lost.  On a
\* closed socket the write fails, once, and handle_write will hear of it.
Send(box, e, messages) ==
  CASE IsOpen(e) /\ IsOpen(Other(e)) ->
         [box EXCEPT ![Other(e)] = @ \o messages]
    [] conn[e].status = "closed" /\ messages # << >> ->
         [box EXCEPT ![e] = <<[type |-> "WRITE ERROR"]>>]
    [] OTHER -> box

\* The end e has a complete message of this type and its process is free
\* to handle it: the io_service runs one handler at a time.
Receives(e, type) ==
  /\ IsOpen(e)
  /\ up[conn[e].own]
  /\ todo[conn[e].own] = << >>
  /\ ~ conn[e].stuck
  /\ inbox[e] # << >>
  /\ Head(inbox[e]).type = type

Taken(e) == [inbox EXCEPT ![e] = Tail(@)]

\* MUTANT of Close: the object that came with the end loses its connection.
CloseUnattached(e) ==
  /\ fp' = [fp EXCEPT ![e].conn = None]
  /\ conn' = [conn EXCEPT ![e].status = "closed"]
  /\ inbox' = [inbox EXCEPT ![e] = << >>]

\* peer_connection::close at end e: the attached object loses its
\* connection, whichever that is, and unread messages are gone.
Close(e) ==
  /\ fp' = [fp EXCEPT ![conn[e].att].conn = None]
  /\ conn' = [conn EXCEPT ![e].status = "closed"]
  /\ inbox' = [inbox EXCEPT ![e] = << >>]

\* A null pointer is followed: the process is gone and runs no handler.
Crash(p) == up' = [up EXCEPT ![p] = FALSE]

=============================================================================
