------------------------------ MODULE ApiSession ------------------------------
(***************************************************************************)
(* The session of one client at a peer: api_connection.cpp, the messages   *)
(* of api_messages.cpp, the list of connections of api_server.cpp.         *)
(*                                                                         *)
(* handle_read takes apart everything that has arrived; between a read     *)
(* that has completed and its handler other handlers may run: that of a    *)
(* write, or one that brings a late answer of another peer to the client,  *)
(* whose connection may be closed by then.                                 *)
(***************************************************************************)
EXTENDS Integers, Bags, SequencesExt, Lines

CONSTANTS
  Scripts,        \* what clients may ask: sequences of requests
  MaxFileSize,    \* the largest file that is stored, 8 MiB
  None            \* no message is being read

\* PEER BLOCKS is not among them: create_message does not know it.
Type == {"HELLO", "PING", "STORE FILE", "LOAD FILE", "CONNECT PEER", "PEER INFO"}

\* A request: the right password or not, the sizes of the chunks of a file.
Request == [type : Type, right : BOOLEAN, chunks : Seq(Nat)]

ASSUME ScriptsAssumption ==
  Scripts \subseteq Seq(Request) /\ MaxFileSize \in Nat /\ None \notin Type

\* Four occurrences of a file are stored, for redundancy.
Occurrence == 0 .. 3

VARIABLES
  script,         \* what the client asks
  coming,         \* what it has sent and the peer has not received
  left,           \* the client has closed its side
  \* api_connection
  open,           \* socket_ is open
  authenticated,
  buffer,         \* what has been received and not been taken from the buffer
  reading,        \* the read: "waiting", "completed", "handled" or "none"
  writing,        \* a write is under way
  message,        \* message_: the kind of the message being read
  type,           \* read_type_: "string" or "bytes"
  bytes,          \* read_bytes_
  \* api_in_store_file, and the fields of the other messages
  state, fileSize, chunks, chunk, chunkSize, pointer, data,
  \* the rest of the peer
  listed,         \* how often the connection is in connections_
  integrated,     \* local_peer::integrated_
  waiting,        \* what local_peer is to answer later
  \* what happens
  acted,          \* the requests acted on, and whether the peer was integrated
  stored,         \* the files stored, with the requests they were stored for
  answers         \* what the connection was given to send, a bag

fileVars == <<state, fileSize, chunks, chunk, chunkSize, pointer, data>>
peerVars == <<listed, integrated, waiting, acted, stored, answers>>
vars == <<script, coming, left, open, authenticated, buffer, reading, writing,
          message, type, bytes, fileVars, peerVars>>

-----------------------------------------------------------------------------
\* What a client sends for a request: a file is numbered through, byte by
\* byte, and cut into chunks.
Position(sizes) ==
  LET position[i \in 0 .. Len(sizes)] ==
        IF i = 0 THEN 0 ELSE position[i - 1] + sizes[i]
  IN position

Sum(sizes) == Position(sizes)[Len(sizes)]

Part(sizes, i) == [b \in 1 .. sizes[i] |-> Position(sizes)[i - 1] + b]

Chunk(sizes, i) ==
  <<Field("Chunk-size", sizes[i]), Blank, Bytes(sizes[i], Part(sizes, i))>>

FileOf(r) == [b \in 1 .. Sum(r.chunks) |-> b]

Rendered(r) ==
  <<Text(r.type)>> \o
  CASE r.type = "HELLO" -> <<Text(IF r.right THEN "password" ELSE "guess")>>
    [] r.type = "STORE FILE" ->
         <<Field("File-name", 0), Field("File-size", Sum(r.chunks)),
           Field("Chunks", Len(r.chunks)), Blank>>
         \o FlattenSeq([i \in DOMAIN r.chunks |-> Chunk(r.chunks, i)])
    [] r.type = "LOAD FILE" -> <<Field("Block-code", 0), Blank>>
    [] r.type = "CONNECT PEER" -> <<Field("Host", 0), Field("Port", 0), Blank>>
    [] OTHER -> << >>

Init ==
  /\ script \in Scripts
  /\ coming = FlattenSeq([i \in DOMAIN script |-> Rendered(script[i])])
  /\ left = FALSE
  /\ open = TRUE /\ authenticated = FALSE
  /\ buffer = << >>
  /\ reading = "waiting" /\ writing = FALSE
  /\ message = None /\ type = "string" /\ bytes = 0
  /\ state = 0 /\ fileSize = 0 /\ chunks = 0 /\ chunk = 0 /\ chunkSize = 0
  /\ pointer = 0 /\ data = << >>
  /\ listed = 0
  /\ integrated \in BOOLEAN
  /\ waiting = {}
  /\ acted = << >> /\ stored = {} /\ answers = EmptyBag

-----------------------------------------------------------------------------
\* A handler of the io_service may run, and it is not handle_read's.
Idle == reading # "handled"

\* MUTANT of ClosedConnection: the connection stays in the list.
ClosedAlone == open' = FALSE /\ UNCHANGED listed

\* close(): list::remove takes out every entry.
ClosedConnection == open' = FALSE /\ listed' = 0

\* api_out_message::send of some answers.  The write that is started fails
\* at once if the socket is closed.
Answers(new) ==
  /\ answers' = answers (+) SetToBag(new)
  /\ writing' = (writing \/ new # {})

NoAnswers == UNCHANGED <<answers, writing>>

-----------------------------------------------------------------------------
\* A read completes with some of what is on the way.
Receive ==
  /\ Idle /\ reading = "waiting" /\ open /\ coming # << >>
  /\ \E n \in 1 .. Len(coming) :
       /\ buffer' = buffer \o SubSeq(coming, 1, n)
       /\ coming' = SubSeq(coming, n + 1, Len(coming))
  /\ reading' = "completed"
  /\ UNCHANGED <<script, left, open, authenticated, writing, message, type,
                 bytes, fileVars, peerVars>>

\* It fails when the client has gone or the socket was closed: handle_read
\* closes the connection (twice, which makes no difference).
ReadFails ==
  /\ Idle /\ reading = "waiting"
  /\ ~ open \/ (left /\ coming = << >>)
  /\ ClosedConnection
  /\ reading' = "none"
  /\ UNCHANGED <<script, coming, left, authenticated, buffer, writing, message,
                 type, bytes, fileVars, integrated, waiting, acted, stored,
                 answers>>

\* The handler of a read that has completed runs, even when the connection was
\* closed after that.
HandleRead ==
  /\ reading = "completed" /\ reading' = "handled"
  /\ UNCHANGED <<script, coming, left, open, authenticated, buffer, writing,
                 message, type, bytes, fileVars, peerVars>>

\* What the loop of handle_read looks for next, and whether it is there.
LineWanted == message = None \/ type = "string"
Handling == reading = "handled" /\ buffer # << >>
GetsLine == Handling /\ LineWanted /\ Head(buffer).kind = "line"
GetsBytes ==
  /\ Handling /\ ~ LineWanted
  /\ Head(buffer).kind = "bytes" /\ Head(buffer).length = bytes
GetsBlank == GetsLine /\ Head(buffer) = Blank
GetsField == GetsLine /\ Head(buffer).name # ""
GetsText == GetsLine /\ Head(buffer).name = "" /\ ~ GetsBlank

\* Nothing more can be taken: the next read is started.
ReadOn ==
  /\ reading = "handled" /\ ~ GetsLine /\ ~ GetsBytes
  /\ reading' = "waiting"
  /\ UNCHANGED <<script, coming, left, open, authenticated, buffer, writing,
                 message, type, bytes, fileVars, peerVars>>

\* What a step of the loop takes; what it leaves alone but for the message.
Took == buffer' = Tail(buffer) /\ UNCHANGED <<script, coming, left, integrated>>

\* The message goes on with a line or with n bytes, or it is over.
Continues == type' = "string" /\ UNCHANGED <<message, bytes, reading>>
ContinuesWithBytes(n) == type' = "bytes" /\ bytes' = n /\ UNCHANGED <<message, reading>>
Ended == message' = None /\ type' = "string" /\ UNCHANGED <<bytes, reading>>

\* It is not understood, or not allowed: the connection is closed, and nothing
\* is read from it any more.
Refused ==
  /\ Took
  /\ ClosedConnection
  /\ reading' = "none"
  /\ UNCHANGED <<authenticated, message, type, bytes, fileVars, waiting, acted,
                 stored>>
  /\ NoAnswers

\* What is recorded of a request that is acted on.
Acts(kind) == acted' = Append(acted, [type |-> kind, integrated |-> integrated])

\* A step that only reads.
OnlyReads ==
  /\ UNCHANGED <<open, listed, authenticated, waiting, acted, stored>>
  /\ NoAnswers

-----------------------------------------------------------------------------
\* MUTANT of Understood: what a client may ask before HELLO is not limited.
UnderstoodAlways(kind) == kind \in Type

\* create_message.
Understood(kind) == kind = "HELLO" \/ (authenticated /\ kind \in Type)

\* PING and PEER INFO are answered by first_action.
FirstLine ==
  /\ message = None /\ GetsLine
  /\ LET kind == Head(buffer).text
     IN \/ ~ Understood(kind) /\ Refused
        \/ /\ Understood(kind) /\ kind \in {"PING", "PEER INFO"}
           /\ Took /\ Ended
           /\ Acts(kind)
           /\ Answers({[type |-> kind, to |-> Len(acted) + 1]})
           /\ UNCHANGED <<open, listed, authenticated, fileVars, waiting, stored>>
        \/ /\ Understood(kind) /\ kind \notin {"PING", "PEER INFO"}
           /\ Took
           /\ message' = kind /\ type' = "string" /\ UNCHANGED <<bytes, reading>>
           /\ state' = 0 /\ chunk' = 0 /\ pointer' = 0 /\ data' = << >>
           /\ UNCHANGED <<fileSize, chunks, chunkSize>>
           /\ OnlyReads

FeedHello ==
  /\ message = "HELLO" /\ GetsLine
  /\ \/ Head(buffer) # Text("password") /\ Refused
     \/ /\ Head(buffer) = Text("password")
        /\ Took /\ Ended
        /\ Acts("HELLO")
        /\ Answers({[type |-> "HELLO", to |-> Len(acted) + 1]})
        /\ authenticated' = TRUE
        /\ listed' = listed + 1
        /\ UNCHANGED <<open, fileVars, waiting, stored>>

TooLarge ==
  GetsField /\ Head(buffer).name = "File-size" /\ Head(buffer).value > MaxFileSize

\* The header of a file, of which the fields are kept.
FeedFileInformation ==
  /\ message = "STORE FILE" /\ state = 0
  /\ \/ (GetsText \/ TooLarge) /\ Refused
     \/ /\ GetsField /\ ~ TooLarge
        /\ Took /\ Continues /\ OnlyReads
        /\ fileSize' = IF Head(buffer).name = "File-size"
                       THEN Head(buffer).value ELSE fileSize
        /\ chunks' = IF Head(buffer).name = "Chunks"
                     THEN Head(buffer).value ELSE chunks
        /\ UNCHANGED <<state, chunk, chunkSize, pointer, data>>
     \/ /\ GetsBlank
        /\ Took /\ Continues /\ OnlyReads
        /\ state' = 1
        /\ data' = [b \in 1 .. fileSize |-> 0]
        /\ UNCHANGED <<fileSize, chunks, chunk, chunkSize, pointer>>

\* The header of a chunk.  chunk_ is that of the chunk whose bytes come next,
\* from 1 on.
FeedChunkInformation ==
  /\ message = "STORE FILE" /\ state = 1
  /\ \/ GetsText /\ Refused
     \/ /\ GetsField
        /\ Took /\ Continues /\ OnlyReads
        /\ chunkSize' = IF Head(buffer).name = "Chunk-size"
                        THEN Head(buffer).value ELSE chunkSize
        /\ UNCHANGED <<state, fileSize, chunks, chunk, pointer, data>>
     \/ /\ GetsBlank
        /\ Took /\ ContinuesWithBytes(chunkSize) /\ OnlyReads
        /\ chunk' = chunk + 1
        /\ UNCHANGED <<state, fileSize, chunks, chunkSize, pointer, data>>

\* MUTANT of Copied: the chunk is put behind what data_ has.
CopiedBehind(from) == data \o from

\* memcpy(data_ + data_pointer_, ...)
Copied(from) ==
  [b \in DOMAIN data |-> IF b \in pointer + 1 .. pointer + Len(from)
                         THEN from[b - pointer] ELSE data[b]]

\* MUTANT of MoreToCome: the chunk that is read is not counted.
MoreAfterLast == chunk <= chunks

MoreToCome == chunk < chunks

\* MUTANT of PointerAfter: the pointer is left where it was.
PointerStays(size) == pointer

PointerAfter(size) == pointer + size

FeedChunk ==
  /\ message = "STORE FILE" /\ GetsBytes
  /\ MoreToCome
  /\ Took /\ Continues /\ OnlyReads
  /\ data' = Copied(Head(buffer).value)
  /\ pointer' = PointerAfter(bytes)
  /\ UNCHANGED <<state, fileSize, chunks, chunk, chunkSize>>

\* A block that is stored, to the request that asked for it: those stored at
\* another peer are answered later, the others now, and if this peer is not
\* integrated none is.
Answer(kind, request, occurrence) ==
  [type |-> kind, to |-> request, occurrence |-> occurrence]

\* The last chunk: all occurrences are stored.
FeedLastChunk ==
  /\ message = "STORE FILE" /\ GetsBytes
  /\ ~ MoreToCome
  /\ Took /\ Ended
  /\ data' = Copied(Head(buffer).value)
  /\ Acts("STORE FILE")
  /\ stored' = stored \cup {[to |-> Len(acted) + 1, data |-> data']}
  /\ \E away \in SUBSET Occurrence :
       LET later == IF integrated THEN away ELSE {}
           now == IF integrated THEN Occurrence \ away ELSE {}
           answer(o) == Answer("STORE BLOCK", Len(acted) + 1, o)
       IN /\ integrated \/ away = {}
          /\ waiting' = waiting \cup { answer(o) : o \in later }
          /\ Answers({ answer(o) : o \in now })
  /\ UNCHANGED <<open, listed, authenticated, state, fileSize, chunks, chunk,
                 chunkSize, pointer>>

\* LOAD FILE: local_peer::load, at this peer or another.
FeedLoadFile ==
  /\ message = "LOAD FILE"
  /\ \/ GetsText /\ Refused
     \/ GetsField /\ Took /\ Continues /\ OnlyReads /\ UNCHANGED fileVars
     \/ /\ GetsBlank
        /\ Took /\ Ended
        /\ Acts("LOAD FILE")
        /\ LET answer == Answer("LOAD BLOCK", Len(acted) + 1, 0)
           IN \/ integrated /\ Answers({answer}) /\ UNCHANGED waiting
              \/ integrated /\ waiting' = waiting \cup {answer} /\ NoAnswers
              \/ ~ integrated /\ UNCHANGED waiting /\ NoAnswers
        /\ UNCHANGED <<open, listed, authenticated, stored, fileVars>>

\* CONNECT PEER: local_peer::connect, if this peer is not integrated.  There is
\* no answer.
FeedConnectPeer ==
  /\ message = "CONNECT PEER"
  /\ \/ GetsText /\ Refused
     \/ GetsField /\ Took /\ Continues /\ OnlyReads /\ UNCHANGED fileVars
     \/ /\ GetsBlank
        /\ Took /\ Ended
        /\ Acts("CONNECT PEER")
        /\ NoAnswers
        /\ UNCHANGED <<open, listed, authenticated, waiting, stored, fileVars>>

-----------------------------------------------------------------------------
\* do_store_actions or do_load_actions: another peer's answer has come.
LateAnswer ==
  /\ Idle
  /\ \E a \in waiting : waiting' = waiting \ {a} /\ Answers({a})
  /\ UNCHANGED <<script, coming, left, open, authenticated, buffer, reading,
                 message, type, bytes, fileVars, listed, integrated, acted,
                 stored>>

\* handle_write, with everything written, before the socket was closed perhaps.
WriteDone ==
  /\ Idle /\ writing
  /\ writing' = FALSE
  /\ UNCHANGED <<script, coming, left, open, authenticated, buffer, reading,
                 message, type, bytes, fileVars, peerVars>>

\* handle_write, with an error: on a closed socket, or because the client has
\* gone.  What was not written stays in the buffer.
WriteFails ==
  /\ Idle /\ writing /\ (left \/ ~ open)
  /\ writing' = FALSE
  /\ ClosedConnection
  /\ UNCHANGED <<script, coming, left, authenticated, buffer, reading, message,
                 type, bytes, fileVars, integrated, waiting, acted, stored,
                 answers>>

\* The client goes; the peer is integrated into the network.
Leave ==
  /\ Idle /\ ~ left
  /\ left' = TRUE
  /\ UNCHANGED <<script, coming, open, authenticated, buffer, reading, writing,
                 message, type, bytes, fileVars, peerVars>>

Integrate ==
  /\ Idle /\ ~ integrated
  /\ integrated' = TRUE
  /\ UNCHANGED <<script, coming, left, open, authenticated, buffer, reading,
                 writing, message, type, bytes, fileVars, listed, waiting,
                 acted, stored, answers>>

Feed ==
  \/ FirstLine \/ FeedHello
  \/ FeedFileInformation \/ FeedChunkInformation \/ FeedChunk \/ FeedLastChunk
  \/ FeedLoadFile \/ FeedConnectPeer

Handlers ==
  \/ Receive \/ ReadFails \/ HandleRead \/ ReadOn \/ Feed
  \/ LateAnswer \/ WriteDone \/ WriteFails

Next == Handlers \/ Leave \/ Integrate

Spec == Init /\ [][Next]_vars

\* The io_service runs every handler that is ready, and the peers that others
\* ask answer them.
FairSpec ==
  /\ Spec
  /\ WF_vars(Receive) /\ WF_vars(ReadFails)
  /\ WF_vars(HandleRead) /\ WF_vars(ReadOn) /\ WF_vars(Feed)
  /\ WF_vars(LateAnswer) /\ WF_vars(WriteDone \/ WriteFails)

-----------------------------------------------------------------------------
TypeOK ==
  /\ script \in Scripts
  /\ left \in BOOLEAN /\ open \in BOOLEAN /\ authenticated \in BOOLEAN
  /\ reading \in {"waiting", "completed", "handled", "none"}
  /\ writing \in BOOLEAN
  /\ message \in Type \cup {None}
  /\ type \in {"string", "bytes"}
  /\ bytes \in Nat /\ state \in 0 .. 1
  /\ fileSize \in Nat /\ chunks \in Nat /\ chunkSize \in Nat
  /\ chunk \in 0 .. chunks /\ pointer \in 0 .. fileSize
  /\ message = "STORE FILE" /\ state = 1 => Len(data) = fileSize
  /\ listed \in 0 .. Len(script)
  /\ integrated \in BOOLEAN

\* Nothing is acted on unless the right password was given before it and no
\* wrong one was, however requests and reads follow each other.
OnlyAfterHello ==
  \A i \in DOMAIN acted :
    /\ \E j \in 1 .. i : script[j].type = "HELLO" /\ script[j].right
    /\ \A j \in 1 .. i : script[j].type = "HELLO" => script[j].right

\* The requests are acted on in turn, and the files stored are those that were
\* sent, put together from their chunks.
FilesWhole ==
  /\ \A i \in DOMAIN acted : acted[i].type = script[i].type
  /\ stored = { [to |-> i, data |-> FileOf(script[i])] :
                  i \in { k \in DOMAIN acted : script[k].type = "STORE FILE" } }

\* A connection that is closed leaves the list of connections for good, also
\* when a HELLO that had arrived is acted on after the close.
ClosedForgotten == ~ open ~> [](listed = 0)

\* What a request is answered.  A peer that is not integrated answers neither
\* STORE FILE nor LOAD FILE.
Owed(i) ==
  CASE acted[i].type \in {"HELLO", "PING", "PEER INFO"} ->
         {[type |-> acted[i].type, to |-> i]}
    [] acted[i].type = "STORE FILE" /\ acted[i].integrated ->
         { Answer("STORE BLOCK", i, o) : o \in Occurrence }
    [] acted[i].type = "LOAD FILE" /\ acted[i].integrated ->
         { Answer("LOAD BLOCK", i, 0) }
    [] OTHER -> {}

\* In the end every request is acted on unless the connection was closed, and
\* each has been answered, once; answers that come late too.  This is for scripts
\* whose files have a chunk: without one the program waits for it for ever, or
\* takes the next request for the fields of one and closes the connection.
RequestsAnswered ==
  <>[]( /\ answers = SetToBag(UNION { Owed(i) : i \in DOMAIN acted })
        /\ open => Len(acted) = Len(script) )

=============================================================================
