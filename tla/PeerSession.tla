----------------------------- MODULE PeerSession -----------------------------
(***************************************************************************)
(* One direction of a connection between peers: how the messages that one  *)
(* side sends (send() of each message in peer_messages.cpp) are taken      *)
(* apart by the other (handle_read in peer_connection.cpp, create_message, *)
(* first_action and feed() of each message).                               *)
(*                                                                         *)
(* A message begins with the line of its name.  It goes on with lines and  *)
(* with runs of bytes that have no mark at their end: the receiver has to  *)
(* know how long they are, from the kind of the message or a field of it,  *)
(* and takes anything else it finds there for the next line.               *)
(***************************************************************************)
EXTENDS Integers, SequencesExt, Lines

CONSTANTS
  Sent,    \* what may be sent: sequences of messages
  None     \* no message is being read

\* The signature of a block or of a random number, and an id, in bytes.
SignatureSize == 256
IdSize == 32

Type == {"HELLO", "PROVE IDENTITY", "VERIFY IDENTITY", "WELCOME", "SET CODE",
         "GET CODE", "INTRODUCE PEER", "CONNECT IN", "INTEGRATED",
         "STORE BLOCK", "LOAD BLOCK", "STORED BLOCK", "DELIVER BLOCK"}

\* The data of a message: what is in every field is its number, but for the
\* two fields that decide how it goes on.
Message == [type : Type, number : Nat, size : Nat, success : BOOLEAN]

ASSUME SessionAssumption == Sent \subseteq Seq(Message) /\ None \notin Type

VARIABLES
  sent,      \* what the other side sends
  coming,    \* the lines and runs of bytes that have not been taken
  message,   \* message_: the kind of the message being read
  state,     \* state_ of the message
  got,       \* what has been read of it
  read,      \* read_type_: "string" or "bytes"
  bytes,     \* read_bytes_
  acted,     \* the messages acted on, with what was read of them
  refused,   \* a message was not accepted for what it says
  open

vars == <<sent, coming, message, state, got, read, bytes, acted, refused, open>>

-----------------------------------------------------------------------------
\* What send() renders, message by message.
Value(m, name) ==
  CASE name = "Size" -> m.size
    [] name = "Success" -> IF m.success THEN 1 ELSE 0
    [] OTHER -> m.number

Fields(m, names) ==
  [i \in 1 .. Len(names) |-> Field(names[i], Value(m, names[i]))]

\* PEM_write_bio_RSAPublicKey
Key(m) == <<Text("BEGIN"), Line("", "key", m.number), Text("END")>>

SendHello(m) ==
  Fields(m, <<"Id", "Host", "Port", "Type">>) \o <<Blank>> \o Key(m)

\* The number to sign comes behind a colon, in a line of text.
SendProveIdentity(m) == <<Field("Sign this random number", m.number), Blank>>

SendVerifyIdentity(m) == <<Bytes(SignatureSize, m.number)>>

SendSetCode(m) == Fields(m, <<"Code">>) \o <<Blank>>
SendGetCode(m) == Fields(m, <<"Code">>) \o <<Blank>>

SendIntroduce(m) ==
  Fields(m, <<"Host", "Port", "Layer">>) \o <<Blank, Bytes(IdSize, m.number)>>

SendConnect(m) == Fields(m, <<"Code", "Layer">>) \o <<Blank>>

\* A block: its signature, the key of its owner, its data.
SendBlock(m) ==
  <<Blank, Bytes(SignatureSize, m.number)>>
    \o Key(m) \o <<Blank, Bytes(m.size, m.number)>>

SendStoreBlock(m) ==
  Fields(m, <<"Code", "Name", "Occurrence", "Size">>) \o SendBlock(m)

SendLoadBlock(m) == Fields(m, <<"Code">>) \o <<Blank>>

SendStoredBlock(m) ==
  Fields(m, <<"Code", "Name", "Occurrence", "Owner", "Success">>) \o <<Blank>>

\* MUTANT of SendDeliverBlock: a block that was not found is sent as well.
SendDeliverAnyhow(m) ==
  Fields(m, <<"Code", "Name", "Occurrence", "Size", "Success">>) \o SendBlock(m)

SendDeliverBlock(m) ==
  IF m.success
  THEN Fields(m, <<"Code", "Name", "Occurrence", "Size", "Success">>)
         \o SendBlock(m)
  ELSE Fields(m, <<"Code", "Success">>) \o <<Blank>>

Rendered(m) ==
  <<Text(m.type)>> \o
  CASE m.type = "HELLO" -> SendHello(m)
    [] m.type = "PROVE IDENTITY" -> SendProveIdentity(m)
    [] m.type = "VERIFY IDENTITY" -> SendVerifyIdentity(m)
    [] m.type = "SET CODE" -> SendSetCode(m)
    [] m.type = "GET CODE" -> SendGetCode(m)
    [] m.type = "INTRODUCE PEER" -> SendIntroduce(m)
    [] m.type = "CONNECT IN" -> SendConnect(m)
    [] m.type = "STORE BLOCK" -> SendStoreBlock(m)
    [] m.type = "LOAD BLOCK" -> SendLoadBlock(m)
    [] m.type = "STORED BLOCK" -> SendStoredBlock(m)
    [] m.type = "DELIVER BLOCK" -> SendDeliverBlock(m)
    [] OTHER -> << >>

RenderedAll(s) == FlattenSeq([i \in DOMAIN s |-> Rendered(s[i])])

Nothing == [n \in {} |-> 0]

Init ==
  /\ sent \in Sent
  /\ coming = RenderedAll(sent)
  /\ message = None
  /\ state = 0
  /\ got = Nothing
  /\ read = "string"
  /\ bytes = 0
  /\ acted = << >>
  /\ refused = FALSE
  /\ open = TRUE

-----------------------------------------------------------------------------
\* What comes next, and whether handle_read looks for it: a line when no
\* message is being read or one wants a line, or as many bytes as expected.
NextItem == Head(coming)
LineWanted == message = None \/ read = "string"
GetsLine == open /\ coming # << >> /\ LineWanted /\ NextItem.kind = "line"
GetsBytes ==
  /\ open /\ coming # << >> /\ ~ LineWanted
  /\ NextItem.kind = "bytes" /\ NextItem.length = bytes

GetsField == GetsLine /\ NextItem.name # ""
GetsText == GetsLine /\ NextItem.name = "" /\ NextItem # Blank
GetsBlank == GetsLine /\ NextItem = Blank

Took == coming' = Tail(coming) /\ UNCHANGED sent

\* What feed() may leave: another line or bytes are wanted, the message is
\* over, or there is an error.
WantsLine(newState, read1) ==
  /\ Took
  /\ state' = newState
  /\ got' = read1
  /\ read' = "string"
  /\ UNCHANGED <<message, bytes, acted, refused, open>>

WantsBytes(n, read1) ==
  /\ Took
  /\ got' = read1
  /\ read' = "bytes"
  /\ bytes' = n
  /\ UNCHANGED <<message, state, acted, refused, open>>

\* The message is acted on, its object deleted, and a line read next.
Ended(kind, read1) ==
  /\ Took
  /\ acted' = Append(acted, [type |-> kind, content |-> read1])
  /\ message' = None
  /\ read' = "string"
  /\ UNCHANGED <<state, got, bytes, refused, open>>

Closed(isRefusal) ==
  /\ Took
  /\ open' = FALSE
  /\ refused' = (refused \/ isRefusal)
  /\ UNCHANGED <<message, state, got, read, bytes, acted>>

\* got, with something else read.
With(name, value) ==
  [n \in DOMAIN got \cup {name} |-> IF n = name THEN value ELSE got[n]]

\* got, with one more line of a key.
WithLine(name) == With(name, Append(got[name], NextItem))

\* The lines "name: value" of a message, of which it knows some names.
FeedFields(names) ==
  \/ /\ GetsField
     /\ WantsLine(state, IF NextItem.name \in names
                         THEN With(NextItem.name, NextItem.value) ELSE got)
  \/ GetsText /\ Closed(FALSE)

-----------------------------------------------------------------------------
\* MUTANT of Created: what was read of the last message is kept.
CreatedFromLast(kind) ==
  /\ Took
  /\ message' = kind
  /\ state' = 0
  /\ UNCHANGED <<got, acted, refused, open>>

\* A first line: create_message and first_action.
Created(kind) ==
  /\ Took
  /\ message' = kind
  /\ state' = 0
  /\ got' = Nothing
  /\ UNCHANGED <<acted, refused, open>>

ActsAtOnce == {"WELCOME", "INTEGRATED"}

FirstLine ==
  /\ message = None /\ GetsLine
  /\ LET kind == NextItem.text
     IN \/ kind \notin Type /\ Closed(FALSE)
        \/ kind \in ActsAtOnce /\ Ended(kind, Nothing)
        \/ /\ kind = "VERIFY IDENTITY"
           /\ Created(kind)
           /\ read' = "bytes" /\ bytes' = SignatureSize
        \/ /\ kind \in Type \ (ActsAtOnce \cup {"VERIFY IDENTITY"})
           /\ Created(kind)
           /\ read' = "string" /\ UNCHANGED bytes

\* HELLO: fields, a blank line, a key from its first line to its last.  The
\* id may be this peer's own or that of a peer it is connected to.
FeedHello ==
  /\ message = "HELLO"
  /\ \/ state = 0 /\ FeedFields({"Id", "Host", "Port", "Type"})
     \/ state = 0 /\ GetsField /\ NextItem.name = "Id" /\ Closed(TRUE)
     \/ state = 0 /\ GetsBlank /\ WantsLine(1, got)
     \/ state = 1 /\ GetsLine /\ NextItem = Text("BEGIN")
          /\ WantsLine(2, With("key", <<NextItem>>))
     \/ state = 1 /\ GetsLine /\ NextItem # Text("BEGIN") /\ Closed(FALSE)
     \/ state = 2 /\ GetsLine /\ NextItem = Text("END")
          /\ Ended(message, WithLine("key"))
     \/ state = 2 /\ GetsLine /\ NextItem # Text("END")
          /\ WantsLine(2, WithLine("key"))

\* PROVE IDENTITY: a line of any kind, and a blank one.
FeedProveIdentity ==
  /\ message = "PROVE IDENTITY"
  /\ \/ GetsBlank /\ Ended(message, got)
     \/ GetsLine /\ NextItem # Blank
          /\ WantsLine(state, With("text", NextItem.value))

\* VERIFY IDENTITY: a signature, which may be of another number.
FeedVerifyIdentity ==
  /\ message = "VERIFY IDENTITY" /\ GetsBytes
  /\ \/ Ended(message, With("signature", NextItem.value))
     \/ Closed(TRUE)

\* SET CODE, CONNECT IN, LOAD BLOCK, STORED BLOCK: fields and a blank line.
FeedUpToBlank(kind, names) ==
  /\ message = kind
  /\ FeedFields(names) \/ (GetsBlank /\ Ended(message, got))

FeedSetCode == FeedUpToBlank("SET CODE", {"Code"})
FeedConnect == FeedUpToBlank("CONNECT IN", {"Code", "Layer"})
FeedLoadBlock == FeedUpToBlank("LOAD BLOCK", {"Code"})
FeedStoredBlock ==
  FeedUpToBlank("STORED BLOCK",
                {"Code", "Name", "Occurrence", "Owner", "Success"})

\* GET CODE: the same, but with a code that does not fit the message is not
\* ended, and goes on with the next line.
FeedGetCode ==
  \/ FeedUpToBlank("GET CODE", {"Code"})
  \/ /\ message = "GET CODE" /\ GetsBlank
     /\ Took
     /\ refused' = TRUE
     /\ UNCHANGED <<message, state, got, read, bytes, acted, open>>

\* INTRODUCE PEER: fields, a blank line, an id.
FeedIntroduce ==
  /\ message = "INTRODUCE PEER"
  /\ \/ FeedFields({"Host", "Port", "Layer"})
     \/ GetsBlank /\ WantsBytes(IdSize, got)
     \/ GetsBytes /\ Ended(message, With("id", NextItem.value))

\* MUTANT of DataSize: the data is taken for another signature.
DataSizeOfSignature == SignatureSize

\* MUTANT of DataSize: one byte too few.
DataSizeLess == got["Size"] - 1

\* The length of the data, from the Size field.
DataSize == got["Size"]

\* MUTANT of FeedBlock: no return when the signature is not that of the block.
FeedBlockOnwards ==
  \/ state = 0 /\ GetsBytes /\ WantsLine(1, With("signature", NextItem.value))
  \/ state = 1 /\ GetsBlank /\ WantsBytes(DataSize, got)
  \/ state = 1 /\ GetsLine /\ NextItem # Blank
       /\ WantsLine(1, WithLine("owner"))
  \/ /\ state = 1 /\ GetsBytes
     /\ Took
     /\ refused' \in {refused, TRUE}
     /\ acted' = Append(acted, [type |-> message,
                               content |-> With("data", NextItem.value)])
     /\ message' = None /\ read' = "string"
     /\ UNCHANGED <<state, got, bytes, open>>

\* A block: the signature, and in state 1 the key up to a blank line and the
\* data, with which the signature may turn out not to be that of the block.
FeedBlock ==
  \/ state = 0 /\ GetsBytes /\ WantsLine(1, With("signature", NextItem.value))
  \/ state = 1 /\ GetsBlank /\ WantsBytes(DataSize, got)
  \/ state = 1 /\ GetsLine /\ NextItem # Blank
       /\ WantsLine(1, WithLine("owner"))
  \/ state = 1 /\ GetsBytes
       /\ (Ended(message, With("data", NextItem.value)) \/ Closed(TRUE))

FeedStoreBlock ==
  /\ message = "STORE BLOCK"
  /\ \/ state = 0 /\ FeedFields({"Code", "Name", "Occurrence", "Size"})
     \/ state = 0 /\ GetsBlank
          /\ WantsBytes(SignatureSize, With("owner", << >>))
     \/ FeedBlock

\* DELIVER BLOCK: without success that is all.
FeedDeliverBlock ==
  /\ message = "DELIVER BLOCK"
  /\ \/ state = 0
          /\ FeedFields({"Code", "Name", "Occurrence", "Size", "Success"})
     \/ state = 0 /\ GetsBlank /\ got["Success"] = 0 /\ Ended(message, got)
     \/ state = 0 /\ GetsBlank /\ got["Success"] = 1
          /\ WantsBytes(SignatureSize, With("owner", << >>))
     \/ FeedBlock

Next ==
  \/ FirstLine
  \/ FeedHello \/ FeedProveIdentity \/ FeedVerifyIdentity
  \/ FeedSetCode \/ FeedGetCode \/ FeedIntroduce \/ FeedConnect
  \/ FeedStoreBlock \/ FeedLoadBlock \/ FeedStoredBlock \/ FeedDeliverBlock

Spec == Init /\ [][Next]_vars

\* The io_service runs handle_read with what TCP delivers.
FairSpec == Spec /\ WF_vars(Next)

-----------------------------------------------------------------------------
TypeOK ==
  /\ sent \in Sent
  /\ message \in Type \cup {None}
  /\ state \in 0 .. 2
  /\ read \in {"string", "bytes"}
  /\ bytes \in Nat
  /\ refused \in BOOLEAN /\ open \in BOOLEAN

\* What a message says, whatever order and form it is sent in.
PartsOf(m) ==
  CASE m.type = "HELLO" -> {"Id", "Host", "Port", "Type", "key"}
    [] m.type = "PROVE IDENTITY" -> {"text"}
    [] m.type = "VERIFY IDENTITY" -> {"signature"}
    [] m.type \in {"SET CODE", "GET CODE", "LOAD BLOCK"} -> {"Code"}
    [] m.type = "INTRODUCE PEER" -> {"Host", "Port", "Layer", "id"}
    [] m.type = "CONNECT IN" -> {"Code", "Layer"}
    [] m.type = "STORED BLOCK" ->
         {"Code", "Name", "Occurrence", "Owner", "Success"}
    [] m.type = "STORE BLOCK" ->
         {"Code", "Name", "Occurrence", "Size", "signature", "owner", "data"}
    [] m.type = "DELIVER BLOCK" /\ m.success ->
         {"Code", "Name", "Occurrence", "Size", "Success", "signature",
          "owner", "data"}
    [] m.type = "DELIVER BLOCK" /\ ~ m.success -> {"Code", "Success"}
    [] OTHER -> {}

Content(m) ==
  [part \in PartsOf(m) |->
     IF part \in {"key", "owner"} THEN Key(m) ELSE Value(m, part)]

\* Every message is acted on in its turn with what it says: nothing is left
\* over from the one before, and nothing of one is read as part of another.
Understood ==
  /\ Len(acted) <= Len(sent)
  /\ \A i \in DOMAIN acted :
       acted[i] = [type |-> sent[i].type, content |-> Content(sent[i])]

\* The receiver stays in step: where it looks for a line there is one, and
\* where it expects a run of bytes there is one of exactly that length.
InStep ==
  open /\ coming # << >> => GetsLine \/ GetsBytes

\* Every message is read to its end and acted on, unless one is refused for
\* what it says: no message ever waits for more than it is sent, and none
\* closes the connection for its form.
AllActedOn == <>(refused \/ Len(acted) = Len(sent))

\* After a message that is refused nothing more is acted on: a HELLO, a
\* signature or a block that is not accepted closes the connection, and so
\* does what follows a GET CODE that does not fit, whose message is not ended.
NothingAfterRefusal == [][refused => acted' = acted]_vars

=============================================================================
