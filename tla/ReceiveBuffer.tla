---------------------------- MODULE ReceiveBuffer ----------------------------
(***************************************************************************)
(* The receive buffer of a peer_connection (peer_connection.cpp, start and *)
(* handle_read).  What the other peer sends is a stream of items: lines,   *)
(* whose end is found in the buffer, and runs of bytes, whose length the   *)
(* message before them announced.  handle_read takes the complete items    *)
(* out of the buffer, makes room for more, and asks for the next bytes.    *)
(*                                                                         *)
(* The bytes themselves do not matter, only how many there are.            *)
(***************************************************************************)
EXTENDS Integers, Sequences

CONSTANTS
  InitialSize,   \* rcv_buffer_size_ of a new connection: 256
  Slack,         \* less space than this is too small: 16
  MaxString,     \* DDSN_MESSAGE_STRING_MAX_LENGTH: 1024
  MaxChunk,      \* DDSN_MESSAGE_CHUNK_MAX_SIZE: 8 MiB
  Powers,        \* the powers of two next_power steps through; the initial
                 \* size and the limit of a line are among them
  Streams        \* what the other peer may send: sequences of items

\* The length of a line includes the newline it ends with.
Item == [kind : {"line"}, length : Nat \ {0}] \cup [kind : {"bytes"}, length : Nat]

ASSUME BufferAssumption ==
  /\ InitialSize \in Powers
  /\ Slack \in Nat \ {0} /\ MaxString \in Nat /\ MaxChunk \in Nat
  /\ Powers \subseteq Nat \ {0}
  /\ \A n \in 0 .. MaxChunk : \E k \in Powers : n <= k
  /\ \A k \in Powers : IF 2 * k <= MaxString THEN 2 * k \in Powers
                                           ELSE k >= MaxString
  /\ Streams \subseteq Seq(Item)

VARIABLES
  size,     \* rcv_buffer_size_
  start,    \* rcv_buffer_start_: the first byte not taken out
  end,      \* rcv_buffer_end_: behind the last byte received
  space,    \* buffer_space: how many bytes async_read_some may read
  pc,       \* "reading", in the loop of handle_read, or "closed"
  items,    \* items not taken out, the first of them being received
  coming    \* bytes of them that have not been received

vars == <<size, start, end, space, pc, items, coming>>

\* What is received, and the type read_type_ the last item has set.
Data == end - start
InBytes == items # << >> /\ Head(items).kind = "bytes"
ReadBytes == Head(items).length

TypeOK ==
  /\ size \in Nat /\ start \in Nat /\ end \in Nat /\ space \in Nat
  /\ pc \in {"reading", "looping", "closed"}
  /\ items \in Seq(Item)
  /\ coming \in Nat

LengthSum[s \in Seq(Item)] ==
  IF s = << >> THEN 0 ELSE Head(s).length + LengthSum[Tail(s)]

\* start(): the first read may fill the buffer.
Init ==
  /\ size = InitialSize
  /\ start = 0
  /\ end = 0
  /\ space = InitialSize
  /\ pc = "reading"
  /\ items \in Streams
  /\ coming = LengthSum[items]

-----------------------------------------------------------------------------
\* The read completes with some of the bytes that are coming.
Received(n) ==
  /\ pc = "reading"
  /\ n \in 1 .. space
  /\ n <= coming
  /\ end' = end + n
  /\ coming' = coming - n
  /\ pc' = "looping"
  /\ UNCHANGED <<size, start, space, items>>

\* A read into no space at all completes at once, with no bytes transferred:
\* the connection is closed.
ReceivedNothing ==
  /\ pc = "reading"
  /\ space = 0
  /\ pc' = "closed"
  /\ UNCHANGED <<size, start, end, space, items, coming>>

\* MUTANT of Complete: whatever has been received.
CompleteAnyhow == items # << >>

\* MUTANT of Complete: one byte more is waited for.
CompleteLate == items # << >> /\ ReadBytes < Data

\* The next item is in the buffer as a whole.
Complete == items # << >> /\ ReadBytes <= Data

\* One round of the loop: the next item is complete and is fed to the message.
Feed ==
  /\ pc = "looping"
  /\ Complete
  /\ start' = start + ReadBytes
  /\ items' = Tail(items)
  /\ UNCHANGED <<size, end, space, pc, coming>>

-----------------------------------------------------------------------------
\* MUTANT of Start: back to the beginning, whatever there is.
StartAtZero == 0

\* After the loop.  An empty buffer is used from its beginning again.
Start == IF Data = 0 THEN 0 ELSE start
End == IF Data = 0 THEN 0 ELSE end

\* MUTANT of Space: everything behind the start.
SpaceBehindStart == size - Start

Space == size - End
BytesToRead == ReadBytes - Data

\* MUTANT of LineFillsBuffer: wherever the line begins.
LineReachesEnd == ~ InBytes /\ Space = 0

TooSmall == Space < Slack \/ (InBytes /\ BytesToRead > Space)
LineFillsBuffer == ~ InBytes /\ Start = 0 /\ Space = 0
Shiftable == ~ InBytes \/ BytesToRead <= size

After == pc = "looping" /\ ~ Complete

ChunkTooLong ==
  /\ After
  /\ InBytes /\ ReadBytes > MaxChunk
  /\ pc' = "closed"
  /\ UNCHANGED <<size, start, end, space, items, coming>>

\* Read on behind the data.
ReadOn ==
  /\ After
  /\ ~ (InBytes /\ ReadBytes > MaxChunk)
  /\ ~ TooSmall
  /\ start' = Start /\ end' = End
  /\ space' = Space
  /\ pc' = "reading"
  /\ UNCHANGED <<size, items, coming>>

\* A line does not fit into the buffer: twice the size, up to a limit.
Double ==
  /\ After
  /\ TooSmall /\ LineFillsBuffer
  /\ size' = 2 * size
  /\ start' = Start /\ end' = End
  /\ space' = size
  /\ pc' = IF 2 * size > MaxString THEN "closed" ELSE "reading"
  /\ UNCHANGED <<items, coming>>

\* The data is moved to the beginning, to create space at the end.
ShiftTo(room) ==
  /\ start' = 0
  /\ end' = Data
  /\ space' = room

Shift ==
  /\ After
  /\ ~ (InBytes /\ ReadBytes > MaxChunk)
  /\ TooSmall /\ ~ LineFillsBuffer /\ Shiftable
  /\ ShiftTo(size - Data)
  /\ pc' = "reading"
  /\ UNCHANGED <<size, items, coming>>

\* The buffer is enlarged for the expected bytes.
NextPower(n) == CHOOSE k \in Powers : n <= k /\ \A j \in Powers : n <= j => k <= j

Enlarge ==
  /\ After
  /\ ~ (InBytes /\ ReadBytes > MaxChunk)
  /\ TooSmall /\ ~ LineFillsBuffer /\ ~ Shiftable
  /\ size' = NextPower(ReadBytes)
  /\ ShiftTo(NextPower(ReadBytes) - Data)
  /\ pc' = "reading"
  /\ UNCHANGED <<items, coming>>

Next ==
  \/ \E n \in 1 .. coming : Received(n)
  \/ ReceivedNothing
  \/ Feed
  \/ ChunkTooLong
  \/ ReadOn \/ Double \/ Shift \/ Enlarge

Spec == Init /\ [][Next]_vars

\* The io_service runs the read handler, and TCP delivers what was sent.
FairSpec == Spec /\ WF_vars(Next)

-----------------------------------------------------------------------------
\* The indices stay within the buffer, and a read that is going on may fill
\* the buffer up to its end and not beyond.
NoOverrun ==
  /\ start <= end
  /\ end <= size
  /\ pc = "reading" => end + space = size

\* No byte is dropped and none is taken twice when data is moved or the
\* buffer is replaced: what is in the buffer and what is coming make up the
\* items that have not been fed.
NothingLost == Data + coming = LengthSum[items]

\* A line that is not longer than the limit never costs the connection,
\* wherever in the buffer it begins and however large the buffer is.
LinesAccepted ==
  pc = "closed" /\ items # << >> /\ ~ InBytes => ReadBytes > MaxString

\* Everything that is sent is fed in the end, or the connection is closed:
\* the buffer never waits for space that nobody makes.
AllFed == <>(items = << >> \/ pc = "closed")

\* peer_connection.cpp:255: the data is moved to create space at the end, so
\* there is space for the read that follows.
SpaceAtTheEnd == pc = "reading" => space > 0

=============================================================================
