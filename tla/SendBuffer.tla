----------------------------- MODULE SendBuffer -----------------------------
(***************************************************************************)
(* The send buffer of a peer_connection (peer_connection.cpp, send,        *)
(* handle_write and close).  send() copies what it is given behind the     *)
(* data still to be sent and starts an asynchronous write when there is no *)
(* other.  The write takes some of the bytes, at once or when the socket   *)
(* has room again, straight from the memory of the buffer; handle_write    *)
(* then starts the next one.  To find room, send() moves the data within   *)
(* the buffer or to a new one.                                             *)
(*                                                                         *)
(* The bytes given to send() are numbered from one.                        *)
(***************************************************************************)
EXTENDS Integers, Sequences

CONSTANTS
  InitialSize,   \* snd_buffer_size_ of a new connection: 256
  Powers,        \* the powers of two next_power steps through
  Lengths,       \* how many bytes are given to one send()
  MaxGiven,      \* bound: bytes given in a behaviour
  Garbage        \* what is in memory nobody has written to

ASSUME SendAssumption ==
  /\ InitialSize \in Nat \ {0}
  /\ Powers \subseteq Nat
  /\ MaxGiven \in Nat
  /\ \A n \in 0 .. MaxGiven : \E k \in Powers : n <= k
  /\ Lengths \subseteq Nat \ {0}
  /\ Garbage \notin Nat

VARIABLES
  size,     \* snd_buffer_size_
  start,    \* snd_buffer_start_: the first byte still to be sent
  end,      \* snd_buffer_end_: behind the last of them
  mem,      \* snd_buffer_
  write,    \* the asynchronous write that is going on
  open,     \* the socket has not been closed
  given,    \* how many bytes send() has been given
  wire,     \* the bytes the network has taken
  moved     \* the memory of a waiting write has been moved or freed

vars == <<size, start, end, mem, write, open, given, wire, moved>>

\* A write is "waiting" for room in the socket with a part of the memory,
\* "done" with some bytes taken, or "failed".  handle_write has not been
\* called.  Memory that has been freed since is no part of mem.
Write ==
  [state : {"none", "waiting", "done", "failed"}, from : Nat, length : Nat,
   freed : BOOLEAN]

NoWrite == [state |-> "none", from |-> 0, length |-> 0, freed |-> FALSE]

\* Data still to be sent.
Data == end - start

Waits == write.state = "waiting"

TypeOK ==
  /\ size \in Nat /\ start \in Nat /\ end \in Nat
  /\ mem \in [0 .. size - 1 -> Nat \cup {Garbage}]
  /\ write \in Write
  /\ open \in BOOLEAN
  /\ given \in 0 .. MaxGiven
  /\ wire \in Seq(Nat \cup {Garbage})
  /\ moved \in BOOLEAN

Init ==
  /\ size = InitialSize
  /\ start = 0
  /\ end = 0
  /\ mem = [i \in 0 .. InitialSize - 1 |-> Garbage]
  /\ write = NoWrite
  /\ open = TRUE
  /\ given = 0
  /\ wire = << >>
  /\ moved = FALSE

-----------------------------------------------------------------------------
\* async_write_some of n bytes from a position on; on a closed socket the
\* write has failed before it begins.
Started(from, n) ==
  [state |-> IF open THEN "waiting" ELSE "failed", from |-> from,
   length |-> n, freed |-> FALSE]

\* MUTANT of WriteAfterSend: what has just been copied counts as data that a
\* write is going on for.
WriteAfterSendLate(from, n) ==
  IF Data + n = 0 THEN Started(from, n) ELSE write

\* The end of send(): a write is only started when there is not one in the
\* queue already, whose handle_write goes on with what is left.
WriteAfterSend(from, n) ==
  IF Data = 0 THEN Started(from, n) ELSE write

\* n bytes are copied to a memory, from a position on.
Copied(memory, at, n) ==
  [i \in DOMAIN memory |->
     IF i \in at .. at + n - 1 THEN given + (i - at) + 1 ELSE memory[i]]

Given(n) ==
  /\ n \in Lengths
  /\ given + n <= MaxGiven
  /\ given' = given + n
  /\ UNCHANGED <<open, wire>>

\* MUTANT of Room: as if the data began at the start of the buffer.
RoomBehindStart == size - Data

\* The space at the end of the buffer, as it was before an empty buffer is
\* used from its beginning again.
Room == size - end

\* MUTANT of Position: behind what has been sent long ago.
PositionBehindEnd == end

\* Where a buffer with room enough is filled.
Position == IF Data = 0 THEN 0 ELSE end

SendFits(n) ==
  /\ n <= Room
  /\ Given(n)
  /\ mem' = Copied(mem, Position, n)
  /\ start' = IF Data = 0 THEN 0 ELSE start
  /\ end' = Position + n
  /\ write' = WriteAfterSend(start', n)
  /\ UNCHANGED <<size, moved>>

\* The data is moved to the beginning to create space at the end.
Shifted ==
  [i \in DOMAIN mem |-> IF i < Data THEN mem[start + i] ELSE mem[i]]

SendShifted(n) ==
  /\ n > Room /\ n <= size - Data
  /\ Given(n)
  /\ mem' = Copied(Shifted, Data, n)
  /\ start' = 0
  /\ end' = Data + n
  /\ write' = WriteAfterSend(0, n)
  /\ moved' = (moved \/ Waits)
  /\ UNCHANGED size

\* The data is moved to a new buffer, and the old one is deleted.
NextPower(n) ==
  CHOOSE k \in Powers : n <= k /\ \A j \in Powers : n <= j => k <= j

\* MUTANT of MovedTo: the new buffer is as large as the old one.
MovedToOldSize(newSize) ==
  [i \in 0 .. size - 1 |-> IF i < Data THEN mem[start + i] ELSE Garbage]

MovedTo(newSize) ==
  [i \in 0 .. newSize - 1 |-> IF i < Data THEN mem[start + i] ELSE Garbage]

SendEnlarged(n) ==
  /\ n > Room /\ n > size - Data
  /\ Given(n)
  /\ size' = NextPower(Data + n)
  /\ mem' = Copied(MovedTo(NextPower(Data + n)), Data, n)
  /\ start' = 0
  /\ end' = Data + n
  /\ write' = [WriteAfterSend(0, n) EXCEPT !.freed = Waits]
  /\ moved' = (moved \/ Waits)

Send(n) == SendFits(n) \/ SendShifted(n) \/ SendEnlarged(n)

-----------------------------------------------------------------------------
\* What the memory of the waiting write holds now.
Memory(n) ==
  [i \in 1 .. n |-> IF write.freed THEN Garbage ELSE mem[write.from + i - 1]]

\* The socket has room for n bytes of the write: at once or later.
Take(n) ==
  /\ Waits /\ n <= write.length
  /\ wire' = wire \o Memory(n)
  /\ write' = [write EXCEPT !.state = "done", !.length = n]
  /\ UNCHANGED <<size, start, end, mem, open, given, moved>>

\* MUTANT of WriteOn: what is left waits for the next send().
WriteOnNever(from, n) == NoWrite

\* handle_write goes on with the data that is left, if there is any.
WriteOn(from, n) == IF n = 0 THEN NoWrite ELSE Started(from, n)

HandleWrite ==
  /\ write.state = "done"
  /\ start' = start + write.length
  /\ write' = WriteOn(start + write.length, Data - write.length)
  /\ UNCHANGED <<size, end, mem, open, given, wire, moved>>

\* handle_write with an error and no bytes: the connection is closed, twice.
HandleWriteError ==
  /\ write.state = "failed"
  /\ open' = FALSE
  /\ write' = NoWrite
  /\ UNCHANGED <<size, start, end, mem, given, wire, moved>>

\* The connection breaks while a write is waiting.
WriteFails ==
  /\ Waits
  /\ write' = [write EXCEPT !.state = "failed"]
  /\ UNCHANGED <<size, start, end, mem, open, given, wire, moved>>

\* close() from elsewhere: a write that is waiting is aborted.
Close ==
  /\ open
  /\ open' = FALSE
  /\ write' = [write EXCEPT !.state = IF Waits THEN "failed" ELSE @]
  /\ UNCHANGED <<size, start, end, mem, given, wire, moved>>

Next ==
  \/ \E n \in Lengths : Send(n)
  \/ \E n \in 1 .. write.length : Take(n)
  \/ HandleWrite
  \/ HandleWriteError
  \/ WriteFails
  \/ Close

Spec == Init /\ [][Next]_vars

\* The other side reads, and the io_service runs handle_write.
FairSpec ==
  /\ Spec
  /\ WF_vars(\E n \in 1 .. write.length : Take(n))
  /\ WF_vars(HandleWrite) /\ WF_vars(HandleWriteError)

-----------------------------------------------------------------------------
\* The data is within the buffer, and so is the memory a waiting write reads
\* from, unless that buffer has been deleted.
NoOverrun ==
  /\ start <= end /\ end <= size
  /\ Waits /\ ~ write.freed => write.from + write.length <= size

\* On an open connection a write is going on exactly when there is data, so
\* that send() may take data in the buffer for a write in the queue.
WriteWhileData == open => (write.state # "none" <=> Data # 0)

\* The bytes given to send() reach the network in their order and each of
\* them once, whatever room is made in between, up to the first time that the
\* memory of a waiting write is moved.
Channel == INSTANCE ByteChannel WITH broken <- moved
SendsInOrder == Channel!Spec

\* Everything given to send() is sent, or the connection is closed.
AllSent == \A n \in 1 .. MaxGiven : given >= n ~> Len(wire) >= n \/ ~ open

\* peer_connection.cpp:81: what is between start and end is the data still to
\* be sent, so a write that is waiting is about to send the next bytes.
WaitingWriteIntact ==
  Waits => Memory(write.length) =
             [i \in 1 .. write.length |-> Len(wire) + i]

=============================================================================
