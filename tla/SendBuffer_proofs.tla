-------------------------- MODULE SendBuffer_proofs --------------------------
(***************************************************************************)
(* The send buffer is an ordered channel of bytes, for every size of the   *)
(* buffer and everything given to send(), as long as no write that waits   *)
(* has its memory moved: SendBuffer implements ByteChannel.                *)
(***************************************************************************)
EXTENDS SendBuffer, DataLemmas

\* What is in the buffer has been given and not been taken, so the next power
\* of two that is looked for exists; a write that is going on is for some of
\* the data.
WriteOfData ==
  /\ Data <= given
  /\ write.state # "none" => 1 <= write.length /\ write.length <= Data

\* The bytes that a finished write has taken, until handle_write is told.
Untold == IF write.state = "done" THEN write.length ELSE 0

\* As long as no memory has been moved under a waiting write, the data is the
\* bytes given last, in their order, and a waiting write is about to take
\* the first of them.
Intact ==
  ~ moved =>
    /\ Waits => write.from = start /\ ~ write.freed
    /\ Len(wire) = given - Data + Untold
    /\ \A i \in start .. end - 1 : mem[i] = given - end + i + 1

SendInv == TypeOK /\ NoOverrun /\ WriteWhileData /\ WriteOfData /\ Intact

-----------------------------------------------------------------------------
\* NextPower finds a power of two large enough for what send() is given.
LEMMA NextPowerEnough ==
  ASSUME NEW n \in 0 .. MaxGiven
  PROVE  NextPower(n) \in Nat /\ n <= NextPower(n)
<1> DEFINE Enough == { k \in Powers : n <= k }
<1>1. Powers \subseteq Nat /\ \E k \in Powers : n <= k
  BY SendAssumption
<1>2. \E k \in Enough : \A j \in Enough : k <= j
  <2>1. Enough # {} /\ Enough \in SUBSET Nat
    BY <1>1
  <2> HIDE DEF Enough
  <2> QED BY <2>1, LeastNatural
<1>3. \E k \in Powers : n <= k /\ \A j \in Powers : n <= j => k <= j
  BY <1>2
<1> QED BY <1>1, <1>3 DEF NextPower

\* What a waiting write takes is a sequence of bytes.
LEMMA MemoryIsBytes ==
  ASSUME TypeOK, NoOverrun, Waits, NEW n \in 1 .. write.length
  PROVE  /\ Memory(n) \in Seq(Nat \cup {Garbage})
         /\ Len(Memory(n)) = n
         /\ \A i \in 1 .. n :
              Memory(n)[i] = IF write.freed THEN Garbage ELSE mem[write.from + i - 1]
<1>1. write.length \in Nat /\ write.from \in Nat /\ write.freed \in BOOLEAN
  BY DEF TypeOK, Write
<1>2. ASSUME NEW i \in 1 .. n, ~ write.freed
      PROVE  mem[write.from + i - 1] \in Nat \cup {Garbage}
  <2>1. write.from + i - 1 \in 0 .. size - 1
    BY <1>1, <1>2 DEF NoOverrun, TypeOK
  <2> QED BY <2>1 DEF TypeOK
<1>3. Memory(n) \in [1 .. n -> Nat \cup {Garbage}]
  BY <1>2 DEF Memory
<1> QED BY <1>1, <1>3 DEF Memory

-----------------------------------------------------------------------------
LEMMA SendInvInit == Init => SendInv
BY SendAssumption
   DEF Init, SendInv, TypeOK, NoOverrun, WriteWhileData, WriteOfData, Intact,
       Write, NoWrite, Waits, Data, Untold

\* Sending while there is data leaves the write alone, and otherwise starts one.
LEMMA WriteAfterSendCases ==
  ASSUME SendInv, NEW n \in Lengths, NEW from \in Nat
  PROVE  /\ Data # 0 => WriteAfterSend(from, n) = write
         /\ Data = 0 =>
              /\ WriteAfterSend(from, n) \in Write
              /\ WriteAfterSend(from, n).state = IF open THEN "waiting" ELSE "failed"
              /\ WriteAfterSend(from, n).from = from
              /\ WriteAfterSend(from, n).length = n
              /\ WriteAfterSend(from, n).freed = FALSE
              /\ write.state = "none"
<1>1. n \in Nat \ {0}
  BY SendAssumption
<1>2. Data = 0 => write.state = "none"
  BY DEF SendInv, WriteOfData, TypeOK, Write, Data
<1> QED BY <1>1, <1>2 DEF WriteAfterSend, Started, Write

LEMMA SendFitsKeeps ==
  ASSUME SendInv, NEW n \in Lengths, SendFits(n)
  PROVE  SendInv'
<1>1. n \in Nat \ {0} /\ n <= size - end /\ size \in Nat /\ start \in Nat /\ end \in Nat
        /\ start <= end /\ end <= size /\ given \in Nat /\ given + n <= MaxGiven
  BY SendAssumption DEF SendFits, Room, Given, SendInv, TypeOK, NoOverrun
<1>2. /\ given' = given + n /\ open' = open /\ wire' = wire /\ size' = size
      /\ moved' = moved /\ mem' = Copied(mem, Position, n)
      /\ end' = Position + n /\ start' = IF Data = 0 THEN 0 ELSE start
      /\ write' = WriteAfterSend(start', n)
  BY DEF SendFits, Given
<1>3. Position \in Nat /\ Position <= end /\ (Data # 0 => Position = end)
        /\ (Data = 0 => Position = 0)
  BY <1>1 DEF Position
<1>4. Data' = Data + n /\ Data \in Nat
  BY <1>1, <1>2, <1>3 DEF Data
<1>5. start' \in Nat
  BY <1>1, <1>2
<1>6. /\ Data # 0 => write' = write
      /\ Data = 0 => /\ write' \in Write
                     /\ write'.state = IF open THEN "waiting" ELSE "failed"
                     /\ write'.from = start' /\ write'.length = n
                     /\ write'.freed = FALSE
                     /\ write.state = "none"
  BY <1>2, <1>5, WriteAfterSendCases, ZenonT(30)
<1>7. mem' \in [0 .. size' - 1 -> Nat \cup {Garbage}]
  <2>1. mem \in [0 .. size - 1 -> Nat \cup {Garbage}]
    BY DEF SendInv, TypeOK
  <2> QED BY <1>1, <1>2, <1>3, <2>1 DEF Copied
<1>8. TypeOK'
  BY <1>1, <1>2, <1>3, <1>5, <1>6, <1>7 DEF SendInv, TypeOK
<1>9. NoOverrun'
  BY <1>1, <1>2, <1>3, <1>6 DEF SendInv, NoOverrun, Waits, Data, TypeOK, Write
<1>10. WriteWhileData'
  BY <1>1, <1>2, <1>4, <1>6 DEF SendInv, WriteWhileData
<1>11. WriteOfData'
  BY <1>1, <1>2, <1>4, <1>6 DEF SendInv, WriteOfData, TypeOK, Write
<1>12. Intact'
  <2> SUFFICES ASSUME ~ moved PROVE
        /\ Waits' => write'.from = start' /\ ~ write'.freed
        /\ Len(wire) = given' - Data' + Untold'
        /\ \A i \in start' .. end' - 1 : mem'[i] = given' - end' + i + 1
    BY <1>2 DEF Intact
  <2>1. Waits' => write'.from = start' /\ ~ write'.freed
    BY <1>2, <1>6 DEF SendInv, Intact, Waits
  <2>2. Untold' = Untold
    BY <1>6 DEF Untold
  <2>3. Untold \in Nat
    BY DEF Untold, SendInv, TypeOK, Write
  <2>4. Len(wire) = given' - Data' + Untold'
    BY <1>1, <1>2, <1>4, <2>2, <2>3 DEF SendInv, Intact
  <2>5. ASSUME NEW i \in start' .. end' - 1 PROVE mem'[i] = given' - end' + i + 1
    <3>1. i \in 0 .. size - 1 /\ i \in DOMAIN mem
      BY <1>1, <1>2, <1>3, <2>5 DEF SendInv, TypeOK
    <3>2. mem'[i] = IF i \in Position .. Position + n - 1
                    THEN given + (i - Position) + 1 ELSE mem[i]
      BY <1>2, <3>1 DEF Copied
    <3>3. i \in Position .. Position + n - 1 \/ (Data # 0 /\ i \in start .. end - 1)
      BY <1>1, <1>2, <1>3, <2>5
    <3>4. i \in start .. end - 1 => mem[i] = given - end + i + 1
      BY DEF SendInv, Intact
    <3> QED BY <1>1, <1>2, <1>3, <3>2, <3>3, <3>4
  <2> QED BY <2>1, <2>4, <2>5
<1> QED BY <1>8, <1>9, <1>10, <1>11, <1>12 DEF SendInv

\* Moving the data to the beginning, of the same or of a new memory that has
\* room for it: what send() does in both cases, but for the write.
Compacted(n, newSize) ==
  /\ size' = newSize
  /\ given' = given + n /\ open' = open /\ wire' = wire
  /\ start' = 0 /\ end' = Data + n
  /\ mem' \in [0 .. newSize - 1 -> Nat \cup {Garbage}]
  /\ \A i \in 0 .. Data - 1 : mem'[i] = mem[start + i]
  /\ \A i \in Data .. Data + n - 1 : mem'[i] = given + (i - Data) + 1
  /\ moved' = (moved \/ Waits)

\* Bytes copied behind what is in memory.
LEMMA CopiedIs ==
  ASSUME NEW k \in Nat, NEW memory \in [0 .. k - 1 -> Nat \cup {Garbage}],
         NEW at \in Nat, NEW n \in Nat, at + n <= k, given \in Nat
  PROVE  /\ Copied(memory, at, n) \in [0 .. k - 1 -> Nat \cup {Garbage}]
         /\ \A i \in 0 .. at - 1 : Copied(memory, at, n)[i] = memory[i]
         /\ \A i \in at .. at + n - 1 : Copied(memory, at, n)[i] = given + (i - at) + 1
<1> DEFINE c == Copied(memory, at, n)
<1>1. c = [i \in 0 .. k - 1 |->
             IF i \in at .. at + n - 1 THEN given + (i - at) + 1 ELSE memory[i]]
  BY DEF Copied
<1>2. ASSUME NEW i \in 0 .. k - 1
      PROVE  (IF i \in at .. at + n - 1 THEN given + (i - at) + 1 ELSE memory[i])
               \in Nat \cup {Garbage}
  <2>1. i \in at .. at + n - 1 => given + (i - at) + 1 \in Nat
    OBVIOUS
  <2> QED BY <2>1
<1>3. \A i \in 0 .. at - 1 : i \in 0 .. k - 1 /\ i \notin at .. at + n - 1
  OBVIOUS
<1>4. \A i \in at .. at + n - 1 : i \in 0 .. k - 1
  OBVIOUS
<1> HIDE DEF c
<1>5. c \in [0 .. k - 1 -> Nat \cup {Garbage}]
  BY <1>1, <1>2
<1>6. \A i \in 0 .. at - 1 : c[i] = memory[i]
  BY <1>1, <1>3
<1>7. \A i \in at .. at + n - 1 : c[i] = given + (i - at) + 1
  BY <1>1, <1>4
<1> QED BY <1>5, <1>6, <1>7 DEF c

\* The same for a write that starts at the beginning of the buffer.
LEMMA WriteAtBeginning ==
  ASSUME SendInv, NEW n \in Lengths
  PROVE  /\ Data # 0 => WriteAfterSend(0, n) = write
         /\ Data = 0 =>
              /\ WriteAfterSend(0, n) \in Write
              /\ WriteAfterSend(0, n).state = IF open THEN "waiting" ELSE "failed"
              /\ WriteAfterSend(0, n).from = 0
              /\ WriteAfterSend(0, n).length = n
              /\ WriteAfterSend(0, n).freed = FALSE
              /\ write.state = "none"
<1>1. 0 \in Nat
  OBVIOUS
<1> QED BY <1>1, WriteAfterSendCases

LEMMA CompactedKeeps ==
  ASSUME SendInv, NEW n \in Lengths, NEW newSize \in Nat,
         Compacted(n, newSize), Data + n <= newSize, given + n <= MaxGiven,
         write' = [WriteAfterSend(0, n) EXCEPT !.freed = write'.freed],
         write'.freed \in BOOLEAN,
         Data = 0 => ~ write'.freed,
         Waits => (write'.freed = write.freed /\ newSize = size) \/ write'.freed
  PROVE  SendInv'
<1>1. n \in Nat \ {0} /\ size \in Nat /\ start \in Nat /\ end \in Nat
        /\ start <= end /\ end <= size /\ given \in Nat /\ Data \in Nat
  BY SendAssumption DEF SendInv, TypeOK, NoOverrun, Data
<1>2. Data' = Data + n
  BY <1>1 DEF Compacted, Data
<1>3. /\ write' \in Write
      /\ Data # 0 => /\ write'.state = write.state /\ write'.from = write.from
                     /\ write'.length = write.length
      /\ Data = 0 => /\ write'.state = IF open THEN "waiting" ELSE "failed"
                     /\ write'.from = 0 /\ write'.length = n
                     /\ write.state = "none"
  <2>1. write \in Write
    BY DEF SendInv, TypeOK
  <2>0. /\ Data # 0 => WriteAfterSend(0, n) = write
        /\ Data = 0 =>
             /\ WriteAfterSend(0, n) \in Write
             /\ WriteAfterSend(0, n).state = IF open THEN "waiting" ELSE "failed"
             /\ WriteAfterSend(0, n).from = 0
             /\ WriteAfterSend(0, n).length = n
             /\ write.state = "none"
    BY WriteAtBeginning, Zenon
  <2>2. WriteAfterSend(0, n) \in Write
    BY <2>0, <2>1
  <2>3. CASE Data # 0
    <3>1. WriteAfterSend(0, n) = write
      BY <2>3, WriteAfterSendCases
    <3> QED BY <2>1, <2>3, <3>1 DEF Write
  <2>4. CASE Data = 0
    <3>1. PICK w \in Write : w = WriteAfterSend(0, n)
      BY <2>2
    <3>2. /\ w.state = IF open THEN "waiting" ELSE "failed"
          /\ w.from = 0 /\ w.length = n /\ write.state = "none"
      BY <2>0, <2>4, <3>1
    <3>3. write' = [w EXCEPT !.freed = write'.freed]
      BY <3>1
    <3>4. write' \in Write /\ write'.state = w.state /\ write'.from = w.from
            /\ write'.length = w.length
      BY <3>3 DEF Write
    <3> QED BY <2>4, <3>2, <3>4
  <2> QED BY <2>3, <2>4
<1>4. TypeOK'
  BY <1>1, <1>3 DEF SendInv, TypeOK, Compacted
<1>5. NoOverrun'
  <2>1. start' <= end' /\ end' <= size'
    BY <1>1 DEF Compacted
  <2>2. CASE Data = 0
    BY <1>1, <1>3, <2>1, <2>2 DEF Compacted, NoOverrun
  <2>3. CASE Data # 0
    <3>1. Waits' = Waits
      BY <1>3, <2>3 DEF Waits
    <3>2. Waits /\ ~ write'.freed => write.from + write.length <= newSize
      BY DEF SendInv, NoOverrun
    <3> QED BY <1>3, <2>1, <2>3, <3>1, <3>2 DEF Compacted, NoOverrun
  <2> QED BY <2>2, <2>3
<1>6. WriteWhileData'
  BY <1>1, <1>2, <1>3 DEF SendInv, WriteWhileData, Compacted
<1>7. WriteOfData'
  BY <1>1, <1>2, <1>3, SMTT(30) DEF SendInv, WriteOfData, TypeOK, Write, Compacted
<1>8. Intact'
  <2> SUFFICES ASSUME ~ moved, ~ Waits PROVE
        /\ Waits' => write'.from = start' /\ ~ write'.freed
        /\ Len(wire) = given' - Data' + Untold'
        /\ \A i \in start' .. end' - 1 : mem'[i] = given' - end' + i + 1
    BY DEF Intact, Compacted
  <2>1. Waits' => write'.from = start' /\ ~ write'.freed
    BY <1>3 DEF Waits, Compacted
  <2>2. Untold' = Untold
    BY <1>3 DEF Untold
  <2>3. Untold \in Nat
    BY DEF Untold, SendInv, TypeOK, Write
  <2>4. Len(wire) = given' - Data' + Untold'
    BY <1>1, <1>2, <2>2, <2>3, SMTT(30) DEF SendInv, Intact, Compacted
  <2>5. ASSUME NEW i \in start' .. end' - 1 PROVE mem'[i] = given' - end' + i + 1
    <3>1. i \in 0 .. Data + n - 1
      BY <1>1, <2>5 DEF Compacted
    <3>2. CASE i \in Data .. Data + n - 1
      BY <1>1, <3>2, SMTT(30) DEF Compacted
    <3>3. CASE i \in 0 .. Data - 1
      <4>1. start + i \in start .. end - 1
        BY <1>1, <3>3 DEF Data
      <4>2. mem[start + i] = given - end + (start + i) + 1
        BY <4>1 DEF SendInv, Intact
      <4>3. mem'[i] = given - end + (start + i) + 1
        BY <3>3, <4>2 DEF Compacted
      <4>4. given' = given + n /\ end' = Data + n /\ Data = end - start /\ i \in Int
        BY <3>1 DEF Compacted, Data
      <4> QED BY <1>1, <4>3, <4>4
    <3> QED BY <1>1, <3>1, <3>2, <3>3
  <2> QED BY <2>1, <2>4, <2>5
<1> QED BY <1>4, <1>5, <1>6, <1>7, <1>8 DEF SendInv

LEMMA SendShiftedKeeps ==
  ASSUME SendInv, NEW n \in Lengths, SendShifted(n)
  PROVE  SendInv'
<1>1. n \in Nat \ {0} /\ size \in Nat /\ start \in Nat /\ end \in Nat
        /\ start <= end /\ end <= size /\ given \in Nat /\ Data \in Nat
        /\ Data + n <= size /\ given + n <= MaxGiven
  BY SendAssumption DEF SendInv, TypeOK, NoOverrun, Data, SendShifted, Given
<1>2. mem \in [0 .. size - 1 -> Nat \cup {Garbage}] /\ write \in Write
  BY DEF SendInv, TypeOK
<1>3. \A i \in 0 .. Data - 1 : start + i \in 0 .. size - 1
  BY <1>1 DEF Data
<1>4. Shifted \in [0 .. size - 1 -> Nat \cup {Garbage}]
        /\ \A i \in 0 .. Data - 1 : Shifted[i] = mem[start + i]
  <2>1. \A i \in 0 .. size - 1 : i < Data => i \in 0 .. Data - 1
    BY <1>1
  <2>2. \A i \in 0 .. Data - 1 : i \in 0 .. size - 1 /\ i < Data
    BY <1>1
  <2>3. \A i \in 0 .. size - 1 : i < Data => mem[start + i] \in Nat \cup {Garbage}
    BY <1>2, <1>3, <2>1
  <2> QED BY <1>2, <2>2, <2>3 DEF Shifted
<1>5. Compacted(n, size)
  <2> DEFINE memory == Shifted
             d == Data
  <2>1. d \in Nat /\ n \in Nat /\ d + n <= size /\ size \in Nat /\ given \in Nat
    BY <1>1
  <2>2. /\ memory \in [0 .. size - 1 -> Nat \cup {Garbage}]
        /\ \A i \in 0 .. d - 1 : memory[i] = mem[start + i]
    BY <1>4
  <2>3. /\ size' = size /\ mem' = Copied(memory, d, n)
        /\ given' = given + n /\ open' = open /\ wire' = wire
        /\ start' = 0 /\ end' = d + n /\ moved' = (moved \/ Waits)
    BY DEF SendShifted, Given
  <2> HIDE DEF memory, d
  <2>4. /\ mem' \in [0 .. size - 1 -> Nat \cup {Garbage}]
        /\ \A i \in 0 .. d - 1 : mem'[i] = memory[i]
        /\ \A i \in d .. d + n - 1 : mem'[i] = given + (i - d) + 1
    BY <2>1, <2>2, <2>3, CopiedIs
  <2> QED BY <2>2, <2>3, <2>4 DEF Compacted, d
<1>6. WriteAfterSend(0, n) \in Write
        /\ (Data = 0 => WriteAfterSend(0, n).freed = FALSE)
        /\ (Data # 0 => WriteAfterSend(0, n) = write)
  BY <1>2, WriteAfterSendCases
<1>7. write' = WriteAfterSend(0, n)
  BY DEF SendShifted
<1>8. write' = [WriteAfterSend(0, n) EXCEPT !.freed = write'.freed]
        /\ write'.freed \in BOOLEAN
  BY <1>6, <1>7 DEF Write
<1>9. Waits => Data # 0
  BY <1>1, <1>2 DEF SendInv, WriteOfData, Waits, Write
<1> QED BY <1>1, <1>5, <1>6, <1>7, <1>8, <1>9, CompactedKeeps

LEMMA SendEnlargedKeeps ==
  ASSUME SendInv, NEW n \in Lengths, SendEnlarged(n)
  PROVE  SendInv'
<1>1. n \in Nat \ {0} /\ size \in Nat /\ start \in Nat /\ end \in Nat
        /\ start <= end /\ end <= size /\ given \in Nat /\ Data \in Nat
        /\ given + n <= MaxGiven /\ Data <= given
  BY SendAssumption
     DEF SendInv, TypeOK, NoOverrun, WriteOfData, Data, SendEnlarged, Given
<1>2. mem \in [0 .. size - 1 -> Nat \cup {Garbage}] /\ write \in Write
  BY DEF SendInv, TypeOK
<1>3. PICK newSize \in Nat : newSize = NextPower(Data + n) /\ Data + n <= newSize
  <2>1. Data + n \in 0 .. MaxGiven
    BY <1>1, SendAssumption
  <2> QED BY <2>1, NextPowerEnough
<1>4. \A i \in 0 .. Data - 1 : start + i \in 0 .. size - 1
  BY <1>1 DEF Data
<1>5. MovedTo(newSize) \in [0 .. newSize - 1 -> Nat \cup {Garbage}]
        /\ \A i \in 0 .. Data - 1 : MovedTo(newSize)[i] = mem[start + i]
  <2>1. \A i \in 0 .. newSize - 1 : i < Data => i \in 0 .. Data - 1
    BY <1>1
  <2>2. \A i \in 0 .. Data - 1 : i \in 0 .. newSize - 1 /\ i < Data
    BY <1>1, <1>3
  <2>3. \A i \in 0 .. newSize - 1 : i < Data => mem[start + i] \in Nat \cup {Garbage}
    BY <1>2, <1>4, <2>1
  <2> HIDE DEF Data
  <2> QED BY <2>2, <2>3 DEF MovedTo
<1>6. Compacted(n, newSize)
  <2> DEFINE memory == MovedTo(newSize)
             d == Data
  <2>1. d \in Nat /\ n \in Nat /\ d + n <= newSize /\ given \in Nat
    BY <1>1, <1>3
  <2>2. /\ memory \in [0 .. newSize - 1 -> Nat \cup {Garbage}]
        /\ \A i \in 0 .. d - 1 : memory[i] = mem[start + i]
    BY <1>5
  <2>3. /\ size' = newSize /\ mem' = Copied(memory, d, n)
        /\ given' = given + n /\ open' = open /\ wire' = wire
        /\ start' = 0 /\ end' = d + n /\ moved' = (moved \/ Waits)
    BY <1>3 DEF SendEnlarged, Given
  <2> HIDE DEF memory, d
  <2>4. /\ mem' \in [0 .. newSize - 1 -> Nat \cup {Garbage}]
        /\ \A i \in 0 .. d - 1 : mem'[i] = memory[i]
        /\ \A i \in d .. d + n - 1 : mem'[i] = given + (i - d) + 1
    BY <2>1, <2>2, <2>3, CopiedIs
  <2> QED BY <2>2, <2>3, <2>4 DEF Compacted, d
<1>7. write' = [WriteAfterSend(0, n) EXCEPT !.freed = Waits]
        /\ WriteAfterSend(0, n) \in Write
  BY <1>2, WriteAfterSendCases DEF SendEnlarged
<1>8. write'.freed = Waits
  BY <1>7 DEF Write
<1>9. Waits \in BOOLEAN /\ (Data = 0 => ~ Waits)
  BY <1>1, <1>2 DEF SendInv, WriteOfData, Waits, Write
<1> QED BY <1>1, <1>3, <1>6, <1>7, <1>8, <1>9, CompactedKeeps

-----------------------------------------------------------------------------
\* Taking bytes: they are the next ones, and one write is done.
LEMMA TakeDelivers ==
  ASSUME SendInv, NEW n \in 1 .. write.length, Take(n), ~ moved
  PROVE  /\ Len(wire) + n <= given
         /\ wire' = wire \o [i \in 1 .. n |-> Len(wire) + i]
<1>1. Waits /\ wire' = wire \o Memory(n) /\ n \in Nat \ {0}
  BY DEF Take, SendInv, TypeOK, Write
<1>2. write.from = start /\ ~ write.freed /\ Len(wire) = given - Data
        /\ write.length <= Data /\ write.length \in Nat
        /\ start \in Nat /\ end \in Nat /\ given \in Nat
  BY <1>1 DEF SendInv, Intact, Untold, WriteOfData, Waits, TypeOK, Write, Data
<1>3. ASSUME NEW i \in 1 .. n PROVE mem[write.from + i - 1] = Len(wire) + i
  <2>1. start + i - 1 \in start .. end - 1
    BY <1>1, <1>2 DEF Data
  <2>2. mem[start + i - 1] = given - end + (start + i - 1) + 1
    BY <2>1 DEF SendInv, Intact
  <2> QED BY <1>2, <2>2 DEF Data
<1>4. Memory(n) = [i \in 1 .. n |-> Len(wire) + i]
  BY <1>2, <1>3 DEF Memory
<1> QED BY <1>1, <1>2, <1>4 DEF Data

LEMMA TakeKeeps ==
  ASSUME SendInv, NEW n \in 1 .. write.length, Take(n)
  PROVE  SendInv'
<1>1. Waits /\ wire' = wire \o Memory(n) /\ n \in Nat \ {0} /\ n <= write.length
        /\ write \in Write /\ write.length <= Data /\ wire \in Seq(Nat \cup {Garbage})
  BY DEF Take, SendInv, TypeOK, Write, WriteOfData, Waits
<1>2. /\ size' = size /\ start' = start /\ end' = end /\ mem' = mem
      /\ open' = open /\ given' = given /\ moved' = moved /\ Data' = Data
      /\ write' = [write EXCEPT !.state = "done", !.length = n]
  BY DEF Take, Data
<1>3. write' \in Write /\ write'.state = "done" /\ write'.length = n
  BY <1>1, <1>2 DEF Write
<1>4. Memory(n) \in Seq(Nat \cup {Garbage}) /\ Len(Memory(n)) = n
  BY <1>1, MemoryIsBytes DEF SendInv
<1>5. wire' \in Seq(Nat \cup {Garbage}) /\ Len(wire') = Len(wire) + n
  BY <1>1, <1>4, ConcatProperties
<1>6. start \in Nat /\ end \in Nat /\ start <= end /\ given \in Nat /\ Data \in Nat
        /\ Len(wire) \in Nat
  BY <1>1 DEF SendInv, TypeOK, NoOverrun, Data
<1>7. TypeOK'
  BY <1>2, <1>3, <1>5 DEF SendInv, TypeOK
<1>8. NoOverrun'
  BY <1>2, <1>3 DEF SendInv, NoOverrun, Waits
<1>9. write.state # "none" /\ write'.state # "none"
  BY <1>1, <1>3 DEF Waits
<1>10. WriteWhileData'
  BY <1>2, <1>9 DEF SendInv, WriteWhileData
<1>11. WriteOfData'
  BY <1>1, <1>2, <1>3, <1>6 DEF SendInv, WriteOfData, Write
<1>12. Intact'
  BY <1>1, <1>2, <1>3, <1>5, <1>6 DEF SendInv, Intact, Waits, Untold
<1> QED BY <1>7, <1>8, <1>10, <1>11, <1>12 DEF SendInv

LEMMA HandleWriteKeeps ==
  ASSUME SendInv, HandleWrite
  PROVE  SendInv'
<1>1. write \in Write /\ write.length \in Nat /\ 1 <= write.length
        /\ write.length <= Data /\ write.state = "done"
        /\ start \in Nat /\ end \in Nat /\ size \in Nat
        /\ end <= size /\ given \in Nat /\ Data <= given
  BY DEF SendInv, TypeOK, Write, WriteOfData, HandleWrite, NoOverrun
<1>2. /\ size' = size /\ end' = end /\ mem' = mem /\ wire' = wire
      /\ open' = open /\ given' = given /\ moved' = moved
      /\ start' = start + write.length
      /\ write' = WriteOn(start + write.length, Data - write.length)
  BY DEF HandleWrite
<1>3. Data' = Data - write.length /\ Data \in Nat /\ Data' \in Nat
        /\ start' \in Nat /\ start' <= end
  BY <1>1, <1>2 DEF Data
<1>4. /\ write' \in Write
      /\ Data' = 0 => write'.state = "none"
      /\ Data' # 0 => /\ write'.state = IF open THEN "waiting" ELSE "failed"
                      /\ write'.from = start' /\ write'.length = Data'
                      /\ ~ write'.freed
  BY <1>1, <1>2, <1>3 DEF WriteOn, NoWrite, Started, Write
<1>5. TypeOK'
  BY <1>2, <1>3, <1>4 DEF SendInv, TypeOK
<1>6. NoOverrun'
  BY <1>1, <1>2, <1>3, <1>4 DEF NoOverrun, Waits, Data
<1>7. WriteWhileData' /\ WriteOfData'
  BY <1>1, <1>2, <1>3, <1>4 DEF WriteWhileData, WriteOfData
<1>8. Intact'
  <2> SUFFICES ASSUME ~ moved PROVE
        /\ Waits' => write'.from = start' /\ ~ write'.freed
        /\ Len(wire) = given - Data' + Untold'
        /\ \A i \in start' .. end - 1 : mem[i] = given - end + i + 1
    BY <1>2 DEF Intact
  <2>1. Untold' = 0
    BY <1>4 DEF Untold
  <2>2. Len(wire) = given - Data + write.length
    BY <1>1 DEF SendInv, Intact, Untold
  <2>3. \A i \in start' .. end - 1 : i \in start .. end - 1
    BY <1>1, <1>2
  <2>4. \A i \in start' .. end - 1 : mem[i] = given - end + i + 1
    BY <2>3 DEF SendInv, Intact
  <2>5. Waits' => write'.from = start' /\ ~ write'.freed
    BY <1>3, <1>4 DEF Waits
  <2> QED BY <1>1, <1>3, <2>1, <2>2, <2>4, <2>5
<1> QED BY <1>5, <1>6, <1>7, <1>8 DEF SendInv

\* A write that fails and a connection that is closed move no data.
LEMMA FailureKeeps ==
  ASSUME SendInv, HandleWriteError \/ WriteFails \/ Close
  PROVE  SendInv'
<1>1. write \in Write
  BY DEF SendInv, TypeOK
<1>2. /\ size' = size /\ start' = start /\ end' = end /\ mem' = mem
      /\ wire' = wire /\ given' = given /\ moved' = moved /\ Data' = Data
      /\ open' \in BOOLEAN /\ (open' => open)
  <2>1. open \in BOOLEAN
    BY DEF SendInv, TypeOK
  <2>2. open' = FALSE \/ open' = open
    BY Zenon DEF HandleWriteError, WriteFails, Close
  <2>3. open' \in BOOLEAN /\ (open' => open)
    <3>1. CASE open' = FALSE
      BY <3>1
    <3>2. CASE open' = open
      BY <2>1, <3>2
    <3> QED BY <2>2, <3>1, <3>2
  <2>4. /\ size' = size /\ start' = start /\ end' = end /\ mem' = mem
        /\ wire' = wire /\ given' = given /\ moved' = moved
    BY Zenon DEF HandleWriteError, WriteFails, Close
  <2> QED BY <2>3, <2>4 DEF Data
<1>3. \/ write' = NoWrite /\ ~ open' /\ write.state = "failed"
      \/ write' = [write EXCEPT !.state = "failed"] /\ Waits
      \/ write' = write /\ ~ Waits
  <2>1. CASE HandleWriteError
    BY <2>1 DEF HandleWriteError
  <2>2. CASE WriteFails
    BY <2>2 DEF WriteFails
  <2>3. CASE Close
    <3>1. CASE Waits
      BY <2>3, <3>1 DEF Close
    <3>2. CASE ~ Waits
      BY <1>1, <2>3, <3>2 DEF Close, Write
    <3> QED BY <3>1, <3>2
  <2> QED BY <2>1, <2>2, <2>3
<1>4. write' \in Write /\ (Waits' => Waits /\ write' = write) /\ Untold' = Untold
  <2>1. CASE write' = NoWrite /\ write.state = "failed"
    BY <2>1 DEF Write, NoWrite, Waits, Untold
  <2>2. CASE write' = [write EXCEPT !.state = "failed"] /\ Waits
    BY <1>1, <2>2 DEF Write, Waits, Untold
  <2>3. CASE write' = write /\ ~ Waits
    BY <1>1, <2>3 DEF Waits, Untold
  <2> QED BY <1>3, <2>1, <2>2, <2>3
<1>5. write'.state # "none" => write.state # "none" /\ write'.length = write.length
  BY <1>1, <1>3 DEF Write, NoWrite, Waits
<1>6. open' => (write'.state # "none" <=> write.state # "none")
  BY <1>1, <1>3 DEF Write, NoWrite, Waits
<1> QED BY <1>2, <1>4, <1>5, <1>6
        DEF SendInv, TypeOK, NoOverrun, WriteWhileData, WriteOfData, Intact

-----------------------------------------------------------------------------
\* Every step keeps the invariant.
LEMMA SendInvNext == SendInv /\ [Next]_vars => SendInv'
<1> SUFFICES ASSUME SendInv, [Next]_vars PROVE SendInv'
  OBVIOUS
<1>1. CASE UNCHANGED vars
  BY <1>1 DEF vars, SendInv, TypeOK, NoOverrun, WriteWhileData, WriteOfData,
              Intact, Data, Waits, Untold
<1>2. ASSUME NEW n \in Lengths, Send(n) PROVE SendInv'
  BY <1>2, SendFitsKeeps, SendShiftedKeeps, SendEnlargedKeeps DEF Send
<1>3. ASSUME NEW n \in 1 .. write.length, Take(n) PROVE SendInv'
  BY <1>3, TakeKeeps
<1>4. CASE HandleWrite
  BY <1>4, HandleWriteKeeps
<1>5. CASE HandleWriteError \/ WriteFails \/ Close
  BY <1>5, FailureKeeps
<1> QED BY <1>1, <1>2, <1>3, <1>4, <1>5 DEF Next

LEMMA SendInvAlways == Spec => []SendInv
<1> QED BY SendInvInit, SendInvNext, PTL DEF Spec

\* TypeOK: the buffer has the memory its size says, and a write is for a part
\* of it (peer_connection.h, the members snd_buffer_*).
THEOREM SendTypeCorrect == Spec => []TypeOK
<1>1. SendInv => TypeOK
  BY DEF SendInv
<1> QED BY SendInvAlways, <1>1, PTL

\* send() writes nothing behind its buffer and no write reads behind it,
\* whatever is given to it and whenever the network takes it.
THEOREM SendNeverOverruns == Spec => []NoOverrun
<1>1. SendInv => NoOverrun
  BY DEF SendInv
<1> QED BY SendInvAlways, <1>1, PTL

\* There is a write for the data of every open connection, and never two: the
\* condition by which send() decides whether to start one is the right one.
THEOREM DataIsWritten == Spec => []WriteWhileData
<1>1. SendInv => WriteWhileData
  BY DEF SendInv
<1> QED BY SendInvAlways, <1>1, PTL

\* A step of the buffer is a step of the channel, or none.
LEMMA ChannelStep ==
  SendInv /\ [Next]_vars => [Channel!Next]_<<given, wire, moved>>
<1> SUFFICES ASSUME SendInv, Next
             PROVE  Channel!Next \/ UNCHANGED <<given, wire, moved>>
  BY DEF vars
<1> USE DEF Channel!Next, Channel!Put, Channel!Deliver, Channel!Mangle
<1>1. moved \in BOOLEAN /\ given \in Nat
  BY DEF SendInv, TypeOK
<1>2. ASSUME NEW n \in Lengths, Send(n) PROVE Channel!Put
  <2>1. n \in Nat \ {0}
    BY SendAssumption
  <2>2. given' = given + n /\ wire' = wire
    BY <1>2 DEF Send, SendFits, SendShifted, SendEnlarged, Given
  <2>3. given' > given
    BY <1>1, <2>1, <2>2
  <2>4. moved' = moved \/ moved' = (moved \/ Waits)
    BY <1>2, Zenon DEF Send, SendFits, SendShifted, SendEnlarged
  <2>5. moved' \in {moved, TRUE}
    BY <1>1, <2>4, Zenon DEF Waits
  <2> QED BY <2>2, <2>3, <2>5, Zenon
<1>3. ASSUME NEW n \in 1 .. write.length, Take(n) PROVE Channel!Next
  <2>1. given' = given /\ moved' = moved
    BY <1>3 DEF Take
  <2>2. CASE moved
    BY <2>1, <2>2
  <2>3. CASE ~ moved
    <3>1. Len(wire) + n <= given /\ wire' = wire \o [i \in 1 .. n |-> Len(wire) + i]
      BY <1>3, <2>3, TakeDelivers
    <3>2. Len(wire) \in Nat /\ write.length \in Nat
      BY DEF SendInv, TypeOK, Write
    <3>3. n \in 1 .. given
      BY <1>1, <3>1, <3>2
    <3> QED BY <2>1, <2>3, <3>1, <3>3
  <2> QED BY <2>2, <2>3
<1>4. CASE HandleWrite \/ HandleWriteError \/ WriteFails \/ Close
  BY <1>4 DEF HandleWrite, HandleWriteError, WriteFails, Close
<1> QED BY <1>2, <1>3, <1>4 DEF Next

\* The buffer implements the channel: the network gets the bytes in the order
\* in which send() was given them, up to the first time that the memory of a
\* waiting write is moved, for all sizes and all sequences of calls.
THEOREM SendImplementsChannel == Spec => SendsInOrder
<1>1. Init => Channel!Init
  BY DEF Init, Channel!Init
<1>2. SendInv /\ [Next]_vars => [Channel!Next]_Channel!channelVars
  BY ChannelStep DEF Channel!channelVars
<1> QED BY SendInvAlways, <1>1, <1>2, PTL DEF Spec, SendsInOrder, Channel!Spec

=============================================================================
