------------------------ MODULE ReceiveBuffer_proofs ------------------------
(***************************************************************************)
(* The receive buffer is never overrun, whatever its size, the limits and  *)
(* the stream of items: handle_read does the arithmetic of its indices     *)
(* right, also when the connection is about to be closed.                  *)
(***************************************************************************)
EXTENDS ReceiveBuffer, DataLemmas

\* What NoOverrun and LinesAccepted need: the types of the indices; a size
\* that is a power of two as long as the connection is open, so that doubling
\* it does not step over the limit of a line; and space for every read that
\* waits for the end of a line.
IndexTypes ==
  /\ size \in Nat /\ start \in Nat /\ end \in Nat /\ space \in Nat
  /\ pc \in {"reading", "looping", "closed"}
  /\ items \in Seq(Item)

SpaceForLine == pc = "reading" /\ ~ InBytes => space > 0

Inv ==
  /\ IndexTypes
  /\ NoOverrun
  /\ pc # "closed" => size \in Powers
  /\ SpaceForLine
  /\ LinesAccepted

-----------------------------------------------------------------------------
\* NextPower finds a power of two large enough for any chunk.
LEMMA NextPowerSuffices ==
  ASSUME NEW n \in 0 .. MaxChunk
  PROVE  NextPower(n) \in Powers /\ n <= NextPower(n)
<1> DEFINE Enough == { k \in Powers : n <= k }
<1>1. Powers \subseteq Nat \ {0} /\ \E k \in Powers : n <= k
  BY BufferAssumption
<1>2. \E k \in Enough : \A j \in Enough : k <= j
  <2>1. Enough # {} /\ Enough \in SUBSET Nat
    BY <1>1
  <2> HIDE DEF Enough
  <2> QED BY <2>1, LeastNatural
<1>3. \E k \in Powers : n <= k /\ \A j \in Powers : n <= j => k <= j
  BY <1>2
<1> QED BY <1>1, <1>3 DEF NextPower

\* An item, and what is left of the items, has its type.
LEMMA HeadOfItems ==
  ASSUME items \in Seq(Item), items # << >>
  PROVE  /\ ReadBytes \in Nat
         /\ Tail(items) \in Seq(Item)
<1>1. Head(items) \in Item /\ Tail(items) \in Seq(Item)
  OBVIOUS
<1> QED BY <1>1 DEF Item, ReadBytes

-----------------------------------------------------------------------------
\* The invariant holds in the empty buffer.
LEMMA InvInit == Init => Inv
<1> SUFFICES ASSUME Init PROVE Inv
  OBVIOUS
<1>1. items \in Seq(Item) /\ InitialSize \in Powers /\ Powers \subseteq Nat \ {0}
  BY BufferAssumption DEF Init
<1> QED BY <1>1 DEF Init, Inv, IndexTypes, NoOverrun, SpaceForLine, LinesAccepted

\* Every step of the reader keeps the invariant.
LEMMA InvNext == Inv /\ [Next]_vars => Inv'
<1> SUFFICES ASSUME Inv, [Next]_vars PROVE Inv'
  OBVIOUS
<1> USE DEF Inv, IndexTypes, NoOverrun, SpaceForLine, LinesAccepted
<1>1. CASE UNCHANGED vars
  BY <1>1 DEF vars, InBytes, ReadBytes
<1>2. ASSUME NEW n \in 1 .. coming, Received(n) PROVE Inv'
  BY <1>2 DEF Received
<1>3. CASE ReceivedNothing
  BY <1>3 DEF ReceivedNothing, InBytes, ReadBytes
<1>4. CASE Feed
  <2>1. items # << >> /\ ReadBytes <= Data /\ pc = "looping"
    BY <1>4 DEF Feed, Complete
  <2>2. ReadBytes \in Nat /\ Tail(items) \in Seq(Item)
    BY <2>1, HeadOfItems
  <2>3. start + ReadBytes \in Nat /\ start + ReadBytes <= end
    BY <2>1, <2>2 DEF Data
  <2> QED BY <1>4, <2>1, <2>2, <2>3 DEF Feed
<1>5. CASE ChunkTooLong
  BY <1>5 DEF ChunkTooLong, After, InBytes, ReadBytes
<1>6. CASE ReadOn
  BY <1>6, BufferAssumption DEF ReadOn, After, TooSmall, Space, End, Start, Data, InBytes
<1>7. CASE Double
  <2>1. size \in Nat \ {0} /\ size \in Powers
    BY <1>7, BufferAssumption DEF Double, After
  <2>2. start = 0 /\ end = size /\ Start = 0 /\ End = size /\ Data = size
    BY <1>7, <2>1 DEF Double, LineFillsBuffer, Space, Start, End, Data
  <2>3. CASE 2 * size <= MaxString
    <3>1. 2 * size \in Powers /\ 2 * size \in Nat
      BY <2>1, <2>3, BufferAssumption
    <3> QED BY <1>7, <2>1, <2>2, <2>3, <3>1, BufferAssumption DEF Double
  <2>4. CASE 2 * size > MaxString
    <3>1. size >= MaxString
      BY <2>1, <2>4, BufferAssumption
    <3>2. items # << >> => ReadBytes > MaxString
      <4> SUFFICES ASSUME items # << >> PROVE ReadBytes > MaxString
        OBVIOUS
      <4>1. ReadBytes \in Nat
        BY HeadOfItems
      <4>2. ReadBytes > size
        BY <1>7, <2>1, <2>2, <4>1 DEF Double, After, Complete
      <4> QED BY <2>1, <3>1, <4>1, <4>2, BufferAssumption
    <3> QED BY <1>7, <2>1, <2>2, <2>4, <3>2, BufferAssumption
            DEF Double, InBytes, ReadBytes
  <2> QED BY <2>1, <2>3, <2>4, BufferAssumption
<1>8. CASE Shift
  BY <1>8 DEF Shift, ShiftTo, After, LineFillsBuffer, Space, End, Start, Data, InBytes
<1>9. CASE Enlarge
  <2>1. InBytes /\ items # << >> /\ pc = "looping"
    BY <1>9 DEF Enlarge, Shiftable, After, InBytes
  <2>2. ReadBytes \in 0 .. MaxChunk
    BY <1>9, <2>1, HeadOfItems, BufferAssumption DEF Enlarge
  <2>3. Data \in Nat /\ Data < ReadBytes
    BY <1>9, <2>1, <2>2 DEF Enlarge, After, Complete, Data
  <2>4. PICK k \in Powers : k = NextPower(ReadBytes) /\ ReadBytes <= k
    BY <2>2, NextPowerSuffices
  <2>5. k \in Nat \ {0} /\ ReadBytes \in Nat
    BY <2>2, BufferAssumption
  <2> HIDE DEF Data, ReadBytes, InBytes
  <2>6. InBytes'
    BY <1>9, <2>1 DEF Enlarge, InBytes
  <2> QED BY <1>9, <2>3, <2>4, <2>5, <2>6 DEF Enlarge, ShiftTo
<1> QED BY <1>1, <1>2, <1>3, <1>4, <1>5, <1>6, <1>7, <1>8, <1>9 DEF Next

\* The invariant holds in every state of the reader.
LEMMA InvAlways == Spec => []Inv
<1> QED BY InvInit, InvNext, PTL DEF Spec

\* No read that handle_read asks for reaches beyond the buffer it has, and
\* the data stays inside, for all sizes, limits and streams: also when the
\* buffer is doubled, shifted or replaced.
THEOREM NeverOverrun == Spec => []NoOverrun
<1>1. Inv => NoOverrun
  BY DEF Inv
<1> QED BY InvAlways, <1>1, PTL

\* A connection is only closed over a line when the line is longer than
\* DDSN_MESSAGE_STRING_MAX_LENGTH, wherever it begins in the buffer.
THEOREM LinesAlwaysAccepted == Spec => []LinesAccepted
<1>1. Inv => LinesAccepted
  BY DEF Inv
<1> QED BY InvAlways, <1>1, PTL

-----------------------------------------------------------------------------
\* The lengths of a stream, added up from its end.
Adding(s) == [i \in 1 .. Len(s) |-> [v \in Nat |-> v + s[Len(s) - i + 1].length]]

Sum(s) == CHOOSE v \in Nat :
            \E V \in [0 .. Len(s) -> Nat] :
              Steps(V, Len(s), 0, Adding(s)) /\ v = V[Len(s)]

LEMMA AddingType ==
  ASSUME NEW s \in Seq(Item)
  PROVE  Adding(s) \in [1 .. Len(s) -> [Nat -> Nat]]
<1>1. ASSUME NEW i \in 1 .. Len(s)
      PROVE  s[Len(s) - i + 1].length \in Nat
  <2>1. Len(s) - i + 1 \in 1 .. Len(s)
    OBVIOUS
  <2>2. s[Len(s) - i + 1] \in Item
    BY <2>1, ElementOfSeq
  <2> QED BY <2>2 DEF Item
<1> QED BY <1>1 DEF Adding

LEMMA SumExists ==
  ASSUME NEW s \in Seq(Item)
  PROVE  /\ Sum(s) \in Nat
         /\ \E V \in [0 .. Len(s) -> Nat] :
              Steps(V, Len(s), 0, Adding(s)) /\ Sum(s) = V[Len(s)]
<1>1. \E V \in [0 .. Len(s) -> Nat] : Steps(V, Len(s), 0, Adding(s))
  <2>1. Len(s) \in Nat /\ 0 \in Nat
    OBVIOUS
  <2> QED BY <2>1, AddingType, StepByStep
<1>2. \E v \in Nat : \E V \in [0 .. Len(s) -> Nat] :
        Steps(V, Len(s), 0, Adding(s)) /\ v = V[Len(s)]
  BY <1>1
<1> QED BY <1>2 DEF Sum

LEMMA SumOfTail ==
  ASSUME NEW s \in Seq(Item), s # << >>
  PROVE  Sum(s) = Head(s).length + Sum(Tail(s))
<1> DEFINE n == Len(s)
           t == Tail(s)
<1>1. /\ n \in Nat /\ n # 0 /\ n - 1 \in Nat
      /\ t \in Seq(Item) /\ Len(t) = n - 1
      /\ \A i \in 1 .. n - 1 : t[i] = s[i + 1]
      /\ Head(s) = s[1]
  BY EmptySeq, HeadTailProperties
<1> HIDE DEF n, t
<1>2. PICK V \in [0 .. n -> Nat] : Steps(V, n, 0, Adding(s)) /\ Sum(s) = V[n]
  BY SumExists DEF n
<1>3. PICK W \in [0 .. n - 1 -> Nat] :
        Steps(W, n - 1, 0, Adding(t)) /\ Sum(t) = W[n - 1]
  BY <1>1, SumExists
<1>4. Steps(V, n - 1, 0, Adding(t))
  <2>1. V[0] = 0
    BY <1>2 DEF Steps
  <2>2. ASSUME NEW i \in 1 .. n - 1 PROVE V[i] = Adding(t)[i][V[i - 1]]
    <3>1. i \in 1 .. n /\ i - 1 \in 0 .. n
      BY <1>1
    <3>2. V[i] = Adding(s)[i][V[i - 1]] /\ V[i - 1] \in Nat
      BY <1>2, <3>1 DEF Steps
    <3>3. Adding(s)[i] = [v \in Nat |-> v + s[n - i + 1].length]
      BY <3>1 DEF Adding, n
    <3>4. Adding(t)[i] = [v \in Nat |-> v + t[(n - 1) - i + 1].length]
      BY <1>1 DEF Adding
    <3>5. t[(n - 1) - i + 1] = s[n - i + 1]
      <4>1. (n - 1) - i + 1 \in 1 .. n - 1 /\ ((n - 1) - i + 1) + 1 = n - i + 1
        BY <1>1
      <4> QED BY <1>1, <4>1
    <3> QED BY <3>2, <3>3, <3>4, <3>5
  <2> QED BY <2>1, <2>2 DEF Steps
<1>5. V[n - 1] = W[n - 1]
  <2> DEFINE m == n - 1
  <2>1. m \in Nat /\ Steps(V, m, 0, Adding(t)) /\ Steps(W, m, 0, Adding(t))
    BY <1>1, <1>3, <1>4
  <2> HIDE DEF m
  <2>2. V[m] = W[m]
    BY <2>1, StepsUnique
  <2> QED BY <2>1, <2>2 DEF m
<1>6. V[n] = V[n - 1] + s[1].length
  <2>1. n \in 1 .. n /\ n - 1 \in 0 .. n /\ n - n + 1 = 1
    BY <1>1
  <2>2. V[n] = Adding(s)[n][V[n - 1]] /\ V[n - 1] \in Nat
    BY <1>2, <2>1 DEF Steps
  <2>3. Adding(s)[n] = [v \in Nat |-> v + s[n - n + 1].length]
    BY <2>1 DEF Adding, n
  <2> QED BY <2>1, <2>2, <2>3
<1>7. s[1].length \in Nat /\ V[n - 1] \in Nat
  <2>1. s[1] \in Item
    BY <1>1, ElementOfSeq DEF n
  <2>2. n - 1 \in 0 .. n
    BY <1>1
  <2> QED BY <2>1, <2>2 DEF Item
<1> QED BY <1>1, <1>2, <1>3, <1>5, <1>6, <1>7 DEF t

LEMMA SumOfNothing == Sum(<< >>) = 0
<1>1. << >> \in Seq(Item) /\ Len(<< >>) = 0
  OBVIOUS
<1>2. PICK V \in [0 .. 0 -> Nat] : Steps(V, 0, 0, Adding(<< >>)) /\ Sum(<< >>) = V[0]
  BY <1>1, SumExists
<1> QED BY <1>2 DEF Steps

\* So there is a function such as LengthSum is defined to be.
LEMMA LengthSumOfTail ==
  /\ LengthSum[<< >>] = 0
  /\ \A s \in Seq(Item) : s # << >> => LengthSum[s] = Head(s).length + LengthSum[Tail(s)]
<1> DEFINE Rec(f) == f = [s \in Seq(Item) |->
                           IF s = << >> THEN 0 ELSE Head(s).length + f[Tail(s)]]
           g == [s \in Seq(Item) |-> Sum(s)]
<1>1. Rec(g)
  <2>1. ASSUME NEW s \in Seq(Item)
        PROVE  Sum(s) = IF s = << >> THEN 0 ELSE Head(s).length + g[Tail(s)]
    <3>1. CASE s = << >>
      BY <3>1, SumOfNothing
    <3>2. CASE s # << >>
      <4>1. Tail(s) \in Seq(Item)
        BY <3>2, HeadTailProperties
      <4>2. g[Tail(s)] = Sum(Tail(s))
        BY <4>1
      <4> QED BY <3>2, <4>2, SumOfTail
    <3> QED BY <3>1, <3>2
  <2> QED BY <2>1
<1>2. LengthSum = CHOOSE f : Rec(f)
  BY DEF LengthSum
<1>3. Rec(LengthSum)
  <2> HIDE DEF Rec, g
  <2> QED BY <1>1, <1>2
<1>4. << >> \in Seq(Item)
  OBVIOUS
<1> QED BY <1>3, <1>4

LEMMA LengthSumType ==
  ASSUME NEW s \in Seq(Item)
  PROVE  LengthSum[s] \in Nat
<1> DEFINE T == { n \in Nat : \A u \in Seq(Item) : Len(u) = n => LengthSum[u] \in Nat }
<1>1. 0 \in T
  <2>1. ASSUME NEW u \in Seq(Item), Len(u) = 0 PROVE LengthSum[u] \in Nat
    <3>1. u = << >>
      BY <2>1, EmptySeq
    <3> QED BY <3>1, LengthSumOfTail
  <2> QED BY <2>1
<1>2. ASSUME NEW n \in Nat, n \in T PROVE n + 1 \in T
  <2>1. ASSUME NEW u \in Seq(Item), Len(u) = n + 1 PROVE LengthSum[u] \in Nat
    <3>1. u # << >>
      BY <2>1, EmptySeq
    <3>2. Head(u) \in Item /\ Tail(u) \in Seq(Item) /\ Len(Tail(u)) = n
      BY <2>1, <3>1, HeadTailProperties
    <3>3. LengthSum[Tail(u)] \in Nat /\ Head(u).length \in Nat
      BY <1>2, <3>2 DEF Item
    <3> QED BY <3>1, <3>3, LengthSumOfTail
  <2> QED BY <2>1
<1>3. Len(s) \in T
  <2>1. Len(s) \in Nat
    OBVIOUS
  <2> HIDE DEF T
  <2> QED BY <1>1, <1>2, <2>1, AllNaturals
<1> QED BY <1>3

-----------------------------------------------------------------------------
\* What is in the buffer and what is coming is counted at every step.
Accounted == Inv /\ coming \in Nat /\ NothingLost

LEMMA AccountedInit == Init => Accounted
<1> SUFFICES ASSUME Init PROVE Accounted
  OBVIOUS
<1>1. items \in Seq(Item)
  BY BufferAssumption DEF Init
<1>2. LengthSum[items] \in Nat
  BY <1>1, LengthSumType
<1> QED BY <1>2, InvInit DEF Accounted, Init, NothingLost, Data

LEMMA AccountedNext == Accounted /\ [Next]_vars => Accounted'
<1> SUFFICES ASSUME Accounted, [Next]_vars PROVE Accounted'
  OBVIOUS
<1>1. Inv'
  BY InvNext DEF Accounted
<1>2. /\ size \in Nat /\ start \in Nat /\ end \in Nat /\ start <= end
      /\ coming \in Nat /\ items \in Seq(Item)
      /\ end - start + coming = LengthSum[items]
  BY DEF Accounted, Inv, IndexTypes, NoOverrun, NothingLost, Data
<1>3. LengthSum[items] \in Nat
  BY <1>2, LengthSumType
<1>4. coming' \in Nat /\ end' - start' + coming' = LengthSum[items']
  <2>1. CASE UNCHANGED vars
    BY <1>2, <2>1 DEF vars
  <2>2. ASSUME NEW n \in 1 .. coming, Received(n)
        PROVE  coming' \in Nat /\ end' - start' + coming' = LengthSum[items']
    BY <1>2, <1>3, <2>2 DEF Received
  <2>3. CASE ReceivedNothing
    BY <1>2, <2>3 DEF ReceivedNothing
  <2>4. CASE Feed
    <3>1. items # << >> /\ start' = start + ReadBytes /\ items' = Tail(items)
      BY <2>4 DEF Feed, Complete
    <3>2. ReadBytes \in Nat /\ Tail(items) \in Seq(Item)
      BY <1>2, <3>1, HeadOfItems
    <3>3. LengthSum[items] = ReadBytes + LengthSum[Tail(items)]
      BY <1>2, <3>1, LengthSumOfTail DEF ReadBytes
    <3>4. LengthSum[Tail(items)] \in Nat
      BY <3>2, LengthSumType
    <3>5. end' = end /\ coming' = coming
      BY <2>4 DEF Feed
    <3> QED BY <1>2, <1>3, <3>1, <3>2, <3>3, <3>4, <3>5
  <2>5. CASE ChunkTooLong
    BY <1>2, <2>5 DEF ChunkTooLong
  <2>6. CASE ReadOn
    BY <1>2, <2>6 DEF ReadOn, Start, End, Data
  <2>7. CASE Double
    BY <1>2, <2>7 DEF Double, Start, End, Data
  <2>8. CASE Shift
    BY <1>2, <2>8 DEF Shift, ShiftTo, Data
  <2>9. CASE Enlarge
    BY <1>2, <2>9 DEF Enlarge, ShiftTo, Data
  <2> QED BY <2>1, <2>2, <2>3, <2>4, <2>5, <2>6, <2>7, <2>8, <2>9 DEF Next
<1> QED BY <1>1, <1>4 DEF Accounted, NothingLost, Data

LEMMA AccountedAlways == Spec => []Accounted
BY AccountedInit, AccountedNext, PTL DEF Spec

\* TypeOK (peer_connection.h, the members rcv_buffer_*).
THEOREM ReceiveTypeCorrect == Spec => []TypeOK
<1>1. Accounted => TypeOK
  BY DEF Accounted, Inv, IndexTypes, TypeOK
<1> QED BY AccountedAlways, <1>1, PTL

\* No byte is dropped and none taken twice, for every stream of items and all
\* sizes and limits: handle_read moves the data and replaces the buffer
\* without losing count of what it has and what is coming.
THEOREM NothingEverLost == Spec => []NothingLost
<1>1. Accounted => NothingLost
  BY DEF Accounted
<1> QED BY AccountedAlways, <1>1, PTL

=============================================================================
