--------------------------- MODULE ApiSession_proofs ---------------------------
(***************************************************************************)
(* A client's session, for every script of requests.  What is in the       *)
(* buffer and what is still to come are together the rest of what the      *)
(* client sends, from the message that is being read on; the invariant     *)
(* says for every message which part of it has been read.  When the        *)
(* connection has refused something nothing is read any more.              *)
(***************************************************************************)
EXTENDS ApiSession, DataLemmas

\* What the stream is made of.
FieldName ==
  {"File-name", "File-size", "Chunks", "Chunk-size", "Block-code", "Host", "Port"}

TextOfLine == Type \cup {"", "password", "guess"}

Item ==
  [kind : {"line"}, name : FieldName \cup {""}, text : TextOfLine, value : Nat]
    \cup [kind : {"bytes"}, length : Nat, value : Seq(Nat)]

Then(x, s) == <<x>> \o s

\* What the client sends from request j on; what it sends of a file from chunk
\* c on, and then s.
Messages == [i \in DOMAIN script |-> Rendered(script[i])]
From(j) == FlattenSeq(SubSeq(Messages, j, Len(Messages)))

Chunks(sizes) == [i \in DOMAIN sizes |-> Chunk(sizes, i)]
ChunksFrom(sizes, c, s) ==
  FlattenSeq(SubSeq(Chunks(sizes), c, Len(Chunks(sizes)))) \o s

-----------------------------------------------------------------------------
\* The parts of the requests.
Password(r) == Text(IF r.right THEN "password" ELSE "guess")
NameField == Field("File-name", 0)
SizeField(r) == Field("File-size", Sum(r.chunks))
ChunksField(r) == Field("Chunks", Len(r.chunks))
CodeField == Field("Block-code", 0)
HostField == Field("Host", 0)
PortField == Field("Port", 0)
ChunkField(r, c) == Field("Chunk-size", r.chunks[c])
ChunkBytes(r, c) == Bytes(r.chunks[c], Part(r.chunks, c))

AllChunks(r, s) == Then(Blank, ChunksFrom(r.chunks, 1, s))

\* A request whose first line has been read.
Rest(r, s) ==
  CASE r.type = "HELLO" -> Then(Password(r), s)
    [] r.type = "STORE FILE" ->
         Then(NameField, Then(SizeField(r), Then(ChunksField(r), AllChunks(r, s))))
    [] r.type = "LOAD FILE" -> Then(CodeField, Then(Blank, s))
    [] r.type = "CONNECT PEER" -> Then(HostField, Then(PortField, Then(Blank, s)))
    [] OTHER -> s

-----------------------------------------------------------------------------
Stream == buffer \o coming

\* The header of a file.
InFileHeader(r, s) ==
  /\ type = "string" /\ state = 0 /\ chunk = 0 /\ pointer = 0
  /\ \/ Stream = Then(NameField, Then(SizeField(r), Then(ChunksField(r), AllChunks(r, s))))
     \/ Stream = Then(SizeField(r), Then(ChunksField(r), AllChunks(r, s)))
     \/ Stream = Then(ChunksField(r), AllChunks(r, s)) /\ fileSize = Sum(r.chunks)
     \/ /\ Stream = AllChunks(r, s)
        /\ fileSize = Sum(r.chunks) /\ chunks = Len(r.chunks)

\* The file up to a position.
Filled(size, position) == [b \in 1 .. size |-> IF b <= position THEN b ELSE 0]

\* c chunks have been read; the next one's header has, up to its end; of c chunks
\* all but the bytes of the last have been read.
BeforeChunk(r, s) ==
  /\ type = "string" /\ chunk \in 0 .. Len(r.chunks)
  /\ pointer = Position(r.chunks)[chunk]
  /\ Stream = ChunksFrom(r.chunks, chunk + 1, s)

InChunkHeader(r, s) ==
  /\ type = "string" /\ chunk \in 0 .. Len(r.chunks) - 1
  /\ pointer = Position(r.chunks)[chunk]
  /\ chunkSize = r.chunks[chunk + 1]
  /\ Stream = Then(Blank, Then(ChunkBytes(r, chunk + 1),
                               ChunksFrom(r.chunks, chunk + 2, s)))

InChunk(r, s) ==
  /\ type = "bytes" /\ chunk \in 1 .. Len(r.chunks)
  /\ pointer = Position(r.chunks)[chunk - 1]
  /\ bytes = r.chunks[chunk]
  /\ Stream = Then(ChunkBytes(r, chunk), ChunksFrom(r.chunks, chunk + 1, s))

InFile(r, s) ==
  /\ state = 1 /\ fileSize = Sum(r.chunks) /\ chunks = Len(r.chunks)
  /\ data = Filled(fileSize, pointer)
  /\ BeforeChunk(r, s) \/ InChunkHeader(r, s) \/ InChunk(r, s)

\* What has been read of a request of each kind.
InHello(r, s) == type = "string" /\ Stream = Then(Password(r), s)

InStoreFile(r, s) == InFileHeader(r, s) \/ InFile(r, s)

InLoadFile(r, s) ==
  /\ type = "string"
  /\ Stream \in {Then(CodeField, Then(Blank, s)), Then(Blank, s)}

InConnectPeer(r, s) ==
  /\ type = "string"
  /\ Stream \in {Then(HostField, Then(PortField, Then(Blank, s))),
                 Then(PortField, Then(Blank, s)), Then(Blank, s)}

Reading(r, s) ==
  /\ message = r.type
  /\ \/ message = "HELLO" /\ InHello(r, s)
     \/ message = "STORE FILE" /\ InStoreFile(r, s)
     \/ message = "LOAD FILE" /\ InLoadFile(r, s)
     \/ message = "CONNECT PEER" /\ InConnectPeer(r, s)

\* n requests have been acted on.
Between(n) == message = None /\ Stream = From(n + 1)

Within(n) ==
  n < Len(script) /\ Reading(script[n + 1], From(n + 2))

\* Who has authenticated itself has said HELLO before anything else, and none of
\* its passwords was wrong.
PasswordGiven ==
  /\ authenticated <=> acted # << >>
  /\ acted # << >> => script[1].type = "HELLO"
  /\ message \in {None, "HELLO"} \/ authenticated
  /\ \A i \in DOMAIN acted : script[i].type = "HELLO" => script[i].right

SessionInv ==
  /\ TypeOK
  /\ buffer \in Seq(Item) /\ coming \in Seq(Item)
  /\ acted \in Seq([type : Type, integrated : BOOLEAN])
  /\ Len(acted) <= Len(script) /\ listed <= Len(acted)
  /\ PasswordGiven
  /\ FilesWhole
  /\ reading # "none" => Between(Len(acted)) \/ Within(Len(acted))

-----------------------------------------------------------------------------
\* The positions of the chunks in a file.
LEMMA PositionIs ==
  ASSUME NEW sizes \in Seq(Nat)
  PROVE  /\ Position(sizes) \in [0 .. Len(sizes) -> Nat]
         /\ Position(sizes)[0] = 0
         /\ \A i \in 1 .. Len(sizes) :
              Position(sizes)[i] = Position(sizes)[i - 1] + sizes[i]
         /\ Sum(sizes) \in Nat
<1> DEFINE n == Len(sizes)
           Rec(f) == f = [i \in 0 .. n |-> IF i = 0 THEN 0 ELSE f[i - 1] + sizes[i]]
           step == [i \in 1 .. n |-> [v \in Nat |-> v + sizes[i]]]
<1>1. n \in Nat /\ \A i \in 1 .. n : sizes[i] \in Nat
  BY ONLY sizes \in Seq(Nat), LenProperties, ElementOfSeq
<1>2. step \in [1 .. n -> [Nat -> Nat]]
  BY <1>1
<1>3. PICK f \in [0 .. n -> Nat] : Steps(f, n, 0, step)
  <2> HIDE DEF step, n
  <2>1. 0 \in Nat
    OBVIOUS
  <2> QED BY <1>1, <1>2, <2>1, StepByStep
<1>4. ASSUME NEW i \in 1 .. n PROVE f[i] = f[i - 1] + sizes[i]
  <2>1. i - 1 \in 0 .. n /\ f[i - 1] \in Nat
    <3> HIDE DEF step, n
    <3>1. i - 1 \in 0 .. n
      BY <1>1
    <3> QED BY <3>1
  <2>2. step[i][f[i - 1]] = f[i - 1] + sizes[i]
    BY <2>1
  <2> HIDE DEF step, n
  <2> QED BY <1>3, <2>2 DEF Steps
<1>5. Rec(f)
  <2>1. f[0] = 0
    BY <1>3 DEF Steps
  <2> DEFINE g == [i \in 0 .. n |-> IF i = 0 THEN 0 ELSE f[i - 1] + sizes[i]]
  <2>2. ASSUME NEW i \in 0 .. n PROVE f[i] = g[i]
    <3>1. CASE i = 0
      BY <2>1, <3>1
    <3>2. CASE i # 0
      <4>1. i \in 1 .. n
        BY <1>1, <3>2
      <4> QED BY <1>4, <3>2, <4>1
    <3> QED BY <3>1, <3>2
  <2>3. f = [i \in 0 .. n |-> f[i]] /\ g = [i \in 0 .. n |-> g[i]]
    OBVIOUS
  <2> HIDE DEF g
  <2>4. f = g
    BY <2>2, <2>3
  <2> QED BY <2>4 DEF g
<1>6. Position(sizes) = CHOOSE g : Rec(g)
  BY DEF Position
<1> DEFINE P == Position(sizes)
<1>7. Rec(P)
  <2> HIDE DEF Rec
  <2> QED BY <1>5, <1>6
<1>8. P[0] = 0 /\ \A i \in 1 .. n : P[i] = P[i - 1] + sizes[i]
  <2> HIDE DEF P
  <2>1. P[0] = 0
    BY <1>1, <1>7
  <2>2. ASSUME NEW i \in 1 .. n PROVE P[i] = P[i - 1] + sizes[i]
    <3>1. i \in 0 .. n /\ i # 0
      OBVIOUS
    <3> QED BY <1>7, <3>1
  <2> QED BY <2>1, <2>2
<1>9. P = [i \in 0 .. n |-> P[i]]
  <2> HIDE DEF P
  <2> QED BY <1>7
<1>10. P \in [0 .. n -> Nat]
  <2> DEFINE T == { i \in Nat : i <= n => P[i] \in Nat }
  <2> HIDE DEF P, Rec, n
  <2>1. 0 \in T
    BY <1>8
  <2>2. ASSUME NEW i \in Nat, i \in T PROVE i + 1 \in T
    <3> SUFFICES ASSUME i + 1 <= n PROVE P[i + 1] \in Nat
      OBVIOUS
    <3>1. i + 1 \in 1 .. n /\ (i + 1) - 1 = i /\ P[i] \in Nat
      BY <1>1, <2>2
    <3>2. P[i + 1] = P[(i + 1) - 1] + sizes[i + 1] /\ sizes[i + 1] \in Nat
      BY <1>1, <1>8, <3>1
    <3> QED BY <3>1, <3>2
  <2>3. \A i \in 0 .. n : P[i] \in Nat
    <3> HIDE DEF T
    <3>1. Nat \subseteq T
      BY <2>1, <2>2, AllNaturals
    <3> QED BY <3>1, <1>1 DEF T
  <2>4. P = [i \in 0 .. n |-> P[i]]
    BY <1>9
  <2> QED BY <2>3, <2>4
<1>11. Sum(sizes) = P[n]
  BY DEF Sum
<1> HIDE DEF P
<1> QED BY <1>1, <1>8, <1>10, <1>11 DEF P

\* No position is behind the end.
LEMMA PositionBelow ==
  ASSUME NEW sizes \in Seq(Nat), NEW i \in 0 .. Len(sizes)
  PROVE  Position(sizes)[i] \in Nat /\ Position(sizes)[i] <= Sum(sizes)
<1> DEFINE n == Len(sizes)
           P == Position(sizes)
           T == { k \in Nat : k <= n => P[n - k] <= P[n] }
<1>1. n \in Nat /\ \A k \in 1 .. n : sizes[k] \in Nat
  OBVIOUS
<1>2. /\ P \in [0 .. n -> Nat] /\ Sum(sizes) = P[n]
      /\ \A k \in 1 .. n : P[k] = P[k - 1] + sizes[k]
  BY PositionIs DEF Sum
<1> HIDE DEF P, n
<1>3. 0 \in T
  <2>1. n - 0 = n /\ n \in 0 .. n
    BY <1>1
  <2>2. P[n] \in Nat
    BY <1>2, <2>1
  <2> QED BY <2>1, <2>2
<1>4. ASSUME NEW k \in Nat, k \in T PROVE k + 1 \in T
  <2> SUFFICES ASSUME k + 1 <= n PROVE P[n - (k + 1)] <= P[n]
    OBVIOUS
  <2>1. /\ n - k \in 1 .. n /\ (n - k) - 1 = n - (k + 1)
        /\ n - k \in 0 .. n /\ n - (k + 1) \in 0 .. n /\ n \in 0 .. n
    BY <1>1
  <2>2. P[n - k] = P[n - (k + 1)] + sizes[n - k] /\ sizes[n - k] \in Nat
    BY <1>1, <1>2, <2>1
  <2>3. P[n - k] \in Nat /\ P[n - (k + 1)] \in Nat /\ P[n] \in Nat
    BY <1>2, <2>1
  <2>4. P[n - k] <= P[n]
    BY <1>1, <1>4
  <2> QED BY <2>2, <2>3, <2>4
<1>5. Nat \subseteq T
  <2> HIDE DEF T
  <2> QED BY <1>3, <1>4, AllNaturals
<1>6. n - i \in Nat /\ n - i <= n /\ n - (n - i) = i /\ i \in 0 .. n
  BY <1>1 DEF n
<1>7. P[i] <= P[n]
  <2>1. n - i \in T
    BY <1>5, <1>6
  <2> QED BY <1>6, <2>1
<1> QED BY <1>2, <1>6, <1>7 DEF P, n

-----------------------------------------------------------------------------
\* Items and requests.
LEMMA ItemTypes ==
  /\ Blank \in Item /\ NameField \in Item /\ CodeField \in Item
  /\ HostField \in Item /\ PortField \in Item
  /\ \A kind \in Type : Text(kind) \in Item
  /\ \A r \in Request : Password(r) \in Item
  /\ \A name \in FieldName, v \in Nat : Field(name, v) \in Item
<1>1. \A t \in TextOfLine : Text(t) \in Item
  BY DEF Item, Text, Line
<1>2. \A name \in FieldName, v \in Nat : Field(name, v) \in Item
  BY DEF Item, Field, Line, TextOfLine
<1>3. Blank \in Item /\ \A kind \in Type : Text(kind) \in Item
  BY <1>1 DEF TextOfLine, Blank
<1>4. \A r \in Request : Password(r) \in Item
  BY <1>1 DEF TextOfLine, Password
<1>5. NameField \in Item /\ CodeField \in Item /\ HostField \in Item /\ PortField \in Item
  BY <1>2 DEF NameField, CodeField, HostField, PortField, FieldName
<1> QED BY <1>1, <1>2, <1>3, <1>4, <1>5

\* A request to store a file, and its parts.
LEMMA FileTypes ==
  ASSUME NEW r \in Request
  PROVE  /\ r.chunks \in Seq(Nat) /\ Sum(r.chunks) \in Nat /\ r.type \in Type
         /\ SizeField(r) \in Item /\ ChunksField(r) \in Item
         /\ \A c \in 1 .. Len(r.chunks) :
              /\ r.chunks[c] \in Nat
              /\ Part(r.chunks, c) \in Seq(Nat) /\ Len(Part(r.chunks, c)) = r.chunks[c]
              /\ ChunkField(r, c) \in Item /\ ChunkBytes(r, c) \in Item
<1>1. r.chunks \in Seq(Nat) /\ r.type \in Type
  BY DEF Request
<1>2. Sum(r.chunks) \in Nat /\ Len(r.chunks) \in Nat
  BY <1>1, PositionIs
<1>3. SizeField(r) \in Item /\ ChunksField(r) \in Item
  BY <1>2, ItemTypes DEF SizeField, ChunksField, FieldName
<1>4. ASSUME NEW c \in 1 .. Len(r.chunks)
      PROVE  /\ r.chunks[c] \in Nat
             /\ Part(r.chunks, c) \in Seq(Nat) /\ Len(Part(r.chunks, c)) = r.chunks[c]
             /\ ChunkField(r, c) \in Item /\ ChunkBytes(r, c) \in Item
  <2> DEFINE size == r.chunks[c]
             before == Position(r.chunks)[c - 1]
             part == Part(r.chunks, c)
  <2>1. size \in Nat
    BY <1>1, ElementOfSeq
  <2>2. before \in Nat
    <3>1. c - 1 \in 0 .. Len(r.chunks)
      BY <1>2
    <3> QED BY <1>1, <3>1, PositionBelow
  <2>3. part = [b \in 1 .. size |-> before + b]
    BY DEF Part
  <2> HIDE DEF size, before, part
  <2>4. part \in [1 .. size -> Nat]
    BY <2>1, <2>2, <2>3
  <2>5. part \in Seq(Nat) /\ Len(part) = size
    BY <2>1, <2>4
  <2>6. Bytes(size, part) \in Item
    BY <2>1, <2>5 DEF Bytes, Item
  <2>7. Field("Chunk-size", size) \in Item
    BY <2>1, ItemTypes DEF FieldName
  <2> QED BY <2>1, <2>5, <2>6, <2>7 DEF size, part, ChunkField, ChunkBytes
<1> QED BY <1>1, <1>2, <1>3, <1>4

LEMMA ThenParts ==
  ASSUME NEW x \in Item, NEW s \in Seq(Item)
  PROVE  /\ Then(x, s) \in Seq(Item) /\ Then(x, s) # << >>
         /\ Head(Then(x, s)) = x /\ Tail(Then(x, s)) = s
BY FirstAndRest DEF Then

\* Joining behind the first item.
LEMMA ThenJoin ==
  ASSUME NEW x \in Item, NEW s \in Seq(Item), NEW r \in Seq(Item)
  PROVE  Then(x, s) \o r = Then(x, s \o r)
<1> DEFINE t == <<x>>
<1>1. t \in Seq(Item)
  OBVIOUS
<1> HIDE DEF t
<1>2. (t \o s) \o r = t \o (s \o r)
  BY <1>1, ConcatAssociative, SMTT(30)
<1> QED BY <1>2 DEF t, Then

\* Sequences written out.
LEMMA Written ==
  ASSUME NEW a \in Item, NEW b \in Item, NEW c \in Item, NEW d \in Item
  PROVE  /\ << >> \in Seq(Item) /\ <<a>> = Then(a, << >>)
         /\ <<a, b>> = Then(a, <<b>>) /\ <<b>> \in Seq(Item)
         /\ <<a, b, c>> = Then(a, <<b, c>>) /\ <<b, c>> \in Seq(Item)
<1>1. <<a>> \o << >> = <<a>> /\ << >> \in Seq(Item)
  OBVIOUS
<1>2. /\ <<b>> \in Seq(Item) /\ <<a, b>> \in Seq(Item)
      /\ <<b, c>> \in Seq(Item) /\ <<a, b, c>> \in Seq(Item)
  OBVIOUS
<1>3. <<a, b>> = Then(a, <<b>>)
  <2> DEFINE q == <<b>>
             r == <<a, b>>
  <2>1. /\ q \in Seq(Item) /\ r \in Seq(Item) /\ Len(r) = Len(q) + 1
        /\ r[1] = a /\ \A i \in 1 .. Len(q) : r[i + 1] = q[i]
    BY <1>2
  <2> HIDE DEF q, r
  <2> QED BY <2>1, LongerByFirst DEF q, r, Then
<1>4. <<a, b, c>> = Then(a, <<b, c>>)
  <2> DEFINE q == <<b, c>>
             r == <<a, b, c>>
  <2>1. /\ q \in Seq(Item) /\ r \in Seq(Item) /\ Len(r) = Len(q) + 1
        /\ r[1] = a /\ \A i \in 1 .. Len(q) : r[i + 1] = q[i]
    BY <1>2
  <2> HIDE DEF q, r
  <2> QED BY <2>1, LongerByFirst DEF q, r, Then
<1> QED BY <1>1, <1>2, <1>3, <1>4 DEF Then

LEMMA WrittenFour ==
  ASSUME NEW a \in Item, NEW b \in Item, NEW c \in Item, NEW d \in Item
  PROVE  <<a, b, c, d>> = Then(a, <<b, c, d>>)
<1> DEFINE q == <<b, c, d>>
           r == <<a, b, c, d>>
<1>1. /\ q \in Seq(Item) /\ r \in Seq(Item) /\ Len(r) = Len(q) + 1
      /\ r[1] = a /\ \A i \in 1 .. Len(q) : r[i + 1] = q[i]
  OBVIOUS
<1> HIDE DEF q, r
<1> QED BY <1>1, LongerByFirst DEF q, r, Then

LEMMA WrittenJoin ==
  ASSUME NEW t \in Seq(Item)
  PROVE  /\ << >> \o t = t
         /\ \A a \in Item : <<a>> \o t = Then(a, t)
         /\ \A a, b \in Item : <<a, b>> \o t = Then(a, Then(b, t))
         /\ \A a, b, c \in Item : <<a, b, c>> \o t = Then(a, Then(b, Then(c, t)))
         /\ \A a, b, c, d \in Item :
              <<a, b, c, d>> \o t = Then(a, Then(b, Then(c, Then(d, t))))
<1>1. << >> \o t = t
  BY ConcatEmptySeq
<1>2. ASSUME NEW x \in Item PROVE <<x>> \o t = Then(x, t)
  BY DEF Then
<1>3. ASSUME NEW x \in Item, NEW y \in Item
      PROVE  <<x, y>> \o t = Then(x, Then(y, t))
  <2> DEFINE p == <<y>>
  <2>1. p \in Seq(Item) /\ <<x, y>> = Then(x, p) /\ p \o t = Then(y, t)
    BY <1>2, Written
  <2> HIDE DEF p
  <2>2. Then(x, p) \o t = Then(x, p \o t)
    BY <2>1, ThenJoin
  <2> QED BY <2>1, <2>2
<1>4. ASSUME NEW x \in Item, NEW y \in Item, NEW z \in Item
      PROVE  <<x, y, z>> \o t = Then(x, Then(y, Then(z, t)))
  <2> DEFINE p == <<y, z>>
  <2>1. p \in Seq(Item) /\ <<x, y, z>> = Then(x, p) /\ p \o t = Then(y, Then(z, t))
    BY <1>3, Written
  <2> HIDE DEF p
  <2>2. Then(x, p) \o t = Then(x, p \o t)
    BY <2>1, ThenJoin
  <2> QED BY <2>1, <2>2
<1>5. ASSUME NEW a \in Item, NEW b \in Item, NEW c \in Item, NEW d \in Item
      PROVE  <<a, b, c, d>> \o t = Then(a, Then(b, Then(c, Then(d, t))))
  <2> DEFINE p == <<b, c, d>>
  <2>1. p \in Seq(Item)
    OBVIOUS
  <2>2. <<a, b, c, d>> = Then(a, p)
    BY WrittenFour
  <2>3. p \o t = Then(b, Then(c, Then(d, t)))
    BY <1>4
  <2> HIDE DEF p
  <2>4. Then(a, p) \o t = Then(a, p \o t)
    BY <2>1, ThenJoin
  <2> QED BY <2>2, <2>3, <2>4
<1> QED BY <1>1, <1>2, <1>3, <1>4, <1>5

LEMMA FourJoin ==
  ASSUME NEW a \in Item, NEW b \in Item, NEW c \in Item, NEW d \in Item,
         NEW t \in Seq(Item)
  PROVE  /\ <<a, b, c, d>> \in Seq(Item)
         /\ <<a, b, c, d>> \o t = Then(a, Then(b, Then(c, Then(d, t))))
<1>1. <<a, b, c, d>> \o t = Then(a, Then(b, Then(c, Then(d, t))))
  BY WrittenJoin
<1>2. <<a, b, c, d>> \in Seq(Item)
  OBVIOUS
<1> QED BY <1>1, <1>2

-----------------------------------------------------------------------------
\* The chunks of a file.
LEMMA ChunksType ==
  ASSUME NEW r \in Request
  PROVE  /\ Chunks(r.chunks) \in Seq(Seq(Item))
         /\ Len(Chunks(r.chunks)) = Len(r.chunks)
         /\ \A c \in 1 .. Len(r.chunks) :
              Chunks(r.chunks)[c] = <<ChunkField(r, c), Blank, ChunkBytes(r, c)>>
<1> DEFINE n == Len(r.chunks)
           q == Chunks(r.chunks)
<1>1. n \in Nat /\ DOMAIN r.chunks = 1 .. n
  BY FileTypes
<1>2. ASSUME NEW c \in 1 .. n
      PROVE  /\ q[c] = <<ChunkField(r, c), Blank, ChunkBytes(r, c)>>
             /\ q[c] \in Seq(Item)
  <2>1. q[c] = <<ChunkField(r, c), Blank, ChunkBytes(r, c)>>
    BY <1>1 DEF Chunks, Chunk, ChunkField, ChunkBytes
  <2>2. ChunkField(r, c) \in Item /\ ChunkBytes(r, c) \in Item /\ Blank \in Item
    BY FileTypes, ItemTypes
  <2> HIDE DEF q
  <2>3. q[c] \in Seq(Item)
    BY <2>1, <2>2, Written
  <2> QED BY <2>1, <2>3
<1>3. q = [c \in 1 .. n |-> q[c]]
  BY <1>1 DEF Chunks
<1> HIDE DEF q, n
<1>4. q \in [1 .. n -> Seq(Item)]
  BY <1>2, <1>3
<1>5. q \in Seq(Seq(Item)) /\ Len(q) = n
  BY <1>1, <1>4
<1> QED BY <1>2, <1>5 DEF q, n

LEMMA ChunksFromType ==
  ASSUME NEW r \in Request, NEW c \in 1 .. Len(r.chunks) + 1, NEW s \in Seq(Item)
  PROVE  ChunksFrom(r.chunks, c, s) \in Seq(Item)
<1> DEFINE q == Chunks(r.chunks)
<1>1. q \in Seq(Seq(Item)) /\ c \in 1 .. Len(q) + 1
  BY ChunksType
<1> HIDE DEF q
<1>2. FlattenSeq(SubSeq(q, c, Len(q))) \in Seq(Item)
  BY <1>1, FlattenFrom
<1> QED BY <1>2, ConcatProperties DEF ChunksFrom, q

\* One chunk and the ones behind it.
LEMMA ChunksNext ==
  ASSUME NEW r \in Request, NEW c \in 1 .. Len(r.chunks), NEW s \in Seq(Item)
  PROVE  /\ ChunksFrom(r.chunks, c + 1, s) \in Seq(Item)
         /\ ChunksFrom(r.chunks, c, s)
              = Then(ChunkField(r, c), Then(Blank, Then(ChunkBytes(r, c),
                     ChunksFrom(r.chunks, c + 1, s))))
<1> DEFINE q == Chunks(r.chunks)
           rest == FlattenSeq(SubSeq(q, c + 1, Len(q)))
           x == ChunkField(r, c)
           z == ChunkBytes(r, c)
<1>1. q \in Seq(Seq(Item)) /\ c \in 1 .. Len(q) /\ q[c] = <<x, Blank, z>>
  BY ChunksType
<1>2. x \in Item /\ z \in Item /\ Blank \in Item
  BY FileTypes, ItemTypes
<1>3. rest \in Seq(Item) /\ FlattenSeq(SubSeq(q, c, Len(q))) = q[c] \o rest
  <2> HIDE DEF q
  <2> QED BY <1>1, FlattenNext
<1> DEFINE first == q[c]
<1>4. first \in Seq(Item)
  <2> HIDE DEF q
  <2> QED BY <1>1, ElementOfSeq
<1>5. rest \o s \in Seq(Item)
  BY <1>3, ConcatProperties
<1>6. ASSUME NEW t \in Seq(Item)
      PROVE  first \o t = Then(x, Then(Blank, Then(z, t)))
  <2>1. <<x, Blank, z>> \o t = Then(x, Then(Blank, Then(z, t)))
    <3> HIDE DEF x, z
    <3> QED BY <1>2, WrittenJoin, SMTT(30)
  <2> QED BY <1>1, <2>1
<1> HIDE DEF q, x, z, rest, first
<1>7. (first \o rest) \o s = first \o (rest \o s)
  BY <1>3, <1>4, JoinThree, SMTT(30)
<1>8. /\ ChunksFrom(r.chunks, c, s) = (first \o rest) \o s
      /\ ChunksFrom(r.chunks, c + 1, s) = rest \o s
  BY <1>3 DEF ChunksFrom, q, rest, first
<1> QED BY <1>5, <1>6, <1>7, <1>8 DEF x, z

LEMMA ChunksEnd ==
  ASSUME NEW r \in Request, NEW s \in Seq(Item)
  PROVE  /\ ChunksFrom(r.chunks, Len(r.chunks) + 1, s) = s
         /\ ChunksFrom(r.chunks, 1, s) = FlattenSeq(Chunks(r.chunks)) \o s
         /\ FlattenSeq(Chunks(r.chunks)) \in Seq(Item)
<1> DEFINE q == Chunks(r.chunks)
<1>1. q \in Seq(Seq(Item)) /\ Len(q) = Len(r.chunks)
  BY ChunksType
<1> HIDE DEF q
<1>2. SubSeq(q, 1, Len(q)) = q /\ FlattenSeq(SubSeq(q, Len(q) + 1, Len(q))) = << >>
  BY <1>1, FlattenEnds
<1>3. << >> \o s = s
  BY ConcatEmptySeq
<1>4. FlattenSeq(q) \in Seq(Item)
  BY <1>1, FlattenType
<1> QED BY <1>1, <1>2, <1>3, <1>4 DEF ChunksFrom, q

-----------------------------------------------------------------------------
\* A request is its first line and the rest.
LEMMA FileRendered ==
  ASSUME NEW r \in Request, NEW s \in Seq(Item), r.type = "STORE FILE"
  PROVE  \E b \in Seq(Item) : Rendered(r) = <<Text(r.type)>> \o b /\ b \o s = Rest(r, s)
<1> DEFINE w == <<NameField, SizeField(r), ChunksField(r), Blank>>
           f == FlattenSeq(Chunks(r.chunks))
           t == ChunksFrom(r.chunks, 1, s)
<1>1. Rendered(r) = <<Text(r.type)>> \o (w \o f)
  BY DEF Rendered, NameField, SizeField, ChunksField, Chunks
<1>2. /\ NameField \in Item /\ SizeField(r) \in Item /\ ChunksField(r) \in Item
      /\ Blank \in Item
  BY ItemTypes, FileTypes
<1>3. f \in Seq(Item) /\ t = f \o s
  BY ChunksEnd
<1> HIDE DEF f, t
<1>5. t \in Seq(Item)
  BY <1>3, ConcatProperties
<1>6. /\ w \in Seq(Item)
      /\ w \o t = Then(NameField, Then(SizeField(r), Then(ChunksField(r), Then(Blank, t))))
  <2> DEFINE a == NameField
             b == SizeField(r)
             c == ChunksField(r)
             d == Blank
  <2>1. a \in Item /\ b \in Item /\ c \in Item /\ d \in Item
    BY <1>2
  <2> HIDE DEF a, b, c, d
  <2>2. /\ <<a, b, c, d>> \in Seq(Item)
        /\ <<a, b, c, d>> \o t = Then(a, Then(b, Then(c, Then(d, t))))
    <3>1. a \in Item
      BY <2>1
    <3>2. b \in Item
      BY <2>1
    <3>3. c \in Item
      BY <2>1
    <3>4. d \in Item
      BY <2>1
    <3> QED BY ONLY <1>5, <3>1, <3>2, <3>3, <3>4, FourJoin
  <2> QED BY <2>2 DEF a, b, c, d
<1>7. Rest(r, s) = w \o t
  BY <1>6 DEF Rest, AllChunks, t
<1> HIDE DEF w
<1>8. w \o f \in Seq(Item)
  BY <1>3, <1>6, ConcatProperties
<1>9. w \o (f \o s) = (w \o f) \o s
  <2>1. w \in Seq(Item) /\ f \in Seq(Item) /\ s \in Seq(Item)
    BY <1>3, <1>6
  <2> QED BY ONLY <2>1, JoinThree, SMTT(30)
<1> QED BY <1>1, <1>3, <1>7, <1>8, <1>9

LEMMA RequestRendered ==
  ASSUME NEW r \in Request, NEW s \in Seq(Item)
  PROVE  \E b \in Seq(Item) : Rendered(r) = <<Text(r.type)>> \o b /\ b \o s = Rest(r, s)
<1>0. /\ Blank \in Item /\ CodeField \in Item /\ HostField \in Item
      /\ PortField \in Item /\ Password(r) \in Item
  BY ItemTypes
<1>1. CASE r.type = "HELLO"
  <2> DEFINE a == Password(r)
  <2>1. Rendered(r) = <<Text(r.type)>> \o <<a>> /\ Rest(r, s) = Then(a, s)
    BY <1>1 DEF Rendered, Password, Rest
  <2>2. a \in Item
    BY <1>0
  <2> HIDE DEF a
  <2>3. <<a>> \in Seq(Item) /\ <<a>> \o s = Then(a, s)
    BY <2>2, WrittenJoin
  <2> QED BY <2>1, <2>3
<1>2. CASE r.type = "STORE FILE"
  BY <1>2, FileRendered
<1>3. CASE r.type = "LOAD FILE"
  <2> DEFINE a == CodeField
             b == Blank
  <2>1. Rendered(r) = <<Text(r.type)>> \o <<a, b>> /\ Rest(r, s) = Then(a, Then(b, s))
    BY <1>3 DEF Rendered, CodeField, Rest
  <2>2. a \in Item /\ b \in Item
    BY <1>0
  <2> HIDE DEF a, b
  <2>3. <<a, b>> \in Seq(Item) /\ <<a, b>> \o s = Then(a, Then(b, s))
    BY <2>2, WrittenJoin
  <2> QED BY <2>1, <2>3
<1>4. CASE r.type = "CONNECT PEER"
  <2> DEFINE a == HostField
             b == PortField
             c == Blank
  <2>1. /\ Rendered(r) = <<Text(r.type)>> \o <<a, b, c>>
        /\ Rest(r, s) = Then(a, Then(b, Then(c, s)))
    BY <1>4 DEF Rendered, HostField, PortField, Rest
  <2>2. a \in Item /\ b \in Item /\ c \in Item
    BY <1>0
  <2> HIDE DEF a, b, c
  <2>3. <<a, b, c>> \in Seq(Item) /\ <<a, b, c>> \o s = Then(a, Then(b, Then(c, s)))
    BY <2>2, WrittenJoin
  <2> QED BY <2>1, <2>3
<1>5. CASE r.type \in {"PING", "PEER INFO"}
  <2>1. Rendered(r) = <<Text(r.type)>> \o << >> /\ Rest(r, s) = s
    BY <1>5 DEF Rendered, Rest
  <2>2. << >> \in Seq(Item) /\ << >> \o s = s
    BY WrittenJoin
  <2> QED BY <2>1, <2>2
<1> QED BY <1>1, <1>2, <1>3, <1>4, <1>5 DEF Request, Type

LEMMA RenderedThen ==
  ASSUME NEW r \in Request, NEW s \in Seq(Item)
  PROVE  /\ Rendered(r) \in Seq(Item) /\ Rest(r, s) \in Seq(Item)
         /\ Rendered(r) \o s = Then(Text(r.type), Rest(r, s))
<1>1. PICK b \in Seq(Item) : Rendered(r) = <<Text(r.type)>> \o b /\ b \o s = Rest(r, s)
  BY RequestRendered
<1>2. Text(r.type) \in Item
  BY FileTypes, ItemTypes
<1>3. Rendered(r) = Then(Text(r.type), b)
  BY <1>1 DEF Then
<1>4. Then(Text(r.type), b) \in Seq(Item) /\ b \o s \in Seq(Item)
  BY <1>2, ThenParts, ConcatProperties
<1>5. Then(Text(r.type), b) \o s = Then(Text(r.type), b \o s)
  BY <1>2, ThenJoin
<1> QED BY <1>1, <1>3, <1>4, <1>5

-----------------------------------------------------------------------------
\* What is sent from a request on is that request and what is sent from the next.
LEMMA MessagesType ==
  ASSUME script \in Seq(Request)
  PROVE  /\ Messages \in Seq(Seq(Item)) /\ Len(Messages) = Len(script)
         /\ \A i \in 1 .. Len(script) : Messages[i] = Rendered(script[i])
<1> DEFINE n == Len(script)
<1>1. n \in Nat /\ DOMAIN script = 1 .. n
  OBVIOUS
<1>2. ASSUME NEW i \in 1 .. n PROVE Rendered(script[i]) \in Seq(Item)
  <2> DEFINE r == script[i]
             s == << >>
  <2>1. r \in Request /\ s \in Seq(Item)
    BY ElementOfSeq
  <2> HIDE DEF r, s
  <2>2. Rendered(r) \in Seq(Item)
    BY <2>1, RenderedThen
  <2> QED BY <2>2 DEF r
<1>3. Messages = [i \in 1 .. n |-> Rendered(script[i])]
  BY <1>1 DEF Messages
<1> HIDE DEF n
<1>4. Messages \in [1 .. n -> Seq(Item)]
  BY <1>2, <1>3
<1>5. Messages \in Seq(Seq(Item)) /\ Len(Messages) = n
  BY <1>1, <1>4
<1> QED BY <1>3, <1>5 DEF n

LEMMA FromNext ==
  ASSUME script \in Seq(Request), NEW j \in 1 .. Len(script)
  PROVE  /\ script[j] \in Request /\ From(j + 1) \in Seq(Item)
         /\ From(j) = Then(Text(script[j].type), Rest(script[j], From(j + 1)))
<1> DEFINE q == Messages
           rest == FlattenSeq(SubSeq(q, j + 1, Len(q)))
<1>1. q \in Seq(Seq(Item)) /\ j \in 1 .. Len(q) /\ q[j] = Rendered(script[j])
  BY MessagesType
<1>2. script[j] \in Request
  BY ElementOfSeq
<1>3. rest \in Seq(Item) /\ FlattenSeq(SubSeq(q, j, Len(q))) = q[j] \o rest
  <2> HIDE DEF q
  <2> QED BY <1>1, FlattenNext
<1>4. From(j) = Rendered(script[j]) \o rest /\ From(j + 1) = rest
  BY <1>1, <1>3 DEF From
<1> HIDE DEF rest
<1>5. Rendered(script[j]) \o rest = Then(Text(script[j].type), Rest(script[j], rest))
  <2> DEFINE r == script[j]
  <2>1. r \in Request
    BY <1>2
  <2> HIDE DEF r
  <2>2. Rendered(r) \o rest = Then(Text(r.type), Rest(r, rest))
    BY <1>3, <2>1, RenderedThen
  <2> QED BY <2>2 DEF r
<1> QED BY <1>2, <1>3, <1>4, <1>5

LEMMA FromEnds ==
  ASSUME script \in Seq(Request)
  PROVE  /\ From(1) = FlattenSeq(Messages) /\ From(Len(script) + 1) = << >>
         /\ \A j \in 1 .. Len(script) + 1 : From(j) \in Seq(Item)
<1> DEFINE q == Messages
<1>1. q \in Seq(Seq(Item)) /\ Len(q) = Len(script)
  BY MessagesType
<1> HIDE DEF q
<1>2. SubSeq(q, 1, Len(q)) = q /\ FlattenSeq(SubSeq(q, Len(q) + 1, Len(q))) = << >>
  BY <1>1, FlattenEnds
<1>3. ASSUME NEW j \in 1 .. Len(q) + 1 PROVE FlattenSeq(SubSeq(q, j, Len(q))) \in Seq(Item)
  BY <1>1, FlattenFrom
<1> QED BY <1>1, <1>2, <1>3 DEF From, q

-----------------------------------------------------------------------------
\* What items look like.
LEMMA ItemForms ==
  /\ \A name, v : /\ Field(name, v).kind = "line" /\ Field(name, v).name = name
                  /\ Field(name, v).text = "" /\ Field(name, v).value = v
  /\ \A t : /\ Text(t).kind = "line" /\ Text(t).name = "" /\ Text(t).text = t
  /\ \A l, v : /\ Bytes(l, v).kind = "bytes" /\ Bytes(l, v).length = l
               /\ Bytes(l, v).value = v
  /\ Blank.name = "" /\ Blank.text = "" /\ Blank.kind = "line"
BY DEF Field, Text, Line, Bytes, Blank

\* A text that is not empty is no blank line and no field.
LEMMA TextIsText ==
  ASSUME NEW t, t # "", GetsLine, Head(buffer) = Text(t)
  PROVE  GetsText /\ ~ GetsField /\ ~ GetsBlank
<1>1. Text(t).text = t /\ Text(t).name = "" /\ Blank.text = "" /\ Blank.name = ""
  BY ItemForms
<1>2. Text(t) # Blank
  BY <1>1
<1> QED BY <1>1, <1>2 DEF GetsText, GetsField, GetsBlank

LEMMA FieldIsField ==
  ASSUME NEW name, name # "", NEW v, Head(buffer) = Field(name, v)
  PROVE  ~ GetsText /\ ~ GetsBlank
<1>1. Field(name, v).name = name /\ Blank.name = ""
  BY ItemForms
<1> QED BY <1>1 DEF GetsText, GetsBlank

LEMMA BlankIsBlank ==
  ASSUME Head(buffer) = Blank
  PROVE  ~ GetsText /\ ~ GetsField
BY ItemForms DEF GetsText, GetsField, GetsBlank

-----------------------------------------------------------------------------
\* The stream, when an item is taken from it and when more of it is received.
LEMMA Taken ==
  ASSUME buffer \in Seq(Item), coming \in Seq(Item), buffer # << >>, Took
  PROVE  /\ buffer' \in Seq(Item) /\ coming' \in Seq(Item)
         /\ script' = script /\ left' = left /\ integrated' = integrated
         /\ Stream # << >>
         /\ \A x \in Item, u \in Seq(Item) :
              Stream = Then(x, u) => Head(buffer) = x /\ Stream' = u
<1> DEFINE a == buffer
           b == coming
<1>1. a \in Seq(Item) /\ b \in Seq(Item) /\ a # << >>
  OBVIOUS
<1>2. buffer' = Tail(a) /\ coming' = b /\ Stream = a \o b
  BY DEF Took, Stream
<1>3. script' = script /\ left' = left /\ integrated' = integrated
  BY DEF Took
<1>4. Stream' = buffer' \o coming'
  BY DEF Stream
<1> HIDE DEF a, b
<1>5. /\ a \o b # << >> /\ Tail(a) \in Seq(Item) /\ Head(a) \in Item
      /\ Head(a \o b) = Head(a) /\ Tail(a \o b) = Tail(a) \o b
  BY <1>1, FirstOfBoth
<1>6. ASSUME NEW x \in Item, NEW u \in Seq(Item), Stream = Then(x, u)
      PROVE  Head(buffer) = x /\ Stream' = u
  <2>1. Head(Then(x, u)) = x /\ Tail(Then(x, u)) = u
    BY ThenParts
  <2>2. Head(a) = x /\ Tail(a) \o b = u
    BY <1>2, <1>5, <1>6, <2>1
  <2> QED BY <1>2, <1>4, <2>2 DEF a
<1> QED BY <1>1, <1>2, <1>3, <1>5, <1>6

LEMMA Received ==
  ASSUME buffer \in Seq(Item), coming \in Seq(Item), Receive
  PROVE  buffer' \in Seq(Item) /\ coming' \in Seq(Item) /\ Stream' = Stream
<1> DEFINE a == buffer
           b == coming
<1>1. PICK n \in 1 .. Len(b) :
        buffer' = a \o SubSeq(b, 1, n) /\ coming' = SubSeq(b, n + 1, Len(b))
  BY DEF Receive
<1>2. a \in Seq(Item) /\ b \in Seq(Item) /\ Stream = a \o b
  BY DEF Stream
<1>3. Stream' = buffer' \o coming'
  BY DEF Stream
<1> HIDE DEF a, b
<1>4. /\ a \o SubSeq(b, 1, n) \in Seq(Item) /\ SubSeq(b, n + 1, Len(b)) \in Seq(Item)
      /\ (a \o SubSeq(b, 1, n)) \o SubSeq(b, n + 1, Len(b)) = a \o b
  <2>1. a \in Seq(Item) /\ b \in Seq(Item) /\ n \in 1 .. Len(b)
    BY <1>2
  <2> QED BY ONLY <2>1, Moved, ZenonT(30)
<1> QED BY <1>1, <1>2, <1>3, <1>4

-----------------------------------------------------------------------------
\* What can be said of a message that is being read, and of the script.
LEMMA ScriptType ==
  ASSUME TypeOK
  PROVE  script \in Seq(Request)
BY ScriptsAssumption DEF TypeOK

LEMMA FromKept ==
  ASSUME NEW j, script' = script
  PROVE  From(j)' = From(j)
BY DEF From, Messages

LEMMA BeingRead ==
  ASSUME SessionInv, reading # "none", message # None
  PROVE  /\ Len(acted) < Len(script)
         /\ \E r \in Request, s \in Seq(Item) :
              r = script[Len(acted) + 1] /\ s = From(Len(acted) + 2) /\ Reading(r, s)
<1> DEFINE n == Len(acted)
<1>1. /\ n \in Nat /\ n <= Len(script)
      /\ Between(n) \/ Within(n)
      /\ script \in Seq(Request)
  BY ScriptType DEF SessionInv
<1>2. n < Len(script) /\ Reading(script[n + 1], From(n + 2))
  BY <1>1 DEF Between, Within
<1> HIDE DEF n
<1>3. n + 1 \in 1 .. Len(script) /\ n + 2 \in 1 .. Len(script) + 1
  BY <1>1, <1>2
<1>4. script[n + 1] \in Request
  <2> DEFINE j == n + 1
  <2>1. j \in 1 .. Len(script)
    BY <1>3
  <2> HIDE DEF j
  <2>2. script[j] \in Request
    BY <1>1, <2>1, ElementOfSeq
  <2> QED BY <2>2 DEF j
<1>5. From(n + 2) \in Seq(Item)
  <2> DEFINE j == n + 2
  <2>1. j \in 1 .. Len(script) + 1
    BY <1>3
  <2> HIDE DEF j
  <2>2. From(j) \in Seq(Item)
    BY <1>1, <2>1, FromEnds
  <2> QED BY <2>2 DEF j
<1> QED BY <1>2, <1>4, <1>5 DEF n

\* What comes behind a message is nothing, or begins with a request's first line.
LEMMA BehindMessage ==
  ASSUME SessionInv, Len(acted) < Len(script), From(Len(acted) + 2) # << >>
  PROVE  \E t \in Type, u \in Seq(Item) : From(Len(acted) + 2) = Then(Text(t), u)
<1> DEFINE j == Len(acted) + 2
<1>1. script \in Seq(Request) /\ j \in 1 .. Len(script) + 1
  BY ScriptType DEF SessionInv
<1> HIDE DEF j
<1>2. From(j) # << >>
  BY DEF j
<1>3. j # Len(script) + 1
  BY <1>1, <1>2, FromEnds
<1>4. j \in 1 .. Len(script)
  BY <1>1, <1>3
<1>5. /\ script[j] \in Request /\ From(j + 1) \in Seq(Item)
      /\ From(j) = Then(Text(script[j].type), Rest(script[j], From(j + 1)))
  BY <1>1, <1>4, FromNext
<1>6. Rest(script[j], From(j + 1)) \in Seq(Item)
  <2> DEFINE r == script[j]
             s == From(j + 1)
  <2>1. r \in Request /\ s \in Seq(Item)
    BY <1>5
  <2> HIDE DEF r, s
  <2>2. Rest(r, s) \in Seq(Item)
    BY <2>1, RenderedThen
  <2> QED BY <2>2 DEF r, s
<1>7. script[j].type \in Type
  BY <1>5 DEF Request
<1> QED BY <1>5, <1>6, <1>7 DEF j

-----------------------------------------------------------------------------
\* The parts of the invariant that a step leaves alone: when nothing of the
\* message is read, when it goes on, when it is over, when it is refused.
LEMMA InvKept ==
  ASSUME SessionInv, TypeOK', buffer' \in Seq(Item), coming' \in Seq(Item),
         UNCHANGED <<script, authenticated, message, type, bytes, fileVars, acted,
                     stored>>,
         listed' <= Len(acted), Stream' = Stream,
         reading # "none" \/ reading' = "none"
  PROVE  SessionInv'
<1>1. PasswordGiven' /\ FilesWhole'
  BY ZenonT(30) DEF SessionInv, PasswordGiven, FilesWhole
<1>2. \A j : From(j)' = From(j)
  BY FromKept
<1>3. ASSUME NEW n PROVE (Between(n) => Between(n)') /\ (Within(n) => Within(n)')
  <2>1. Between(n) => Between(n)'
    BY <1>2 DEF Between
  <2>2. PICK r, s : r = script[n + 1] /\ s = From(n + 2)
    OBVIOUS
  <2>3. Reading(r, s) => Reading(r, s)'
    BY DEF Reading, InHello, InStoreFile, InFileHeader, InFile, BeforeChunk,
           InChunkHeader, InChunk, InLoadFile, InConnectPeer, fileVars
  <2>4. Within(n) <=> n < Len(script) /\ Reading(r, s)
    BY <2>2 DEF Within
  <2>5. Within(n)' <=> n < Len(script) /\ Reading(r, s)'
    <3>1. From(n + 2)' = s /\ script'[n + 1] = r
      BY <1>2, <2>2
    <3> QED BY <3>1 DEF Within
  <2> QED BY <2>1, <2>3, <2>4, <2>5
<1>4. reading' # "none" => Between(Len(acted))' \/ Within(Len(acted))'
  <2>1. PICK n : n = Len(acted)
    OBVIOUS
  <2>2. reading # "none" => Between(n) \/ Within(n)
    BY <2>1 DEF SessionInv
  <2>3. Len(acted)' = n
    BY <2>1
  <2>4. (Between(Len(acted))' <=> Between(n)') /\ (Within(Len(acted))' <=> Within(n)')
    BY <2>3 DEF Between, Within
  <2> QED BY <1>3, <2>2, <2>4
<1> QED BY <1>1, <1>4 DEF SessionInv

LEMMA InvRefused ==
  ASSUME SessionInv, Refused, buffer # << >>
  PROVE  SessionInv'
<1>1. /\ buffer' \in Seq(Item) /\ coming' \in Seq(Item) /\ script' = script
      /\ left' = left /\ integrated' = integrated
  BY Taken DEF SessionInv, Refused
<1>2. UNCHANGED <<authenticated, message, type, bytes, fileVars, acted, stored>>
  BY DEF Refused
<1>3. open' = FALSE /\ listed' = 0 /\ reading' = "none" /\ writing' \in BOOLEAN
  BY DEF Refused, ClosedConnection, NoAnswers, SessionInv, TypeOK
<1>4. PasswordGiven' /\ FilesWhole'
  BY <1>1, <1>2 DEF SessionInv, PasswordGiven, FilesWhole
<1>5. TypeOK'
  <2>1. 0 \in 0 .. Len(script)
    BY ScriptType DEF SessionInv
  <2> QED BY <1>1, <1>2, <1>3, <2>1 DEF SessionInv, TypeOK, fileVars
<1>6. /\ acted' \in Seq([type : Type, integrated : BOOLEAN])
      /\ Len(acted') <= Len(script') /\ listed' <= Len(acted')
  BY <1>1, <1>2, <1>3 DEF SessionInv
<1> QED BY <1>1, <1>3, <1>4, <1>5, <1>6 DEF SessionInv

LEMMA InvGoesOn ==
  ASSUME SessionInv, NEW r \in Request, NEW s \in Seq(Item), Len(acted) < Len(script),
         r = script[Len(acted) + 1], s = From(Len(acted) + 2),
         UNCHANGED <<script, authenticated, acted, stored, listed>>,
         message' \in {None, "HELLO"} \/ authenticated,
         TypeOK', buffer' \in Seq(Item), coming' \in Seq(Item), Reading(r, s)'
  PROVE  SessionInv'
<1>1. PasswordGiven' /\ FilesWhole'
  BY DEF SessionInv, PasswordGiven, FilesWhole
<1>2. Within(Len(acted))'
  <2>1. From(Len(acted) + 2)' = s
    BY DEF From, Messages
  <2>2. script'[Len(acted)' + 1] = r /\ Len(acted)' < Len(script)'
    OBVIOUS
  <2> QED BY <2>1, <2>2 DEF Within
<1> QED BY <1>1, <1>2 DEF SessionInv

\* A sequence with one more at its end.
LEMMA OneMore ==
  ASSUME NEW S, NEW a \in Seq(S), NEW e \in S
  PROVE  /\ Len(a) \in Nat /\ DOMAIN a = 1 .. Len(a)
         /\ Append(a, e) \in Seq(S) /\ Len(Append(a, e)) = Len(a) + 1
         /\ DOMAIN Append(a, e) = 1 .. Len(a) + 1
         /\ Append(a, e)[Len(a) + 1] = e /\ Append(a, e) # << >>
         /\ \A i \in 1 .. Len(a) : Append(a, e)[i] = a[i]
<1>1. /\ Append(a, e) \in Seq(S) /\ Len(Append(a, e)) = Len(a) + 1
      /\ \A i \in 1 .. Len(a) : Append(a, e)[i] = a[i]
      /\ Append(a, e)[Len(a) + 1] = e
  BY AppendProperties
<1>2. Append(a, e) # << >>
  BY AppendProperties
<1> QED BY <1>1, <1>2, LenProperties

\* The files of the first n requests, and one more.
FilesOf(q, n) ==
  { [to |-> i, data |-> FileOf(q[i])] : i \in { k \in 1 .. n : q[k].type = "STORE FILE" } }

LEMMA OneMoreFile ==
  ASSUME NEW n \in Nat, NEW q
  PROVE  FilesOf(q, n + 1)
           = IF q[n + 1].type = "STORE FILE"
             THEN FilesOf(q, n) \cup {[to |-> n + 1, data |-> FileOf(q[n + 1])]}
             ELSE FilesOf(q, n)
<1> DEFINE D(m) == { k \in 1 .. m : q[k].type = "STORE FILE" }
           G == [i \in Nat |-> [to |-> i, data |-> FileOf(q[i])]]
<1>1. D(n + 1) = IF q[n + 1].type = "STORE FILE" THEN D(n) \cup {n + 1} ELSE D(n)
  <2>1. \A k \in 1 .. n + 1 : k \in 1 .. n \/ k = n + 1
    OBVIOUS
  <2>2. n + 1 \in 1 .. n + 1 /\ 1 .. n \subseteq 1 .. n + 1
    OBVIOUS
  <2> QED BY <2>1, <2>2
<1>2. ASSUME NEW m \in Nat PROVE FilesOf(q, m) = { G[i] : i \in D(m) }
  <2>1. \A i \in Nat : G[i] = [to |-> i, data |-> FileOf(q[i])]
    OBVIOUS
  <2>2. \A i \in D(m) : i \in Nat
    <3>1. \A i \in D(m) : i \in 1 .. m
      BY Zenon
    <3>2. \A i \in 1 .. m : i \in Nat
      BY ONLY m \in Nat
    <3> HIDE DEF D
    <3> QED BY ONLY <3>1, <3>2
  <2>3. FilesOf(q, m) = { [to |-> i, data |-> FileOf(q[i])] : i \in D(m) }
    BY DEF FilesOf
  <2> HIDE DEF G, D
  <2> QED BY <2>1, <2>2, <2>3
<1>3. G[n + 1] = [to |-> n + 1, data |-> FileOf(q[n + 1])]
  OBVIOUS
<1> HIDE DEF D, G
<1>4. FilesOf(q, n + 1) = { G[i] : i \in D(n + 1) } /\ FilesOf(q, n) = { G[i] : i \in D(n) }
  <2>1. n + 1 \in Nat
    OBVIOUS
  <2> QED BY <1>2, <2>1
<1> QED BY <1>1, <1>3, <1>4

LEMMA InvCompleted ==
  ASSUME SessionInv, NEW r \in Request, NEW s \in Seq(Item), Len(acted) < Len(script),
         r = script[Len(acted) + 1], s = From(Len(acted) + 2),
         script' = script, Acts(r.type), integrated \in BOOLEAN,
         stored' = IF r.type = "STORE FILE"
                   THEN stored \cup {[to |-> Len(acted) + 1, data |-> FileOf(r)]}
                   ELSE stored,
         message' = None, Stream' = s, authenticated' = TRUE,
         acted # << >> \/ r.type = "HELLO", r.type # "HELLO" \/ r.right = TRUE,
         TypeOK', buffer' \in Seq(Item), coming' \in Seq(Item), listed' <= Len(acted) + 1
  PROVE  SessionInv'
<1> DEFINE E == [type : Type, integrated : BOOLEAN]
           e == [type |-> r.type, integrated |-> integrated]
<1>0. PICK n : n = Len(acted)
  OBVIOUS
<1>1. acted \in Seq(E)
  BY DEF SessionInv
<1>2. e \in E /\ e.type = r.type
  BY FileTypes
<1>3. acted' = Append(acted, e)
  BY DEF Acts
<1> HIDE DEF E, e
<1>4. /\ n \in Nat /\ DOMAIN acted = 1 .. n /\ DOMAIN acted' = 1 .. n + 1
      /\ acted' \in Seq(E) /\ Len(acted') = n + 1 /\ acted'[n + 1] = e
      /\ acted' # << >> /\ \A i \in 1 .. n : acted'[i] = acted[i]
  BY ONLY <1>0, <1>1, <1>2, <1>3, OneMore
<1>5. script[n + 1] = r /\ script' = script
  BY <1>0
<1>6. \A i \in 1 .. n + 1 : i \in 1 .. n \/ i = n + 1
  BY ONLY <1>4
<1>7. PasswordGiven'
  <2>1. script[1].type = "HELLO"
    <3>1. CASE acted = << >>
      <4>1. n + 1 = 1
        BY ONLY <1>0, <1>4, <3>1
      <4>2. r.type = "HELLO"
        BY <3>1
      <4> QED BY ONLY <1>5, <4>1, <4>2
    <3>2. CASE acted # << >>
      BY <3>2 DEF SessionInv, PasswordGiven
    <3> QED BY <3>1, <3>2
  <2>2. ASSUME NEW i \in 1 .. n + 1, script[i].type = "HELLO" PROVE script[i].right
    <3>1. CASE i \in 1 .. n
      <4>1. \A k \in DOMAIN acted : script[k].type = "HELLO" => script[k].right
        BY DEF SessionInv, PasswordGiven
      <4> QED BY ONLY <1>4, <2>2, <3>1, <4>1
    <3>2. CASE i = n + 1
      <4>1. r.type # "HELLO" \/ r.right = TRUE
        OBVIOUS
      <4> QED BY ONLY <1>5, <2>2, <3>2, <4>1
    <3> QED BY ONLY <1>6, <3>1, <3>2
  <2>3. message' = None /\ authenticated' = TRUE
    OBVIOUS
  <2> QED BY ONLY <1>4, <1>5, <2>1, <2>2, <2>3 DEF PasswordGiven
<1>8. FilesWhole'
  <2>1. ASSUME NEW i \in 1 .. n + 1 PROVE acted'[i].type = script[i].type
    <3>1. CASE i \in 1 .. n
      <4>1. \A k \in DOMAIN acted : acted[k].type = script[k].type
        BY DEF SessionInv, FilesWhole
      <4> QED BY ONLY <1>4, <3>1, <4>1
    <3>2. CASE i = n + 1
      BY ONLY <1>2, <1>4, <1>5, <3>2
    <3> QED BY ONLY <1>6, <3>1, <3>2
  <2>2. stored = FilesOf(script, n)
    <3>1. stored = { [to |-> i, data |-> FileOf(script[i])] :
                       i \in { k \in DOMAIN acted : script[k].type = "STORE FILE" } }
      BY DEF SessionInv, FilesWhole
    <3> QED BY ONLY <1>4, <3>1 DEF FilesOf
  <2>3. stored' = FilesOf(script, n + 1)
    <3>1. FilesOf(script, n + 1) = IF script[n + 1].type = "STORE FILE"
             THEN FilesOf(script, n) \cup {[to |-> n + 1, data |-> FileOf(script[n + 1])]}
             ELSE FilesOf(script, n)
      BY ONLY <1>4, OneMoreFile
    <3>2. stored' = IF r.type = "STORE FILE"
                    THEN stored \cup {[to |-> n + 1, data |-> FileOf(r)]}
                    ELSE stored
      BY <1>0
    <3> QED BY ONLY <1>5, <2>2, <3>1, <3>2
  <2> QED BY ONLY <1>4, <1>5, <2>1, <2>3 DEF FilesWhole, FilesOf
<1>9. Between(Len(acted))'
  <2>1. From(n + 2)' = From(n + 2)
    BY <1>5 DEF From, Messages
  <2>2. s = From(n + 2)
    BY <1>0
  <2>3. message' = None /\ Stream' = s
    OBVIOUS
  <2>4. Len(acted)' + 1 = n + 2
    BY ONLY <1>4
  <2>5. Between(Len(acted))' <=> message' = None /\ Stream' = From(n + 2)'
    BY ONLY <2>4 DEF Between
  <2> QED BY ONLY <2>1, <2>2, <2>3, <2>5
<1>10. Len(acted)' <= Len(script)' /\ listed' <= Len(acted)'
  <2>1. Len(script) \in Nat /\ listed' \in Int
    <3>1. script \in Seq(Request) /\ TypeOK'
      BY ScriptType DEF SessionInv
    <3>2. listed' \in 0 .. Len(script')
      BY ONLY <3>1 DEF TypeOK
    <3> QED BY ONLY <3>1, <3>2, LenProperties
  <2>2. n < Len(script) /\ listed' <= n + 1
    BY <1>0
  <2> QED BY ONLY <1>4, <1>5, <2>1, <2>2
<1>11. /\ TypeOK' /\ buffer' \in Seq(Item) /\ coming' \in Seq(Item)
  OBVIOUS
<1> QED BY ONLY <1>4, <1>7, <1>8, <1>9, <1>10, <1>11 DEF SessionInv, E

-----------------------------------------------------------------------------
\* The steps of the loop that reads, with the items they take.
LEMMA TypeTaken ==
  ASSUME TypeOK, Took,
         open' \in BOOLEAN, authenticated' \in BOOLEAN, reading' = reading,
         writing' \in BOOLEAN, message' \in Type \cup {None},
         type' \in {"string", "bytes"}, bytes' \in Nat, UNCHANGED fileVars,
         message' # "STORE FILE" \/ message' = message, listed' \in 0 .. Len(script)
  PROVE  TypeOK'
BY DEF TypeOK, Took, fileVars

LEMMA AnswersWrite ==
  ASSUME TypeOK, NEW new, Answers(new) \/ NoAnswers
  PROVE  writing' \in BOOLEAN
<1>1. CASE Answers(new)
  <2>1. writing' = (writing \/ new # {})
    BY <1>1 DEF Answers
  <2> QED BY <2>1
<1>2. CASE NoAnswers
  BY <1>2 DEF NoAnswers, TypeOK
<1> QED BY <1>1, <1>2

\* The message that is read.
LEMMA InMessage ==
  ASSUME SessionInv, reading = "handled", message # None
  PROVE  /\ Len(acted) < Len(script)
         /\ authenticated \/ message = "HELLO"
         /\ message \in Type
         /\ \E r \in Request, s \in Seq(Item) :
              /\ r = script[Len(acted) + 1] /\ s = From(Len(acted) + 2)
              /\ Reading(r, s) /\ r.type = message
<1>1. /\ Len(acted) < Len(script)
      /\ \E r \in Request, s \in Seq(Item) :
           r = script[Len(acted) + 1] /\ s = From(Len(acted) + 2) /\ Reading(r, s)
  BY BeingRead
<1>2. authenticated \/ message = "HELLO"
  BY DEF SessionInv, PasswordGiven
<1>3. message \in Type
  BY DEF SessionInv, TypeOK
<1> QED BY <1>1, <1>2, <1>3 DEF Reading

LEMMA TypeIsMessage ==
  ASSUME TypeOK, NEW kind \in Type, message = kind
  PROVE  message # None
BY ScriptsAssumption

LEMMA HelloStep ==
  ASSUME SessionInv, FeedHello
  PROVE  SessionInv'
<1>1. message = "HELLO" /\ message # None /\ reading = "handled" /\ buffer # << >>
  BY ScriptsAssumption DEF FeedHello, GetsLine, Handling, Type
<1>2. PICK r \in Request, s \in Seq(Item) :
        /\ Len(acted) < Len(script)
        /\ r = script[Len(acted) + 1] /\ s = From(Len(acted) + 2)
        /\ Reading(r, s) /\ r.type = message
  BY <1>1, InMessage
<1>3. CASE Refused
  BY <1>1, <1>3, InvRefused
<1>4. CASE ~ Refused
  <2>1. /\ Head(buffer) = Text("password") /\ Took /\ Ended /\ Acts("HELLO")
        /\ Answers({[type |-> "HELLO", to |-> Len(acted) + 1]})
        /\ authenticated' = TRUE /\ listed' = listed + 1
        /\ UNCHANGED <<open, fileVars, waiting, stored>>
    BY <1>4 DEF FeedHello
  <2>2. Stream = Then(Password(r), s) /\ Password(r) \in Item
    BY <1>1, <1>2, ItemTypes DEF Reading, InHello
  <2>3. /\ buffer' \in Seq(Item) /\ coming' \in Seq(Item) /\ script' = script
        /\ integrated' = integrated /\ Head(buffer) = Password(r) /\ Stream' = s
    BY <1>1, <2>1, <2>2, Taken DEF SessionInv
  <2>4. r.right = TRUE
    <3>1. r.right \in BOOLEAN
      BY DEF Request
    <3>2. Text("guess").text = "guess" /\ Text("password").text = "password"
      BY ItemForms
    <3>3. ~ r.right => Password(r) = Text("guess")
      BY DEF Password
    <3> QED BY <2>1, <2>3, <3>1, <3>2, <3>3
  <2>5. message' = None /\ type' = "string" /\ bytes' = bytes /\ reading' = reading
    BY <2>1 DEF Ended
  <2>6. listed' \in 0 .. Len(script) /\ listed' <= Len(acted) + 1
    <3>1. /\ listed \in 0 .. Len(script) /\ listed <= Len(acted)
          /\ acted \in Seq([type : Type, integrated : BOOLEAN])
          /\ script \in Seq(Request)
      BY ScriptType DEF SessionInv, TypeOK
    <3>2. Len(acted) \in Nat /\ Len(script) \in Nat
      BY ONLY <3>1, LenProperties
    <3> QED BY ONLY <1>2, <2>1, <3>1, <3>2
  <2>7. TypeOK'
    <3>1. TypeOK /\ writing' \in BOOLEAN
      BY <2>1, AnswersWrite DEF SessionInv
    <3>2. bytes \in Nat /\ open \in BOOLEAN
      BY <3>1 DEF TypeOK
    <3>3. message' # "STORE FILE"
      BY <2>5, ScriptsAssumption DEF Type
    <3> QED BY <2>1, <2>5, <2>6, <3>1, <3>2, <3>3, TypeTaken
  <2>8. Acts(r.type) /\ integrated \in BOOLEAN /\ stored' = stored /\ r.type = "HELLO"
    BY <1>1, <1>2, <2>1 DEF SessionInv, TypeOK
  <2> QED BY <1>2, <2>1, <2>3, <2>4, <2>5, <2>6, <2>7, <2>8, InvCompleted
<1> QED BY <1>3, <1>4

\* A message that is over and was acted on.
LEMMA EndedStep ==
  ASSUME SessionInv, reading = "handled", message # None,
         Took, Ended, NEW new, Answers(new) \/ NoAnswers,
         NEW r \in Request, NEW s \in Seq(Item), Len(acted) < Len(script),
         r = script[Len(acted) + 1], s = From(Len(acted) + 2), r.type # "HELLO",
         r.type # "STORE FILE", r.type = message, Acts(r.type),
         UNCHANGED <<open, listed, authenticated, stored, fileVars>>,
         NEW x \in Item, Stream = Then(x, s), buffer # << >>
  PROVE  SessionInv'
<1>1. /\ buffer' \in Seq(Item) /\ coming' \in Seq(Item) /\ script' = script
      /\ integrated' = integrated /\ Stream' = s
  BY Taken DEF SessionInv
<1>2. message' = None /\ type' = "string" /\ bytes' = bytes /\ reading' = reading
  BY DEF Ended
<1>3. authenticated = TRUE /\ acted # << >>
  <2>1. authenticated \in BOOLEAN /\ authenticated
    BY InMessage DEF SessionInv, TypeOK
  <2>2. acted # << >>
    BY <2>1 DEF SessionInv, PasswordGiven
  <2> QED BY <2>1, <2>2
<1>4. TypeOK'
  <2>1. TypeOK /\ writing' \in BOOLEAN
    BY AnswersWrite DEF SessionInv
  <2>2. /\ bytes \in Nat /\ open \in BOOLEAN /\ authenticated \in BOOLEAN
        /\ listed \in 0 .. Len(script)
    BY <2>1 DEF TypeOK
  <2>3. message' # "STORE FILE"
    BY <1>2, ScriptsAssumption DEF Type
  <2> QED BY <1>2, <2>1, <2>2, <2>3, TypeTaken
<1>5. /\ integrated \in BOOLEAN /\ stored' = stored /\ authenticated' = TRUE
      /\ listed' <= Len(acted) + 1
  <2>1. /\ listed \in 0 .. Len(script) /\ listed <= Len(acted)
        /\ acted \in Seq([type : Type, integrated : BOOLEAN])
        /\ integrated \in BOOLEAN
    BY DEF SessionInv, TypeOK
  <2>2. Len(acted) \in Nat
    BY ONLY <2>1, LenProperties
  <2>3. listed' = listed /\ stored' = stored /\ authenticated' = TRUE
    BY <1>3
  <2>4. listed <= Len(acted) + 1
    BY ONLY <2>1, <2>2
  <2> QED BY ONLY <2>1, <2>3, <2>4
<1> QED BY <1>1, <1>2, <1>3, <1>4, <1>5, InvCompleted

\* A line that is taken and only read.
LEMMA ReadStep ==
  ASSUME SessionInv, reading = "handled", message # None, buffer # << >>,
         Took, OnlyReads, UNCHANGED <<message, reading>>, TypeOK',
         NEW r \in Request, NEW s \in Seq(Item), Len(acted) < Len(script),
         r = script[Len(acted) + 1], s = From(Len(acted) + 2), Reading(r, s)'
  PROVE  SessionInv'
<1>1. buffer' \in Seq(Item) /\ coming' \in Seq(Item) /\ script' = script
  BY Taken DEF SessionInv
<1>2. UNCHANGED <<authenticated, acted, stored, listed>>
  BY DEF OnlyReads
<1>3. message' \in {None, "HELLO"} \/ authenticated
  BY InMessage
<1> QED BY <1>1, <1>2, <1>3, InvGoesOn

LEMMA OneOrNone == \A x : x = 1 => x # 0
OBVIOUS

\* The types when it is.
LEMMA TypeRead ==
  ASSUME TypeOK, Took, OnlyReads, UNCHANGED <<message, reading>>,
         type' \in {"string", "bytes"}, bytes' \in Nat, state' \in 0 .. 1,
         fileSize' \in Nat, chunks' \in Nat, chunkSize' \in Nat,
         chunk' \in 0 .. chunks', pointer' \in 0 .. fileSize',
         message # "STORE FILE" \/ state' = 0 \/ Len(data') = fileSize'
  PROVE  TypeOK'
<1>1. /\ script' \in Scripts /\ left' \in BOOLEAN /\ open' \in BOOLEAN
      /\ authenticated' \in BOOLEAN /\ integrated' \in BOOLEAN
      /\ listed' \in 0 .. Len(script')
  BY DEF TypeOK, Took, OnlyReads
<1>2. /\ reading' \in {"waiting", "completed", "handled", "none"}
      /\ message' \in Type \cup {None} /\ writing' \in BOOLEAN
  BY DEF TypeOK, OnlyReads, NoAnswers
<1>3. message' = "STORE FILE" /\ state' = 1 => Len(data') = fileSize'
  <2>1. message' = message
    OBVIOUS
  <2>2. message # "STORE FILE" \/ state' = 0 \/ Len(data') = fileSize'
    OBVIOUS
  <2> QED BY ONLY <2>1, <2>2, OneOrNone, Zenon
<1> QED BY <1>1, <1>2, <1>3 DEF TypeOK

\* LOAD FILE and CONNECT PEER.
LEMMA LoadFileStep ==
  ASSUME SessionInv, FeedLoadFile
  PROVE  SessionInv'
<1>1. CASE GetsText /\ Refused
  BY <1>1, InvRefused DEF GetsText, GetsLine, Handling
<1>2. CASE ~ (GetsText /\ Refused)
  <2>1. message = "LOAD FILE" /\ message # None /\ reading = "handled" /\ buffer # << >>
    BY <1>2, ScriptsAssumption
    DEF FeedLoadFile, GetsField, GetsBlank, GetsLine, Handling, Type
  <2>2. PICK r \in Request, s \in Seq(Item) :
          /\ Len(acted) < Len(script)
          /\ r = script[Len(acted) + 1] /\ s = From(Len(acted) + 2)
          /\ Reading(r, s) /\ r.type = message
    BY <2>1, InMessage
  <2>3. InLoadFile(r, s)
    BY <2>1, <2>2 DEF Reading
  <2>4. /\ Blank \in Item /\ CodeField \in Item /\ Then(Blank, s) \in Seq(Item)
    BY ItemTypes, ThenParts
  <2>5. CASE GetsField /\ Took /\ Continues /\ OnlyReads /\ UNCHANGED fileVars
    <3>1. Stream = Then(CodeField, Then(Blank, s))
      <4>1. CASE Stream = Then(Blank, s)
        <5>1. Head(buffer) = Blank
          BY <2>1, <2>4, <2>5, <4>1, Taken DEF SessionInv
        <5> QED BY <2>5, <5>1, BlankIsBlank
      <4> QED BY <2>3, <4>1 DEF InLoadFile
    <3>2. Stream' = Then(Blank, s)
      BY <2>1, <2>4, <2>5, <3>1, Taken DEF SessionInv
    <3>3. type' = "string" /\ UNCHANGED <<message, bytes, reading>>
      BY <2>5 DEF Continues
    <3>4. Reading(r, s)'
      BY <2>1, <2>2, <3>2, <3>3 DEF Reading, InLoadFile
    <3>5. TypeOK'
      <4>1. /\ TypeOK /\ bytes \in Nat /\ open \in BOOLEAN /\ authenticated \in BOOLEAN
            /\ listed \in 0 .. Len(script) /\ message \in Type \cup {None}
            /\ writing \in BOOLEAN
        BY DEF SessionInv, TypeOK
      <4>2. UNCHANGED <<open, listed, authenticated, writing>>
        BY <2>5 DEF OnlyReads, NoAnswers
      <4> QED BY <2>5, <3>3, <4>1, <4>2, TypeTaken
    <3> QED BY <2>1, <2>2, <2>5, <3>3, <3>4, <3>5, ReadStep
  <2>6. CASE ~ (GetsField /\ Took /\ Continues /\ OnlyReads /\ UNCHANGED fileVars)
    <3>1. /\ GetsBlank /\ Took /\ Ended /\ Acts("LOAD FILE")
          /\ UNCHANGED <<open, listed, authenticated, stored, fileVars>>
      BY <1>2, <2>6 DEF FeedLoadFile
    <3>2. \E new : Answers(new) \/ NoAnswers
      BY <1>2, <2>6 DEF FeedLoadFile
    <3>3. PICK new : Answers(new) \/ NoAnswers
      BY <3>2
    <3>4. Stream = Then(Blank, s)
      <4>1. CASE Stream = Then(CodeField, Then(Blank, s))
        <5>1. Head(buffer) = CodeField
          BY <2>1, <2>4, <3>1, <4>1, Taken DEF SessionInv
        <5> QED BY <3>1, <5>1, FieldIsField DEF CodeField
      <4> QED BY <2>3, <4>1 DEF InLoadFile
    <3>5. Acts(r.type) /\ r.type # "HELLO" /\ r.type # "STORE FILE"
      BY <2>1, <2>2, <3>1
    <3> QED BY <2>1, <2>2, <2>4, <3>1, <3>3, <3>4, <3>5, EndedStep
  <2> QED BY <2>5, <2>6
<1> QED BY <1>1, <1>2

LEMMA ConnectPeerStep ==
  ASSUME SessionInv, FeedConnectPeer
  PROVE  SessionInv'
<1>1. CASE GetsText /\ Refused
  BY <1>1, InvRefused DEF GetsText, GetsLine, Handling
<1>2. CASE ~ (GetsText /\ Refused)
  <2>1. message = "CONNECT PEER" /\ message # None /\ reading = "handled" /\ buffer # << >>
    BY <1>2, ScriptsAssumption
    DEF FeedConnectPeer, GetsField, GetsBlank, GetsLine, Handling, Type
  <2>2. PICK r \in Request, s \in Seq(Item) :
          /\ Len(acted) < Len(script)
          /\ r = script[Len(acted) + 1] /\ s = From(Len(acted) + 2)
          /\ Reading(r, s) /\ r.type = message
    BY <2>1, InMessage
  <2>3. InConnectPeer(r, s)
    BY <2>1, <2>2 DEF Reading
  <2> DEFINE last == Then(Blank, s)
             port == Then(PortField, last)
             host == Then(HostField, port)
  <2>4. /\ Blank \in Item /\ PortField \in Item /\ HostField \in Item
        /\ last \in Seq(Item) /\ port \in Seq(Item)
    BY ItemTypes, ThenParts
  <2>5. Stream = host \/ Stream = port \/ Stream = last
    BY <2>3 DEF InConnectPeer
  <2>6. CASE GetsField /\ Took /\ Continues /\ OnlyReads /\ UNCHANGED fileVars
    <3>1. Stream # last
      <4>1. CASE Stream = last
        <5>1. Head(buffer) = Blank
          BY <2>1, <2>4, <2>6, <4>1, Taken DEF SessionInv
        <5> QED BY <2>6, <5>1, BlankIsBlank
      <4> QED BY <4>1
    <3>2. Stream' = port \/ Stream' = last
      BY <2>1, <2>4, <2>5, <2>6, <3>1, Taken DEF SessionInv
    <3>3. type' = "string" /\ UNCHANGED <<message, bytes, reading>>
      BY <2>6 DEF Continues
    <3>4. Reading(r, s)'
      BY <2>1, <2>2, <3>2, <3>3 DEF Reading, InConnectPeer
    <3>5. TypeOK'
      <4>1. /\ TypeOK /\ bytes \in Nat /\ open \in BOOLEAN /\ authenticated \in BOOLEAN
            /\ listed \in 0 .. Len(script) /\ message \in Type \cup {None}
            /\ writing \in BOOLEAN
        BY DEF SessionInv, TypeOK
      <4>2. UNCHANGED <<open, listed, authenticated, writing>>
        BY <2>6 DEF OnlyReads, NoAnswers
      <4> QED BY <2>6, <3>3, <4>1, <4>2, TypeTaken
    <3> QED BY <2>1, <2>2, <2>6, <3>3, <3>4, <3>5, ReadStep
  <2>7. CASE ~ (GetsField /\ Took /\ Continues /\ OnlyReads /\ UNCHANGED fileVars)
    <3>1. /\ GetsBlank /\ Took /\ Ended /\ Acts("CONNECT PEER") /\ NoAnswers
          /\ UNCHANGED <<open, listed, authenticated, stored, fileVars>>
      BY <1>2, <2>7 DEF FeedConnectPeer
    <3>2. Stream = last
      <4>1. ASSUME NEW name, name # "", NEW v, NEW u \in Seq(Item),
                   Field(name, v) \in Item, Stream = Then(Field(name, v), u)
            PROVE  FALSE
        <5>1. Head(buffer) = Field(name, v)
          BY <2>1, <3>1, <4>1, Taken DEF SessionInv
        <5> QED BY <3>1, <4>1, <5>1, FieldIsField
      <4>2. Stream # host /\ Stream # port
        BY <2>4, <4>1 DEF HostField, PortField
      <4> QED BY <2>5, <4>2
    <3>3. Acts(r.type) /\ r.type # "HELLO" /\ r.type # "STORE FILE"
      BY <2>1, <2>2, <3>1
    <3>4. PICK new : new = {}
      OBVIOUS
    <3>5. Answers(new) \/ NoAnswers
      BY <3>1
    <3> QED BY <2>1, <2>2, <2>4, <3>1, <3>2, <3>3, <3>5, EndedStep
  <2> QED BY <2>6, <2>7
<1> QED BY <1>1, <1>2

-----------------------------------------------------------------------------
\* STORE FILE.
LEMMA InStoring ==
  ASSUME SessionInv, reading = "handled", message = "STORE FILE"
  PROVE  /\ message # None /\ Len(acted) < Len(script)
         /\ \E r \in Request, s \in Seq(Item) :
              /\ r = script[Len(acted) + 1] /\ s = From(Len(acted) + 2)
              /\ r.type = "STORE FILE" /\ Reading(r, s) /\ InStoreFile(r, s)
              /\ s # << >> => \E t \in Type, u \in Seq(Item) : s = Then(Text(t), u)
<1>1. message # None
  BY ScriptsAssumption DEF Type
<1>2. /\ Len(acted) < Len(script)
      /\ \E r \in Request, s \in Seq(Item) :
           /\ r = script[Len(acted) + 1] /\ s = From(Len(acted) + 2)
           /\ Reading(r, s) /\ r.type = message
  BY <1>1, InMessage
<1>3. From(Len(acted) + 2) # << >> =>
        \E t \in Type, u \in Seq(Item) : From(Len(acted) + 2) = Then(Text(t), u)
  BY <1>2, BehindMessage
<1>4. ASSUME NEW r, NEW s, Reading(r, s) PROVE InStoreFile(r, s)
  BY <1>4 DEF Reading
<1> QED BY <1>1, <1>2, <1>3, <1>4

\* Its first lines.
LEMMA FileInformationStep ==
  ASSUME SessionInv, FeedFileInformation
  PROVE  SessionInv'
<1>1. CASE (GetsText \/ TooLarge) /\ Refused
  BY <1>1, InvRefused DEF GetsText, TooLarge, GetsField, GetsLine, Handling
<1>2. CASE ~ ((GetsText \/ TooLarge) /\ Refused)
  <2>1. message = "STORE FILE" /\ state = 0 /\ reading = "handled" /\ buffer # << >>
    BY <1>2 DEF FeedFileInformation, GetsField, GetsBlank, GetsLine, Handling
  <2>2. Took /\ Continues /\ OnlyReads /\ UNCHANGED <<chunk, chunkSize, pointer>>
    BY <1>2 DEF FeedFileInformation
  <2>3. message # None /\ Len(acted) < Len(script)
    BY <2>1, InStoring
  <2>4. PICK r \in Request, s \in Seq(Item) :
          /\ r = script[Len(acted) + 1] /\ s = From(Len(acted) + 2)
          /\ r.type = "STORE FILE" /\ Reading(r, s) /\ InStoreFile(r, s)
    BY <2>1, InStoring
  <2>5. InFileHeader(r, s)
    <3>1. ~ InFile(r, s)
      BY <2>1, OneOrNone, Zenon DEF InFile
    <3> QED BY <2>4, <3>1 DEF InStoreFile
  <2>6. /\ r.chunks \in Seq(Nat) /\ Sum(r.chunks) \in Nat /\ Len(r.chunks) \in Nat
        /\ NameField \in Item /\ SizeField(r) \in Item /\ ChunksField(r) \in Item
        /\ Blank \in Item
    BY FileTypes, ItemTypes
  <2> DEFINE first == ChunksFrom(r.chunks, 1, s)
             all == AllChunks(r, s)
             three == Then(ChunksField(r), all)
             two == Then(SizeField(r), three)
             one == Then(NameField, two)
  <2>7. /\ first \in Seq(Item) /\ all = Then(Blank, first) /\ all \in Seq(Item)
        /\ three \in Seq(Item) /\ two \in Seq(Item)
    <3>1. 1 \in 1 .. Len(r.chunks) + 1
      BY <2>6
    <3> DEFINE c == 1
    <3> HIDE DEF c
    <3>2. ChunksFrom(r.chunks, c, s) \in Seq(Item)
      BY <3>1, ChunksFromType DEF c
    <3>3. first \in Seq(Item)
      BY <3>2 DEF c
    <3>4. all = Then(Blank, first)
      BY DEF AllChunks
    <3> HIDE DEF first, all
    <3> QED BY <2>6, <3>3, <3>4, ThenParts
  <2>8. /\ type = "string" /\ chunk = 0 /\ pointer = 0
        /\ \/ Stream = one \/ Stream = two
           \/ Stream = three /\ fileSize = Sum(r.chunks)
           \/ Stream = all /\ fileSize = Sum(r.chunks) /\ chunks = Len(r.chunks)
    BY <2>5 DEF InFileHeader
  <2>9. type' = "string" /\ UNCHANGED <<message, bytes, reading>>
    BY <2>2 DEF Continues
  <2>10. /\ TypeOK /\ bytes \in Nat /\ fileSize \in Nat /\ chunks \in Nat
         /\ chunkSize \in Nat
    BY DEF SessionInv, TypeOK
  <2> HIDE DEF first, all, three, two, one
  <2>11. ASSUME NEW x \in Item, NEW u \in Seq(Item), Stream = Then(x, u)
         PROVE  Head(buffer) = x /\ Stream' = u
    BY <2>1, <2>2, <2>11, Taken DEF SessionInv
  <2>12. CASE Stream # all
    <3>1. /\ GetsField /\ ~ TooLarge
          /\ fileSize' = IF Head(buffer).name = "File-size"
                         THEN Head(buffer).value ELSE fileSize
          /\ chunks' = IF Head(buffer).name = "Chunks"
                       THEN Head(buffer).value ELSE chunks
          /\ state' = state
      <4>1. ASSUME NEW name, name # "", NEW v, NEW u \in Seq(Item),
                   Field(name, v) \in Item, Stream = Then(Field(name, v), u)
            PROVE  ~ GetsBlank
        <5>1. Head(buffer) = Field(name, v)
          BY <2>11, <4>1
        <5> QED BY <4>1, <5>1, FieldIsField
      <4>2. ~ GetsBlank
        BY <2>6, <2>7, <2>8, <2>12, <4>1
        DEF one, two, three, NameField, SizeField, ChunksField
      <4> QED BY <1>2, <4>2 DEF FeedFileInformation
    <3>2. InFileHeader(r, s)' /\ fileSize' \in Nat /\ chunks' \in Nat
      <4>1. ASSUME state' = 0, type' = "string", chunk' = 0, pointer' = 0,
                   \/ Stream' = two
                   \/ Stream' = three /\ fileSize' = Sum(r.chunks)
                   \/ Stream' = all /\ fileSize' = Sum(r.chunks) /\ chunks' = Len(r.chunks)
            PROVE  InFileHeader(r, s)'
        BY <4>1 DEF InFileHeader, two, three, all
      <4>2. state' = 0 /\ type' = "string" /\ chunk' = 0 /\ pointer' = 0
        BY <2>1, <2>2, <2>8, <2>9, <3>1
      <4>3. CASE Stream = one
        <5>1. Head(buffer) = NameField /\ Stream' = two
          BY <2>6, <2>7, <2>11, <4>3 DEF one
        <5>2. NameField.name = "File-name"
          BY DEF NameField, Field, Line
        <5>3. fileSize' = fileSize /\ chunks' = chunks
          BY <3>1, <5>1, <5>2
        <5> QED BY <2>10, <4>1, <4>2, <5>1, <5>3
      <4>4. CASE Stream = two
        <5>1. Head(buffer) = SizeField(r) /\ Stream' = three
          BY <2>6, <2>7, <2>11, <4>4 DEF two
        <5>2. SizeField(r).name = "File-size" /\ SizeField(r).value = Sum(r.chunks)
          BY DEF SizeField, Field, Line
        <5>3. fileSize' = Sum(r.chunks) /\ chunks' = chunks
          BY <3>1, <5>1, <5>2
        <5> QED BY <2>6, <2>10, <4>1, <4>2, <5>1, <5>3
      <4>5. CASE Stream = three /\ fileSize = Sum(r.chunks)
        <5>1. Head(buffer) = ChunksField(r) /\ Stream' = all
          BY <2>6, <2>7, <2>11, <4>5 DEF three
        <5>2. ChunksField(r).name = "Chunks" /\ ChunksField(r).value = Len(r.chunks)
          BY DEF ChunksField, Field, Line
        <5>3. fileSize' = fileSize /\ chunks' = Len(r.chunks)
          BY <3>1, <5>1, <5>2
        <5> QED BY <2>6, <2>10, <4>1, <4>2, <4>5, <5>1, <5>3
      <4> QED BY <2>8, <2>12, <4>3, <4>4, <4>5
    <3>3. Reading(r, s)'
      <4>1. message' = "STORE FILE"
        BY <2>1, <2>9
      <4> QED BY <2>4, <3>2, <4>1 DEF Reading, InStoreFile
    <3>4. TypeOK'
      <4>1. /\ state' = 0 /\ chunk' = 0 /\ pointer' = 0 /\ chunkSize' \in Nat
            /\ bytes' \in Nat
        BY <2>1, <2>2, <2>8, <2>9, <2>10, <3>1
      <4>2. chunk' \in 0 .. chunks' /\ pointer' \in 0 .. fileSize' /\ state' \in 0 .. 1
        BY <3>2, <4>1
      <4> QED BY <2>2, <2>9, <2>10, <3>2, <4>1, <4>2, TypeRead
    <3> QED BY <2>1, <2>2, <2>3, <2>4, <2>9, <3>3, <3>4, ReadStep
  <2>13. CASE Stream = all
    <3>1. Head(buffer) = Blank /\ Stream' = first
      BY <2>6, <2>7, <2>11, <2>13
    <3>2. /\ state' = 1 /\ data' = [b \in 1 .. fileSize |-> 0]
          /\ UNCHANGED <<fileSize, chunks>>
      <4>1. ~ GetsText /\ ~ GetsField
        BY <3>1, BlankIsBlank
      <4> QED BY <1>2, <4>1 DEF FeedFileInformation
    <3>3. fileSize = Sum(r.chunks) /\ chunks = Len(r.chunks)
      <4>1. ASSUME NEW name, name # "", NEW v, NEW u \in Seq(Item),
                   Field(name, v) \in Item
            PROVE  Stream # Then(Field(name, v), u)
        <5>1. CASE Stream = Then(Field(name, v), u)
          <6>1. Head(buffer) = Field(name, v)
            BY <2>11, <4>1, <5>1
          <6>2. Field(name, v).name = name /\ Blank.name = ""
            BY ItemForms
          <6> QED BY <3>1, <4>1, <6>1, <6>2
        <5> QED BY <5>1
      <4>2. Stream # one /\ Stream # two /\ Stream # three
        BY <2>6, <2>7, <4>1 DEF one, two, three, NameField, SizeField, ChunksField
      <4> QED BY <2>8, <4>2
    <3>4. InFile(r, s)'
      <4>1. data' = Filled(fileSize, 0)
        <5>1. \A b \in 1 .. fileSize : ~ (b <= 0)
          BY <2>10
        <5> QED BY <3>2, <5>1 DEF Filled
      <4>2. Position(r.chunks)[0] = 0
        BY <2>6, PositionIs
      <4>3. BeforeChunk(r, s)'
        <5>1. type' = "string" /\ chunk' = 0 /\ pointer' = 0
          BY <2>2, <2>8, <2>9
        <5>2. 0 \in 0 .. Len(r.chunks)
          BY <2>6
        <5>3. Stream' = ChunksFrom(r.chunks, chunk' + 1, s)
          <6>1. chunk' + 1 = 1
            BY <5>1
          <6> QED BY <3>1, <6>1 DEF first
        <5> QED BY <4>2, <5>1, <5>2, <5>3 DEF BeforeChunk
      <4>4. data' = Filled(fileSize', pointer')
        <5>1. fileSize' = fileSize /\ pointer' = 0
          BY <2>2, <2>8, <3>2
        <5> QED BY <4>1, <5>1
      <4> QED BY <3>2, <3>3, <4>3, <4>4 DEF InFile
    <3>5. Reading(r, s)'
      <4>1. message' = "STORE FILE"
        BY <2>1, <2>9
      <4> QED BY <2>4, <3>4, <4>1 DEF Reading, InStoreFile
    <3>6. TypeOK'
      <4>1. /\ state' = 1 /\ chunk' = 0 /\ pointer' = 0 /\ chunkSize' \in Nat
            /\ bytes' \in Nat /\ fileSize' \in Nat /\ chunks' \in Nat
        BY <2>2, <2>8, <2>9, <2>10, <3>2
      <4>2. chunk' \in 0 .. chunks' /\ pointer' \in 0 .. fileSize' /\ state' \in 0 .. 1
        BY <4>1
      <4>3. Len(data') = fileSize'
        <5>1. fileSize' = fileSize
          BY <3>2
        <5>2. data' \in [1 .. fileSize -> {0}]
          BY <3>2
        <5> QED BY <2>10, <5>1, <5>2
      <4> QED BY <2>2, <2>9, <2>10, <4>1, <4>2, <4>3, TypeRead
    <3> QED BY <2>1, <2>2, <2>3, <2>4, <2>9, <3>5, <3>6, ReadStep
  <2> QED BY <2>12, <2>13
<1> QED BY <1>1, <1>2

\* Where the chunks are.
LEMMA ChunkPlaces ==
  ASSUME NEW r \in Request, NEW s \in Seq(Item), NEW c \in 1 .. Len(r.chunks)
  PROVE  /\ Len(r.chunks) \in Nat
         /\ Position(r.chunks)[c - 1] \in Nat /\ Position(r.chunks)[c] \in Nat
         /\ Position(r.chunks)[c] = Position(r.chunks)[c - 1] + r.chunks[c]
         /\ Position(r.chunks)[c] <= Sum(r.chunks)
         /\ r.chunks[c] \in Nat
         /\ ChunksFrom(r.chunks, c + 1, s) \in Seq(Item)
         /\ ChunkField(r, c) \in Item /\ ChunkBytes(r, c) \in Item
<1>1. r.chunks \in Seq(Nat) /\ r.chunks[c] \in Nat
  BY FileTypes
<1>2. Len(r.chunks) \in Nat
  BY <1>1, LenProperties
<1>3. c - 1 \in 0 .. Len(r.chunks) /\ c \in 0 .. Len(r.chunks)
  BY <1>2
<1>4. /\ Position(r.chunks)[c] = Position(r.chunks)[c - 1] + r.chunks[c]
  BY <1>1, PositionIs
<1>5. /\ Position(r.chunks)[c - 1] \in Nat /\ Position(r.chunks)[c] \in Nat
      /\ Position(r.chunks)[c] <= Sum(r.chunks)
  BY <1>1, <1>3, PositionBelow
<1> QED BY <1>1, <1>2, <1>4, <1>5, ChunksNext, FileTypes

\* The header of a chunk.
LEMMA ChunkInformationStep ==
  ASSUME SessionInv, FeedChunkInformation
  PROVE  SessionInv'
<1>1. CASE GetsText /\ Refused
  BY <1>1, InvRefused DEF GetsText, GetsLine, Handling
<1>2. CASE ~ (GetsText /\ Refused)
  <2>1. /\ message = "STORE FILE" /\ state = 1 /\ GetsLine
        /\ reading = "handled" /\ buffer # << >>
    BY <1>2 DEF FeedChunkInformation, GetsField, GetsBlank, GetsLine, Handling
  <2>2. /\ Took /\ OnlyReads
        /\ UNCHANGED <<state, fileSize, chunks, pointer, data>>
        /\ UNCHANGED <<message, reading>>
    BY <1>2 DEF FeedChunkInformation, Continues, ContinuesWithBytes
  <2>3. message # None /\ Len(acted) < Len(script)
    BY <2>1, InStoring
  <2>4. PICK r \in Request, s \in Seq(Item) :
          /\ r = script[Len(acted) + 1] /\ s = From(Len(acted) + 2)
          /\ r.type = "STORE FILE" /\ Reading(r, s) /\ InStoreFile(r, s)
          /\ s # << >> => \E t \in Type, u \in Seq(Item) : s = Then(Text(t), u)
    BY <2>1, InStoring
  <2>5. InFile(r, s)
    <3>1. ~ InFileHeader(r, s)
      BY <2>1, OneOrNone, Zenon DEF InFileHeader
    <3> QED BY <2>4, <3>1 DEF InStoreFile
  <2>6. fileSize = Sum(r.chunks) /\ chunks = Len(r.chunks) /\ data = Filled(fileSize, pointer)
    BY <2>5 DEF InFile
  <2>7. type = "string"
    BY <2>1, <2>3 DEF GetsLine, LineWanted
  <2>8. BeforeChunk(r, s) \/ InChunkHeader(r, s)
    <3>1. ~ InChunk(r, s)
      BY <2>7 DEF InChunk
    <3> QED BY <2>5, <3>1 DEF InFile
  <2>9. ASSUME NEW x \in Item, NEW u \in Seq(Item), Stream = Then(x, u)
        PROVE  Head(buffer) = x /\ Stream' = u
    BY <2>1, <2>2, <2>9, Taken DEF SessionInv
  <2>10. Stream # << >>
    BY <2>1, <2>2, Taken DEF SessionInv
  <2>11. /\ TypeOK /\ bytes \in Nat /\ fileSize \in Nat /\ chunks \in Nat
         /\ chunkSize \in Nat /\ state \in 0 .. 1 /\ pointer \in 0 .. fileSize
         /\ chunk \in 0 .. chunks /\ Len(data) = fileSize
    BY <2>1 DEF SessionInv, TypeOK
  <2>12. r.chunks \in Seq(Nat) /\ Len(r.chunks) \in Nat
    BY FileTypes
  <2>13. ASSUME TypeOK', InFile(r, s)' PROVE SessionInv'
    <3>1. Reading(r, s)'
      BY <2>1, <2>2, <2>4, <2>13 DEF Reading, InStoreFile
    <3> QED BY <2>1, <2>2, <2>3, <2>4, <2>13, <3>1, ReadStep
  <2>14. /\ state' = 1 /\ fileSize' = Sum(r.chunks) /\ chunks' = Len(r.chunks)
         /\ data' = Filled(fileSize', pointer')
    BY <2>1, <2>2, <2>6
  <2>15. ASSUME type' \in {"string", "bytes"}, bytes' \in Nat, chunkSize' \in Nat,
                chunk' \in 0 .. chunks
         PROVE  TypeOK'
    <3>1. /\ state' \in 0 .. 1 /\ fileSize' \in Nat /\ chunks' \in Nat
          /\ chunk' \in 0 .. chunks' /\ pointer' \in 0 .. fileSize'
          /\ Len(data') = fileSize'
      BY <2>2, <2>11, <2>15
    <3> QED BY <2>2, <2>11, <2>15, <3>1, TypeRead
  <2>16. CASE BeforeChunk(r, s)
    <3>1. /\ chunk \in 0 .. Len(r.chunks) /\ pointer = Position(r.chunks)[chunk]
          /\ Stream = ChunksFrom(r.chunks, chunk + 1, s)
      BY <2>16 DEF BeforeChunk
    <3>2. chunk # Len(r.chunks)
      <4>1. CASE chunk = Len(r.chunks)
        <5>1. Stream = s
          BY <3>1, <4>1, ChunksEnd
        <5>2. PICK t \in Type, u \in Seq(Item) : s = Then(Text(t), u)
          BY <2>4, <2>10, <5>1
        <5>3. t # "" /\ Text(t) \in Item
          BY ItemTypes DEF Type
        <5>4. Head(buffer) = Text(t)
          BY <2>9, <5>1, <5>2, <5>3
        <5>5. ~ GetsField /\ ~ GetsBlank
          BY <2>1, <5>3, <5>4, TextIsText
        <5> QED BY <1>2, <5>5 DEF FeedChunkInformation
      <4> QED BY <4>1
    <3> DEFINE c == chunk + 1
    <3>3. c \in 1 .. Len(r.chunks) /\ c - 1 = chunk
      BY <2>12, <3>1, <3>2
    <3> DEFINE size == r.chunks[c]
               u == ChunksFrom(r.chunks, c + 1, s)
    <3> HIDE DEF c
    <3>4. /\ Stream = Then(ChunkField(r, c), Then(Blank, Then(ChunkBytes(r, c), u)))
          /\ u \in Seq(Item)
      BY <3>1, <3>3, ChunksNext DEF c
    <3>5. ChunkField(r, c) \in Item /\ ChunkBytes(r, c) \in Item /\ size \in Nat
          /\ Blank \in Item
      BY <3>3, ChunkPlaces, ItemTypes
    <3> HIDE DEF size, u
    <3>6. Then(Blank, Then(ChunkBytes(r, c), u)) \in Seq(Item)
      BY <3>4, <3>5, ThenParts
    <3>7. /\ Head(buffer) = ChunkField(r, c)
          /\ Stream' = Then(Blank, Then(ChunkBytes(r, c), u))
      BY <2>9, <3>4, <3>5, <3>6
    <3>8. ChunkField(r, c).name = "Chunk-size" /\ ChunkField(r, c).value = size
      BY DEF ChunkField, Field, Line, size
    <3>9. Continues /\ chunkSize' = size /\ chunk' = chunk
      <4>1. ~ GetsText /\ ~ GetsBlank
        BY <3>7, FieldIsField DEF ChunkField
      <4>2. /\ Continues /\ chunk' = chunk
            /\ chunkSize' = IF Head(buffer).name = "Chunk-size"
                            THEN Head(buffer).value ELSE chunkSize
        BY <1>2, <4>1 DEF FeedChunkInformation
      <4> QED BY <3>7, <3>8, <4>2
    <3>10. type' = "string" /\ bytes' = bytes
      BY <3>9 DEF Continues
    <3>11. InChunkHeader(r, s)'
      <4>1. chunk' = chunk /\ pointer' = pointer /\ chunk \in 0 .. Len(r.chunks) - 1
        BY <2>2, <2>12, <3>1, <3>2, <3>9
      <4>2. chunkSize' = r.chunks[chunk + 1]
        BY <3>9 DEF size, c
      <4>3. c = chunk + 1 /\ c + 1 = chunk + 2
        BY <3>1, <2>12 DEF c
      <4>4. Stream' = Then(Blank, Then(ChunkBytes(r, chunk + 1),
                                       ChunksFrom(r.chunks, chunk + 2, s)))
        BY <3>7, <4>3 DEF u
      <4> QED BY <3>1, <3>10, <4>1, <4>2, <4>4 DEF InChunkHeader
    <3>12. InFile(r, s)'
      BY <2>14, <3>11 DEF InFile
    <3>13. TypeOK'
      BY <2>11, <2>15, <3>5, <3>9, <3>10
    <3> QED BY <2>13, <3>12, <3>13
  <2>17. CASE InChunkHeader(r, s)
    <3> DEFINE c == chunk + 1
    <3>1. /\ chunk \in 0 .. Len(r.chunks) - 1 /\ pointer = Position(r.chunks)[chunk]
          /\ chunkSize = r.chunks[c]
          /\ Stream = Then(Blank, Then(ChunkBytes(r, c), ChunksFrom(r.chunks, chunk + 2, s)))
      BY <2>17 DEF InChunkHeader
    <3>2. c \in 1 .. Len(r.chunks) /\ c - 1 = chunk /\ chunk + 2 = c + 1
      BY <2>12, <3>1
    <3> DEFINE u == ChunksFrom(r.chunks, c + 1, s)
    <3>3. Stream = Then(Blank, Then(ChunkBytes(r, c), u))
      BY <3>1, <3>2
    <3> HIDE DEF c
    <3>4. u \in Seq(Item) /\ ChunkBytes(r, c) \in Item /\ Blank \in Item
      BY <3>2, ChunkPlaces, ItemTypes
    <3> HIDE DEF u
    <3>5. Then(ChunkBytes(r, c), u) \in Seq(Item)
      BY <3>4, ThenParts
    <3>6. Head(buffer) = Blank /\ Stream' = Then(ChunkBytes(r, c), u)
      BY <2>9, <3>3, <3>4, <3>5
    <3>7. ContinuesWithBytes(chunkSize) /\ chunk' = c /\ chunkSize' = chunkSize
      <4>1. ~ GetsText /\ ~ GetsField
        BY <3>6, BlankIsBlank
      <4> QED BY <1>2, <4>1 DEF FeedChunkInformation, c
    <3>8. type' = "bytes" /\ bytes' = r.chunks[c]
      BY <3>1, <3>7 DEF ContinuesWithBytes
    <3>9. InChunk(r, s)'
      <4>1. chunk' \in 1 .. Len(r.chunks) /\ bytes' = r.chunks[chunk']
        BY <3>2, <3>7, <3>8
      <4>2. pointer' = Position(r.chunks)[chunk' - 1]
        BY <2>2, <3>1, <3>2, <3>7
      <4>3. Stream' = Then(ChunkBytes(r, chunk'), ChunksFrom(r.chunks, chunk' + 1, s))
        BY <3>6, <3>7 DEF u
      <4> QED BY <3>8, <4>1, <4>2, <4>3 DEF InChunk
    <3>10. InFile(r, s)'
      BY <2>14, <3>9 DEF InFile
    <3>11. TypeOK'
      <4>1. chunk' \in 0 .. chunks
        BY <2>6, <2>12, <3>2, <3>7
      <4>2. bytes' \in Nat /\ chunkSize' \in Nat
        BY <2>11, <3>2, <3>7, <3>8, ChunkPlaces
      <4> QED BY <2>15, <3>8, <4>1, <4>2
    <3> QED BY <2>13, <3>10, <3>11
  <2> QED BY <2>8, <2>16, <2>17
<1> QED BY <1>1, <1>2

\* The bytes of a chunk.
LEMMA CopiedFills ==
  ASSUME NEW size \in Nat, NEW p \in Nat, NEW k \in Nat, p + k <= size,
         pointer = p, data = Filled(size, p),
         NEW part, Len(part) = k, \A b \in 1 .. k : part[b] = p + b
  PROVE  Copied(part) = Filled(size, p + k)
<1>1. Len(part) = k
  OBVIOUS
<1>2. DOMAIN data = 1 .. size
  BY DEF Filled
<1>3. Copied(part) = [b \in 1 .. size |-> IF b \in p + 1 .. p + k
                                          THEN part[b - p] ELSE data[b]]
  BY <1>1, <1>2 DEF Copied
<1>4. ASSUME NEW b \in 1 .. size
      PROVE  (IF b \in p + 1 .. p + k THEN part[b - p] ELSE data[b])
               = IF b <= p + k THEN b ELSE 0
  <2>1. CASE b \in p + 1 .. p + k
    <3>1. b - p \in 1 .. k /\ p + (b - p) = b /\ b <= p + k
      BY <2>1
    <3>2. part[b - p] = p + (b - p)
      BY <3>1
    <3> QED BY <2>1, <3>1, <3>2
  <2>2. CASE b \notin p + 1 .. p + k
    <3>1. data[b] = IF b <= p THEN b ELSE 0
      BY DEF Filled
    <3>2. b <= p <=> b <= p + k
      BY <2>2
    <3> QED BY <2>2, <3>1, <3>2
  <2> QED BY <2>1, <2>2
<1>5. Copied(part) = Filled(size, p + k)
  <2> DEFINE f == [b \in 1 .. size |-> IF b \in p + 1 .. p + k
                                       THEN part[b - p] ELSE data[b]]
             g == [b \in 1 .. size |-> IF b <= p + k THEN b ELSE 0]
  <2>1. \A b \in 1 .. size : f[b] = g[b]
    BY <1>4
  <2>2. f = [b \in 1 .. size |-> f[b]] /\ g = [b \in 1 .. size |-> g[b]]
    OBVIOUS
  <2> HIDE DEF f, g
  <2>3. f = g
    BY <2>1, <2>2
  <2> QED BY <1>3, <2>3 DEF f, g, Filled
<1> QED BY <1>5

\* What the bytes of a chunk find, and what taking them leaves.
LEMMA InBytes ==
  ASSUME SessionInv, message = "STORE FILE", GetsBytes, Took,
         data' = Copied(Head(buffer).value)
  PROVE  /\ reading = "handled" /\ buffer # << >> /\ message # None
         /\ Len(acted) < Len(script)
         /\ \E r \in Request, s \in Seq(Item) :
              /\ r = script[Len(acted) + 1] /\ s = From(Len(acted) + 2)
              /\ r.type = "STORE FILE" /\ state = 1
              /\ fileSize = Sum(r.chunks) /\ chunks = Len(r.chunks)
              /\ chunk \in 1 .. chunks /\ bytes = r.chunks[chunk]
              /\ pointer = Position(r.chunks)[chunk - 1]
              /\ data' = Filled(fileSize, Position(r.chunks)[chunk])
              /\ Stream' = ChunksFrom(r.chunks, chunk + 1, s)
<1>1. /\ reading = "handled" /\ buffer # << >> /\ message # None
      /\ Len(acted) < Len(script)
  BY InStoring DEF GetsBytes, Handling
<1>2. PICK r \in Request, s \in Seq(Item) :
        /\ r = script[Len(acted) + 1] /\ s = From(Len(acted) + 2)
        /\ r.type = "STORE FILE" /\ InStoreFile(r, s)
  BY <1>1, InStoring
<1>3. type # "string"
  BY <1>1 DEF GetsBytes, LineWanted
<1>4. InFile(r, s) /\ InChunk(r, s)
  <2>1. ~ InFileHeader(r, s) /\ ~ BeforeChunk(r, s) /\ ~ InChunkHeader(r, s)
    BY <1>3 DEF InFileHeader, BeforeChunk, InChunkHeader
  <2> QED BY <1>2, <2>1 DEF InStoreFile, InFile
<1>5. /\ state = 1 /\ fileSize = Sum(r.chunks) /\ chunks = Len(r.chunks)
      /\ data = Filled(fileSize, pointer)
  BY <1>4 DEF InFile
<1>6. PICK c : c = chunk
  OBVIOUS
<1>7. /\ c \in 1 .. Len(r.chunks) /\ bytes = r.chunks[c]
      /\ pointer = Position(r.chunks)[c - 1]
      /\ Stream = Then(ChunkBytes(r, c), ChunksFrom(r.chunks, c + 1, s))
  BY <1>4, <1>6 DEF InChunk
<1>8. /\ Position(r.chunks)[c - 1] \in Nat
      /\ Position(r.chunks)[c] = Position(r.chunks)[c - 1] + r.chunks[c]
      /\ Position(r.chunks)[c] <= Sum(r.chunks) /\ Sum(r.chunks) \in Nat
      /\ r.chunks[c] \in Nat
      /\ ChunksFrom(r.chunks, c + 1, s) \in Seq(Item) /\ ChunkBytes(r, c) \in Item
  BY <1>7, ChunkPlaces, FileTypes
<1>9. Head(buffer) = ChunkBytes(r, c) /\ Stream' = ChunksFrom(r.chunks, c + 1, s)
  BY <1>1, <1>7, <1>8, Taken DEF SessionInv
<1>10. ChunkBytes(r, c).value = Part(r.chunks, c)
  BY DEF ChunkBytes, Bytes
<1>11. data' = Filled(fileSize, Position(r.chunks)[c])
  <2> DEFINE size == Sum(r.chunks)
             p == Position(r.chunks)[c - 1]
             k == r.chunks[c]
             part == Part(r.chunks, c)
  <2>1. Len(part) = k /\ \A b \in 1 .. k : part[b] = p + b
    BY <1>7, FileTypes DEF Part
  <2>2. /\ size \in Nat /\ p \in Nat /\ k \in Nat /\ p + k <= size
        /\ Position(r.chunks)[c] = p + k
    BY <1>8
  <2>3. pointer = p /\ data = Filled(size, p)
    BY <1>5, <1>7
  <2>4. data' = Copied(part)
    BY <1>9, <1>10
  <2> HIDE DEF size, p, k, part
  <2>5. Copied(part) = Filled(size, p + k)
    <3>1. size \in Nat
      BY <2>2
    <3>2. p \in Nat
      BY <2>2
    <3>3. k \in Nat
      BY <2>2
    <3> QED BY ONLY <2>1, <2>2, <2>3, <3>1, <3>2, <3>3, CopiedFills
  <2>6. fileSize = size
    BY <1>5 DEF size
  <2> QED BY <2>2, <2>4, <2>5, <2>6
<1>12. c \in 1 .. chunks
  BY <1>5, <1>7
<1> QED BY <1>1, <1>2, <1>5, <1>6, <1>7, <1>9, <1>11, <1>12

LEMMA ChunkStep ==
  ASSUME SessionInv, FeedChunk
  PROVE  SessionInv'
<1>1. /\ message = "STORE FILE" /\ GetsBytes /\ MoreToCome /\ Took /\ Continues
      /\ OnlyReads /\ data' = Copied(Head(buffer).value) /\ pointer' = pointer + bytes
      /\ UNCHANGED <<state, fileSize, chunks, chunk, chunkSize>>
  BY DEF FeedChunk, PointerAfter
<1>2. /\ reading = "handled" /\ buffer # << >> /\ message # None
      /\ Len(acted) < Len(script)
  BY <1>1, InBytes
<1>3. PICK r \in Request, s \in Seq(Item) :
        /\ r = script[Len(acted) + 1] /\ s = From(Len(acted) + 2)
        /\ r.type = "STORE FILE" /\ state = 1
        /\ fileSize = Sum(r.chunks) /\ chunks = Len(r.chunks)
        /\ chunk \in 1 .. chunks /\ bytes = r.chunks[chunk]
        /\ pointer = Position(r.chunks)[chunk - 1]
        /\ data' = Filled(fileSize, Position(r.chunks)[chunk])
        /\ Stream' = ChunksFrom(r.chunks, chunk + 1, s)
  BY <1>1, InBytes
<1>4. PICK c : c = chunk
  OBVIOUS
<1>5. c \in 1 .. Len(r.chunks) /\ c < Len(r.chunks)
  BY <1>1, <1>3, <1>4 DEF MoreToCome
<1>6. /\ Position(r.chunks)[c - 1] \in Nat /\ Position(r.chunks)[c] \in Nat
      /\ Position(r.chunks)[c] = Position(r.chunks)[c - 1] + r.chunks[c]
      /\ Position(r.chunks)[c] <= Sum(r.chunks) /\ Sum(r.chunks) \in Nat
      /\ Len(r.chunks) \in Nat
  BY <1>5, ChunkPlaces, FileTypes
<1>7. pointer' = Position(r.chunks)[c]
  BY <1>1, <1>3, <1>4, <1>6
<1>8. /\ type' = "string" /\ message' = message /\ bytes' = bytes /\ reading' = reading
  BY <1>1 DEF Continues
<1>9. BeforeChunk(r, s)'
  <2>1. chunk' = c /\ c \in 0 .. Len(r.chunks)
    <3>1. chunk' = chunk
      BY <1>1
    <3> QED BY ONLY <1>4, <1>5, <1>6, <3>1
  <2>2. Stream' = ChunksFrom(r.chunks, chunk' + 1, s)
    BY <1>3, <1>4, <2>1
  <2> QED BY <1>7, <1>8, <2>1, <2>2 DEF BeforeChunk
<1>10. InFile(r, s)'
  <2>1. /\ state' = 1 /\ fileSize' = Sum(r.chunks) /\ chunks' = Len(r.chunks)
    BY <1>1, <1>3
  <2>2. data' = Filled(fileSize', pointer')
    BY <1>1, <1>3, <1>4, <1>7
  <2> QED BY <1>9, <2>1, <2>2 DEF InFile
<1>11. Reading(r, s)'
  BY <1>1, <1>3, <1>8, <1>10 DEF Reading, InStoreFile
<1>12. TypeOK'
  <2>1. /\ TypeOK /\ bytes \in Nat /\ fileSize \in Nat /\ chunks \in Nat
        /\ chunkSize \in Nat /\ state \in 0 .. 1 /\ chunk \in 0 .. chunks
    BY DEF SessionInv, TypeOK
  <2>2. pointer' \in 0 .. fileSize'
    <3>1. fileSize' = Sum(r.chunks)
      BY <1>1, <1>3
    <3> QED BY ONLY <1>6, <1>7, <3>1
  <2>3. Len(data') = fileSize'
    <3>1. data' = [b \in 1 .. fileSize |-> IF b <= Position(r.chunks)[c] THEN b ELSE 0]
      BY <1>3, <1>4 DEF Filled
    <3>2. data' \in [1 .. fileSize -> Int]
      BY <3>1
    <3>3. Len(data') = fileSize
      BY <2>1, <3>2
    <3> QED BY <1>1, <3>3
  <2>4. /\ bytes' \in Nat /\ fileSize' \in Nat /\ chunks' \in Nat /\ chunkSize' \in Nat
        /\ state' \in 0 .. 1 /\ chunk' \in 0 .. chunks'
    BY <1>1, <1>8, <2>1
  <2> QED BY <1>1, <1>8, <2>1, <2>2, <2>3, <2>4, TypeRead
<1> QED BY <1>1, <1>2, <1>3, <1>8, <1>11, <1>12, ReadStep

LEMMA LastChunkStep ==
  ASSUME SessionInv, FeedLastChunk
  PROVE  SessionInv'
<1>1. /\ message = "STORE FILE" /\ GetsBytes /\ ~ MoreToCome /\ Took /\ Ended
      /\ Acts("STORE FILE") /\ data' = Copied(Head(buffer).value)
      /\ stored' = stored \cup {[to |-> Len(acted) + 1, data |-> data']}
      /\ UNCHANGED <<open, listed, authenticated, state, fileSize, chunks, chunk,
                     chunkSize, pointer>>
      /\ \E new : Answers(new)
  BY DEF FeedLastChunk
<1>2. /\ reading = "handled" /\ buffer # << >> /\ message # None
      /\ Len(acted) < Len(script)
  BY <1>1, InBytes
<1>3. PICK r \in Request, s \in Seq(Item) :
        /\ r = script[Len(acted) + 1] /\ s = From(Len(acted) + 2)
        /\ r.type = "STORE FILE" /\ state = 1
        /\ fileSize = Sum(r.chunks) /\ chunks = Len(r.chunks)
        /\ chunk \in 1 .. chunks /\ bytes = r.chunks[chunk]
        /\ pointer = Position(r.chunks)[chunk - 1]
        /\ data' = Filled(fileSize, Position(r.chunks)[chunk])
        /\ Stream' = ChunksFrom(r.chunks, chunk + 1, s)
  BY <1>1, InBytes
<1>4. r.chunks \in Seq(Nat) /\ Len(r.chunks) \in Nat /\ Sum(r.chunks) \in Nat
  BY FileTypes, LenProperties
<1>5. chunk = Len(r.chunks)
  <2>1. ~ (chunk < chunks) /\ chunks = Len(r.chunks) /\ chunk \in 1 .. chunks
    BY <1>1, <1>3 DEF MoreToCome
  <2> QED BY ONLY <1>4, <2>1
<1>6. data' = FileOf(r)
  <2>1. Position(r.chunks)[chunk] = Sum(r.chunks)
    BY <1>5 DEF Sum
  <2>2. data' = Filled(Sum(r.chunks), Sum(r.chunks))
    BY <1>3, <2>1
  <2> QED BY <1>4, <2>2 DEF Filled, FileOf
<1>7. Stream' = s
  BY <1>3, <1>5, ChunksEnd
<1>8. message' = None /\ type' = "string" /\ bytes' = bytes /\ reading' = reading
  BY <1>1 DEF Ended
<1>9. /\ buffer' \in Seq(Item) /\ coming' \in Seq(Item) /\ script' = script
      /\ integrated' = integrated /\ left' = left
  BY <1>1, <1>2, Taken DEF SessionInv
<1>10. authenticated = TRUE /\ acted # << >>
  <2>1. authenticated \in BOOLEAN /\ authenticated
    BY <1>1, <1>2, InMessage DEF SessionInv, TypeOK
  <2>2. acted # << >>
    BY <2>1 DEF SessionInv, PasswordGiven
  <2> QED BY <2>1, <2>2
<1>11. TypeOK'
  <2>1. TypeOK /\ writing' \in BOOLEAN
    BY <1>1, AnswersWrite DEF SessionInv
  <2>2. message' # "STORE FILE"
    BY <1>8, ScriptsAssumption DEF Type
  <2> QED BY <1>1, <1>8, <1>9, <2>1, <2>2 DEF TypeOK
<1>12. /\ integrated \in BOOLEAN /\ authenticated' = TRUE /\ listed' <= Len(acted) + 1
  <2>1. /\ listed \in 0 .. Len(script) /\ listed <= Len(acted)
        /\ acted \in Seq([type : Type, integrated : BOOLEAN])
        /\ integrated \in BOOLEAN
    BY DEF SessionInv, TypeOK
  <2>2. Len(acted) \in Nat
    BY ONLY <2>1, LenProperties
  <2>3. listed' = listed /\ authenticated' = TRUE
    BY <1>1, <1>10
  <2>4. listed <= Len(acted) + 1
    BY ONLY <2>1, <2>2
  <2> QED BY ONLY <2>1, <2>3, <2>4
<1>13. /\ Acts(r.type) /\ r.type # "HELLO"
       /\ stored' = IF r.type = "STORE FILE"
                    THEN stored \cup {[to |-> Len(acted) + 1, data |-> FileOf(r)]}
                    ELSE stored
  BY <1>1, <1>3, <1>6
<1> QED BY <1>2, <1>3, <1>7, <1>8, <1>9, <1>10, <1>11, <1>12, <1>13, InvCompleted

-----------------------------------------------------------------------------
\* The first line of a message.
LEMMA AtFirstLine ==
  ASSUME SessionInv, reading = "handled", message = None, Stream # << >>
  PROVE  /\ Len(acted) < Len(script)
         /\ \E r \in Request, s \in Seq(Item) :
              /\ r = script[Len(acted) + 1] /\ s = From(Len(acted) + 2)
              /\ Rest(r, s) \in Seq(Item) /\ Stream = Then(Text(r.type), Rest(r, s))
<1>1. PICK n : n = Len(acted)
  OBVIOUS
<1>2. script \in Seq(Request) /\ n \in Nat /\ n <= Len(script) /\ Len(script) \in Nat
  <2>1. /\ script \in Seq(Request) /\ n <= Len(script)
        /\ acted \in Seq([type : Type, integrated : BOOLEAN])
    BY <1>1, ScriptType DEF SessionInv
  <2> QED BY ONLY <1>1, <2>1, LenProperties
<1>3. ~ Within(n)
  <2>1. ASSUME Within(n) PROVE FALSE
    <3>1. PICK r, s : r = script[n + 1] /\ s = From(n + 2)
      OBVIOUS
    <3>2. Reading(r, s)
      BY <2>1, <3>1 DEF Within
    <3>3. message \in Type
      BY <3>2 DEF Reading, Type
    <3> QED BY <3>3, ScriptsAssumption
  <2> QED BY <2>1
<1>4. Stream = From(n + 1)
  <2>1. Between(n)
    BY <1>1, <1>3 DEF SessionInv
  <2> QED BY <2>1 DEF Between
<1>5. n + 1 # Len(script) + 1
  BY <1>2, <1>4, FromEnds
<1>6. n < Len(script) /\ n + 1 \in 1 .. Len(script) /\ (n + 1) + 1 = n + 2
  BY ONLY <1>2, <1>5
<1>7. PICK j : j = n + 1
  OBVIOUS
<1>8. j \in 1 .. Len(script) /\ j + 1 = n + 2
  BY <1>6, <1>7
<1>9. /\ script[j] \in Request /\ From(j + 1) \in Seq(Item)
      /\ From(j) = Then(Text(script[j].type), Rest(script[j], From(j + 1)))
  BY <1>2, <1>8, FromNext
<1>10. PICK r \in Request, s \in Seq(Item) : r = script[j] /\ s = From(j + 1)
  BY <1>9
<1>11. Rest(r, s) \in Seq(Item)
  BY RenderedThen
<1>12. Stream = Then(Text(r.type), Rest(r, s))
  BY <1>4, <1>7, <1>9, <1>10
<1>13. r = script[Len(acted) + 1] /\ s = From(Len(acted) + 2)
  BY <1>1, <1>7, <1>8, <1>10
<1> QED BY <1>1, <1>6, <1>11, <1>12, <1>13

\* The line is the name of the request, and what comes is the rest of it.
LEMMA BegunReading ==
  ASSUME NEW r \in Request, NEW s, message' = r.type,
         r.type \notin {"PING", "PEER INFO"}, type' = "string",
         state' = 0, chunk' = 0, pointer' = 0, Stream' = Rest(r, s)
  PROVE  Reading(r, s)'
<1>1. CASE r.type = "HELLO"
  <2>1. Rest(r, s) = Then(Password(r), s)
    BY <1>1 DEF Rest
  <2> QED BY <1>1, <2>1 DEF Reading, InHello
<1>2. CASE r.type = "STORE FILE"
  <2>1. Rest(r, s) = Then(NameField, Then(SizeField(r), Then(ChunksField(r), AllChunks(r, s))))
    BY <1>2 DEF Rest
  <2>2. InFileHeader(r, s)'
    BY <2>1 DEF InFileHeader
  <2> QED BY <1>2, <2>2 DEF Reading, InStoreFile
<1>3. CASE r.type = "LOAD FILE"
  <2>1. Rest(r, s) = Then(CodeField, Then(Blank, s))
    BY <1>3 DEF Rest
  <2> QED BY <1>3, <2>1 DEF Reading, InLoadFile
<1>4. CASE r.type = "CONNECT PEER"
  <2>1. Rest(r, s) = Then(HostField, Then(PortField, Then(Blank, s)))
    BY <1>4 DEF Rest
  <2> QED BY <1>4, <2>1 DEF Reading, InConnectPeer
<1> QED BY <1>1, <1>2, <1>3, <1>4 DEF Request, Type

LEMMA FirstLineStep ==
  ASSUME SessionInv, FirstLine
  PROVE  SessionInv'
<1>1. message = None /\ reading = "handled" /\ buffer # << >>
  BY DEF FirstLine, GetsLine, Handling
<1>2. CASE Refused
  BY <1>1, <1>2, InvRefused
<1>3. CASE ~ Refused
  <2>1. Took /\ Understood(Head(buffer).text)
    BY <1>3 DEF FirstLine
  <2>2. Stream # << >>
    BY <1>1, <2>1, Taken DEF SessionInv
  <2>3. PICK r \in Request, s \in Seq(Item) :
          /\ Len(acted) < Len(script)
          /\ r = script[Len(acted) + 1] /\ s = From(Len(acted) + 2)
          /\ Rest(r, s) \in Seq(Item) /\ Stream = Then(Text(r.type), Rest(r, s))
    BY <1>1, <2>2, AtFirstLine
  <2>4. r.type \in Type /\ Text(r.type) \in Item
    BY FileTypes, ItemTypes
  <2>5. /\ Head(buffer) = Text(r.type) /\ Stream' = Rest(r, s)
        /\ buffer' \in Seq(Item) /\ coming' \in Seq(Item) /\ script' = script
        /\ integrated' = integrated /\ left' = left
    BY <1>1, <2>1, <2>3, <2>4, Taken DEF SessionInv
  <2>6. Head(buffer).text = r.type
    BY <2>5, ItemForms
  <2>7. r.type = "HELLO" \/ authenticated
    BY <2>1, <2>6 DEF Understood
  <2>8. /\ TypeOK /\ bytes \in Nat /\ open \in BOOLEAN /\ authenticated \in BOOLEAN
        /\ listed \in 0 .. Len(script) /\ integrated \in BOOLEAN /\ chunks \in Nat
        /\ fileSize \in Nat /\ chunkSize \in Nat /\ writing \in BOOLEAN
    BY DEF SessionInv, TypeOK
  <2>9. CASE r.type \in {"PING", "PEER INFO"}
    <3>1. /\ Ended /\ Acts(r.type) /\ \E new : Answers(new)
          /\ UNCHANGED <<open, listed, authenticated, fileVars, stored>>
      BY <1>3, <2>6, <2>9 DEF FirstLine
    <3>2. Stream' = s
      <4>1. Rest(r, s) = s
        BY <2>9 DEF Rest
      <4> QED BY <2>5, <4>1
    <3>3. message' = None /\ type' = "string" /\ bytes' = bytes /\ reading' = reading
      BY <3>1 DEF Ended
    <3>4. authenticated = TRUE /\ acted # << >>
      <4>1. authenticated
        BY <2>7, <2>9
      <4>2. acted # << >>
        BY <4>1 DEF SessionInv, PasswordGiven
      <4> QED BY <2>8, <4>1, <4>2
    <3>5. TypeOK'
      <4>1. writing' \in BOOLEAN
        BY <2>8, <3>1, AnswersWrite
      <4>2. message' # "STORE FILE"
        BY <3>3, ScriptsAssumption DEF Type
      <4> QED BY <2>1, <2>8, <3>1, <3>3, <4>1, <4>2, TypeTaken
    <3>6. stored' = stored /\ authenticated' = TRUE /\ listed' <= Len(acted) + 1
      <4>1. /\ listed \in 0 .. Len(script) /\ listed <= Len(acted)
            /\ acted \in Seq([type : Type, integrated : BOOLEAN])
        BY DEF SessionInv, TypeOK
      <4>2. Len(acted) \in Nat
        BY ONLY <4>1, LenProperties
      <4>3. listed' = listed /\ stored' = stored /\ authenticated' = TRUE
        BY <3>1, <3>4
      <4>4. listed <= Len(acted) + 1
        BY ONLY <4>1, <4>2
      <4> QED BY ONLY <4>3, <4>4
    <3>7. r.type # "STORE FILE" /\ r.type # "HELLO"
      BY <2>9
    <3> QED BY <2>3, <2>5, <2>8, <3>1, <3>2, <3>3, <3>4, <3>5, <3>6, <3>7, InvCompleted
  <2>10. CASE r.type \notin {"PING", "PEER INFO"}
    <3>1. /\ message' = r.type /\ type' = "string" /\ bytes' = bytes
          /\ reading' = reading
          /\ state' = 0 /\ chunk' = 0 /\ pointer' = 0
          /\ UNCHANGED <<fileSize, chunks, chunkSize>> /\ OnlyReads
      BY <1>3, <2>6, <2>10 DEF FirstLine
    <3>2. Reading(r, s)'
      BY <2>5, <2>10, <3>1, BegunReading
    <3>3. UNCHANGED <<open, listed, authenticated, acted, stored, writing>>
      BY <3>1 DEF OnlyReads, NoAnswers
    <3>4. message' \in {None, "HELLO"} \/ authenticated
      BY <2>7, <3>1
    <3>5. TypeOK'
      <4>1. chunk' \in 0 .. chunks' /\ pointer' \in 0 .. fileSize' /\ state' \in 0 .. 1
        BY <2>8, <3>1
      <4>2. ~ (message' = "STORE FILE" /\ state' = 1)
        BY <3>1, OneOrNone, Zenon
      <4>3. /\ script' \in Scripts /\ left' \in BOOLEAN /\ open' \in BOOLEAN
            /\ authenticated' \in BOOLEAN /\ writing' \in BOOLEAN
            /\ reading' \in {"waiting", "completed", "handled", "none"}
            /\ message' \in Type \cup {None} /\ type' \in {"string", "bytes"}
            /\ listed' \in 0 .. Len(script') /\ integrated' \in BOOLEAN
        BY <2>4, <2>5, <2>8, <3>1, <3>3 DEF TypeOK
      <4>4. bytes' \in Nat /\ fileSize' \in Nat /\ chunks' \in Nat /\ chunkSize' \in Nat
        BY <2>8, <3>1
      <4> QED BY ONLY <4>1, <4>2, <4>3, <4>4 DEF TypeOK
    <3> QED BY <2>3, <2>5, <3>2, <3>3, <3>4, <3>5, InvGoesOn
  <2> QED BY <2>9, <2>10
<1> QED BY <1>2, <1>3

-----------------------------------------------------------------------------
\* All steps.
LEMMA InvStep ==
  ASSUME SessionInv, [Next]_vars
  PROVE  SessionInv'
<1>1. /\ TypeOK /\ buffer \in Seq(Item) /\ coming \in Seq(Item) /\ listed <= Len(acted)
      /\ acted \in Seq([type : Type, integrated : BOOLEAN])
  BY DEF SessionInv
<1>2. Len(acted) \in Nat
  BY <1>1, LenProperties
<1>3. ASSUME UNCHANGED <<buffer, coming>> PROVE Stream' = Stream
  BY <1>3 DEF Stream
<1>4. 0 \in 0 .. Len(script)
  BY ScriptType DEF SessionInv
<1>5. CASE Receive
  <2>1. /\ UNCHANGED <<script, left, open, authenticated, writing, message, type,
                       bytes, fileVars, peerVars>>
        /\ reading = "waiting" /\ reading' = "completed"
    BY <1>5 DEF Receive
  <2>2. buffer' \in Seq(Item) /\ coming' \in Seq(Item) /\ Stream' = Stream
    BY <1>1, <1>5, Received
  <2>3. TypeOK'
    BY <1>1, <2>1 DEF TypeOK, fileVars, peerVars
  <2>4. acted' = acted /\ stored' = stored /\ listed' <= Len(acted)
    BY <1>1, <2>1 DEF peerVars
  <2> QED BY <2>1, <2>2, <2>3, <2>4, InvKept
<1>6. CASE ReadFails
  <2>1. /\ UNCHANGED <<script, coming, left, authenticated, buffer, writing, message,
                       type, bytes, fileVars, integrated, acted, stored>>
        /\ reading' = "none" /\ open' = FALSE /\ listed' = 0
    BY <1>6 DEF ReadFails, ClosedConnection
  <2>2. TypeOK'
    BY <1>1, <1>4, <2>1 DEF TypeOK, fileVars
  <2> QED BY <1>1, <1>2, <1>3, <2>1, <2>2, InvKept
<1>7. CASE HandleRead \/ ReadOn \/ WriteDone \/ Leave
  <2>1. /\ UNCHANGED <<script, coming, open, authenticated, buffer, message, type,
                       bytes, fileVars, peerVars>>
        /\ reading # "none" \/ reading' = "none"
        /\ reading' \in {"waiting", "completed", "handled", "none"}
        /\ writing' \in BOOLEAN /\ left' \in BOOLEAN
    <3>1. CASE HandleRead \/ ReadOn
      BY <1>1, <3>1 DEF HandleRead, ReadOn, TypeOK
    <3>2. CASE WriteDone \/ Leave
      BY <1>1, <3>2 DEF WriteDone, Leave, TypeOK
    <3> QED BY <1>7, <3>1, <3>2
  <2>2. TypeOK'
    BY <1>1, <2>1 DEF TypeOK, fileVars, peerVars
  <2>3. acted' = acted /\ stored' = stored /\ listed' <= Len(acted)
    BY <1>1, <2>1 DEF peerVars
  <2> QED BY <1>1, <1>3, <2>1, <2>2, <2>3, InvKept
<1>8. CASE Feed
  BY <1>8, FirstLineStep, HelloStep, FileInformationStep, ChunkInformationStep,
     ChunkStep, LastChunkStep, LoadFileStep, ConnectPeerStep DEF Feed
<1>9. CASE LateAnswer
  <2>1. /\ UNCHANGED <<script, coming, left, open, authenticated, buffer, reading,
                       message, type, bytes, fileVars, listed, integrated, acted,
                       stored>>
        /\ \E new : Answers(new)
    BY <1>9 DEF LateAnswer
  <2>2. writing' \in BOOLEAN
    BY <1>1, <2>1, AnswersWrite
  <2>3. TypeOK'
    BY <1>1, <2>1, <2>2 DEF TypeOK, fileVars
  <2> QED BY <1>1, <1>3, <2>1, <2>3, InvKept
<1>10. CASE WriteFails
  <2>1. /\ UNCHANGED <<script, coming, left, authenticated, buffer, reading, message,
                       type, bytes, fileVars, integrated, acted, stored>>
        /\ writing' = FALSE /\ open' = FALSE /\ listed' = 0
    BY <1>10 DEF WriteFails, ClosedConnection
  <2>2. TypeOK'
    BY <1>1, <1>4, <2>1 DEF TypeOK, fileVars
  <2> QED BY <1>1, <1>2, <1>3, <2>1, <2>2, InvKept
<1>11. CASE Integrate
  <2>1. /\ UNCHANGED <<script, coming, left, open, authenticated, buffer, reading,
                       writing, message, type, bytes, fileVars, listed, acted, stored>>
        /\ integrated' = TRUE
    BY <1>11 DEF Integrate
  <2>2. TypeOK'
    BY <1>1, <2>1 DEF TypeOK, fileVars
  <2> QED BY <1>1, <1>3, <2>1, <2>2, InvKept
<1>12. CASE UNCHANGED vars
  <2>1. UNCHANGED <<script, coming, left, open, authenticated, buffer, reading,
                    writing, message, type, bytes, fileVars, peerVars>>
    BY <1>12 DEF vars
  <2>2. TypeOK'
    BY <1>1, <2>1, ZenonT(30) DEF TypeOK, fileVars, peerVars
  <2>3. acted' = acted /\ stored' = stored /\ listed' <= Len(acted)
    BY <1>1, <2>1 DEF peerVars
  <2> QED BY <1>1, <1>3, <2>1, <2>2, <2>3, InvKept
<1> QED BY <1>5, <1>6, <1>7, <1>8, <1>9, <1>10, <1>11, <1>12 DEF Next, Handlers

LEMMA InvInit ==
  ASSUME Init
  PROVE  SessionInv
<1>1. script \in Seq(Request)
  BY ScriptsAssumption DEF Init
<1>2. TypeOK
  <2>1. Len(script) \in Nat /\ 0 \in 0 .. Len(script)
    BY <1>1, LenProperties
  <2>2. message = None /\ None # "STORE FILE"
    BY ScriptsAssumption DEF Init, Type
  <2>3. /\ script \in Scripts /\ left \in BOOLEAN /\ open \in BOOLEAN
        /\ authenticated \in BOOLEAN /\ writing \in BOOLEAN /\ integrated \in BOOLEAN
        /\ reading \in {"waiting", "completed", "handled", "none"}
        /\ type \in {"string", "bytes"}
    BY DEF Init
  <2>4. /\ bytes \in Nat /\ state \in 0 .. 1 /\ fileSize \in Nat /\ chunks \in Nat
        /\ chunkSize \in Nat /\ chunk \in 0 .. chunks /\ pointer \in 0 .. fileSize
    BY DEF Init
  <2>5. message # "STORE FILE" /\ message \in Type \cup {None}
    BY <2>2
  <2>6. listed \in 0 .. Len(script)
    BY <2>1 DEF Init
  <2> QED BY ONLY <2>3, <2>4, <2>5, <2>6 DEF TypeOK
<1>3. coming = From(1) /\ coming \in Seq(Item) /\ buffer = << >>
  <2>1. coming = FlattenSeq(Messages) /\ buffer = << >>
    BY DEF Init, Messages
  <2>2. From(1) = FlattenSeq(Messages)
    BY <1>1, FromEnds
  <2>3. Messages \in Seq(Seq(Item))
    BY <1>1, MessagesType
  <2>4. FlattenSeq(Messages) \in Seq(Item)
    BY <2>3, FlattenType
  <2> QED BY <2>1, <2>2, <2>4
<1>4. buffer \in Seq(Item) /\ Stream = From(1)
  <2>1. buffer \in Seq(Item) /\ << >> \o coming = coming
    BY <1>3, ConcatEmptySeq
  <2> QED BY <1>3, <2>1 DEF Stream
<1>5. /\ acted = << >> /\ stored = {} /\ listed = 0 /\ authenticated = FALSE
      /\ message = None
  BY DEF Init
<1>6. /\ acted \in Seq([type : Type, integrated : BOOLEAN]) /\ Len(acted) = 0
      /\ DOMAIN acted = {}
  BY <1>5
<1>7. PasswordGiven /\ FilesWhole
  BY <1>5, <1>6 DEF PasswordGiven, FilesWhole
<1>8. Between(Len(acted))
  BY <1>4, <1>5, <1>6 DEF Between
<1>9. Len(acted) <= Len(script) /\ listed <= Len(acted)
  <2>1. Len(script) \in Nat
    BY <1>1, LenProperties
  <2> QED BY <1>5, <1>6, <2>1
<1> QED BY <1>2, <1>3, <1>4, <1>6, <1>7, <1>8, <1>9 DEF SessionInv

LEMMA InvAlways == Spec => []SessionInv
<1>1. Init => SessionInv
  BY InvInit
<1>2. SessionInv /\ [Next]_vars => SessionInv'
  BY InvStep
<1> QED BY <1>1, <1>2, PTL DEF Spec

\* The variables keep their types: no chunk is counted that was not announced,
\* none is copied behind the end of the file's buffer.
THEOREM ApiTypeCorrect == Spec => []TypeOK
<1>1. SessionInv => TypeOK
  BY DEF SessionInv
<1> QED BY <1>1, InvAlways, PTL

\* Whatever is asked, whatever a read brings and whenever a connection fails,
\* nothing is acted on before the right password or after a wrong one.
THEOREM PasswordFirst == Spec => []OnlyAfterHello
<1>1. SessionInv => OnlyAfterHello
  <2> SUFFICES ASSUME SessionInv, NEW i \in DOMAIN acted
               PROVE  /\ \E j \in 1 .. i : script[j].type = "HELLO" /\ script[j].right
                      /\ \A j \in 1 .. i : script[j].type = "HELLO" => script[j].right
    BY DEF OnlyAfterHello
  <2>1. /\ acted \in Seq([type : Type, integrated : BOOLEAN])
        /\ acted # << >> => script[1].type = "HELLO"
        /\ \A k \in DOMAIN acted : script[k].type = "HELLO" => script[k].right
    BY DEF SessionInv, PasswordGiven
  <2>2. PICK n : n = Len(acted)
    OBVIOUS
  <2>3. n \in Nat /\ DOMAIN acted = 1 .. n
    BY ONLY <2>1, <2>2, LenProperties
  <2>4. i \in 1 .. n /\ 1 \in 1 .. n /\ 1 \in 1 .. i /\ acted # << >>
    <3>1. i \in 1 .. n
      BY <2>3
    <3>2. n # 0
      BY ONLY <2>3, <3>1
    <3>3. acted # << >>
      BY ONLY <2>1, <2>2, <3>2, EmptySeq
    <3> QED BY ONLY <2>3, <3>1, <3>3
  <2>5. \A j \in 1 .. i : j \in 1 .. n
    BY ONLY <2>3, <2>4
  <2> QED BY ONLY <2>1, <2>3, <2>4, <2>5
<1> QED BY <1>1, InvAlways, PTL

\* Every file that is stored is the one its client sent, whole, for every number
\* and every size of its chunks.
THEOREM EveryFileWhole == Spec => []FilesWhole
<1>1. SessionInv => FilesWhole
  BY DEF SessionInv
<1> QED BY <1>1, InvAlways, PTL

=============================================================================
