-------------------------- MODULE PeerSession_proofs --------------------------
(***************************************************************************)
(* Whatever messages are sent, one after the other, the receiver takes     *)
(* each for what it is.  The invariant says for every message which part   *)
(* of it has been read and which comes next: the fields of its header, a   *)
(* key line by line, or the signature, the key and the data of a block.    *)
(***************************************************************************)
EXTENDS PeerSession, DataLemmas

\* What the stream is made of.
FieldName ==
  {"Id", "Host", "Port", "Type", "Code", "Layer", "Name", "Occurrence", "Size",
   "Owner", "Success", "Sign this random number"}

TextOfLine == Type \cup {"", "BEGIN", "END", "key"}

Item ==
  [kind : {"line"}, name : FieldName \cup {""}, text : TextOfLine, value : Nat]
    \cup [kind : {"bytes"}, length : Nat, value : Nat]

Then(x, s) == <<x>> \o s

\* What is sent from message j on.
Pieces(j) == [i \in 1 .. Len(sent) + 1 - j |-> Rendered(sent[i + j - 1])]
From(j) == FlattenSeq(Pieces(j))

-----------------------------------------------------------------------------
\* The messages that begin with fields: their names, and what comes behind
\* these, up to the messages s that follow.
Fielded ==
  {"HELLO", "SET CODE", "GET CODE", "INTRODUCE PEER", "CONNECT IN",
   "STORE BLOCK", "LOAD BLOCK", "STORED BLOCK", "DELIVER BLOCK"}

HasBlock(m) == m.type = "STORE BLOCK" \/ (m.type = "DELIVER BLOCK" /\ m.success)

Names(m) ==
  CASE m.type = "HELLO" -> <<"Id", "Host", "Port", "Type">>
    [] m.type \in {"SET CODE", "GET CODE", "LOAD BLOCK"} -> <<"Code">>
    [] m.type = "INTRODUCE PEER" -> <<"Host", "Port", "Layer">>
    [] m.type = "CONNECT IN" -> <<"Code", "Layer">>
    [] m.type = "STORE BLOCK" -> <<"Code", "Name", "Occurrence", "Size">>
    [] m.type = "STORED BLOCK" ->
         <<"Code", "Name", "Occurrence", "Owner", "Success">>
    [] m.type = "DELIVER BLOCK" /\ m.success ->
         <<"Code", "Name", "Occurrence", "Size", "Success">>
    [] OTHER -> <<"Code", "Success">>

First == Text("BEGIN")
Middle(m) == Line("", "key", m.number)
Final == Text("END")
Signature(m) == Bytes(SignatureSize, m.number)
Data(m) == Bytes(m.size, m.number)
Id(m) == Bytes(IdSize, m.number)
ToSign(m) == Field("Sign this random number", m.number)

BlockKey(m, s) ==
  Then(First, Then(Middle(m), Then(Final, Then(Blank, Then(Data(m), s)))))

Behind(m, s) ==
  CASE m.type = "HELLO" ->
         Then(Blank, Then(First, Then(Middle(m), Then(Final, s))))
    [] m.type = "INTRODUCE PEER" -> Then(Blank, Then(Id(m), s))
    [] HasBlock(m) -> Then(Blank, Then(Signature(m), BlockKey(m, s)))
    [] OTHER -> Then(Blank, s)

\* A message whose first line and j fields have been read.
Header(m, j, s) ==
  SubSeq(Fields(m, Names(m)), j + 1, Len(Names(m))) \o Behind(m, s)

\* A message whose first line has been read.
Rest(m, s) ==
  CASE m.type \in Fielded -> Header(m, 0, s)
    [] m.type = "PROVE IDENTITY" -> Then(ToSign(m), Then(Blank, s))
    [] m.type = "VERIFY IDENTITY" -> Then(Signature(m), s)
    [] OTHER -> s

-----------------------------------------------------------------------------
\* Parts of a message that have been read.
Read(m, parts) == [n \in parts |-> Value(m, n)]

\* The same, with some lines of the key.
ReadKey(m, parts, name, lines) ==
  [n \in parts \cup {name} |-> IF n = name THEN lines ELSE Value(m, n)]

HeaderParts(m, j) == { Names(m)[i] : i \in 1 .. j }
AllParts(m) == HeaderParts(m, Len(Names(m)))

\* j fields have been read.
InHeader(m, s) ==
  \E j \in 0 .. Len(Names(m)) :
    /\ m.type \in Fielded /\ state = 0 /\ read = "string"
    /\ coming = Header(m, j, s)
    /\ got = Read(m, HeaderParts(m, j))

InHello(m, s) ==
  /\ m.type = "HELLO" /\ read = "string"
  /\ \/ /\ state = 1 /\ got = Read(m, AllParts(m))
        /\ coming = Then(First, Then(Middle(m), Then(Final, s)))
     \/ /\ state = 2 /\ got = ReadKey(m, AllParts(m), "key", <<First>>)
        /\ coming = Then(Middle(m), Then(Final, s))
     \/ /\ state = 2
        /\ got = ReadKey(m, AllParts(m), "key", <<First, Middle(m)>>)
        /\ coming = Then(Final, s)

InProveIdentity(m, s) ==
  /\ m.type = "PROVE IDENTITY" /\ read = "string"
  /\ \/ got = Nothing /\ coming = Then(ToSign(m), Then(Blank, s))
     \/ got = Read(m, {"text"}) /\ coming = Then(Blank, s)

InVerifyIdentity(m, s) ==
  /\ m.type = "VERIFY IDENTITY" /\ read = "bytes" /\ bytes = SignatureSize
  /\ got = Nothing
  /\ coming = Then(Signature(m), s)

InIntroduce(m, s) ==
  /\ m.type = "INTRODUCE PEER" /\ read = "bytes" /\ bytes = IdSize
  /\ got = Read(m, AllParts(m))
  /\ coming = Then(Id(m), s)

\* The signature; then the key of the owner and the data.
InSignature(m, s) ==
  /\ HasBlock(m) /\ state = 0 /\ read = "bytes" /\ bytes = SignatureSize
  /\ got = ReadKey(m, AllParts(m), "owner", << >>)
  /\ coming = Then(Signature(m), BlockKey(m, s))

BlockParts(m) == AllParts(m) \cup {"signature"}

InOwner(m, s) ==
  /\ HasBlock(m) /\ state = 1 /\ read = "string"
  /\ \/ /\ got = ReadKey(m, BlockParts(m), "owner", << >>)
        /\ coming = BlockKey(m, s)
     \/ /\ got = ReadKey(m, BlockParts(m), "owner", <<First>>)
        /\ coming = Then(Middle(m), Then(Final, Then(Blank, Then(Data(m), s))))
     \/ /\ got = ReadKey(m, BlockParts(m), "owner", <<First, Middle(m)>>)
        /\ coming = Then(Final, Then(Blank, Then(Data(m), s)))
     \/ /\ got = ReadKey(m, BlockParts(m), "owner", Key(m))
        /\ coming = Then(Blank, Then(Data(m), s))

InData(m, s) ==
  /\ HasBlock(m) /\ state = 1 /\ read = "bytes" /\ bytes = m.size
  /\ got = ReadKey(m, BlockParts(m), "owner", Key(m))
  /\ coming = Then(Data(m), s)

Reading(m, s) ==
  /\ message = m.type
  /\ \/ InHeader(m, s) \/ InHello(m, s)
     \/ InProveIdentity(m, s) \/ InVerifyIdentity(m, s) \/ InIntroduce(m, s)
     \/ InSignature(m, s) \/ InOwner(m, s) \/ InData(m, s)

\* What is acted on of a message.
Entry(m) == [type |-> m.type, content |-> Content(m)]

\* With n messages acted on: between two messages, within one, or behind a
\* GET CODE that was refused.
Between(s) == ~ refused /\ message = None /\ coming = s
Within(m, s) == ~ refused /\ Reading(m, s)
Refused(s) ==
  refused /\ message = "GET CODE" /\ state = 0 /\ read = "string" /\ coming = s

Position(n) ==
  \/ Between(From(n + 1))
  \/ /\ n < Len(sent)
     /\ Within(sent[n + 1], From(n + 2)) \/ Refused(From(n + 2))

SessionInv ==
  /\ TypeOK
  /\ \E n \in 0 .. Len(sent) :
       /\ acted = [i \in 1 .. n |-> Entry(sent[i])]
       /\ open => Position(n)

-----------------------------------------------------------------------------
\* Items and messages.
LEMMA ItemTypes ==
  ASSUME NEW m \in Message
  PROVE  /\ Blank \in Item /\ First \in Item /\ Final \in Item
         /\ Text(m.type) \in Item /\ Middle(m) \in Item /\ Signature(m) \in Item
         /\ Data(m) \in Item /\ Id(m) \in Item /\ ToSign(m) \in Item
<1>1. m.type \in Type /\ m.number \in Nat /\ m.size \in Nat
  BY DEF Message
<1>2. SignatureSize \in Nat /\ IdSize \in Nat
  BY DEF SignatureSize, IdSize
<1>3. /\ \A t \in TextOfLine : Text(t) \in Item
      /\ \A n \in Nat : Line("", "key", n) \in Item
      /\ \A name \in FieldName, n \in Nat : Field(name, n) \in Item
      /\ \A length \in Nat, n \in Nat : Bytes(length, n) \in Item
  <2>1. \A t \in TextOfLine : Text(t) \in Item
    BY DEF Item, Text, Line
  <2>2. \A n \in Nat : Line("", "key", n) \in Item
    BY DEF Item, Line, TextOfLine
  <2>3. \A name \in FieldName, n \in Nat : Field(name, n) \in Item
    BY DEF Item, Field, Line, TextOfLine
  <2>4. \A length \in Nat, n \in Nat : Bytes(length, n) \in Item
    BY DEF Item, Bytes
  <2> QED BY <2>1, <2>2, <2>3, <2>4
<1>4. Blank \in Item /\ First \in Item /\ Final \in Item /\ Text(m.type) \in Item
  BY <1>1, <1>3 DEF TextOfLine, Blank, First, Final
<1>5. Middle(m) \in Item /\ ToSign(m) \in Item
  <2>1. "Sign this random number" \in FieldName
    BY DEF FieldName
  <2> QED BY <1>1, <1>3, <2>1 DEF Middle, ToSign
<1>6. Signature(m) \in Item /\ Data(m) \in Item /\ Id(m) \in Item
  BY <1>1, <1>2, <1>3 DEF Signature, Data, Id
<1> QED BY <1>4, <1>5, <1>6

LEMMA ValueType ==
  ASSUME NEW m \in Message, NEW name
  PROVE  Value(m, name) \in Nat
BY DEF Value, Message

LEMMA ThenParts ==
  ASSUME NEW x \in Item, NEW s \in Seq(Item)
  PROVE  /\ Then(x, s) \in Seq(Item) /\ Then(x, s) # << >>
         /\ Head(Then(x, s)) = x /\ Tail(Then(x, s)) = s
<1> DEFINE t == <<x>>
<1>1. t \in Seq(Item) /\ Len(t) = 1 /\ t[1] = x
  OBVIOUS
<1> HIDE DEF t
<1>2. /\ t \o s \in Seq(Item) /\ Len(t \o s) = 1 + Len(s)
      /\ \A i \in 1 .. Len(s) : (t \o s)[i + 1] = s[i]
      /\ (t \o s)[1] = x
  <2>1. 1 \in 1 .. Len(t) + Len(s)
    BY <1>1
  <2> QED BY <1>1, <2>1, ConcatProperties, SMTT(30)
<1> DEFINE u == t \o s
<1>3. Len(u) # 0 /\ u # << >>
  BY <1>2, EmptySeq
<1> HIDE DEF u
<1>4. Head(u) = x
  BY <1>2, <1>3 DEF u
<1>5. Tail(u) = s
  <2>1. Tail(u) \in Seq(Item) /\ Len(Tail(u)) = Len(s)
    BY <1>2, <1>3, HeadTailProperties DEF u
  <2>2. ASSUME NEW i \in 1 .. Len(s) PROVE Tail(u)[i] = s[i]
    BY <1>2, <1>3, <2>1, HeadTailProperties DEF u
  <2> QED BY <2>1, <2>2, SeqEqual
<1> QED BY <1>2, <1>3, <1>4, <1>5 DEF u, t, Then

\* Joining behind the first item.
LEMMA ThenJoin ==
  ASSUME NEW x \in Item, NEW s \in Seq(Item), NEW r \in Seq(Item)
  PROVE  Then(x, s) \o r = Then(x, s \o r)
<1> DEFINE t == <<x>>
<1>1. t \in Seq(Item)
  OBVIOUS
<1> HIDE DEF t
<1>2. (t \o s) \o r = t \o (s \o r)
  BY <1>1, ConcatAssociative, SMTT(30)
<1> QED BY <1>2 DEF t, Then

\* Sequences written out.
LEMMA ThenWritten ==
  ASSUME NEW a \in Item, NEW b \in Item, NEW c \in Item
  PROVE  /\ << >> \in Seq(Item) /\ <<a>> = Then(a, << >>)
         /\ <<a, b>> = Then(a, <<b>>) /\ <<b>> \in Seq(Item)
         /\ <<a, b, c>> = Then(a, <<b, c>>) /\ <<b, c>> \in Seq(Item)
<1>1. <<a>> \o << >> = <<a>> /\ << >> \in Seq(Item)
  OBVIOUS
<1>2. ASSUME NEW q \in Seq(Item), NEW r \in Seq(Item), Len(r) = Len(q) + 1, r[1] = a,
             \A i \in 1 .. Len(q) : r[i + 1] = q[i]
      PROVE  Then(a, q) = r
  <2> DEFINE p == <<a>>
  <2>1. p \in Seq(Item) /\ Len(p) = 1 /\ p[1] = a
    OBVIOUS
  <2> HIDE DEF p
  <2>2. /\ p \o q \in Seq(Item) /\ Len(p \o q) = Len(r)
        /\ \A i \in 1 .. Len(r) : (p \o q)[i] = IF i <= 1 THEN p[i] ELSE q[i - 1]
    <3>1. Len(r) = Len(p) + Len(q)
      BY <1>2, <2>1
    <3>2. /\ p \o q \in Seq(Item) /\ Len(p \o q) = Len(p) + Len(q)
          /\ \A i \in 1 .. Len(p) + Len(q) :
               (p \o q)[i] = IF i <= Len(p) THEN p[i] ELSE q[i - Len(p)]
      BY <2>1, ConcatProperties
    <3> QED BY <2>1, <3>1, <3>2
  <2>3. ASSUME NEW i \in 1 .. Len(r) PROVE (p \o q)[i] = r[i]
    <3>1. CASE i = 1
      BY <1>2, <2>1, <2>2, <3>1
    <3>2. CASE i # 1
      <4>1. i - 1 \in 1 .. Len(q) /\ (i - 1) + 1 = i
        BY <1>2, <3>2
      <4>2. (p \o q)[i] = q[i - 1]
        BY <2>2, <3>2
      <4>3. r[(i - 1) + 1] = q[i - 1]
        BY <1>2, <4>1
      <4> QED BY <4>1, <4>2, <4>3
    <3> QED BY <3>1, <3>2
  <2>4. p \o q = r
    BY <2>2, <2>3, SeqEqual
  <2> QED BY <2>4 DEF p, Then
<1>3. <<b>> \in Seq(Item) /\ <<a, b>> \in Seq(Item)
  OBVIOUS
<1>4. <<b, c>> \in Seq(Item) /\ <<a, b, c>> \in Seq(Item)
  OBVIOUS
<1>5. <<a, b>> = Then(a, <<b>>)
  <2> DEFINE q == <<b>>
             r == <<a, b>>
  <2>1. /\ q \in Seq(Item) /\ r \in Seq(Item) /\ Len(r) = Len(q) + 1
        /\ r[1] = a /\ \A i \in 1 .. Len(q) : r[i + 1] = q[i]
    BY <1>3
  <2> HIDE DEF q, r
  <2> QED BY <1>2, <2>1 DEF q, r
<1>6. <<a, b, c>> = Then(a, <<b, c>>)
  <2> DEFINE q == <<b, c>>
             r == <<a, b, c>>
  <2>1. /\ q \in Seq(Item) /\ r \in Seq(Item) /\ Len(r) = Len(q) + 1
        /\ r[1] = a /\ \A i \in 1 .. Len(q) : r[i + 1] = q[i]
    BY <1>4
  <2> HIDE DEF q, r
  <2> QED BY <1>2, <2>1 DEF q, r
<1>7. <<a>> = Then(a, << >>)
  BY <1>1 DEF Then
<1> QED BY <1>1, <1>3, <1>4, <1>5, <1>6, <1>7

LEMMA FirstOfPart ==
  ASSUME NEW f \in Seq(Item), NEW j \in 0 .. Len(f) - 1
  PROVE  /\ SubSeq(f, j + 1, Len(f)) = Then(f[j + 1], SubSeq(f, j + 2, Len(f)))
         /\ SubSeq(f, j + 2, Len(f)) \in Seq(Item) /\ f[j + 1] \in Item
<1> DEFINE k == j + 1
           l == Len(f)
<1>1. k \in 1 .. Len(f) /\ l \in k .. Len(f) /\ k + 1 = j + 2
  OBVIOUS
<1> HIDE DEF k, l
<1>2. SubSeq(f, k, l) = <<f[k]>> \o SubSeq(f, k + 1, l)
  BY <1>1, SubSeqRecursiveFirst
<1>3. SubSeq(f, k + 1, l) \in Seq(Item)
  BY <1>1 DEF l
<1>4. f[k] \in Item
  BY <1>1, ElementOfSeq
<1> QED BY <1>1, <1>2, <1>3, <1>4 DEF k, l, Then

-----------------------------------------------------------------------------
\* The fields of a message.
LEMMA NamesParts ==
  ASSUME NEW m \in Message
  PROVE  Names(m) \in Seq(FieldName)
<1>1. <<"Id", "Host", "Port", "Type">> \in Seq(FieldName)
  BY DEF FieldName
<1>2. <<"Code">> \in Seq(FieldName) /\ <<"Code", "Layer">> \in Seq(FieldName)
  BY DEF FieldName
<1>3. <<"Host", "Port", "Layer">> \in Seq(FieldName)
  BY DEF FieldName
<1>4. <<"Code", "Name", "Occurrence", "Size">> \in Seq(FieldName)
  BY DEF FieldName
<1>5. <<"Code", "Name", "Occurrence", "Owner", "Success">> \in Seq(FieldName)
  BY DEF FieldName
<1>6. <<"Code", "Name", "Occurrence", "Size", "Success">> \in Seq(FieldName)
  BY DEF FieldName
<1>7. <<"Code", "Success">> \in Seq(FieldName)
  BY DEF FieldName
<1> QED BY <1>1, <1>2, <1>3, <1>4, <1>5, <1>6, <1>7 DEF Names

LEMMA FieldsParts ==
  ASSUME NEW m \in Message, NEW names \in Seq(FieldName)
  PROVE  /\ Fields(m, names) \in Seq(Item) /\ Len(Fields(m, names)) = Len(names)
         /\ \A i \in 1 .. Len(names) :
              Fields(m, names)[i] = Field(names[i], Value(m, names[i]))
<1>1. ASSUME NEW i \in 1 .. Len(names)
      PROVE  Field(names[i], Value(m, names[i])) \in Item
  <2>1. names[i] \in FieldName
    BY ElementOfSeq
  <2>2. Value(m, names[i]) \in Nat
    BY ValueType
  <2> QED BY <2>1, <2>2 DEF Item, Field, Line, TextOfLine
<1>2. Fields(m, names) \in [1 .. Len(names) -> Item] /\ Len(names) \in Nat
  BY <1>1 DEF Fields
<1> QED BY <1>2 DEF Fields

LEMMA BehindType ==
  ASSUME NEW m \in Message, NEW s \in Seq(Item)
  PROVE  Behind(m, s) \in Seq(Item) /\ BlockKey(m, s) \in Seq(Item)
<1>1. \A x \in Item, r \in Seq(Item) : Then(x, r) \in Seq(Item)
  BY ThenParts
<1>2. BlockKey(m, s) \in Seq(Item)
  BY <1>1, ItemTypes DEF BlockKey
<1> QED BY <1>1, <1>2, ItemTypes DEF Behind

LEMMA HeaderType ==
  ASSUME NEW m \in Message, NEW s \in Seq(Item), NEW j \in 0 .. Len(Names(m))
  PROVE  Header(m, j, s) \in Seq(Item)
<1> DEFINE f == Fields(m, Names(m))
           n == Len(Names(m))
<1>1. f \in Seq(Item) /\ Len(f) = n /\ n \in Nat
  BY NamesParts, FieldsParts
<1> HIDE DEF f, n
<1>2. SubSeq(f, j + 1, n) \in Seq(Item)
  BY <1>1 DEF n
<1> QED BY <1>2, BehindType, ConcatProperties DEF Header, f, n

LEMMA HeaderNext ==
  ASSUME NEW m \in Message, NEW s \in Seq(Item), NEW j \in 0 .. Len(Names(m)) - 1
  PROVE  /\ Names(m)[j + 1] \in FieldName
         /\ Header(m, j, s) =
              Then(Field(Names(m)[j + 1], Value(m, Names(m)[j + 1])),
                   Header(m, j + 1, s))
         /\ Field(Names(m)[j + 1], Value(m, Names(m)[j + 1])) \in Item
<1> DEFINE f == Fields(m, Names(m))
           n == Len(Names(m))
           b == Behind(m, s)
           p == SubSeq(f, j + 2, n)
           k == j + 1
<1>1. f \in Seq(Item) /\ Len(f) = n /\ n \in Nat /\ Names(m) \in Seq(FieldName)
  BY NamesParts, FieldsParts
<1>2. j + 1 \in 1 .. n /\ j \in 0 .. n - 1 /\ (j + 1) + 1 = j + 2
  BY <1>1
<1>3. Names(m)[k] \in FieldName
  <2>1. k \in 1 .. Len(Names(m))
    BY <1>2
  <2> HIDE DEF k
  <2> QED BY <1>1, <2>1, ElementOfSeq
<1>4. f[k] = Field(Names(m)[k], Value(m, Names(m)[k]))
  BY <1>1, <1>2, FieldsParts
<1>5. b \in Seq(Item)
  BY BehindType
<1> HIDE DEF f, n, b
<1>6. SubSeq(f, j + 1, n) = Then(f[j + 1], p) /\ p \in Seq(Item) /\ f[j + 1] \in Item
  BY <1>1, <1>2, FirstOfPart
<1>7. Then(f[j + 1], p) \o b = Then(f[j + 1], p \o b)
  BY <1>5, <1>6, ThenJoin
<1>8. Header(m, j + 1, s) = p \o b
  BY <1>2 DEF Header, b, f, n
<1>9. Header(m, j, s) = Then(f[j + 1], Header(m, j + 1, s))
  BY <1>6, <1>7, <1>8 DEF Header, b, f, n
<1> QED BY <1>3, <1>4, <1>6, <1>9

LEMMA HeaderEnd ==
  ASSUME NEW m \in Message, NEW s \in Seq(Item)
  PROVE  Header(m, Len(Names(m)), s) = Behind(m, s)
<1> DEFINE f == Fields(m, Names(m))
           n == Len(Names(m))
<1>1. n \in Nat
  BY NamesParts
<1> HIDE DEF f, n
<1>2. SubSeq(f, n + 1, n) = << >>
  BY <1>1, SubSeqEmpty
<1>3. << >> \o Behind(m, s) = Behind(m, s)
  BY BehindType, ConcatEmptySeq
<1> QED BY <1>2, <1>3 DEF Header, f, n

-----------------------------------------------------------------------------
\* What send() renders is what the invariant expects to come.
LEMMA OneThen ==
  ASSUME NEW x \in Item, NEW s \in Seq(Item)
  PROVE  <<x>> \in Seq(Item) /\ <<x>> \o s = Then(x, s)
BY TuplesOf DEF Then

LEMMA TwoThen ==
  ASSUME NEW x \in Item, NEW y \in Item, NEW s \in Seq(Item)
  PROVE  <<x, y>> \in Seq(Item) /\ <<x, y>> \o s = Then(x, Then(y, s))
<1> DEFINE q == <<y>>
<1>1. <<x, y>> = Then(x, q)
  BY ThenWritten
<1>2. q \in Seq(Item) /\ q \o s = Then(y, s)
  BY OneThen
<1> HIDE DEF q
<1>3. Then(x, q) \o s = Then(x, q \o s)
  BY <1>2, ThenJoin
<1>4. <<x, y>> \in Seq(Item)
  BY TuplesOf
<1> QED BY <1>1, <1>2, <1>3, <1>4

LEMMA ThreeThen ==
  ASSUME NEW x \in Item, NEW y \in Item, NEW z \in Item, NEW s \in Seq(Item)
  PROVE  /\ <<x, y, z>> \in Seq(Item)
         /\ <<x, y, z>> \o s = Then(x, Then(y, Then(z, s)))
<1> DEFINE q == <<y, z>>
<1>1. <<x, y, z>> = Then(x, q)
  BY ThenWritten
<1>2. q \in Seq(Item) /\ q \o s = Then(y, Then(z, s))
  BY TwoThen
<1> HIDE DEF q
<1>3. Then(x, q) \o s = Then(x, q \o s)
  BY <1>2, ThenJoin
<1>4. <<x, y, z>> \in Seq(Item)
  BY TuplesOf
<1> QED BY <1>1, <1>2, <1>3, <1>4

LEMMA FieldedRest ==
  ASSUME NEW m \in Message, NEW s \in Seq(Item), NEW b \in Seq(Item),
         m.type \in Fielded, b \o s = Behind(m, s)
  PROVE  /\ Fields(m, Names(m)) \o b \in Seq(Item)
         /\ (Fields(m, Names(m)) \o b) \o s = Rest(m, s)
<1> DEFINE f == Fields(m, Names(m))
           n == Len(Names(m))
<1>1. f \in Seq(Item) /\ Len(f) = n /\ n \in Nat
  BY NamesParts, FieldsParts
<1> HIDE DEF f, n
<1>2. f \o b \in Seq(Item) /\ (f \o b) \o s = f \o Behind(m, s)
  <2>1. f \o b \in Seq(Item)
    BY <1>1, ConcatProperties
  <2>2. f \in Seq(Item) /\ b \in Seq(Item) /\ s \in Seq(Item)
    BY <1>1
  <2>3. f \o (b \o s) = (f \o b) \o s
    BY ONLY <2>2, JoinThree
  <2> QED BY <2>1, <2>3
<1>3. SubSeq(f, 0 + 1, n) = f
  BY <1>1, SubSeqFull
<1>4. Header(m, 0, s) = f \o Behind(m, s)
  BY <1>3 DEF Header, f, n
<1>5. Rest(m, s) = Header(m, 0, s)
  BY DEF Rest, Fielded
<1> QED BY <1>2, <1>4, <1>5 DEF f

LEMMA KeyRendered ==
  ASSUME NEW m \in Message, NEW s \in Seq(Item)
  PROVE  /\ Key(m) \in Seq(Item) /\ Key(m) = <<First, Middle(m), Final>>
         /\ Key(m) \o s = Then(First, Then(Middle(m), Then(Final, s)))
<1>1. Key(m) = <<First, Middle(m), Final>>
  BY DEF Key, First, Middle, Final
<1>2. First \in Item /\ Middle(m) \in Item /\ Final \in Item
  BY ItemTypes
<1>3. /\ <<First, Middle(m), Final>> \in Seq(Item)
      /\ <<First, Middle(m), Final>> \o s = Then(First, Then(Middle(m), Then(Final, s)))
  <2> DEFINE a == First
             b == Middle(m)
             c == Final
  <2>1. a \in Item /\ b \in Item /\ c \in Item
    BY <1>2
  <2> HIDE DEF a, b, c
  <2>2. <<a, b, c>> \in Seq(Item)
    BY <2>1, TuplesOf
  <2>3. <<a, b, c>> \o s = Then(a, Then(b, Then(c, s)))
    BY <2>1, ThreeThen
  <2> QED BY <2>2, <2>3 DEF a, b, c
<1> QED BY <1>1, <1>3

LEMMA BlockRendered ==
  ASSUME NEW m \in Message, NEW s \in Seq(Item)
  PROVE  /\ SendBlock(m) \in Seq(Item)
         /\ SendBlock(m) \o s = Then(Blank, Then(Signature(m), BlockKey(m, s)))
<1> DEFINE p == <<Blank, Bytes(SignatureSize, m.number)>>
           q == <<Blank, Bytes(m.size, m.number)>>
           k == Key(m)
<1>0. Blank \in Item /\ Signature(m) \in Item /\ Data(m) \in Item
  BY ItemTypes
<1>1. /\ p \in Seq(Item)
      /\ \A r \in Seq(Item) : p \o r = Then(Blank, Then(Signature(m), r))
  <2>1. p = <<Blank, Signature(m)>>
    BY DEF Signature
  <2>2. <<Blank, Signature(m)>> \in Seq(Item)
    BY <1>0
  <2>3. ASSUME NEW r \in Seq(Item)
        PROVE  <<Blank, Signature(m)>> \o r = Then(Blank, Then(Signature(m), r))
    <3> DEFINE a == Blank
               b == Signature(m)
    <3>1. a \in Item /\ b \in Item
      BY <1>0
    <3> HIDE DEF a, b
    <3>2. <<a, b>> \o r = Then(a, Then(b, r))
      BY <3>1, TwoThen
    <3> QED BY <3>2 DEF a, b
  <2> QED BY <2>1, <2>2, <2>3
<1>2. q \in Seq(Item) /\ q \o s = Then(Blank, Then(Data(m), s))
  <2>1. q = <<Blank, Data(m)>>
    BY DEF Data
  <2>2. <<Blank, Data(m)>> \in Seq(Item)
    BY <1>0
  <2>3. <<Blank, Data(m)>> \o s = Then(Blank, Then(Data(m), s))
    <3> DEFINE a == Blank
               b == Data(m)
    <3>1. a \in Item /\ b \in Item
      BY <1>0
    <3> HIDE DEF a, b
    <3>2. <<a, b>> \o s = Then(a, Then(b, s))
      BY <3>1, TwoThen
    <3> QED BY <3>2 DEF a, b
  <2> QED BY <2>1, <2>2, <2>3
<1>3. k \in Seq(Item)
  BY KeyRendered
<1>4. SendBlock(m) = (p \o k) \o q
  BY DEF SendBlock
<1> HIDE DEF p, q, k
<1>5. /\ p \o k \in Seq(Item) /\ SendBlock(m) \in Seq(Item)
      /\ q \o s \in Seq(Item) /\ k \o (q \o s) \in Seq(Item)
  <2>1. p \o k \in Seq(Item) /\ q \o s \in Seq(Item)
    BY <1>1, <1>2, <1>3, ConcatProperties
  <2>2. (p \o k) \o q \in Seq(Item) /\ k \o (q \o s) \in Seq(Item)
    BY <1>2, <1>3, <2>1, ConcatProperties
  <2> QED BY <1>4, <2>1, <2>2
<1>6. SendBlock(m) \o s = p \o (k \o (q \o s))
  <2> DEFINE pk == p \o k
             qs == q \o s
  <2>1. pk \in Seq(Item) /\ qs \in Seq(Item)
    BY <1>5
  <2> HIDE DEF pk, qs
  <2>2. q \in Seq(Item) /\ k \in Seq(Item) /\ p \in Seq(Item) /\ s \in Seq(Item)
    BY <1>1, <1>2, <1>3
  <2>3. pk \o (q \o s) = (pk \o q) \o s
    BY ONLY <2>1, <2>2, JoinThree, SMTT(30)
  <2>4. p \o (k \o qs) = (p \o k) \o qs
    BY ONLY <2>1, <2>2, JoinThree, SMTT(30)
  <2> QED BY <1>4, <2>3, <2>4 DEF pk, qs
<1>7. k \o (q \o s) = BlockKey(m, s)
  BY <1>2, <1>5, KeyRendered DEF BlockKey, k
<1> QED BY <1>1, <1>5, <1>6, <1>7

LEMMA HelloRendered ==
  ASSUME NEW m \in Message, NEW s \in Seq(Item), m.type = "HELLO"
  PROVE  SendHello(m) \in Seq(Item) /\ SendHello(m) \o s = Rest(m, s)
<1> DEFINE f == Fields(m, Names(m))
           b == <<Blank>>
           k == Key(m)
<1>1. f \in Seq(Item) /\ b \in Seq(Item) /\ k \in Seq(Item)
  BY NamesParts, FieldsParts, ItemTypes, OneThen, KeyRendered
<1>2. SendHello(m) = (f \o b) \o k
  BY DEF SendHello, Names
<1>3. b \o (k \o s) = Then(Blank, k \o s) /\ k \o s \in Seq(Item)
  <2> HIDE DEF k
  <2>1. k \o s \in Seq(Item)
    BY <1>1, ConcatProperties
  <2>2. Blank \in Item
    BY ItemTypes
  <2> QED BY <2>1, <2>2, OneThen
<1>4. Then(Blank, k \o s) = Behind(m, s)
  <2>1. k \o s = Then(First, Then(Middle(m), Then(Final, s)))
    BY KeyRendered
  <2>2. Behind(m, s) = Then(Blank, Then(First, Then(Middle(m), Then(Final, s))))
    BY DEF Behind, HasBlock
  <2> HIDE DEF k
  <2> QED BY <2>1, <2>2
<1> HIDE DEF f, b, k
<1>5. (f \o b) \o k = f \o (b \o k) /\ b \o k \in Seq(Item)
  BY <1>1, ConcatProperties, JoinThree, SMTT(30)
<1>6. (b \o k) \o s = Behind(m, s)
  <2>1. b \o (k \o s) = (b \o k) \o s
    BY <1>1, JoinThree, SMTT(30)
  <2> QED BY <1>3, <1>4, <2>1
<1>7. m.type \in Fielded
  BY DEF Fielded
<1> DEFINE c == b \o k
<1> HIDE DEF c
<1>8. c \in Seq(Item) /\ c \o s = Behind(m, s)
  BY <1>5, <1>6 DEF c
<1>9. f \o c \in Seq(Item) /\ (f \o c) \o s = Rest(m, s)
  BY <1>7, <1>8, FieldedRest DEF f
<1> QED BY <1>2, <1>5, <1>9 DEF c

\* A blank line behind the fields is all there is.
LEMMA UpToBlankRendered ==
  ASSUME NEW m \in Message, NEW s \in Seq(Item), m.type \in Fielded,
         m.type \notin {"HELLO", "INTRODUCE PEER"}, ~ HasBlock(m)
  PROVE  /\ Fields(m, Names(m)) \o <<Blank>> \in Seq(Item)
         /\ (Fields(m, Names(m)) \o <<Blank>>) \o s = Rest(m, s)
<1>1. <<Blank>> \in Seq(Item) /\ <<Blank>> \o s = Behind(m, s)
  BY ItemTypes, OneThen DEF Behind
<1> QED BY <1>1, FieldedRest

LEMMA BlockMessageRendered ==
  ASSUME NEW m \in Message, NEW s \in Seq(Item), HasBlock(m)
  PROVE  /\ Fields(m, Names(m)) \o SendBlock(m) \in Seq(Item)
         /\ (Fields(m, Names(m)) \o SendBlock(m)) \o s = Rest(m, s)
<1>1. m.type \in Fielded /\ m.type \notin {"HELLO", "INTRODUCE PEER"}
  BY DEF Fielded, HasBlock
<1>2. SendBlock(m) \in Seq(Item) /\ SendBlock(m) \o s = Behind(m, s)
  BY <1>1, BlockRendered DEF Behind
<1> QED BY <1>1, <1>2, FieldedRest

LEMMA IntroduceRendered ==
  ASSUME NEW m \in Message, NEW s \in Seq(Item), m.type = "INTRODUCE PEER"
  PROVE  SendIntroduce(m) \in Seq(Item) /\ SendIntroduce(m) \o s = Rest(m, s)
<1>1. SendIntroduce(m) = Fields(m, Names(m)) \o <<Blank, Id(m)>>
  BY DEF SendIntroduce, Names, Id
<1>2. <<Blank, Id(m)>> \in Seq(Item) /\ <<Blank, Id(m)>> \o s = Behind(m, s)
  <2>1. Blank \in Item /\ Id(m) \in Item
    BY ItemTypes
  <2>2. /\ <<Blank, Id(m)>> \in Seq(Item)
        /\ <<Blank, Id(m)>> \o s = Then(Blank, Then(Id(m), s))
    <3> DEFINE a == Blank
               b == Id(m)
    <3>1. a \in Item /\ b \in Item
      BY <2>1
    <3> HIDE DEF a, b
    <3>2. <<a, b>> \in Seq(Item) /\ <<a, b>> \o s = Then(a, Then(b, s))
      BY <3>1, TwoThen
    <3> QED BY <3>2 DEF a, b
  <2>3. Behind(m, s) = Then(Blank, Then(Id(m), s))
    BY DEF Behind, HasBlock
  <2> QED BY <2>2, <2>3
<1>3. m.type \in Fielded
  BY DEF Fielded
<1> QED BY <1>1, <1>2, <1>3, FieldedRest

LEMMA RenderedThen ==
  ASSUME NEW m \in Message, NEW s \in Seq(Item)
  PROVE  /\ Rendered(m) \in Seq(Item)
         /\ Rendered(m) \o s = Then(Text(m.type), Rest(m, s))
<1>1. ASSUME NEW b \in Seq(Item), b \o s = Rest(m, s), Rendered(m) = <<Text(m.type)>> \o b
      PROVE  /\ Rendered(m) \in Seq(Item)
             /\ Rendered(m) \o s = Then(Text(m.type), Rest(m, s))
  <2>1. Text(m.type) \in Item
    BY ItemTypes
  <2>2. Rendered(m) = Then(Text(m.type), b)
    BY <1>1 DEF Then
  <2>3. Then(Text(m.type), b) \in Seq(Item)
    BY <2>1, ThenParts
  <2>4. Then(Text(m.type), b) \o s = Then(Text(m.type), b \o s)
    BY <2>1, ThenJoin
  <2> QED BY <1>1, <2>2, <2>3, <2>4
<1>2. CASE m.type = "HELLO"
  BY <1>1, <1>2, HelloRendered DEF Rendered
<1>3. CASE m.type = "PROVE IDENTITY"
  <2>1. SendProveIdentity(m) = <<ToSign(m), Blank>>
    BY DEF SendProveIdentity, ToSign
  <2>2. SendProveIdentity(m) \in Seq(Item) /\ SendProveIdentity(m) \o s = Rest(m, s)
    <3>1. Blank \in Item /\ ToSign(m) \in Item
      BY ItemTypes
    <3>2. <<ToSign(m), Blank>> \in Seq(Item)
      BY <3>1, TwoThen
    <3>3. <<ToSign(m), Blank>> \o s = Then(ToSign(m), Then(Blank, s))
      BY <3>1, TwoThen
    <3>4. Rest(m, s) = Then(ToSign(m), Then(Blank, s))
      BY <1>3 DEF Rest, Fielded
    <3> QED BY <2>1, <3>2, <3>3, <3>4
  <2> QED BY <1>1, <1>3, <2>2 DEF Rendered
<1>4. CASE m.type = "VERIFY IDENTITY"
  <2>1. SendVerifyIdentity(m) = <<Signature(m)>>
    BY DEF SendVerifyIdentity, Signature
  <2>2. SendVerifyIdentity(m) \in Seq(Item) /\ SendVerifyIdentity(m) \o s = Rest(m, s)
    <3>1. Signature(m) \in Item
      BY ItemTypes
    <3>2. <<Signature(m)>> \in Seq(Item)
      BY <3>1
    <3>3. <<Signature(m)>> \o s = Then(Signature(m), s)
      BY <3>1, OneThen
    <3>4. Rest(m, s) = Then(Signature(m), s)
      BY <1>4 DEF Rest, Fielded
    <3> QED BY <2>1, <3>2, <3>3, <3>4
  <2> QED BY <1>1, <1>4, <2>2 DEF Rendered
<1>5. CASE m.type = "INTRODUCE PEER"
  BY <1>1, <1>5, IntroduceRendered DEF Rendered
<1>6. CASE HasBlock(m)
  <2>1. Rendered(m) = <<Text(m.type)>> \o (Fields(m, Names(m)) \o SendBlock(m))
    <3>1. CASE m.type = "STORE BLOCK"
      BY <3>1 DEF Rendered, SendStoreBlock, Names
    <3>2. CASE m.type = "DELIVER BLOCK" /\ m.success
      BY <3>2 DEF Rendered, SendDeliverBlock, Names
    <3> QED BY <1>6, <3>1, <3>2 DEF HasBlock
  <2> QED BY <1>1, <1>6, <2>1, BlockMessageRendered
<1>7. CASE /\ m.type \in Fielded \ {"HELLO", "INTRODUCE PEER"}
           /\ ~ HasBlock(m)
  <2>1. Rendered(m) = <<Text(m.type)>> \o (Fields(m, Names(m)) \o <<Blank>>)
    <3>1. CASE m.type = "SET CODE"
      BY <3>1 DEF Rendered, SendSetCode, Names
    <3>2. CASE m.type = "GET CODE"
      BY <3>2 DEF Rendered, SendGetCode, Names
    <3>3. CASE m.type = "CONNECT IN"
      BY <3>3 DEF Rendered, SendConnect, Names
    <3>4. CASE m.type = "LOAD BLOCK"
      BY <3>4 DEF Rendered, SendLoadBlock, Names
    <3>5. CASE m.type = "STORED BLOCK"
      BY <3>5 DEF Rendered, SendStoredBlock, Names
    <3>6. CASE m.type = "DELIVER BLOCK" /\ ~ m.success
      BY <3>6 DEF Rendered, SendDeliverBlock, Names
    <3> QED BY <1>7, <3>1, <3>2, <3>3, <3>4, <3>5, <3>6 DEF HasBlock, Fielded
  <2> QED BY <1>1, <1>7, <2>1, UpToBlankRendered
<1>8. CASE m.type \in {"WELCOME", "INTEGRATED"}
  <2>1. Rendered(m) = <<Text(m.type)>> \o << >> /\ Rest(m, s) = s
    BY <1>8 DEF Rendered, Rest, Fielded
  <2>2. << >> \in Seq(Item) /\ << >> \o s = s
    BY ConcatEmptySeq
  <2> QED BY <1>1, <2>1, <2>2
<1> QED BY <1>2, <1>3, <1>4, <1>5, <1>6, <1>7, <1>8 DEF Message, Type, Fielded

LEMMA RestType ==
  ASSUME NEW m \in Message, NEW s \in Seq(Item)
  PROVE  Rest(m, s) \in Seq(Item)
<1>1. Header(m, 0, s) \in Seq(Item)
  <2>1. 0 \in 0 .. Len(Names(m))
    BY NamesParts
  <2> DEFINE j == 0
  <2> HIDE DEF j
  <2>2. Header(m, j, s) \in Seq(Item)
    BY <2>1, HeaderType DEF j
  <2> QED BY <2>2 DEF j
<1> QED BY <1>1, ItemTypes, ThenParts DEF Rest

-----------------------------------------------------------------------------
\* The stream from a message on is that message and the stream from the next.
LEMMA PiecesType ==
  ASSUME sent \in Seq(Message), NEW j \in 1 .. Len(sent) + 1
  PROVE  /\ Pieces(j) \in Seq(Seq(Item)) /\ Len(Pieces(j)) = Len(sent) + 1 - j
         /\ From(j) \in Seq(Item)
<1> DEFINE k == Len(sent) + 1 - j
<1>1. k \in Nat
  OBVIOUS
<1>2. ASSUME NEW i \in 1 .. k PROVE Rendered(sent[i + j - 1]) \in Seq(Item)
  <2>1. i + j - 1 \in 1 .. Len(sent)
    BY <1>1
  <2>2. sent[i + j - 1] \in Message
    <3> DEFINE p == i + j - 1
    <3>1. p \in 1 .. Len(sent)
      BY <2>1
    <3> HIDE DEF p
    <3>2. sent[p] \in Message
      BY <3>1, ElementOfSeq
    <3> QED BY <3>2 DEF p
  <2> DEFINE m == sent[i + j - 1]
             s == << >>
  <2>3. m \in Message /\ s \in Seq(Item)
    BY <2>2
  <2> HIDE DEF m, s
  <2>4. Rendered(m) \in Seq(Item)
    BY <2>3, RenderedThen
  <2> QED BY <2>4 DEF m
<1>3. Pieces(j) = [i \in 1 .. k |-> Rendered(sent[i + j - 1])]
  BY DEF Pieces
<1> HIDE DEF k
<1>4. Pieces(j) \in [1 .. k -> Seq(Item)]
  BY <1>2, <1>3
<1>5. Pieces(j) \in Seq(Seq(Item)) /\ Len(Pieces(j)) = k
  BY <1>1, <1>4
<1>6. From(j) \in Seq(Item)
  BY <1>5, FlattenType DEF From
<1> QED BY <1>5, <1>6 DEF k

LEMMA FromNext ==
  ASSUME sent \in Seq(Message), NEW j \in 1 .. Len(sent)
  PROVE  /\ sent[j] \in Message /\ From(j + 1) \in Seq(Item)
         /\ From(j) = Then(Text(sent[j].type), Rest(sent[j], From(j + 1)))
<1> DEFINE k == Len(sent) + 1 - j
           p == Pieces(j)
           q == Pieces(j + 1)
<1>1. j \in 1 .. Len(sent) + 1 /\ j + 1 \in 1 .. Len(sent) + 1 /\ k \in Nat \ {0}
  OBVIOUS
<1>2. /\ p \in Seq(Seq(Item)) /\ Len(p) = k
      /\ \A i \in 1 .. k : p[i] = Rendered(sent[i + j - 1])
  BY <1>1, PiecesType DEF Pieces
<1>3. q \in Seq(Seq(Item)) /\ Len(q) = k - 1 /\ From(j + 1) \in Seq(Item)
  <2> DEFINE l == j + 1
  <2>1. l \in 1 .. Len(sent) + 1 /\ Len(sent) + 1 - l = k - 1
    BY <1>1
  <2> HIDE DEF l
  <2>2. /\ Pieces(l) \in Seq(Seq(Item)) /\ Len(Pieces(l)) = Len(sent) + 1 - l
        /\ From(l) \in Seq(Item)
    BY <2>1, PiecesType
  <2> QED BY <2>1, <2>2 DEF l
<1>4. \A i \in 1 .. k - 1 : q[i] = Rendered(sent[i + j])
  <2>1. q = [i \in 1 .. Len(sent) + 1 - (j + 1) |-> Rendered(sent[i + (j + 1) - 1])]
    BY DEF Pieces
  <2>2. Len(sent) + 1 - (j + 1) = k - 1
    OBVIOUS
  <2>3. ASSUME NEW i \in 1 .. k - 1 PROVE i + (j + 1) - 1 = i + j
    OBVIOUS
  <2> HIDE DEF q, k
  <2> QED BY <2>1, <2>2, <2>3
<1> HIDE DEF p, q, k
<1>5. p # << >>
  BY <1>1, <1>2, EmptySeq
<1>6. Tail(p) = q
  <2>1. /\ Tail(p) \in Seq(Seq(Item)) /\ Len(Tail(p)) = k - 1
        /\ \A i \in 1 .. k - 1 : Tail(p)[i] = p[i + 1]
    BY <1>2, <1>5, HeadTailProperties
  <2>2. ASSUME NEW i \in 1 .. k - 1 PROVE Tail(p)[i] = q[i]
    <3>1. i + 1 \in 1 .. k /\ (i + 1) + j - 1 = i + j
      BY <1>1
    <3> QED BY <1>2, <1>4, <2>1, <3>1
  <2> QED BY <1>3, <2>1, <2>2, SeqEqual
<1>7. FlattenSeq(p) = p[1] \o FlattenSeq(q)
  BY <1>2, <1>5, <1>6, FlattenFirst
<1>8. p[1] = Rendered(sent[j])
  <2>1. 1 \in 1 .. k /\ 1 + j - 1 = j
    BY <1>1
  <2> QED BY <1>2, <2>1
<1>9. sent[j] \in Message
  BY ElementOfSeq
<1>10. From(j) = Rendered(sent[j]) \o From(j + 1)
  BY <1>7, <1>8 DEF From, p, q
<1>11. Rendered(sent[j]) \o From(j + 1) = Then(Text(sent[j].type), Rest(sent[j], From(j + 1)))
  <2> DEFINE m == sent[j]
             s == From(j + 1)
  <2>1. m \in Message /\ s \in Seq(Item)
    BY <1>3, <1>9
  <2> HIDE DEF m, s
  <2>2. Rendered(m) \o s = Then(Text(m.type), Rest(m, s))
    BY <2>1, RenderedThen
  <2> QED BY <2>2 DEF m, s
<1> QED BY <1>3, <1>9, <1>10, <1>11

LEMMA FromEnds ==
  ASSUME sent \in Seq(Message)
  PROVE  From(1) = RenderedAll(sent) /\ From(Len(sent) + 1) = << >>
<1>1. From(1) = RenderedAll(sent)
  <2>1. Len(sent) + 1 - 1 = Len(sent) /\ DOMAIN sent = 1 .. Len(sent)
    OBVIOUS
  <2>2. ASSUME NEW i \in 1 .. Len(sent) PROVE i + 1 - 1 = i
    OBVIOUS
  <2>3. Pieces(1) = [i \in DOMAIN sent |-> Rendered(sent[i])]
    BY <2>1, <2>2 DEF Pieces
  <2> QED BY <2>3 DEF From, RenderedAll
<1>2. From(Len(sent) + 1) = << >>
  <2> DEFINE j == Len(sent) + 1
             q == Pieces(j)
             f == [i \in 0 .. Len(q) |-> << >>]
  <2>1. j \in 1 .. Len(sent) + 1 /\ Len(sent) + 1 - j = 0
    OBVIOUS
  <2> HIDE DEF j
  <2>2. q \in Seq(Seq(Item)) /\ Len(q) = 0
    BY <2>1, PiecesType
  <2> HIDE DEF q
  <2>3. f \in [0 .. Len(q) -> Seq(Item)] /\ f[0] = << >> /\ 1 .. Len(q) = {}
    BY <2>2
  <2>4. FlattenSeq(q) = f[Len(q)]
    <3> HIDE DEF f
    <3> QED BY <2>2, <2>3, FlattenIs
  <2> QED BY <2>2, <2>3, <2>4 DEF From, q, j
<1> QED BY <1>1, <1>2

-----------------------------------------------------------------------------
\* What the receiver sees.
LEMMA Seen ==
  ASSUME NEW x \in Item, NEW r \in Seq(Item), coming = Then(x, r)
  PROVE  coming # << >> /\ NextItem = x /\ Tail(coming) = r
BY ThenParts DEF NextItem

LEMMA ItemForms ==
  ASSUME NEW m \in Message
  PROVE  /\ Blank.kind = "line" /\ Blank.name = ""
         /\ First.kind = "line" /\ First.name = "" /\ First # Blank
         /\ Final.kind = "line" /\ Final.name = "" /\ Final # Blank
         /\ First # Final /\ First = Text("BEGIN") /\ Final = Text("END")
         /\ Middle(m).kind = "line" /\ Middle(m).name = "" /\ Middle(m) # Blank
         /\ Middle(m) # First /\ Middle(m) # Final
         /\ ToSign(m).kind = "line" /\ ToSign(m).name = "Sign this random number"
         /\ ToSign(m) # Blank /\ ToSign(m).value = m.number
         /\ Signature(m).kind = "bytes" /\ Signature(m).length = SignatureSize
         /\ Signature(m).value = m.number
         /\ Id(m).kind = "bytes" /\ Id(m).length = IdSize /\ Id(m).value = m.number
         /\ Data(m).kind = "bytes" /\ Data(m).length = m.size
         /\ Data(m).value = m.number
BY DEF Blank, First, Final, Middle, ToSign, Signature, Id, Data, Text, Line,
       Field, Bytes

LEMMA FieldForm ==
  ASSUME NEW name \in FieldName, NEW v
  PROVE  /\ Field(name, v).kind = "line" /\ Field(name, v).name = name
         /\ Field(name, v).value = v /\ name # "" /\ Field(name, v) # Blank
BY DEF FieldName, Field, Line, Blank, Text

LEMMA TextForm ==
  ASSUME NEW t \in Type
  PROVE  /\ Text(t).kind = "line" /\ Text(t).name = "" /\ Text(t).text = t
         /\ Text(t) # Blank
BY DEF Type, Text, Line, Blank

\* A message is fed to its own feed().
LEMMA FeedOfKind ==
  ASSUME Next, message \in Type
  PROVE  /\ message = "HELLO" => FeedHello
         /\ message = "PROVE IDENTITY" => FeedProveIdentity
         /\ message = "VERIFY IDENTITY" => FeedVerifyIdentity
         /\ message = "SET CODE" => FeedSetCode
         /\ message = "GET CODE" => FeedGetCode
         /\ message = "INTRODUCE PEER" => FeedIntroduce
         /\ message = "CONNECT IN" => FeedConnect
         /\ message = "STORE BLOCK" => FeedStoreBlock
         /\ message = "LOAD BLOCK" => FeedLoadBlock
         /\ message = "STORED BLOCK" => FeedStoredBlock
         /\ message = "DELIVER BLOCK" => FeedDeliverBlock
<1>1. message # None
  BY SessionAssumption
<1> QED BY <1>1 DEF Next, FirstLine, FeedHello, FeedProveIdentity, FeedVerifyIdentity,
      FeedSetCode, FeedGetCode, FeedIntroduce, FeedConnect, FeedStoreBlock,
      FeedLoadBlock, FeedStoredBlock, FeedDeliverBlock, FeedUpToBlank

-----------------------------------------------------------------------------
\* What has been read.
LEMMA ReadMore ==
  ASSUME NEW m, NEW P, got = Read(m, P)
  PROVE  /\ \A name : With(name, Value(m, name)) = Read(m, P \cup {name})
         /\ \A name, l : With(name, l) = ReadKey(m, P, name, l)
         /\ \A n \in P : got[n] = Value(m, n)
BY DEF With, Read, ReadKey

LEMMA ReadKeyMore ==
  ASSUME NEW m, NEW P, NEW key, NEW l, got = ReadKey(m, P, key, l)
  PROVE  /\ \A k : With(key, k) = ReadKey(m, P, key, k)
         /\ got[key] = l /\ \A n \in P : n # key => got[n] = Value(m, n)
<1>1. ASSUME NEW k PROVE With(key, k) = ReadKey(m, P, key, k)
  BY DEF With, ReadKey
<1>2. got[key] = l /\ \A n \in P : n # key => got[n] = Value(m, n)
  BY DEF ReadKey
<1> QED BY <1>1, <1>2

LEMMA ReadKeyPart ==
  ASSUME NEW m, NEW P, NEW key, NEW l, NEW name, got = ReadKey(m, P, key, l),
         name # key
  PROVE  With(name, Value(m, name)) = ReadKey(m, P \cup {name}, key, l)
BY DEF With, ReadKey

LEMMA LinesOfKey ==
  ASSUME NEW m
  PROVE  /\ Append(<< >>, First) = <<First>>
         /\ Append(<<First>>, Middle(m)) = <<First, Middle(m)>>
         /\ Append(<<First, Middle(m)>>, Final) = Key(m)
         /\ Key(m) = <<First, Middle(m), Final>>
<1>1. Key(m) = <<First, Middle(m), Final>>
  BY DEF Key, First, Middle, Final
<1>2. ASSUME NEW a, NEW b, NEW c
      PROVE  /\ Append(<< >>, a) = <<a>> /\ Append(<<a>>, b) = <<a, b>>
             /\ Append(<<a, b>>, c) = <<a, b, c>>
  <2> DEFINE S == {a, b, c}
  <2>1. ASSUME NEW q \in Seq(S), NEW r \in Seq(S), NEW e \in S, Len(r) = Len(q) + 1,
               r[Len(r)] = e, \A i \in 1 .. Len(q) : r[i] = q[i]
        PROVE  Append(q, e) = r
    <3> HIDE DEF S
    <3>1. /\ Append(q, e) \in Seq(S) /\ Len(Append(q, e)) = Len(q) + 1
          /\ \A i \in 1 .. Len(q) : Append(q, e)[i] = q[i]
          /\ Append(q, e)[Len(q) + 1] = e
      BY AppendProperties
    <3>2. ASSUME NEW i \in 1 .. Len(r) PROVE Append(q, e)[i] = r[i]
      BY <2>1, <3>1
    <3> QED BY <2>1, <3>1, <3>2, SeqEqual
  <2>2. << >> \in Seq(S) /\ <<a>> \in Seq(S) /\ <<a, b>> \in Seq(S)
    OBVIOUS
  <2>3. <<a, b, c>> \in Seq(S) /\ a \in S /\ b \in S /\ c \in S
    OBVIOUS
  <2>4. Append(<< >>, a) = <<a>>
    BY <2>2, <2>3
  <2>5. Append(<<a>>, b) = <<a, b>>
    <3> DEFINE q == <<a>>
               r == <<a, b>>
    <3>1. /\ Len(r) = Len(q) + 1 /\ r[Len(r)] = b
          /\ \A i \in 1 .. Len(q) : r[i] = q[i]
      OBVIOUS
    <3>2. q \in Seq(S) /\ r \in Seq(S) /\ b \in S
      BY <2>2, <2>3
    <3> HIDE DEF q, r, S
    <3>3. Append(q, b) = r
      BY <2>1, <3>1, <3>2
    <3> QED BY <3>3 DEF q, r
  <2>6. Append(<<a, b>>, c) = <<a, b, c>>
    <3> DEFINE q == <<a, b>>
               r == <<a, b, c>>
    <3>1. /\ Len(r) = Len(q) + 1 /\ r[Len(r)] = c
          /\ \A i \in 1 .. Len(q) : r[i] = q[i]
      OBVIOUS
    <3>2. q \in Seq(S) /\ r \in Seq(S) /\ c \in S
      BY <2>2, <2>3
    <3> HIDE DEF q, r, S
    <3>3. Append(q, c) = r
      BY <2>1, <3>1, <3>2
    <3> QED BY <3>3 DEF q, r
  <2> QED BY <2>4, <2>5, <2>6
<1> QED BY <1>1, <1>2

LEMMA ValueForms ==
  ASSUME NEW m
  PROVE  /\ Value(m, "Size") = m.size
         /\ Value(m, "Success") = IF m.success THEN 1 ELSE 0
         /\ \A name \in {"text", "signature", "id", "data"} : Value(m, name) = m.number
BY DEF Value

\* The names of the header, one after the other.
LEMMA HeaderGrows ==
  ASSUME NEW m, NEW j \in Nat
  PROVE  HeaderParts(m, j + 1) = HeaderParts(m, j) \cup {Names(m)[j + 1]}
<1>1. 1 .. j + 1 = (1 .. j) \cup {j + 1}
  OBVIOUS
<1> QED BY <1>1 DEF HeaderParts

LEMMA AllPartsAre ==
  ASSUME NEW m \in Message
  PROVE  /\ m.type = "HELLO" => AllParts(m) = {"Id", "Host", "Port", "Type"}
         /\ m.type \in {"SET CODE", "GET CODE", "LOAD BLOCK"} => AllParts(m) = {"Code"}
         /\ m.type = "INTRODUCE PEER" => AllParts(m) = {"Host", "Port", "Layer"}
         /\ m.type = "CONNECT IN" => AllParts(m) = {"Code", "Layer"}
         /\ m.type = "STORE BLOCK" =>
              AllParts(m) = {"Code", "Name", "Occurrence", "Size"}
         /\ m.type = "STORED BLOCK" =>
              AllParts(m) = {"Code", "Name", "Occurrence", "Owner", "Success"}
         /\ m.type = "DELIVER BLOCK" /\ m.success =>
              AllParts(m) = {"Code", "Name", "Occurrence", "Size", "Success"}
         /\ m.type = "DELIVER BLOCK" /\ ~ m.success =>
              AllParts(m) = {"Code", "Success"}
<1>1. ASSUME m.type = "HELLO" PROVE AllParts(m) = {"Id", "Host", "Port", "Type"}
  <2>1. Names(m) = <<"Id", "Host", "Port", "Type">>
    BY <1>1 DEF Names
  <2> QED BY <2>1 DEF AllParts, HeaderParts
<1>2. ASSUME m.type \in {"SET CODE", "GET CODE", "LOAD BLOCK"}
      PROVE  AllParts(m) = {"Code"}
  <2>1. Names(m) = <<"Code">>
    BY <1>2 DEF Names
  <2> QED BY <2>1 DEF AllParts, HeaderParts
<1>3. ASSUME m.type = "INTRODUCE PEER" PROVE AllParts(m) = {"Host", "Port", "Layer"}
  <2>1. Names(m) = <<"Host", "Port", "Layer">>
    BY <1>3 DEF Names
  <2> QED BY <2>1 DEF AllParts, HeaderParts
<1>4. ASSUME m.type = "CONNECT IN" PROVE AllParts(m) = {"Code", "Layer"}
  <2>1. Names(m) = <<"Code", "Layer">>
    BY <1>4 DEF Names
  <2> QED BY <2>1 DEF AllParts, HeaderParts
<1>5. ASSUME m.type = "STORE BLOCK"
      PROVE  AllParts(m) = {"Code", "Name", "Occurrence", "Size"}
  <2>1. Names(m) = <<"Code", "Name", "Occurrence", "Size">>
    BY <1>5 DEF Names
  <2> QED BY <2>1 DEF AllParts, HeaderParts
<1>6. ASSUME m.type = "STORED BLOCK"
      PROVE  AllParts(m) = {"Code", "Name", "Occurrence", "Owner", "Success"}
  <2>1. Names(m) = <<"Code", "Name", "Occurrence", "Owner", "Success">>
    BY <1>6 DEF Names
  <2> QED BY <2>1 DEF AllParts, HeaderParts
<1>7. ASSUME m.type = "DELIVER BLOCK", m.success
      PROVE  AllParts(m) = {"Code", "Name", "Occurrence", "Size", "Success"}
  <2>1. Names(m) = <<"Code", "Name", "Occurrence", "Size", "Success">>
    BY <1>7 DEF Names
  <2> QED BY <2>1 DEF AllParts, HeaderParts
<1>8. ASSUME m.type = "DELIVER BLOCK", ~ m.success
      PROVE  AllParts(m) = {"Code", "Success"}
  <2>1. Names(m) = <<"Code", "Success">>
    BY <1>8 DEF Names
  <2> QED BY <2>1 DEF AllParts, HeaderParts
<1> QED BY <1>1, <1>2, <1>3, <1>4, <1>5, <1>6, <1>7, <1>8

\* At its end, a message has been read as what it says.
LEMMA AllRead ==
  ASSUME NEW m \in Message
  PROVE  /\ m.type \in Fielded \ {"HELLO", "INTRODUCE PEER"} /\ ~ HasBlock(m) =>
              Content(m) = Read(m, AllParts(m))
         /\ m.type = "HELLO" => Content(m) = ReadKey(m, AllParts(m), "key", Key(m))
         /\ m.type = "INTRODUCE PEER" => Content(m) = Read(m, AllParts(m) \cup {"id"})
         /\ m.type = "PROVE IDENTITY" => Content(m) = Read(m, {"text"})
         /\ m.type = "VERIFY IDENTITY" => Content(m) = Read(m, {"signature"})
         /\ HasBlock(m) =>
              Content(m) = ReadKey(m, BlockParts(m) \cup {"data"}, "owner", Key(m))
         /\ m.type \in ActsAtOnce => Content(m) = Nothing
<1>1. ASSUME m.type = "HELLO" PROVE Content(m) = ReadKey(m, AllParts(m), "key", Key(m))
  <2>1. PartsOf(m) = AllParts(m) \cup {"key"} /\ "owner" \notin PartsOf(m)
    <3>1. PartsOf(m) = {"Id", "Host", "Port", "Type", "key"}
      BY <1>1 DEF PartsOf
    <3> QED BY <1>1, <3>1, AllPartsAre
  <2> QED BY <2>1 DEF Content, ReadKey
<1>2. ASSUME PartsOf(m) \cap {"key", "owner"} = {}
      PROVE  Content(m) = Read(m, PartsOf(m))
  BY <1>2 DEF Content, Read
<1>3. ASSUME m.type = "INTRODUCE PEER"
      PROVE  Content(m) = Read(m, AllParts(m) \cup {"id"})
  <2>1. PartsOf(m) = {"Host", "Port", "Layer", "id"}
    BY <1>3 DEF PartsOf
  <2> QED BY <1>2, <1>3, <2>1, AllPartsAre
<1>4. ASSUME m.type = "PROVE IDENTITY" PROVE Content(m) = Read(m, {"text"})
  <2>1. PartsOf(m) = {"text"}
    BY <1>4 DEF PartsOf
  <2> QED BY <1>2, <2>1
<1>5. ASSUME m.type = "VERIFY IDENTITY" PROVE Content(m) = Read(m, {"signature"})
  <2>1. PartsOf(m) = {"signature"}
    BY <1>5 DEF PartsOf
  <2> QED BY <1>2, <2>1
<1>6. ASSUME HasBlock(m)
      PROVE  Content(m) = ReadKey(m, BlockParts(m) \cup {"data"}, "owner", Key(m))
  <2>1. PartsOf(m) = BlockParts(m) \cup {"owner", "data"} /\ "key" \notin PartsOf(m)
    <3>1. CASE m.type = "STORE BLOCK"
      <4>1. PartsOf(m) = {"Code", "Name", "Occurrence", "Size", "signature", "owner",
                          "data"}
        BY <3>1 DEF PartsOf
      <4> QED BY <3>1, <4>1, AllPartsAre DEF BlockParts
    <3>2. CASE m.type = "DELIVER BLOCK" /\ m.success
      <4>1. PartsOf(m) = {"Code", "Name", "Occurrence", "Size", "Success",
                          "signature", "owner", "data"}
        BY <3>2 DEF PartsOf
      <4> QED BY <3>2, <4>1, AllPartsAre DEF BlockParts
    <3> QED BY <1>6, <3>1, <3>2 DEF HasBlock
  <2> QED BY <2>1 DEF Content, ReadKey
<1>7. ASSUME m.type \in ActsAtOnce PROVE Content(m) = Nothing
  <2>1. PartsOf(m) = {}
    BY <1>7 DEF PartsOf, ActsAtOnce
  <2> QED BY <2>1 DEF Content, Nothing
<1>8. ASSUME m.type \in Fielded \ {"HELLO", "INTRODUCE PEER"}, ~ HasBlock(m)
      PROVE  Content(m) = Read(m, AllParts(m))
  <2>1. CASE m.type \in {"SET CODE", "GET CODE", "LOAD BLOCK"}
    <3>1. PartsOf(m) = {"Code"}
      BY <2>1 DEF PartsOf
    <3> QED BY <1>2, <2>1, <3>1, AllPartsAre
  <2>2. CASE m.type = "CONNECT IN"
    <3>1. PartsOf(m) = {"Code", "Layer"}
      BY <2>2 DEF PartsOf
    <3> QED BY <1>2, <2>2, <3>1, AllPartsAre
  <2>3. CASE m.type = "STORED BLOCK"
    <3>1. PartsOf(m) = {"Code", "Name", "Occurrence", "Owner", "Success"}
      BY <2>3 DEF PartsOf
    <3> QED BY <1>2, <2>3, <3>1, AllPartsAre
  <2>4. CASE m.type = "DELIVER BLOCK" /\ ~ m.success
    <3>1. PartsOf(m) = {"Code", "Success"}
      BY <2>4 DEF PartsOf
    <3> QED BY <1>2, <2>4, <3>1, AllPartsAre
  <2> QED BY <1>8, <2>1, <2>2, <2>3, <2>4 DEF Fielded, HasBlock
<1> QED BY <1>1, <1>3, <1>4, <1>5, <1>6, <1>7, <1>8

-----------------------------------------------------------------------------
\* What a step may lead to: the message is read on, it has been acted on, the
\* connection is closed, or a GET CODE is refused.
Stays == open' = open /\ acted' = acted /\ refused' = refused
Completes(m, s) ==
  /\ open' = open /\ refused' = refused
  /\ acted' = Append(acted, Entry(m)) /\ message' = None /\ coming' = s
Ends == open' = FALSE /\ acted' = acted
Refuses(s) ==
  /\ open' = open /\ acted' = acted /\ refused' = TRUE
  /\ message' = message /\ state' = state /\ read' = read /\ coming' = s

Outcome(m, s) ==
  /\ bytes' \in Nat
  /\ \/ Stays /\ Reading(m, s)'
     \/ Completes(m, s)
     \/ Ends
     \/ /\ message = m.type /\ m.type = "GET CODE" /\ state = 0 /\ read = "string"
        /\ Refuses(s)

LEMMA EndedCompletes ==
  ASSUME NEW m, NEW s, NEW c, message = m.type, Tail(coming) = s, c = Content(m),
         Ended(message, c)
  PROVE  Completes(m, s)
BY DEF Ended, Took, Completes, Entry

\* The key of HELLO.
LEMMA HelloStep ==
  ASSUME NEW m \in Message, NEW s \in Seq(Item), Next, bytes \in Nat,
         message = m.type, InHello(m, s)
  PROVE  Outcome(m, s)
<1> DEFINE r1 == Then(First, Then(Middle(m), Then(Final, s)))
           r2 == Then(Middle(m), Then(Final, s))
           r3 == Then(Final, s)
<1>1. /\ First \in Item /\ Middle(m) \in Item /\ Final \in Item
      /\ r1 \in Seq(Item) /\ r2 \in Seq(Item) /\ r3 \in Seq(Item)
  BY ItemTypes, ThenParts
<1>2. FeedHello /\ m.type = "HELLO" /\ read = "string"
  BY FeedOfKind DEF InHello, Message
<1>3. CASE state = 1 /\ got = Read(m, AllParts(m)) /\ coming = r1
  <2>1. NextItem = First /\ Tail(coming) = r2
    BY <1>1, <1>3, Seen
  <2>2. WantsLine(2, With("key", <<First>>))
    <3>1. state # 0 /\ state # 2
      BY <1>3
    <3>2. NextItem = Text("BEGIN") /\ NextItem # Blank
      BY <2>1, ItemForms, Zenon
    <3>3. WantsLine(2, With("key", <<NextItem>>))
      BY <1>2, <3>1, <3>2, Zenon DEF FeedHello, GetsBlank
    <3> QED BY <2>1, <3>3
  <2>3. With("key", <<First>>) = ReadKey(m, AllParts(m), "key", <<First>>)
    BY <1>3, ReadMore
  <2>4. Stays /\ Reading(m, s)' /\ bytes' = bytes
    BY <1>2, <2>1, <2>2, <2>3 DEF WantsLine, Took, Stays, Reading, InHello
  <2> QED BY <2>4 DEF Outcome
<1>4. CASE /\ state = 2 /\ got = ReadKey(m, AllParts(m), "key", <<First>>)
           /\ coming = r2
  <2>1. NextItem = Middle(m) /\ Tail(coming) = r3
    BY <1>1, <1>4, Seen
  <2>2. WantsLine(2, WithLine("key"))
    <3>1. state # 0 /\ state # 1
      BY <1>4
    <3>2. NextItem # Text("END")
      BY <2>1, ItemForms, Zenon
    <3> QED BY <1>2, <3>1, <3>2, Zenon DEF FeedHello
  <2>3. WithLine("key") = ReadKey(m, AllParts(m), "key", <<First, Middle(m)>>)
    <3>1. got["key"] = <<First>>
      BY <1>4, ReadKeyMore
    <3>2. WithLine("key") = With("key", <<First, Middle(m)>>)
      BY <2>1, <3>1, LinesOfKey DEF WithLine
    <3> DEFINE k == <<First, Middle(m)>>
    <3>3. With("key", k) = ReadKey(m, AllParts(m), "key", k)
      <4> HIDE DEF k
      <4> QED BY <1>4, ReadKeyMore
    <3> QED BY <3>2, <3>3
  <2>4. Stays /\ Reading(m, s)' /\ bytes' = bytes
    BY <1>2, <2>1, <2>2, <2>3 DEF WantsLine, Took, Stays, Reading, InHello
  <2> QED BY <2>4 DEF Outcome
<1>5. CASE /\ state = 2 /\ got = ReadKey(m, AllParts(m), "key", <<First, Middle(m)>>)
           /\ coming = r3
  <2>1. NextItem = Final /\ Tail(coming) = s
    BY <1>1, <1>5, Seen
  <2>2. Ended(message, WithLine("key"))
    <3>1. state # 0 /\ state # 1
      BY <1>5
    <3>2. NextItem = Text("END")
      BY <2>1, ItemForms, Zenon
    <3> QED BY <1>2, <3>1, <3>2, Zenon DEF FeedHello
  <2>3. WithLine("key") = Content(m)
    <3>1. got["key"] = <<First, Middle(m)>>
      BY <1>5, ReadKeyMore
    <3>2. WithLine("key") = With("key", Key(m))
      BY <2>1, <3>1, LinesOfKey DEF WithLine
    <3>3. With("key", Key(m)) = ReadKey(m, AllParts(m), "key", Key(m))
      <4> DEFINE k == <<First, Middle(m)>>
      <4>1. got = ReadKey(m, AllParts(m), "key", k)
        BY <1>5
      <4> HIDE DEF k
      <4> QED BY <4>1, ReadKeyMore
    <3> QED BY <1>2, <3>2, <3>3, AllRead
  <2>4. Completes(m, s)
    BY <2>1, <2>2, <2>3, EndedCompletes
  <2>5. bytes' = bytes
    BY <2>2 DEF Ended
  <2> QED BY <2>4, <2>5 DEF Outcome
<1> QED BY <1>3, <1>4, <1>5 DEF InHello

LEMMA ProveIdentityStep ==
  ASSUME NEW m \in Message, NEW s \in Seq(Item), Next, bytes \in Nat,
         message = m.type, InProveIdentity(m, s)
  PROVE  Outcome(m, s)
<1>1. /\ Blank \in Item /\ ToSign(m) \in Item /\ Then(Blank, s) \in Seq(Item)
  BY ItemTypes, ThenParts
<1>2. FeedProveIdentity /\ m.type = "PROVE IDENTITY" /\ read = "string"
  BY FeedOfKind DEF InProveIdentity, Message
<1>3. CASE got = Nothing /\ coming = Then(ToSign(m), Then(Blank, s))
  <2>1. NextItem = ToSign(m) /\ Tail(coming) = Then(Blank, s)
    BY <1>1, <1>3, Seen
  <2>2. WantsLine(state, With("text", m.number))
    BY <1>2, <2>1, ItemForms DEF FeedProveIdentity, GetsBlank
  <2>3. With("text", m.number) = Read(m, {"text"})
    <3>1. got = Read(m, {})
      BY <1>3 DEF Read, Nothing
    <3>2. With("text", Value(m, "text")) = Read(m, {} \cup {"text"})
      BY <3>1, ReadMore
    <3> QED BY <3>2, ValueForms
  <2>4. Stays /\ Reading(m, s)' /\ bytes' = bytes
    BY <1>2, <2>1, <2>2, <2>3 DEF WantsLine, Took, Stays, Reading, InProveIdentity
  <2> QED BY <2>4 DEF Outcome
<1>4. CASE got = Read(m, {"text"}) /\ coming = Then(Blank, s)
  <2>1. NextItem = Blank /\ Tail(coming) = s
    BY <1>1, <1>4, Seen
  <2>2. Ended(message, got)
    BY <1>2, <2>1 DEF FeedProveIdentity
  <2>3. Completes(m, s)
    BY <1>2, <1>4, <2>1, <2>2, EndedCompletes, AllRead
  <2>4. bytes' = bytes
    BY <2>2 DEF Ended
  <2> QED BY <2>3, <2>4 DEF Outcome
<1> QED BY <1>3, <1>4 DEF InProveIdentity

LEMMA VerifyIdentityStep ==
  ASSUME NEW m \in Message, NEW s \in Seq(Item), Next, bytes \in Nat,
         message = m.type, InVerifyIdentity(m, s)
  PROVE  Outcome(m, s)
<1>1. FeedVerifyIdentity /\ m.type = "VERIFY IDENTITY" /\ got = Nothing
  BY FeedOfKind DEF InVerifyIdentity, Message
<1>2. NextItem = Signature(m) /\ Tail(coming) = s
  BY ItemTypes, Seen DEF InVerifyIdentity
<1>3. Ended(message, With("signature", m.number)) \/ Closed(TRUE)
  BY <1>1, <1>2, ItemForms DEF FeedVerifyIdentity
<1>4. With("signature", m.number) = Content(m)
  <2>1. got = Read(m, {})
    BY <1>1 DEF Read, Nothing
  <2>2. With("signature", Value(m, "signature")) = Read(m, {} \cup {"signature"})
    BY <2>1, ReadMore
  <2> QED BY <1>1, <2>2, ValueForms, AllRead
<1>5. CASE Ended(message, With("signature", m.number))
  BY <1>2, <1>4, <1>5, EndedCompletes DEF Outcome, Ended
<1>6. CASE Closed(TRUE)
  BY <1>6 DEF Closed, Ends, Outcome
<1> QED BY <1>3, <1>5, <1>6

LEMMA IntroduceStep ==
  ASSUME NEW m \in Message, NEW s \in Seq(Item), Next, bytes \in Nat,
         message = m.type, InIntroduce(m, s)
  PROVE  Outcome(m, s)
<1>1. /\ FeedIntroduce /\ m.type = "INTRODUCE PEER" /\ read = "bytes"
      /\ got = Read(m, AllParts(m))
  BY FeedOfKind DEF InIntroduce, Message
<1>2. NextItem = Id(m) /\ Tail(coming) = s
  BY ItemTypes, Seen DEF InIntroduce
<1>3. Ended(message, With("id", m.number))
  <2>1. ~ LineWanted
    BY <1>1, SessionAssumption DEF LineWanted, Type
  <2> QED BY <1>1, <1>2, <2>1, ItemForms DEF FeedIntroduce, FeedFields, GetsField,
                GetsText, GetsBlank, GetsLine
<1>4. With("id", m.number) = Content(m)
  <2>1. With("id", Value(m, "id")) = Read(m, AllParts(m) \cup {"id"})
    BY <1>1, ReadMore, ZenonT(30)
  <2> QED BY <1>1, <2>1, ValueForms, AllRead
<1> QED BY <1>2, <1>3, <1>4, EndedCompletes DEF Outcome, Ended

\* Behind its header, a block is fed to feed() of a block.
LEMMA FeedsBlock ==
  ASSUME NEW m \in Message, Next, message = m.type, HasBlock(m),
         state = 1 \/ (state = 0 /\ read = "bytes")
  PROVE  FeedBlock
<1>1. FeedStoreBlock \/ FeedDeliverBlock
  BY FeedOfKind DEF HasBlock, Message
<1>2. CASE state = 1
  <2>1. state # 0
    BY <1>2
  <2> QED BY <1>1, <2>1, Zenon DEF FeedStoreBlock, FeedDeliverBlock
<1>3. CASE read = "bytes"
  <2>1. message # None /\ read # "string"
    BY <1>3, SessionAssumption DEF Message
  <2>2. ~ GetsField /\ ~ GetsText /\ ~ GetsBlank
    BY <2>1 DEF LineWanted, GetsLine, GetsField, GetsText, GetsBlank
  <2> QED BY <1>1, <2>2, Zenon DEF FeedStoreBlock, FeedDeliverBlock, FeedFields
<1> QED BY <1>2, <1>3

LEMMA SignatureStep ==
  ASSUME NEW m \in Message, NEW s \in Seq(Item), Next, bytes \in Nat,
         message = m.type, InSignature(m, s)
  PROVE  Outcome(m, s)
<1> DEFINE P == AllParts(m)
           k == << >>
<1>1. /\ HasBlock(m) /\ state = 0 /\ read = "bytes"
      /\ got = ReadKey(m, P, "owner", k) /\ coming = Then(Signature(m), BlockKey(m, s))
  BY DEF InSignature
<1>2. FeedBlock
  BY <1>1, FeedsBlock
<1>3. NextItem = Signature(m) /\ Tail(coming) = BlockKey(m, s)
  BY <1>1, ItemTypes, BehindType, Seen
<1>4. WantsLine(1, With("signature", m.number))
  <2>1. state # 1
    BY <1>1
  <2>2. NextItem.value = m.number
    BY <1>3, ItemForms
  <2>3. WantsLine(1, With("signature", NextItem.value))
    BY <1>2, <2>1, Zenon DEF FeedBlock
  <2> QED BY <2>2, <2>3
<1>5. With("signature", m.number) = ReadKey(m, BlockParts(m), "owner", k)
  <2> HIDE DEF P, k
  <2>1. With("signature", Value(m, "signature")) =
          ReadKey(m, P \cup {"signature"}, "owner", k)
    BY <1>1, ReadKeyPart
  <2> QED BY <2>1, ValueForms DEF BlockParts, P
<1>6. Stays /\ Reading(m, s)' /\ bytes' = bytes
  BY <1>1, <1>3, <1>4, <1>5 DEF WantsLine, Took, Stays, Reading, InOwner
<1> QED BY <1>6 DEF Outcome

\* One line of the key of the owner.
LEMMA OwnerLine ==
  ASSUME NEW m \in Message, NEW s \in Seq(Item), Next, bytes \in Nat,
         message = m.type, HasBlock(m), state = 1, read = "string",
         NEW x \in Item, x.kind = "line", x # Blank, NEW r \in Seq(Item),
         coming = Then(x, r), NEW k, got = ReadKey(m, BlockParts(m), "owner", k)
  PROVE  /\ got' = ReadKey(m, BlockParts(m), "owner", Append(k, x))
         /\ message' = m.type /\ state' = 1 /\ read' = "string" /\ coming' = r
         /\ Stays /\ bytes' = bytes
<1>1. NextItem = x /\ Tail(coming) = r
  BY Seen
<1>2. WantsLine(1, WithLine("owner"))
  <2>1. FeedBlock
    BY FeedsBlock
  <2>2. state # 0
    OBVIOUS
  <2>3. ~ GetsBlank /\ ~ GetsBytes
    BY <1>1 DEF GetsBlank, GetsBytes, LineWanted
  <2> QED BY <2>1, <2>2, <2>3, Zenon DEF FeedBlock
<1>3. got["owner"] = k /\ \A l : With("owner", l) = ReadKey(m, BlockParts(m), "owner", l)
  BY ReadKeyMore
<1>4. WithLine("owner") = ReadKey(m, BlockParts(m), "owner", Append(k, x))
  BY <1>1, <1>3 DEF WithLine
<1> QED BY <1>1, <1>2, <1>4 DEF WantsLine, Took, Stays

LEMMA OwnerStep ==
  ASSUME NEW m \in Message, NEW s \in Seq(Item), Next, bytes \in Nat,
         message = m.type, InOwner(m, s)
  PROVE  Outcome(m, s)
<1> DEFINE P == BlockParts(m)
           r1 == Then(Data(m), s)
           r2 == Then(Blank, r1)
           r3 == Then(Final, r2)
           r4 == Then(Middle(m), r3)
<1>1. /\ First \in Item /\ Middle(m) \in Item /\ Final \in Item /\ Blank \in Item
      /\ r1 \in Seq(Item) /\ r2 \in Seq(Item) /\ r3 \in Seq(Item) /\ r4 \in Seq(Item)
      /\ BlockKey(m, s) = Then(First, r4)
  BY ItemTypes, ThenParts DEF BlockKey
<1>2. HasBlock(m) /\ state = 1 /\ read = "string"
  BY DEF InOwner
<1>3. /\ First.kind = "line" /\ First # Blank
      /\ Middle(m).kind = "line" /\ Middle(m) # Blank
      /\ Final.kind = "line" /\ Final # Blank
  BY ItemForms
<1> HIDE DEF P, r1, r2, r3, r4
<1>4. CASE got = ReadKey(m, P, "owner", << >>) /\ coming = BlockKey(m, s)
  <2> DEFINE k == << >>
  <2>1. got = ReadKey(m, P, "owner", k) /\ coming = Then(First, r4)
    BY <1>1, <1>4
  <2> HIDE DEF k
  <2>2. /\ got' = ReadKey(m, P, "owner", Append(k, First))
        /\ message' = m.type /\ state' = 1 /\ read' = "string" /\ coming' = r4
        /\ Stays /\ bytes' = bytes
    BY <1>1, <1>2, <1>3, <2>1, OwnerLine DEF P
  <2>3. Append(k, First) = <<First>>
    BY LinesOfKey DEF k
  <2>4. InOwner(m, s)'
    BY <1>2, <2>2, <2>3 DEF InOwner, P, r1, r2, r3, r4
  <2> QED BY <2>2, <2>4 DEF Outcome, Reading
<1>5. CASE got = ReadKey(m, P, "owner", <<First>>) /\ coming = r4
  <2> DEFINE k == <<First>>
  <2>1. got = ReadKey(m, P, "owner", k) /\ coming = Then(Middle(m), r3)
    BY <1>5 DEF r4
  <2> HIDE DEF k
  <2>2. /\ got' = ReadKey(m, P, "owner", Append(k, Middle(m)))
        /\ message' = m.type /\ state' = 1 /\ read' = "string" /\ coming' = r3
        /\ Stays /\ bytes' = bytes
    BY <1>1, <1>2, <1>3, <2>1, OwnerLine DEF P
  <2>3. Append(k, Middle(m)) = <<First, Middle(m)>>
    BY LinesOfKey DEF k
  <2>4. InOwner(m, s)'
    BY <1>2, <2>2, <2>3 DEF InOwner, P, r1, r2, r3
  <2> QED BY <2>2, <2>4 DEF Outcome, Reading
<1>6. CASE got = ReadKey(m, P, "owner", <<First, Middle(m)>>) /\ coming = r3
  <2> DEFINE k == <<First, Middle(m)>>
  <2>1. got = ReadKey(m, P, "owner", k) /\ coming = Then(Final, r2)
    BY <1>6 DEF r3
  <2> HIDE DEF k
  <2>2. /\ got' = ReadKey(m, P, "owner", Append(k, Final))
        /\ message' = m.type /\ state' = 1 /\ read' = "string" /\ coming' = r2
        /\ Stays /\ bytes' = bytes
    BY <1>1, <1>2, <1>3, <2>1, OwnerLine DEF P
  <2>3. Append(k, Final) = Key(m)
    BY LinesOfKey DEF k
  <2>4. InOwner(m, s)'
    BY <1>2, <2>2, <2>3 DEF InOwner, P, r1, r2
  <2> QED BY <2>2, <2>4 DEF Outcome, Reading
<1>7. CASE got = ReadKey(m, P, "owner", Key(m)) /\ coming = r2
  <2>1. NextItem = Blank /\ Tail(coming) = r1
    BY <1>1, <1>7, Seen DEF r2
  <2>2. WantsBytes(DataSize, got)
    <3>1. FeedBlock
      BY <1>2, FeedsBlock
    <3>2. state # 0
      BY <1>2
    <3>3. ~ GetsBytes
      BY <1>2 DEF GetsBytes, LineWanted
    <3> QED BY <2>1, <3>1, <3>2, <3>3, Zenon DEF FeedBlock
  <2>3. DataSize = m.size
    <3> DEFINE k == Key(m)
    <3>1. got = ReadKey(m, P, "owner", k)
      BY <1>7
    <3> HIDE DEF k
    <3>2. \A n \in P : n # "owner" => got[n] = Value(m, n)
      BY <3>1, ReadKeyMore
    <3>3. "Size" \in P
      BY <1>2, AllPartsAre DEF P, BlockParts, HasBlock
    <3> QED BY <3>2, <3>3, ValueForms DEF DataSize
  <2>4. m.size \in Nat
    BY DEF Message
  <2>5. Stays /\ InData(m, s)' /\ message' = m.type /\ bytes' = m.size
    BY <1>2, <1>7, <2>1, <2>2, <2>3 DEF WantsBytes, Took, Stays, InData, P, r1
  <2> QED BY <2>4, <2>5 DEF Outcome, Reading
<1> QED BY <1>4, <1>5, <1>6, <1>7 DEF InOwner, P, r1, r2, r3, r4

LEMMA DataStep ==
  ASSUME NEW m \in Message, NEW s \in Seq(Item), Next, bytes \in Nat,
         message = m.type, InData(m, s)
  PROVE  Outcome(m, s)
<1> DEFINE P == BlockParts(m)
           k == Key(m)
<1>1. /\ HasBlock(m) /\ state = 1 /\ read = "bytes"
      /\ got = ReadKey(m, P, "owner", k) /\ coming = Then(Data(m), s)
  BY DEF InData
<1>2. FeedBlock
  BY <1>1, FeedsBlock
<1>3. NextItem = Data(m) /\ Tail(coming) = s
  BY <1>1, ItemTypes, Seen
<1>4. Ended(message, With("data", m.number)) \/ Closed(TRUE)
  <2>1. state # 0 /\ message # None /\ read # "string"
    BY <1>1, SessionAssumption DEF Message
  <2>2. ~ GetsLine /\ ~ GetsBlank
    BY <2>1 DEF LineWanted, GetsLine, GetsBlank
  <2>3. NextItem.value = m.number
    BY <1>3, ItemForms
  <2>4. Ended(message, With("data", NextItem.value)) \/ Closed(TRUE)
    BY <1>2, <2>1, <2>2, Zenon DEF FeedBlock
  <2> QED BY <2>3, <2>4
<1>5. With("data", m.number) = Content(m)
  <2> HIDE DEF P, k
  <2>1. With("data", Value(m, "data")) = ReadKey(m, P \cup {"data"}, "owner", k)
    BY <1>1, ReadKeyPart
  <2> QED BY <1>1, <2>1, ValueForms, AllRead DEF P, k
<1>6. CASE Ended(message, With("data", m.number))
  BY <1>3, <1>5, <1>6, EndedCompletes DEF Outcome, Ended
<1>7. CASE Closed(TRUE)
  BY <1>7 DEF Outcome, Closed, Ends
<1> QED BY <1>4, <1>6, <1>7

-----------------------------------------------------------------------------
\* A field of the header.
LEMMA FieldFed ==
  ASSUME NEW m \in Message, m.type \in Fielded, Next, message = m.type,
         state = 0, read = "string", NEW name \in FieldName, name \in AllParts(m),
         NEW v, NextItem = Field(name, v)
  PROVE  WantsLine(state, With(name, v)) \/ Closed(TRUE)
<1>1. /\ NextItem.kind = "line" /\ NextItem.name = name /\ NextItem.value = v
      /\ name # "" /\ NextItem # Blank
  BY FieldForm
<1>2. ~ GetsText /\ ~ GetsBlank /\ ~ GetsBytes
  BY <1>1 DEF GetsText, GetsBlank, GetsBytes, LineWanted
<1>3. state # 1 /\ state # 2
  OBVIOUS
<1>4. ASSUME NEW names, FeedFields(names), name \in names
      PROVE  WantsLine(state, With(name, v))
  <2>1. WantsLine(state, IF NextItem.name \in names
                         THEN With(NextItem.name, NextItem.value) ELSE got)
    BY <1>2, <1>4, Zenon DEF FeedFields
  <2>2. (IF NextItem.name \in names
         THEN With(NextItem.name, NextItem.value) ELSE got) = With(name, v)
    BY <1>1, <1>4
  <2> QED BY <2>1, <2>2
<1>5. ASSUME NEW kind, NEW names, FeedUpToBlank(kind, names)
      PROVE  FeedFields(names)
  BY <1>2, <1>5, Zenon DEF FeedUpToBlank
<1>6. ~ FeedBlock
  BY <1>2, <1>3, Zenon DEF FeedBlock
<1>7. CASE m.type = "HELLO"
  <2>1. FeedHello
    BY <1>7, FeedOfKind DEF Message
  <2>2. FeedFields({"Id", "Host", "Port", "Type"}) \/ Closed(TRUE)
    BY <1>2, <1>3, <2>1, Zenon DEF FeedHello
  <2>3. name \in {"Id", "Host", "Port", "Type"}
    BY <1>7, AllPartsAre
  <2> QED BY <1>4, <2>2, <2>3
<1>8. CASE m.type \in {"SET CODE", "GET CODE", "LOAD BLOCK"}
  <2>1. FeedFields({"Code"})
    <3>1. FeedSetCode \/ FeedGetCode \/ FeedLoadBlock
      BY <1>8, FeedOfKind DEF Message
    <3> QED BY <1>2, <1>5, <3>1, Zenon DEF FeedSetCode, FeedGetCode, FeedLoadBlock
  <2>2. name \in {"Code"}
    BY <1>8, AllPartsAre
  <2> QED BY <1>4, <2>1, <2>2
<1>9. CASE m.type = "INTRODUCE PEER"
  <2>1. FeedIntroduce
    BY <1>9, FeedOfKind DEF Message
  <2>2. FeedFields({"Host", "Port", "Layer"})
    BY <1>2, <2>1, Zenon DEF FeedIntroduce
  <2>3. name \in {"Host", "Port", "Layer"}
    BY <1>9, AllPartsAre
  <2> QED BY <1>4, <2>2, <2>3
<1>10. CASE m.type = "CONNECT IN"
  <2>1. FeedConnect
    BY <1>10, FeedOfKind DEF Message
  <2>2. FeedFields({"Code", "Layer"})
    BY <1>5, <2>1, Zenon DEF FeedConnect
  <2>3. name \in {"Code", "Layer"}
    BY <1>10, AllPartsAre
  <2> QED BY <1>4, <2>2, <2>3
<1>11. CASE m.type = "STORE BLOCK"
  <2>1. FeedStoreBlock
    BY <1>11, FeedOfKind DEF Message
  <2>2. FeedFields({"Code", "Name", "Occurrence", "Size"})
    BY <1>2, <1>6, <2>1, Zenon DEF FeedStoreBlock
  <2>3. name \in {"Code", "Name", "Occurrence", "Size"}
    BY <1>11, AllPartsAre
  <2> QED BY <1>4, <2>2, <2>3
<1>12. CASE m.type = "STORED BLOCK"
  <2>1. FeedStoredBlock
    BY <1>12, FeedOfKind DEF Message
  <2>2. FeedFields({"Code", "Name", "Occurrence", "Owner", "Success"})
    BY <1>5, <2>1, Zenon DEF FeedStoredBlock
  <2>3. name \in {"Code", "Name", "Occurrence", "Owner", "Success"}
    BY <1>12, AllPartsAre
  <2> QED BY <1>4, <2>2, <2>3
<1>13. CASE m.type = "DELIVER BLOCK"
  <2>1. FeedDeliverBlock
    BY <1>13, FeedOfKind DEF Message
  <2>2. FeedFields({"Code", "Name", "Occurrence", "Size", "Success"})
    BY <1>2, <1>6, <2>1, Zenon DEF FeedDeliverBlock
  <2>3. name \in {"Code", "Name", "Occurrence", "Size", "Success"}
    BY <1>13, AllPartsAre
  <2> QED BY <1>4, <2>2, <2>3
<1> QED BY <1>7, <1>8, <1>9, <1>10, <1>11, <1>12, <1>13 DEF Fielded

LEMMA FieldStep ==
  ASSUME NEW m \in Message, NEW s \in Seq(Item), Next, bytes \in Nat,
         message = m.type, m.type \in Fielded, state = 0, read = "string",
         NEW j \in 0 .. Len(Names(m)) - 1, coming = Header(m, j, s),
         got = Read(m, HeaderParts(m, j))
  PROVE  Outcome(m, s)
<1> DEFINE name == Names(m)[j + 1]
           v == Value(m, name)
           r == Header(m, j + 1, s)
           n == Len(Names(m))
<1>1. name \in FieldName /\ Field(name, v) \in Item /\ coming = Then(Field(name, v), r)
  BY HeaderNext
<1>2. n \in Nat /\ j + 1 \in 1 .. n /\ j \in Nat
  BY NamesParts
<1>3. r \in Seq(Item)
  <2> DEFINE i == j + 1
  <2>1. i \in 0 .. Len(Names(m))
    BY <1>2
  <2> HIDE DEF i
  <2>2. Header(m, i, s) \in Seq(Item)
    BY <2>1, HeaderType
  <2> QED BY <2>2 DEF i
<1>4. name \in AllParts(m)
  BY <1>2 DEF AllParts, HeaderParts
<1>5. HeaderParts(m, j + 1) = HeaderParts(m, j) \cup {name}
  BY <1>2, HeaderGrows
<1> HIDE DEF name, v, r, n
<1>6. NextItem = Field(name, v) /\ Tail(coming) = r
  BY <1>1, <1>3, Seen
<1>7. WantsLine(state, With(name, v)) \/ Closed(TRUE)
  BY <1>1, <1>4, <1>6, FieldFed
<1>8. With(name, v) = Read(m, HeaderParts(m, j + 1))
  BY <1>5, ReadMore DEF v
<1>9. CASE WantsLine(state, With(name, v))
  <2>1. /\ state' = 0 /\ read' = "string" /\ message' = message /\ coming' = r
        /\ got' = Read(m, HeaderParts(m, j + 1)) /\ Stays /\ bytes' = bytes
    BY <1>6, <1>8, <1>9 DEF WantsLine, Took, Stays
  <2>2. j + 1 \in 0 .. Len(Names(m))
    BY <1>2 DEF n
  <2>3. InHeader(m, s)'
    BY <2>1, <2>2 DEF InHeader, r
  <2> QED BY <2>1, <2>3 DEF Outcome, Reading
<1>10. CASE Closed(TRUE)
  BY <1>10 DEF Closed, Ends, Outcome
<1> QED BY <1>7, <1>9, <1>10

\* The blank line behind the header.
LEMMA BlankStep ==
  ASSUME NEW m \in Message, NEW s \in Seq(Item), Next, bytes \in Nat,
         message = m.type, m.type \in Fielded, state = 0, read = "string",
         coming = Behind(m, s), got = Read(m, AllParts(m))
  PROVE  Outcome(m, s)
<1>1. ASSUME NEW r \in Seq(Item), coming = Then(Blank, r)
      PROVE  NextItem = Blank /\ Tail(coming) = r
  BY <1>1, ItemTypes, Seen
<1>2. /\ Blank \in Item /\ First \in Item /\ Middle(m) \in Item /\ Final \in Item
      /\ Id(m) \in Item /\ Signature(m) \in Item
      /\ \A x \in Item, q \in Seq(Item) : Then(x, q) \in Seq(Item)
      /\ BlockKey(m, s) \in Seq(Item)
  BY ItemTypes, ThenParts, BehindType
<1>3. ASSUME NextItem = Blank
      PROVE  ~ GetsField /\ ~ GetsText /\ ~ GetsBytes
  BY <1>3, ItemForms DEF GetsField, GetsText, GetsBytes, LineWanted
<1>4. state # 1 /\ state # 2
  OBVIOUS
<1>5. ASSUME NextItem = Blank PROVE ~ FeedBlock
  BY <1>3, <1>4, <1>5, Zenon DEF FeedBlock
<1>6. ASSUME NextItem = Blank, NEW names PROVE ~ FeedFields(names)
  BY <1>3, <1>6, Zenon DEF FeedFields
<1>7. CASE m.type = "HELLO"
  <2> DEFINE r == Then(First, Then(Middle(m), Then(Final, s)))
  <2>1. coming = Then(Blank, r) /\ r \in Seq(Item)
    BY <1>2, <1>7 DEF Behind, HasBlock
  <2>2. NextItem = Blank /\ Tail(coming) = r
    BY <1>1, <2>1
  <2>3. WantsLine(1, got)
    <3>1. FeedHello
      BY <1>7, FeedOfKind DEF Message
    <3> QED BY <1>3, <1>4, <1>6, <2>2, <3>1, Zenon DEF FeedHello
  <2>4. Stays /\ InHello(m, s)' /\ message' = message /\ bytes' = bytes
    BY <1>7, <2>2, <2>3 DEF WantsLine, Took, Stays, InHello
  <2> QED BY <2>4 DEF Outcome, Reading
<1>8. CASE m.type = "INTRODUCE PEER"
  <2> DEFINE r == Then(Id(m), s)
  <2>1. coming = Then(Blank, r) /\ r \in Seq(Item)
    BY <1>2, <1>8 DEF Behind, HasBlock
  <2>2. NextItem = Blank /\ Tail(coming) = r
    BY <1>1, <2>1
  <2>3. WantsBytes(IdSize, got)
    <3>1. FeedIntroduce
      BY <1>8, FeedOfKind DEF Message
    <3> QED BY <1>3, <1>6, <2>2, <3>1, Zenon DEF FeedIntroduce
  <2>4. Stays /\ InIntroduce(m, s)' /\ message' = message
    BY <1>8, <2>2, <2>3 DEF WantsBytes, Took, Stays, InIntroduce
  <2>5. bytes' \in Nat
    BY <2>3 DEF WantsBytes, IdSize
  <2> QED BY <2>4, <2>5 DEF Outcome, Reading
<1>9. CASE HasBlock(m)
  <2> DEFINE r == Then(Signature(m), BlockKey(m, s))
  <2>1. coming = Then(Blank, r) /\ r \in Seq(Item)
    BY <1>2, <1>9 DEF Behind, HasBlock
  <2>2. NextItem = Blank /\ Tail(coming) = r
    BY <1>1, <2>1
  <2>3. WantsBytes(SignatureSize, With("owner", << >>))
    <3>1. CASE m.type = "STORE BLOCK"
      <4>1. FeedStoreBlock
        BY <3>1, FeedOfKind DEF Message
      <4> QED BY <1>5, <1>6, <2>2, <4>1, Zenon DEF FeedStoreBlock
    <3>2. CASE m.type = "DELIVER BLOCK" /\ m.success
      <4>1. FeedDeliverBlock
        BY <3>2, FeedOfKind DEF Message
      <4>2. got["Success"] # 0
        <5>1. "Success" \in AllParts(m)
          BY <3>2, AllPartsAre
        <5>2. got["Success"] = Value(m, "Success")
          BY <5>1, ReadMore
        <5>3. Value(m, "Success") = 1
          BY <3>2, ValueForms
        <5> QED BY <5>2, <5>3
      <4> QED BY <1>5, <1>6, <2>2, <4>1, <4>2, Zenon DEF FeedDeliverBlock
    <3> QED BY <1>9, <3>1, <3>2 DEF HasBlock
  <2>4. With("owner", << >>) = ReadKey(m, AllParts(m), "owner", << >>)
    BY ReadMore
  <2>5. Stays /\ InSignature(m, s)' /\ message' = message
    BY <1>9, <2>2, <2>3, <2>4 DEF WantsBytes, Took, Stays, InSignature
  <2>6. bytes' \in Nat
    BY <2>3 DEF WantsBytes, SignatureSize
  <2> QED BY <2>5, <2>6 DEF Outcome, Reading
<1>10. CASE m.type \notin {"HELLO", "INTRODUCE PEER"} /\ ~ HasBlock(m)
  <2>1. coming = Then(Blank, s)
    BY <1>10 DEF Behind
  <2>2. NextItem = Blank /\ Tail(coming) = s
    BY <1>1, <2>1
  <2>3. \/ Ended(message, got)
        \/ /\ m.type = "GET CODE" /\ Took /\ refused' = TRUE
           /\ UNCHANGED <<message, state, got, read, bytes, acted, open>>
    <3>1. ASSUME NEW kind, NEW names, FeedUpToBlank(kind, names)
          PROVE  Ended(message, got)
      BY <1>6, <2>2, <3>1, Zenon DEF FeedUpToBlank
    <3>2. CASE m.type = "GET CODE"
      <4>1. FeedGetCode
        BY <3>2, FeedOfKind DEF Message
      <4> QED BY <3>1, <3>2, <4>1, Zenon DEF FeedGetCode
    <3>3. CASE m.type \in {"SET CODE", "CONNECT IN", "LOAD BLOCK", "STORED BLOCK"}
      <4>1. FeedSetCode \/ FeedConnect \/ FeedLoadBlock \/ FeedStoredBlock
        BY <3>3, FeedOfKind DEF Message
      <4> QED BY <3>1, <4>1, Zenon DEF FeedSetCode, FeedConnect, FeedLoadBlock,
                  FeedStoredBlock
    <3>4. CASE m.type = "DELIVER BLOCK" /\ ~ m.success
      <4>1. FeedDeliverBlock
        BY <3>4, FeedOfKind DEF Message
      <4>2. got["Success"] # 1
        <5>1. "Success" \in AllParts(m)
          BY <3>4, AllPartsAre
        <5>2. got["Success"] = Value(m, "Success")
          BY <5>1, ReadMore
        <5>3. Value(m, "Success") = 0
          BY <3>4, ValueForms
        <5> QED BY <5>2, <5>3
      <4> QED BY <1>5, <1>6, <2>2, <4>1, <4>2, Zenon DEF FeedDeliverBlock
    <3> QED BY <1>10, <3>2, <3>3, <3>4 DEF Fielded, HasBlock
  <2>4. CASE Ended(message, got)
    <3>1. Content(m) = Read(m, AllParts(m))
      BY <1>10, AllRead
    <3>2. Completes(m, s)
      BY <2>2, <2>4, <3>1, EndedCompletes
    <3> QED BY <2>4, <3>2 DEF Outcome, Ended
  <2>5. CASE /\ m.type = "GET CODE" /\ Took /\ refused' = TRUE
             /\ UNCHANGED <<message, state, got, read, bytes, acted, open>>
    BY <2>2, <2>5 DEF Took, Refuses, Outcome
  <2> QED BY <2>3, <2>4, <2>5
<1> QED BY <1>7, <1>8, <1>9, <1>10

LEMMA HeaderStep ==
  ASSUME NEW m \in Message, NEW s \in Seq(Item), Next, bytes \in Nat,
         message = m.type, InHeader(m, s)
  PROVE  Outcome(m, s)
<1>1. PICK j \in 0 .. Len(Names(m)) :
        /\ m.type \in Fielded /\ state = 0 /\ read = "string"
        /\ coming = Header(m, j, s)
        /\ got = Read(m, HeaderParts(m, j))
  BY DEF InHeader
<1>2. CASE j = Len(Names(m))
  <2>1. coming = Behind(m, s) /\ got = Read(m, AllParts(m))
    BY <1>1, <1>2, HeaderEnd DEF AllParts
  <2> QED BY <1>1, <2>1, BlankStep
<1>3. CASE j # Len(Names(m))
  <2>1. Len(Names(m)) \in Nat
    BY NamesParts
  <2>2. j \in 0 .. Len(Names(m)) - 1
    BY <1>3, <2>1
  <2> QED BY <1>1, <2>2, FieldStep
<1> QED BY <1>2, <1>3

\* Any step within a message.
LEMMA ReadingStep ==
  ASSUME NEW m \in Message, NEW s \in Seq(Item), Next, bytes \in Nat, Reading(m, s)
  PROVE  Outcome(m, s)
BY HeaderStep, HelloStep, ProveIdentityStep, VerifyIdentityStep, IntroduceStep,
   SignatureStep, OwnerStep, DataStep DEF Reading

-----------------------------------------------------------------------------
\* The first line of a message.
LEMMA FirstLineStep ==
  ASSUME NEW m \in Message, NEW s \in Seq(Item), Next, bytes \in Nat,
         ~ refused, message = None, coming = Then(Text(m.type), Rest(m, s))
  PROVE  Outcome(m, s)
<1> DEFINE kind == m.type
<1>1. NextItem = Text(kind) /\ Tail(coming) = Rest(m, s)
  BY ItemTypes, RestType, Seen
<1>2. kind \in Type /\ NextItem.text = kind
  BY <1>1, TextForm DEF Message
<1>3. \/ kind \in ActsAtOnce /\ Ended(kind, Nothing)
      \/ /\ kind = "VERIFY IDENTITY"
         /\ Created(kind)
         /\ read' = "bytes" /\ bytes' = SignatureSize
      \/ /\ kind \in Type \ (ActsAtOnce \cup {"VERIFY IDENTITY"})
         /\ Created(kind)
         /\ read' = "string" /\ UNCHANGED bytes
  <2>1. FirstLine
    <3>1. None \notin Type
      BY SessionAssumption
    <3> QED BY <3>1 DEF Next, FeedHello, FeedProveIdentity, FeedVerifyIdentity,
          FeedSetCode, FeedGetCode, FeedIntroduce, FeedConnect, FeedStoreBlock,
          FeedLoadBlock, FeedStoredBlock, FeedDeliverBlock, FeedUpToBlank, Type
  <2> HIDE DEF kind
  <2> QED BY <1>2, <2>1, Zenon DEF FirstLine
<1>4. CASE kind \in ActsAtOnce /\ Ended(kind, Nothing)
  <2>1. Rest(m, s) = s
    BY <1>4 DEF Rest, Fielded, ActsAtOnce
  <2>2. Content(m) = Nothing
    BY <1>4, AllRead
  <2>3. Completes(m, s) /\ bytes' = bytes
    BY <1>1, <1>4, <2>1, <2>2 DEF Ended, Took, Completes, Entry
  <2> QED BY <2>3 DEF Outcome
<1>5. CASE /\ kind = "VERIFY IDENTITY"
           /\ Created(kind)
           /\ read' = "bytes" /\ bytes' = SignatureSize
  <2>1. Rest(m, s) = Then(Signature(m), s)
    BY <1>5 DEF Rest, Fielded
  <2>2. Stays /\ InVerifyIdentity(m, s)' /\ message' = m.type
    BY <1>1, <1>5, <2>1 DEF Created, Took, Stays, InVerifyIdentity
  <2>3. bytes' \in Nat
    <3>1. bytes' = SignatureSize
      BY <1>5
    <3> QED BY <3>1 DEF SignatureSize
  <2> QED BY <2>2, <2>3 DEF Outcome, Reading
<1>6. CASE /\ kind \in Type \ (ActsAtOnce \cup {"VERIFY IDENTITY"})
           /\ Created(kind)
           /\ read' = "string" /\ UNCHANGED bytes
  <2>1. /\ Stays /\ message' = m.type /\ state' = 0 /\ read' = "string"
        /\ bytes' = bytes /\ got' = Nothing /\ coming' = Rest(m, s)
    BY <1>1, <1>6 DEF Created, Took, Stays
  <2>2. CASE kind = "PROVE IDENTITY"
    <3>1. Rest(m, s) = Then(ToSign(m), Then(Blank, s))
      BY <2>2 DEF Rest, Fielded
    <3>2. InProveIdentity(m, s)'
      BY <2>1, <2>2, <3>1 DEF InProveIdentity
    <3> QED BY <2>1, <3>2 DEF Outcome, Reading
  <2>3. CASE kind \in Fielded
    <3>1. Rest(m, s) = Header(m, 0, s)
      BY <2>3 DEF Rest, Fielded
    <3>2. Nothing = Read(m, HeaderParts(m, 0))
      BY DEF Nothing, Read, HeaderParts
    <3>3. 0 \in 0 .. Len(Names(m))
      BY NamesParts
    <3>4. InHeader(m, s)'
      BY <2>1, <2>3, <3>1, <3>2, <3>3 DEF InHeader
    <3> QED BY <2>1, <3>4 DEF Outcome, Reading
  <2>4. kind = "PROVE IDENTITY" \/ kind \in Fielded
    BY <1>6 DEF Type, ActsAtOnce, Fielded
  <2> QED BY <2>2, <2>3, <2>4
<1> QED BY <1>3, <1>4, <1>5, <1>6

\* Behind a GET CODE that was refused comes the first line of a message, which
\* closes the connection.
LEMMA RefusedStep ==
  ASSUME sent \in Seq(Message), NEW j \in 1 .. Len(sent) + 1, Next,
         Refused(From(j))
  PROVE  Ends /\ bytes' = bytes
<1>1. message = "GET CODE" /\ read = "string" /\ coming = From(j)
  BY DEF Refused
<1>2. FeedGetCode
  BY <1>1, FeedOfKind DEF Type
<1>3. coming # << >>
  BY <1>2, Zenon DEF FeedGetCode, FeedUpToBlank, FeedFields, GetsField, GetsText,
              GetsBlank, GetsLine
<1>4. j \in 1 .. Len(sent)
  <2>1. j # Len(sent) + 1
    BY <1>1, <1>3, FromEnds
  <2> QED BY <2>1
<1> DEFINE t == sent[j].type
           r == Rest(sent[j], From(j + 1))
<1>5. t \in Type /\ Text(t) \in Item /\ r \in Seq(Item) /\ coming = Then(Text(t), r)
  <2>1. /\ sent[j] \in Message /\ From(j + 1) \in Seq(Item)
        /\ From(j) = Then(Text(sent[j].type), Rest(sent[j], From(j + 1)))
    BY <1>4, FromNext
  <2>2. \A m \in Message : m.type \in Type /\ Text(m.type) \in Item
    BY ItemTypes DEF Message
  <2> QED BY <1>1, <2>1, <2>2, RestType
<1> HIDE DEF t, r
<1>6. NextItem = Text(t)
  BY <1>5, Seen
<1>7. ~ GetsField /\ ~ GetsBlank
  BY <1>5, <1>6, TextForm DEF GetsField, GetsBlank
<1>8. Closed(FALSE)
  BY <1>2, <1>7, Zenon DEF FeedGetCode, FeedUpToBlank, FeedFields
<1> QED BY <1>8 DEF Closed, Ends

-----------------------------------------------------------------------------
\* Every step.
LEMMA StepTaken ==
  ASSUME Next
  PROVE  open /\ sent' = sent
<1>1. open
  BY DEF Next, FirstLine, FeedHello, FeedProveIdentity, FeedVerifyIdentity,
      FeedSetCode, FeedGetCode, FeedIntroduce, FeedConnect, FeedStoreBlock,
      FeedLoadBlock, FeedStoredBlock, FeedDeliverBlock, FeedUpToBlank, FeedFields,
      FeedBlock, GetsField, GetsText, GetsBlank, GetsBytes, GetsLine
<1>2. sent' = sent
  BY DEF Next, FirstLine, FeedHello, FeedProveIdentity, FeedVerifyIdentity,
      FeedSetCode, FeedGetCode, FeedIntroduce, FeedConnect, FeedStoreBlock,
      FeedLoadBlock, FeedStoredBlock, FeedDeliverBlock, FeedUpToBlank, FeedFields,
      FeedBlock, WantsLine, WantsBytes, Ended, Closed, Created, Took
<1> QED BY <1>1, <1>2

\* What the steps do to the state of the connection.
LEMMA StepForms ==
  ASSUME Next
  PROVE  \/ \E n \in {state, 1, 2} : \E g : WantsLine(n, g)
         \/ \E n, g : WantsBytes(n, g)
         \/ \E k, g : Ended(k, g)
         \/ \E k \in Type : Created(k) /\ read' \in {"string", "bytes"}
         \/ \E b \in BOOLEAN : Closed(b)
         \/ refused' = TRUE /\ UNCHANGED <<message, state, got, read, bytes, acted, open>>
<1> DEFINE Reads == \/ \E n \in {state, 1, 2} : \E g : WantsLine(n, g)
                    \/ \E n, g : WantsBytes(n, g)
           Ending == \E k, g : Ended(k, g)
           Creates == \E k \in Type : Created(k) /\ read' \in {"string", "bytes"}
           Closes == \E b \in BOOLEAN : Closed(b)
           Asks == refused' = TRUE /\ UNCHANGED <<message, state, got, read, bytes, acted, open>>
<1> SUFFICES Reads \/ Ending \/ Creates \/ Closes \/ Asks
  BY Zenon
<1>1. Closed(TRUE) \/ Closed(FALSE) => Closes
  OBVIOUS
<1>2. ASSUME NEW n \in {state, 1, 2}, NEW g, WantsLine(n, g) PROVE Reads
  BY <1>2, Zenon
<1>3. ASSUME NEW n, NEW g, WantsBytes(n, g) PROVE Reads
  BY <1>3, Zenon
<1>4. ASSUME NEW k, NEW g, Ended(k, g) PROVE Ending
  BY <1>4, Zenon
<1>5. state \in {state, 1, 2} /\ 1 \in {state, 1, 2} /\ 2 \in {state, 1, 2}
  OBVIOUS
<1> HIDE DEF Reads, Ending, Closes
<1>6. ASSUME NEW names, FeedFields(names) PROVE Reads \/ Closes
  BY <1>1, <1>2, <1>5, <1>6, Zenon DEF FeedFields
<1>7. ASSUME NEW kind, NEW names, FeedUpToBlank(kind, names)
      PROVE  Reads \/ Closes \/ Ending
  BY <1>4, <1>6, <1>7, Zenon DEF FeedUpToBlank
<1>8. ASSUME FeedBlock PROVE Reads \/ Ending \/ Closes
  BY <1>1, <1>2, <1>3, <1>4, <1>5, <1>8, Zenon DEF FeedBlock
<1>9. CASE FirstLine
  <2>1. "VERIFY IDENTITY" \in Type
    BY DEF Type
  <2> QED BY <1>1, <1>4, <1>9, <2>1, Zenon DEF FirstLine
<1>10. CASE FeedHello
  BY <1>1, <1>2, <1>4, <1>5, <1>6, <1>10, Zenon DEF FeedHello
<1>11. CASE FeedProveIdentity \/ FeedVerifyIdentity
  BY <1>1, <1>2, <1>4, <1>5, <1>11, Zenon DEF FeedProveIdentity, FeedVerifyIdentity
<1>12. CASE FeedSetCode \/ FeedConnect \/ FeedLoadBlock \/ FeedStoredBlock
  BY <1>7, <1>12, Zenon DEF FeedSetCode, FeedConnect, FeedLoadBlock, FeedStoredBlock
<1>13. CASE FeedGetCode
  BY <1>7, <1>13, Zenon DEF FeedGetCode
<1>14. CASE FeedIntroduce
  BY <1>3, <1>4, <1>6, <1>14, Zenon DEF FeedIntroduce
<1>15. CASE FeedStoreBlock
  BY <1>3, <1>6, <1>8, <1>15, Zenon DEF FeedStoreBlock
<1>16. CASE FeedDeliverBlock
  BY <1>3, <1>4, <1>6, <1>8, <1>16, Zenon DEF FeedDeliverBlock
<1> QED BY <1>9, <1>10, <1>11, <1>12, <1>13, <1>14, <1>15, <1>16, Zenon DEF Next

LEMMA TypeStep ==
  ASSUME TypeOK, Next, bytes' \in Nat
  PROVE  TypeOK'
<1>1. sent' = sent
  BY StepTaken
<1>2. /\ sent \in Sent /\ message \in Type \cup {None} /\ state \in 0 .. 2
      /\ read \in {"string", "bytes"} /\ refused \in BOOLEAN /\ open \in BOOLEAN
  BY DEF TypeOK
<1>3. ASSUME NEW n \in {state, 1, 2}, NEW g, WantsLine(n, g) PROVE TypeOK'
  BY <1>1, <1>2, <1>3 DEF WantsLine, TypeOK
<1>4. ASSUME NEW n, NEW g, WantsBytes(n, g) PROVE TypeOK'
  BY <1>1, <1>2, <1>4 DEF WantsBytes, TypeOK
<1>5. ASSUME NEW k, NEW g, Ended(k, g) PROVE TypeOK'
  BY <1>1, <1>2, <1>5 DEF Ended, TypeOK
<1>6. ASSUME NEW k \in Type, Created(k), read' \in {"string", "bytes"} PROVE TypeOK'
  BY <1>1, <1>2, <1>6 DEF Created, TypeOK
<1>7. ASSUME NEW b \in BOOLEAN, Closed(b) PROVE TypeOK'
  <2>1. refused' \in BOOLEAN /\ open' \in BOOLEAN
    BY <1>7, Zenon DEF Closed
  <2> QED BY <1>1, <1>2, <1>7, <2>1 DEF Closed, TypeOK
<1>8. ASSUME refused' = TRUE,
             UNCHANGED <<message, state, got, read, bytes, acted, open>>
      PROVE  TypeOK'
  BY <1>1, <1>2, <1>8 DEF TypeOK
<1> QED BY <1>3, <1>4, <1>5, <1>6, <1>7, <1>8, StepForms, Zenon

-----------------------------------------------------------------------------
\* The messages that have been acted on.
Reported(n) == [i \in 1 .. n |-> Entry(sent[i])]

LEMMA ReportedNext ==
  ASSUME NEW n \in Nat
  PROVE  /\ Append(Reported(n), Entry(sent[n + 1])) = Reported(n + 1)
         /\ Len(Reported(n)) = n
<1> DEFINE S == { Entry(sent[i]) : i \in 1 .. n + 1 }
           e == Entry(sent[n + 1])
           p == Reported(n)
           q == Reported(n + 1)
<1>1. /\ p \in Seq(S) /\ Len(p) = n /\ \A i \in 1 .. n : p[i] = Entry(sent[i])
      /\ e \in S
  <2>1. p \in [1 .. n -> S]
    BY DEF Reported
  <2> QED BY <2>1 DEF Reported
<1>2. q \in Seq(S) /\ Len(q) = n + 1 /\ \A i \in 1 .. n + 1 : q[i] = Entry(sent[i])
  <2> DEFINE k == n + 1
  <2>1. k \in Nat
    OBVIOUS
  <2> HIDE DEF k
  <2>2. q = [i \in 1 .. k |-> Entry(sent[i])]
    BY DEF Reported, k
  <2>3. ASSUME NEW i \in 1 .. k PROVE Entry(sent[i]) \in S
    BY DEF k
  <2> HIDE DEF q, S
  <2>4. q \in [1 .. k -> S] /\ \A i \in 1 .. k : q[i] = Entry(sent[i])
    BY <2>2, <2>3
  <2>5. q \in Seq(S) /\ Len(q) = k
    BY <2>1, <2>4, LenProperties, SeqDef
  <2> QED BY <2>4, <2>5 DEF k
<1>3. q[n + 1] = e
  BY <1>2
<1> HIDE DEF S, e, p, q
<1>4. /\ Append(p, e) \in Seq(S) /\ Len(Append(p, e)) = n + 1
      /\ \A i \in 1 .. n : Append(p, e)[i] = p[i]
      /\ Append(p, e)[n + 1] = e
  BY <1>1, AppendProperties
<1>5. ASSUME NEW i \in 1 .. n + 1 PROVE Append(p, e)[i] = q[i]
  BY <1>1, <1>2, <1>3, <1>4
<1>6. Append(p, e) = q
  BY <1>2, <1>4, <1>5, SeqEqual
<1> QED BY <1>1, <1>6 DEF e, p, q

LEMMA SentType ==
  ASSUME TypeOK
  PROVE  sent \in Seq(Message) /\ Len(sent) \in Nat
BY SessionAssumption DEF TypeOK

\* What follows from a step within the message behind the first n.
LEMMA OutcomeKept ==
  ASSUME TypeOK, Next, NEW n \in Nat, n < Len(sent), acted = Reported(n), ~ refused,
         NEW m, m = sent[n + 1], NEW s, s = From(n + 2), Outcome(m, s)
  PROVE  SessionInv'
<1>1. open /\ sent' = sent
  BY StepTaken
<1>2. sent \in Seq(Message) /\ Len(sent) \in Nat
  BY SentType
<1>3. TypeOK'
  BY TypeStep DEF Outcome
<1>4. \A k : Reported(k)' = Reported(k) /\ From(k)' = From(k)
  BY <1>1 DEF Reported, From, Pieces
<1>5. n \in 0 .. Len(sent) /\ n + 1 \in 0 .. Len(sent) /\ (n + 1) + 1 = n + 2
  BY <1>2
<1>6. sent'[n + 1] = m /\ From(n + 2)' = s
  BY <1>1, <1>4
<1>7. CASE Stays /\ Reading(m, s)'
  <2>1. acted' = Reported(n)'
    BY <1>4, <1>7 DEF Stays
  <2>2. Position(n)'
    <3>1. ~ refused'
      BY <1>7 DEF Stays
    <3>2. Within(m, s)'
      BY <1>7, <3>1 DEF Within
    <3>3. Within(sent[n + 1], From(n + 2))'
      BY <1>6, <3>2
    <3> QED BY <1>1, <3>3 DEF Position
  <2> QED BY <1>1, <1>3, <1>5, <2>1, <2>2 DEF SessionInv, Reported
<1>8. CASE Completes(m, s)
  <2>1. acted' = Reported(n + 1)'
    BY <1>4, <1>8, ReportedNext DEF Completes
  <2>2. Position(n + 1)'
    <3>0. ~ refused'
      BY <1>8 DEF Completes
    <3>1. Between(s)'
      BY <1>8, <3>0 DEF Completes, Between
    <3>2. Between(From(n + 1 + 1))'
      BY <1>5, <1>6, <3>1
    <3> QED BY <3>2 DEF Position
  <2> QED BY <1>1, <1>3, <1>5, <2>1, <2>2 DEF SessionInv, Reported
<1>9. CASE Ends
  <2>1. acted' = Reported(n)' /\ ~ open'
    BY <1>4, <1>9 DEF Ends
  <2> QED BY <1>1, <1>3, <1>5, <2>1 DEF SessionInv, Reported
<1>10. CASE /\ message = m.type /\ m.type = "GET CODE" /\ state = 0 /\ read = "string"
            /\ Refuses(s)
  <2>1. acted' = Reported(n)'
    BY <1>4, <1>10 DEF Refuses
  <2>2. Position(n)'
    <3>1. message' = "GET CODE" /\ state' = 0 /\ read' = "string" /\ coming' = s
      BY <1>10 DEF Refuses
    <3>2. Refused(s)'
      BY <1>10, <3>1 DEF Refuses, Refused
    <3>3. Refused(From(n + 2))'
      BY <1>6, <3>2
    <3> QED BY <1>1, <3>3 DEF Position
  <2> QED BY <1>1, <1>3, <1>5, <2>1, <2>2 DEF SessionInv, Reported
<1> QED BY <1>7, <1>8, <1>9, <1>10 DEF Outcome

LEMMA InvInit ==
  ASSUME Init
  PROVE  SessionInv
<1>1. TypeOK
  <2>1. /\ sent \in Sent /\ message = None /\ state = 0 /\ read = "string" /\ bytes = 0
        /\ refused \in BOOLEAN /\ open \in BOOLEAN
    BY Zenon DEF Init
  <2> QED BY <2>1 DEF TypeOK
<1>2. sent \in Seq(Message) /\ Len(sent) \in Nat
  BY <1>1, SentType
<1>3. acted = Reported(0)
  BY DEF Init, Reported
<1>4. Between(From(0 + 1))
  <2>1. coming = From(1)
    BY <1>2, FromEnds DEF Init
  <2> QED BY <2>1 DEF Init, Between
<1>5. 0 \in 0 .. Len(sent)
  BY <1>2
<1> QED BY <1>1, <1>3, <1>4, <1>5 DEF SessionInv, Position, Reported

LEMMA InvStep ==
  ASSUME SessionInv, Next
  PROVE  SessionInv'
<1>1. PICK n \in 0 .. Len(sent) : acted = Reported(n) /\ (open => Position(n))
  BY DEF SessionInv, Reported
<1>2. /\ TypeOK /\ open /\ sent' = sent /\ bytes \in Nat
      /\ sent \in Seq(Message) /\ Len(sent) \in Nat /\ n \in Nat
  BY StepTaken, SentType DEF SessionInv, TypeOK
<1>3. CASE Between(From(n + 1))
  <2>1. n + 1 # Len(sent) + 1
    <3>1. message = None /\ coming = From(n + 1)
      BY <1>3 DEF Between
    <3>2. FirstLine
      <4>1. None \notin Type
        BY SessionAssumption
      <4> QED BY <3>1, <4>1 DEF Next, FeedHello, FeedProveIdentity, FeedVerifyIdentity,
            FeedSetCode, FeedGetCode, FeedIntroduce, FeedConnect, FeedStoreBlock,
            FeedLoadBlock, FeedStoredBlock, FeedDeliverBlock, FeedUpToBlank, Type
    <3>3. coming # << >>
      BY <3>2 DEF FirstLine, GetsLine
    <3> QED BY <1>2, <3>1, <3>3, FromEnds
  <2>2. n < Len(sent) /\ n + 1 \in 1 .. Len(sent) /\ (n + 1) + 1 = n + 2
    BY <1>2, <2>1
  <2>3. PICK m, s : m = sent[n + 1] /\ s = From(n + 2)
    OBVIOUS
  <2>4. m \in Message /\ s \in Seq(Item) /\ coming = Then(Text(m.type), Rest(m, s))
    <3> DEFINE j == n + 1
    <3>1. j \in 1 .. Len(sent) /\ j + 1 = n + 2
      BY <2>2
    <3> HIDE DEF j
    <3>2. /\ sent[j] \in Message /\ From(j + 1) \in Seq(Item)
          /\ From(j) = Then(Text(sent[j].type), Rest(sent[j], From(j + 1)))
      BY <1>2, <3>1, FromNext
    <3> QED BY <1>3, <2>3, <3>1, <3>2 DEF Between, j
  <2>5. ~ refused /\ message = None
    BY <1>3 DEF Between
  <2>6. Outcome(m, s)
    BY <1>2, <2>4, <2>5, FirstLineStep
  <2> QED BY <1>1, <1>2, <2>2, <2>3, <2>5, <2>6, OutcomeKept
<1>4. CASE n < Len(sent) /\ Within(sent[n + 1], From(n + 2))
  <2>1. PICK m, s : m = sent[n + 1] /\ s = From(n + 2)
    OBVIOUS
  <2>2. m \in Message /\ s \in Seq(Item)
    <3> DEFINE j == n + 1
    <3>1. j \in 1 .. Len(sent) /\ j + 1 = n + 2
      BY <1>2, <1>4
    <3> HIDE DEF j
    <3>2. sent[j] \in Message /\ From(j + 1) \in Seq(Item)
      BY <1>2, <3>1, FromNext
    <3> QED BY <2>1, <3>1, <3>2 DEF j
  <2>3. ~ refused /\ Reading(m, s)
    BY <1>4, <2>1 DEF Within
  <2>4. Outcome(m, s)
    BY <1>2, <2>2, <2>3, ReadingStep
  <2> QED BY <1>1, <1>2, <1>4, <2>1, <2>3, <2>4, OutcomeKept
<1>5. CASE n < Len(sent) /\ Refused(From(n + 2))
  <2> DEFINE j == n + 2
  <2>1. j \in 1 .. Len(sent) + 1 /\ Refused(From(j))
    BY <1>2, <1>5
  <2> HIDE DEF j
  <2>2. Ends /\ bytes' = bytes
    BY <1>2, <2>1, RefusedStep
  <2>3. TypeOK'
    BY <1>2, <2>2, TypeStep
  <2>4. acted' = Reported(n)' /\ ~ open'
    BY <1>1, <1>2, <2>2 DEF Ends, Reported
  <2> QED BY <1>1, <1>2, <2>3, <2>4 DEF SessionInv, Reported
<1> QED BY <1>1, <1>2, <1>3, <1>4, <1>5 DEF Position

LEMMA InvKept == Spec => []SessionInv
<1>1. Init => SessionInv
  BY InvInit
<1>2. SessionInv /\ [Next]_vars => SessionInv'
  <2> SUFFICES ASSUME SessionInv, [Next]_vars PROVE SessionInv'
    OBVIOUS
  <2>1. CASE Next
    BY <2>1, InvStep
  <2>2. CASE UNCHANGED vars
    <3>1. UNCHANGED <<sent, coming, message, state, got, read, bytes, acted, refused, open>>
      BY <2>2 DEF vars
    <3>2. \A j : From(j)' = From(j)
      BY <3>1 DEF From, Pieces
    <3>3. TypeOK'
      BY <3>1 DEF SessionInv, TypeOK
    <3>4. ASSUME NEW m, NEW s, Reading(m, s) PROVE Reading(m, s)'
      <4>1. InHeader(m, s) => InHeader(m, s)'
        BY <3>1 DEF InHeader
      <4>2. InHello(m, s) => InHello(m, s)'
        BY <3>1 DEF InHello
      <4>3. InProveIdentity(m, s) => InProveIdentity(m, s)'
        BY <3>1 DEF InProveIdentity
      <4>4. InVerifyIdentity(m, s) => InVerifyIdentity(m, s)'
        BY <3>1 DEF InVerifyIdentity
      <4>5. InIntroduce(m, s) => InIntroduce(m, s)'
        BY <3>1 DEF InIntroduce
      <4>6. InSignature(m, s) => InSignature(m, s)'
        BY <3>1 DEF InSignature
      <4>7. InOwner(m, s) => InOwner(m, s)'
        BY <3>1 DEF InOwner
      <4>8. InData(m, s) => InData(m, s)'
        BY <3>1 DEF InData
      <4> QED BY <3>1, <3>4, <4>1, <4>2, <4>3, <4>4, <4>5, <4>6, <4>7, <4>8 DEF Reading
    <3>5. ASSUME NEW n, Position(n) PROVE Position(n)'
      <4>1. PICK m, s : m = sent[n + 1] /\ s = From(n + 2)
        OBVIOUS
      <4>2. m = sent'[n + 1] /\ s = From(n + 2)'
        BY <3>1, <3>2, <4>1
      <4>3. CASE Between(From(n + 1))
        <5>1. Between(From(n + 1))'
          BY <3>1, <3>2, <4>3 DEF Between
        <5> QED BY <5>1 DEF Position
      <4>4. CASE n < Len(sent) /\ Within(m, s)
        <5>1. Within(m, s)'
          BY <3>1, <3>4, <4>4 DEF Within
        <5> QED BY <3>1, <4>2, <4>4, <5>1 DEF Position
      <4>5. CASE n < Len(sent) /\ Refused(s)
        <5>1. Refused(s)'
          BY <3>1, <4>5 DEF Refused
        <5> QED BY <3>1, <4>2, <4>5, <5>1 DEF Position
      <4> QED BY <3>5, <4>1, <4>3, <4>4, <4>5 DEF Position
    <3> QED BY <3>1, <3>3, <3>5 DEF SessionInv
  <2> QED BY <2>1, <2>2
<1> QED BY <1>1, <1>2, PTL DEF Spec

-----------------------------------------------------------------------------
\* Where the invariant holds, the receiver finds what it looks for.
LEMMA LineFound ==
  ASSUME NEW x \in Item, NEW r \in Seq(Item), coming = Then(x, r), x.kind = "line",
         open, message = None \/ read = "string"
  PROVE  GetsLine
BY Seen DEF GetsLine, LineWanted

LEMMA BytesFound ==
  ASSUME NEW x \in Item, NEW r \in Seq(Item), coming = Then(x, r), x.kind = "bytes",
         open, message # None, read = "bytes", bytes = x.length
  PROVE  GetsBytes
BY Seen DEF GetsBytes, LineWanted

LEMMA ReadingFound ==
  ASSUME NEW m \in Message, NEW s \in Seq(Item), Reading(m, s), open
  PROVE  GetsLine \/ GetsBytes
<1>1. /\ First \in Item /\ Middle(m) \in Item /\ Final \in Item /\ Blank \in Item
      /\ Id(m) \in Item /\ Signature(m) \in Item /\ Data(m) \in Item /\ ToSign(m) \in Item
      /\ \A x \in Item, q \in Seq(Item) : Then(x, q) \in Seq(Item)
      /\ BlockKey(m, s) \in Seq(Item)
  BY ItemTypes, ThenParts, BehindType
<1>2. /\ Blank.kind = "line" /\ First.kind = "line" /\ Final.kind = "line"
      /\ Middle(m).kind = "line" /\ ToSign(m).kind = "line"
      /\ Signature(m).kind = "bytes" /\ Signature(m).length = SignatureSize
      /\ Id(m).kind = "bytes" /\ Id(m).length = IdSize
      /\ Data(m).kind = "bytes" /\ Data(m).length = m.size
  BY ItemForms
<1>3. message # None
  BY SessionAssumption DEF Reading, Message
<1>4. CASE InHeader(m, s)
  <2>1. PICK j \in 0 .. Len(Names(m)) :
          m.type \in Fielded /\ read = "string" /\ coming = Header(m, j, s)
    BY <1>4 DEF InHeader
  <2>2. CASE j = Len(Names(m))
    <3>1. coming = Behind(m, s)
      BY <2>1, <2>2, HeaderEnd
    <3>2. \E r \in Seq(Item) : Behind(m, s) = Then(Blank, r)
      <4>1. CASE m.type = "HELLO"
        BY <1>1, <4>1 DEF Behind, HasBlock
      <4>2. CASE m.type = "INTRODUCE PEER"
        BY <1>1, <4>2 DEF Behind, HasBlock
      <4>3. CASE HasBlock(m)
        BY <1>1, <4>3 DEF Behind, HasBlock
      <4>4. CASE m.type \notin {"HELLO", "INTRODUCE PEER"} /\ ~ HasBlock(m)
        BY <1>1, <4>4 DEF Behind
      <4> QED BY <4>1, <4>2, <4>3, <4>4
    <3> QED BY <1>1, <1>2, <2>1, <3>1, <3>2, LineFound
  <2>3. CASE j # Len(Names(m))
    <3>1. Len(Names(m)) \in Nat
      BY NamesParts
    <3>2. j \in 0 .. Len(Names(m)) - 1
      BY <2>3, <3>1
    <3> DEFINE x == Field(Names(m)[j + 1], Value(m, Names(m)[j + 1]))
               r == Header(m, j + 1, s)
               k == j + 1
    <3>3. k \in 0 .. Len(Names(m))
      BY <3>1, <3>2
    <3>4. r \in Seq(Item)
      <4> HIDE DEF k
      <4>1. Header(m, k, s) \in Seq(Item)
        BY <3>3, HeaderType
      <4> QED BY <4>1 DEF k
    <3>5. /\ x \in Item /\ coming = Then(x, r) /\ Names(m)[j + 1] \in FieldName
      BY <2>1, <3>2, HeaderNext
    <3>6. x.kind = "line"
      BY DEF Field, Line
    <3> HIDE DEF x, r, k
    <3> QED BY <2>1, <3>4, <3>5, <3>6, LineFound
  <2> QED BY <2>2, <2>3
<1>5. CASE InHello(m, s)
  BY <1>1, <1>2, <1>5, LineFound DEF InHello
<1>6. CASE InProveIdentity(m, s)
  BY <1>1, <1>2, <1>6, LineFound DEF InProveIdentity
<1>7. CASE InVerifyIdentity(m, s)
  BY <1>1, <1>2, <1>3, <1>7, BytesFound DEF InVerifyIdentity
<1>8. CASE InIntroduce(m, s)
  BY <1>1, <1>2, <1>3, <1>8, BytesFound DEF InIntroduce
<1>9. CASE InSignature(m, s)
  BY <1>1, <1>2, <1>3, <1>9, BytesFound DEF InSignature
<1>10. CASE InOwner(m, s)
  BY <1>1, <1>2, <1>10, LineFound DEF InOwner, BlockKey
<1>11. CASE InData(m, s)
  BY <1>1, <1>2, <1>3, <1>11, BytesFound DEF InData
<1> QED BY <1>4, <1>5, <1>6, <1>7, <1>8, <1>9, <1>10, <1>11 DEF Reading

\* A message begins with a line.
LEMMA NextFound ==
  ASSUME sent \in Seq(Message), NEW j \in 1 .. Len(sent) + 1, coming = From(j),
         coming # << >>, open, message = None \/ read = "string"
  PROVE  GetsLine
<1>1. j \in 1 .. Len(sent)
  <2>1. j # Len(sent) + 1
    BY FromEnds
  <2> QED BY <2>1
<1>2. /\ sent[j] \in Message /\ From(j + 1) \in Seq(Item)
      /\ coming = Then(Text(sent[j].type), Rest(sent[j], From(j + 1)))
  BY <1>1, FromNext
<1>3. PICK m, s : m = sent[j] /\ s = From(j + 1)
  OBVIOUS
<1>4. /\ Text(m.type) \in Item /\ Rest(m, s) \in Seq(Item)
      /\ coming = Then(Text(m.type), Rest(m, s)) /\ Text(m.type).kind = "line"
  BY <1>2, <1>3, ItemTypes, RestType, TextForm DEF Message
<1> QED BY <1>4, LineFound

LEMMA InvInStep ==
  ASSUME SessionInv
  PROVE  InStep
<1> SUFFICES ASSUME open, coming # << >> PROVE GetsLine \/ GetsBytes
  BY DEF InStep
<1>1. PICK n \in 0 .. Len(sent) : Position(n)
  BY DEF SessionInv
<1>2. sent \in Seq(Message) /\ Len(sent) \in Nat /\ n \in Nat
  BY SentType DEF SessionInv
<1>3. CASE Between(From(n + 1))
  <2> DEFINE j == n + 1
  <2>1. j \in 1 .. Len(sent) + 1 /\ coming = From(j) /\ message = None
    BY <1>2, <1>3 DEF Between
  <2> HIDE DEF j
  <2> QED BY <1>2, <2>1, NextFound
<1>4. CASE n < Len(sent) /\ Within(sent[n + 1], From(n + 2))
  <2> DEFINE j == n + 1
  <2>1. j \in 1 .. Len(sent) /\ j + 1 = n + 2
    BY <1>2, <1>4
  <2>2. PICK m, s : m = sent[n + 1] /\ s = From(n + 2)
    OBVIOUS
  <2>3. m \in Message /\ s \in Seq(Item)
    <3> HIDE DEF j
    <3>1. sent[j] \in Message /\ From(j + 1) \in Seq(Item)
      BY <1>2, <2>1, FromNext
    <3> QED BY <2>1, <2>2, <3>1 DEF j
  <2>4. Reading(m, s)
    BY <1>4, <2>2 DEF Within
  <2> QED BY <2>3, <2>4, ReadingFound
<1>5. CASE n < Len(sent) /\ Refused(From(n + 2))
  <2> DEFINE j == n + 2
  <2>1. j \in 1 .. Len(sent) + 1
    BY <1>2, <1>5
  <2>2. coming = From(j) /\ read = "string"
    BY <1>5 DEF Refused
  <2> HIDE DEF j
  <2> QED BY <1>2, <2>1, <2>2, NextFound
<1> QED BY <1>1, <1>3, <1>4, <1>5 DEF Position

-----------------------------------------------------------------------------
\* The state has its types, whatever messages are sent.
THEOREM SessionTypeCorrect == Spec => []TypeOK
<1>1. SessionInv => TypeOK
  BY DEF SessionInv
<1> QED BY <1>1, InvKept, PTL

\* Every message is acted on in its turn with what it says: of however many,
\* of whatever kinds, with blocks of whatever size.
THEOREM AllUnderstood == Spec => []Understood
<1>1. SessionInv => Understood
  <2> SUFFICES ASSUME SessionInv PROVE Understood
    OBVIOUS
  <2>1. PICK n \in 0 .. Len(sent) : acted = Reported(n)
    BY DEF SessionInv, Reported
  <2>2. Len(sent) \in Nat /\ n \in Nat
    BY SentType DEF SessionInv
  <2>3. Len(acted) = n /\ DOMAIN acted = 1 .. n
    BY <2>1, <2>2, ReportedNext DEF Reported
  <2>4. \A i \in 1 .. n : acted[i] = Entry(sent[i])
    BY <2>1 DEF Reported
  <2> QED BY <2>2, <2>3, <2>4 DEF Understood, Entry
<1> QED BY <1>1, InvKept, PTL

\* Where the receiver looks for a line there is one, and where it expects some
\* bytes there are exactly these.
THEOREM AlwaysInStep == Spec => []InStep
<1>1. SessionInv => InStep
  BY InvInStep
<1> QED BY <1>1, InvKept, PTL

\* After a message that is refused nothing is acted on any more: the connection
\* is closed, or will be at the line behind a GET CODE (peer_connection.cpp:209).
THEOREM RefusalIsTheEnd == Spec => NothingAfterRefusal
<1>1. SessionInv /\ [Next]_vars => [refused => acted' = acted]_vars
  <2> SUFFICES ASSUME SessionInv, Next, refused PROVE acted' = acted
    BY DEF vars
  <2>1. PICK n \in 0 .. Len(sent) : open => Position(n)
    BY DEF SessionInv
  <2>2. open /\ sent \in Seq(Message) /\ Len(sent) \in Nat /\ n \in Nat
    BY StepTaken, SentType DEF SessionInv
  <2>3. n < Len(sent) /\ Refused(From(n + 2))
    BY <2>1, <2>2 DEF Position, Between, Within
  <2> DEFINE j == n + 2
  <2>4. j \in 1 .. Len(sent) + 1 /\ Refused(From(j))
    BY <2>2, <2>3
  <2> HIDE DEF j
  <2> QED BY <2>2, <2>4, RefusedStep DEF Ends
<1> QED BY <1>1, InvKept, PTL DEF Spec, NothingAfterRefusal

=============================================================================
