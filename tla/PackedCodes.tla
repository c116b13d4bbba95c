----------------------------- MODULE PackedCodes -----------------------------
(***************************************************************************)
(* How code.cpp represents a code: a number of layers, and their bits      *)
(* packed into bytes.  Memory comes by the byte, and the bits behind       *)
(* the last layer are whatever was there.  Codes, the reference, is what   *)
(* the rest of the program takes these objects for.                        *)
(***************************************************************************)
EXTENDS Integers, Sequences

CONSTANTS
  Object,       \* names of code objects
  ByteWidth,    \* bits of a byte: 8
  DigitWidth,   \* layers of a digit of the printed form: 4
  MaxLayers     \* bound: layers of a code

ASSUME PackedAssumption ==
  /\ ByteWidth \in Nat \ {0} /\ DigitWidth \in Nat \ {0}
  /\ MaxLayers \in Nat \ {0}

Ref == INSTANCE Codes WITH CodeLayers <- MaxLayers

Bit == {0, 1}

VARIABLES
  layers,   \* layers_ of every object
  mem,      \* code_, bit by bit: layer i is element i + 1
  ref,      \* the code that the object stands for
  overrun   \* what has written a layer behind the memory of its object:
            \* "none", "grown" or "cut"

vars == <<layers, mem, ref, overrun>>

\* MUTANT of Bytes: no byte for the layers that do not fill one.
BytesFilled(n) == IF n = 0 THEN 1 ELSE n \div ByteWidth

\* The bytes allocated for n layers: (n - 1) / 8 + 1, or one.
Bytes(n) == IF n = 0 THEN 1 ELSE (n - 1) \div ByteWidth + 1

BitsUpTo(n) == UNION { [1 .. k -> Bit] : k \in 0 .. n }

\* An object has exactly the bytes that its layers take, as copies assume,
\* while none was written over.
TypeOK ==
  /\ overrun \in {"none", "grown", "cut"}
  /\ layers \in [Object -> 0 .. MaxLayers]
  /\ ref \in [Object -> BitsUpTo(MaxLayers)]
  /\ overrun = "none" =>
       \A x \in Object : mem[x] \in [1 .. Bytes(layers[x]) * ByteWidth -> Bit]

Zeros(n) == [i \in 1 .. n |-> 0]

Init ==
  /\ layers = [x \in Object |-> 0]
  /\ mem = [x \in Object |-> Zeros(ByteWidth)]
  /\ ref = [x \in Object |-> << >>]
  /\ overrun = "none"

Becomes(x, n, memory, code) ==
  /\ layers' = [layers EXCEPT ![x] = n]
  /\ mem' = [mem EXCEPT ![x] = memory]
  /\ ref' = [ref EXCEPT ![x] = code]

-----------------------------------------------------------------------------
LayerCode(x, layer) == mem[x][layer + 1]

SetLayerCode(memory, layer, bit) ==
  [i \in DOMAIN memory |-> IF i = layer + 1 THEN bit ELSE memory[i]]

\* What writing n layers to memory leaves overrun, when op does it.
Writing(op, n, memory) == IF n <= Len(memory) THEN overrun ELSE op

\* What resize_layers may leave in memory, growing from old to n layers: new
\* memory is not cleared.  A code without layers keeps the byte it has, for
\* any n, as 0 - 1 is not negative there.
Resized(memory, old, n) ==
  IF old # 0 /\ Bytes(n) > Bytes(old)
  THEN { memory \o rest :
           rest \in [1 .. (Bytes(n) - Bytes(old)) * ByteWidth -> Bit] }
  ELSE {memory}

\* One layer more, as a mentor grows its own code and the one it gives away.
Grow(x, bit) ==
  /\ layers[x] < MaxLayers
  /\ \E memory \in Resized(mem[x], layers[x], layers[x] + 1) :
       /\ Becomes(x, layers[x] + 1,
                  SetLayerCode(memory, layers[x], bit), Append(ref[x], bit))
       /\ overrun' = Writing("grown", layers[x] + 1, memory)

\* The loop that sets n layers to those of another code.
FirstLayers(x, memory, n) ==
  [i \in DOMAIN memory |-> IF i <= n THEN mem[x][i] ELSE memory[i]]

\* The code of a CONNECT IN: a new one, resized, with the first layers of
\* the code of the peer.
Prefix(x, y, n) ==
  /\ x # y /\ n <= layers[y]
  /\ \E memory \in Resized(Zeros(ByteWidth), 0, n) :
       /\ Becomes(x, n, FirstLayers(y, memory, n), SubSeq(ref[y], 1, n))
       /\ overrun' = Writing("cut", n, memory)

\* code(layers, bytes): the code of a block, a hash.
FromBytes(x, bits) ==
  LET n == Len(bits)
  IN /\ n % ByteWidth = 0 /\ n <= MaxLayers
     /\ Becomes(x, n, bits, bits)
     /\ UNCHANGED overrun

\* MUTANT of Copied: no byte for the layers that do not fill one.
CopiedFilled(y) ==
  SubSeq(mem[y], 1, (layers[y] \div ByteWidth) * ByteWidth)

\* The memory of a copy: the bytes that its layers take.
Copied(y) == SubSeq(mem[y], 1, Bytes(layers[y]) * ByteWidth)

\* The copy constructor and operator=.
Assign(x, y) ==
  /\ x # y
  /\ Becomes(x, layers[y], Copied(y), ref[y])
  /\ UNCHANGED overrun

-----------------------------------------------------------------------------
\* The printed form: digits of DigitWidth layers, the first layer being the
\* highest bit, and behind the delimiter the layers that make no digit.
Digits(n) == n \div DigitWidth

Value(bits) ==
  LET V[i \in 0 .. Len(bits)] == IF i = 0 THEN 0 ELSE 2 * V[i - 1] + bits[i]
  IN V[Len(bits)]

String(x) ==
  LET d == Digits(layers[x])
  IN [digits |-> [k \in 1 .. d |->
                    Value(SubSeq(mem[x], (k - 1) * DigitWidth + 1,
                                         k * DigitWidth))],
      rest |-> SubSeq(mem[x], d * DigitWidth + 1, layers[x])]

\* A digit shifted to the right by n bits.
Shifted(digit, n) ==
  LET S[k \in 0 .. n] == IF k = 0 THEN digit ELSE S[k - 1] \div 2
  IN S[n]

\* The i-th layer of a digit.
BitOfDigit(digit, i) == Shifted(digit, DigitWidth - i) % 2

\* The constructor from a printed code, its memory cleared.
LayersOf(s) == Len(s.digits) * DigitWidth + Len(s.rest)

Parsed(s) ==
  [i \in 1 .. Bytes(LayersOf(s)) * ByteWidth |->
     CASE i <= Len(s.digits) * DigitWidth ->
            BitOfDigit(s.digits[(i - 1) \div DigitWidth + 1],
                       1 + ((i - 1) % DigitWidth))
       [] i > Len(s.digits) * DigitWidth /\ i <= LayersOf(s) ->
            s.rest[i - Len(s.digits) * DigitWidth]
       [] OTHER -> 0]

\* A code goes to another peer: printed and parsed there.
Transmit(x, y) ==
  /\ x # y
  /\ Becomes(x, LayersOf(String(y)), Parsed(String(y)), ref[y])
  /\ UNCHANGED overrun

Operation ==
  \/ \E x \in Object : \E bit \in Bit : Grow(x, bit)
  \/ \E x, y \in Object : \E n \in 0 .. MaxLayers : Prefix(x, y, n)
  \/ \E x \in Object : \E bits \in [1 .. ByteWidth -> Bit] : FromBytes(x, bits)
  \/ \E x, y \in Object : Assign(x, y) \/ Transmit(x, y)

\* What a program does that has written behind its memory is undefined: it is
\* followed no further.
Undefined == overrun # "none" /\ UNCHANGED vars

Next == (overrun = "none" /\ Operation) \/ Undefined

Spec == Init /\ [][Next]_vars

-----------------------------------------------------------------------------
\* MUTANT of SameBits: the last byte is compared as a whole.
SameBytes(x, y) ==
  \A i \in 1 .. Bytes(layers[x]) * ByteWidth : mem[x][i] = mem[y][i]

\* operator==: the bytes that are full, then the layers of the last one.
SameBits(x, y) ==
  LET full == layers[x] \div ByteWidth
  IN /\ \A i \in 1 .. full * ByteWidth : mem[x][i] = mem[y][i]
     /\ \A i \in full * ByteWidth .. layers[x] - 1 :
          LayerCode(x, i) = LayerCode(y, i)

Equal(x, y) == layers[x] = layers[y] /\ SameBits(x, y)

\* MUTANT of Hashed: the byte that is not full is hashed as well.
HashedBytes(x) == <<mem[x], << >> >>

\* What std::hash<code> computes its value of: the bytes that are full, and
\* the layers from the last of these on.  With no full byte, (size - 1) * 8
\* is large and the loop over the layers ends at once.
Hashed(x) ==
  LET full == layers[x] \div ByteWidth
  IN <<SubSeq(mem[x], 1, full * ByteWidth),
       IF full = 0 THEN << >>
       ELSE SubSeq(mem[x], (full - 1) * ByteWidth + 1, layers[x])>>

\* ext_layer_code, of a layer up to and including the one behind the last.
ExtLayerCode(x, layer) == IF layer > layers[x] THEN 0 ELSE LayerCode(x, layer)

\* MUTANT of Differing: the loop stops a layer before the last.
DifferingButLast(x, y) ==
  { i \in 0 .. layers[x] - 2 : ExtLayerCode(y, i) # LayerCode(x, i) }

\* contains() and differing_layer() look for the first of these.
Differing(x, y) ==
  { i \in 0 .. layers[x] - 1 : ExtLayerCode(y, i) # LayerCode(x, i) }

-----------------------------------------------------------------------------
\* Growing a code layer by layer, as a mentor does, never writes behind its
\* memory, and every object holds the code it stands for, however it was
\* grown, copied, cut or sent: what resize_layers leaves uncleared is never
\* part of it.  Excluded is what follows when the code of a CONNECT IN is cut
\* to more layers than a byte has, for which resize_layers gets no memory.
Represents ==
  /\ overrun # "grown"
  /\ overrun = "none" =>
       \A x \in Object :
         /\ layers[x] = Len(ref[x])
         /\ layers[x] <= Len(mem[x])
         /\ \A i \in 0 .. layers[x] - 1 : LayerCode(x, i) = ref[x][i + 1]

\* Two objects are equal when they stand for the same code, whatever is in
\* the bits behind their last layer: blocks are looked up by operator==.
\* Here and below as long as nothing was written behind its memory.
EqualIffSame ==
  overrun = "none" =>
    \A x, y \in Object : Equal(x, y) <=> ref[x] = ref[y]

\* Equal codes have equal hashes, so that an unordered_set of blocks finds
\* the one that is in it.
EqualHash ==
  overrun = "none" =>
    \A x, y \in Object : Equal(x, y) => Hashed(x) = Hashed(y)

\* For a code that is not longer than the other, as a peer's is never longer
\* than a block's, the packed comparison is the one of Codes: whether it is a
\* prefix, and where they differ first.
PrefixAgrees ==
  overrun = "none" =>
    \A x, y \in Object :
      layers[x] <= layers[y] =>
        Differing(x, y) = Ref!DifferingLayers(ref[x], ref[y])

=============================================================================
