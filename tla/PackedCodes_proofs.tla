-------------------------- MODULE PackedCodes_proofs --------------------------
(***************************************************************************)
(* Proofs about PackedCodes, for bytes and digits of every width: growing  *)
(* a code never writes behind its memory, and until cutting one for a      *)
(* CONNECT IN does, an object is the code that it stands for, however it   *)
(* was grown, cut, copied, printed and parsed, and the packed comparisons  *)
(* and the hash see nothing else.                                          *)
(***************************************************************************)
EXTENDS PackedCodes, DataLemmas

-----------------------------------------------------------------------------
\* The inductive invariant.  An object has the bytes its layers take and no
\* others: EqualIffSame and EqualHash read whole bytes.
Packed(n, memory, code) ==
  /\ n \in 0 .. MaxLayers
  /\ memory \in [1 .. Bytes(n) * ByteWidth -> Bit]
  /\ code \in [1 .. n -> Bit]
  /\ \A i \in 1 .. n : memory[i] = code[i]

AllPacked ==
  /\ layers \in [Object -> 0 .. MaxLayers]
  /\ mem \in [Object -> Seq(Bit)] /\ ref \in [Object -> Seq(Bit)]
  /\ \A x \in Object : Packed(layers[x], mem[x], ref[x])

\* Once the code of a CONNECT IN was cut to more layers than a byte has, only
\* the numbers of layers and the codes are known.
Inv ==
  /\ overrun \in {"none", "cut"}
  /\ layers \in [Object -> 0 .. MaxLayers]
  /\ ref \in [Object -> BitsUpTo(MaxLayers)]
  /\ overrun = "none" => AllPacked

-----------------------------------------------------------------------------
\* Bytes: there is at least one byte, and there are enough of them.
LEMMA BytesEnough ==
  ASSUME NEW n \in Nat
  PROVE  /\ Bytes(n) \in Nat \ {0}
         /\ Bytes(n) * ByteWidth \in Nat
         /\ n <= Bytes(n) * ByteWidth
         /\ ByteWidth <= Bytes(n) * ByteWidth
<1> USE PackedAssumption
<1>1. CASE n = 0
  BY <1>1 DEF Bytes
<1>2. CASE n # 0
  <2>1. n - 1 \in Nat
    BY <1>2
  <2> DEFINE q == (n - 1) \div ByteWidth
  <2>2. /\ q \in Nat
        /\ (n - 1) % ByteWidth \in 0 .. ByteWidth - 1
        /\ n - 1 = q * ByteWidth + ((n - 1) % ByteWidth)
    BY <2>1, DivisionParts
  <2>3. Bytes(n) = q + 1
    BY <1>2 DEF Bytes
  <2> HIDE DEF q
  <2>4. (q + 1) * ByteWidth = q * ByteWidth + ByteWidth
    BY <2>2
  <2>5. q * ByteWidth \in Nat
    BY <2>2
  <2> QED BY <2>2, <2>3, <2>4, <2>5
<1> QED BY <1>1, <1>2

\* More layers take no fewer bytes.
LEMMA BytesMonotone ==
  ASSUME NEW m \in Nat, NEW n \in Nat, m <= n
  PROVE  Bytes(m) <= Bytes(n)
<1>1. CASE m = 0
  <2>1. Bytes(m) = 1 /\ Bytes(n) \in Nat \ {0}
    BY <1>1, BytesEnough DEF Bytes
  <2> QED BY <2>1
<1>2. CASE m # 0
  <2>1. m - 1 \in Nat /\ n - 1 \in Nat /\ m - 1 <= n - 1 /\ n # 0
    BY <1>2
  <2>2. (m - 1) \div ByteWidth <= (n - 1) \div ByteWidth
    BY <2>1, DivisionMonotone, PackedAssumption
  <2>3. (m - 1) \div ByteWidth \in Nat /\ (n - 1) \div ByteWidth \in Nat
    BY <2>1, DivisionParts, PackedAssumption
  <2>4. /\ Bytes(m) = (m - 1) \div ByteWidth + 1
        /\ Bytes(n) = (n - 1) \div ByteWidth + 1
    BY <1>2, <2>1 DEF Bytes
  <2> DEFINE p == (m - 1) \div ByteWidth
             q == (n - 1) \div ByteWidth
  <2>5. p \in Nat /\ q \in Nat /\ p <= q /\ Bytes(m) = p + 1 /\ Bytes(n) = q + 1
    BY <2>2, <2>3, <2>4
  <2> HIDE DEF p, q
  <2> QED BY <2>5
<1> QED BY <1>1, <1>2

\* A code that is not longer than a byte takes one.
LEMMA OneByte ==
  ASSUME NEW n \in 0 .. ByteWidth
  PROVE  Bytes(n) = 1
<1> USE PackedAssumption
<1>1. CASE n = 0
  BY <1>1 DEF Bytes
<1>2. CASE n # 0
  <2>1. n - 1 = 0 * ByteWidth + (n - 1) /\ n - 1 \in 0 .. ByteWidth - 1
    BY <1>2
  <2>2. (0 * ByteWidth + (n - 1)) \div ByteWidth = 0
    BY <2>1, DivisionUnique
  <2>3. (n - 1) \div ByteWidth = 0
    BY <2>1, <2>2
  <2> QED BY <1>2, <2>3 DEF Bytes
<1> QED BY <1>1, <1>2

\* The bytes of a length that fills them.
LEMMA FullBytes ==
  ASSUME NEW n \in Nat \ {0}, n % ByteWidth = 0
  PROVE  Bytes(n) * ByteWidth = n
<1> USE PackedAssumption
<1> DEFINE q == n \div ByteWidth
<1>1. q \in Nat /\ n = q * ByteWidth
  BY DivisionParts
<1> HIDE DEF q
<1>2. q # 0 /\ q - 1 \in Nat
  BY <1>1
<1>3. n - 1 = (q - 1) * ByteWidth + (ByteWidth - 1)
  BY <1>1, <1>2
<1>4. ((q - 1) * ByteWidth + (ByteWidth - 1)) \div ByteWidth = q - 1
  BY <1>2, DivisionUnique
<1>5. Bytes(n) = q
  <2>1. (n - 1) \div ByteWidth = q - 1
    BY <1>3, <1>4
  <2>2. Bytes(n) = (n - 1) \div ByteWidth + 1
    BY DEF Bytes
  <2> DEFINE p == (n - 1) \div ByteWidth
  <2>3. p = q - 1 /\ Bytes(n) = p + 1
    BY <2>1, <2>2
  <2> HIDE DEF p
  <2> QED BY <1>1, <2>3
<1> QED BY <1>1, <1>5

\* A function on 1 .. n is a sequence of length n, and its parts are bits.
LEMMA BitSeq ==
  ASSUME NEW n \in Nat, NEW s \in [1 .. n -> Bit]
  PROVE  s \in Seq(Bit) /\ Len(s) = n
<1>1. s \in Seq(Bit)
  BY SeqDef
<1> QED BY <1>1, LenProperties

LEMMA BitSubSeq ==
  ASSUME NEW n \in Nat, NEW s \in [1 .. n -> Bit],
         NEW m \in Nat \ {0}, NEW k \in 0 .. n, m <= k + 1
  PROVE  /\ SubSeq(s, m, k) \in [1 .. k - m + 1 -> Bit]
         /\ Len(SubSeq(s, m, k)) = k - m + 1
         /\ \A i \in 1 .. k - m + 1 : SubSeq(s, m, k)[i] = s[m + i - 1]
<1>1. \A i \in m .. k : s[i] \in Bit
  OBVIOUS
<1>2. /\ SubSeq(s, m, k) \in Seq(Bit)
      /\ Len(SubSeq(s, m, k)) = k - m + 1
      /\ \A i \in 1 .. k - m + 1 : SubSeq(s, m, k)[i] = s[m + i - 1]
  BY <1>1, SubSeqProperties
<1> QED BY <1>2, LenProperties

LEMMA BitPrefix ==
  ASSUME NEW n \in Nat, NEW s \in [1 .. n -> Bit], NEW k \in 0 .. n
  PROVE  /\ SubSeq(s, 1, k) \in [1 .. k -> Bit]
         /\ \A i \in 1 .. k : SubSeq(s, 1, k)[i] = s[i]
<1>1. \A i \in 1 .. k : s[i] \in Bit
  OBVIOUS
<1>2. /\ SubSeq(s, 1, k) \in Seq(Bit)
      /\ Len(SubSeq(s, 1, k)) = k
      /\ \A i \in 1 .. k : SubSeq(s, 1, k)[i] = s[i]
  BY <1>1, SubSeqProperties
<1> QED BY <1>2, LenProperties

-----------------------------------------------------------------------------
\* The printed form: the value of a digit, layer by layer.
LEMMA ValueStepByStep ==
  ASSUME NEW n \in Nat, NEW bits \in [1 .. n -> Bit]
  PROVE  \E V \in [0 .. n -> Nat] :
           /\ Value(bits) = V[n]
           /\ \A i \in 1 .. n : V[i] = 2 * V[i - 1] + bits[i]
<1> DEFINE step == [i \in 1 .. n |-> [v \in Nat |-> 2 * v + bits[i]]]
           Rec(W) == W = [i \in 0 .. n |->
                            IF i = 0 THEN 0 ELSE 2 * W[i - 1] + bits[i]]
           V == CHOOSE W : Rec(W)
<1>1. \E W : Rec(W)
  <2>1. step \in [1 .. n -> [Nat -> Nat]]
    BY DEF Bit
  <2>2. PICK f \in [0 .. n -> Nat] : Steps(f, n, 0, step)
    <3> HIDE DEF step
    <3> QED BY <2>1, StepByStep
  <2>3. \A i \in 1 .. n : f[i] = 2 * f[i - 1] + bits[i]
    <3> SUFFICES ASSUME NEW i \in 1 .. n PROVE f[i] = 2 * f[i - 1] + bits[i]
      OBVIOUS
    <3>1. f[i - 1] \in Nat
      OBVIOUS
    <3>2. step[i] = [v \in Nat |-> 2 * v + bits[i]]
      OBVIOUS
    <3>3. f[i] = step[i][f[i - 1]]
      <4> HIDE DEF step
      <4> QED BY <2>2 DEF Steps
    <3> HIDE DEF step
    <3> QED BY <3>1, <3>2, <3>3
  <2>4. Rec(f)
    BY <2>2, <2>3 DEF Steps
  <2> QED BY <2>4
<1>2. Rec(V)
  <2> HIDE DEF Rec
  <2> QED BY <1>1
<1>3. Value(bits) = V[n]
  <2>1. Len(bits) = n
    BY BitSeq
  <2> QED BY <2>1 DEF Value
<1> HIDE DEF V
<1>4. V[0] = 0 /\ \A i \in 1 .. n : V[i] = 2 * V[i - 1] + bits[i]
  BY <1>2
<1> DEFINE T == { i \in Nat : i <= n => V[i] \in Nat }
<1>5. 0 \in T
  BY <1>4
<1>6. ASSUME NEW i \in Nat, i \in T PROVE i + 1 \in T
  <2> SUFFICES ASSUME i + 1 <= n PROVE V[i + 1] \in Nat
    OBVIOUS
  <2>1. i + 1 \in 1 .. n /\ V[i] \in Nat /\ bits[i + 1] \in Nat
    BY <1>6 DEF Bit
  <2>2. V[i + 1] = 2 * V[i] + bits[i + 1]
    BY <1>4, <2>1
  <2> QED BY <2>1, <2>2
<1>7. Nat \subseteq T
  <2> HIDE DEF T
  <2> QED BY <1>5, <1>6, AllNaturals
<1>8. V \in [0 .. n -> Nat]
  BY <1>2, <1>7
<1> QED BY <1>3, <1>4, <1>8

\* A digit shifted by one bit more and one bit more.
LEMMA ShiftedStepByStep ==
  ASSUME NEW n \in Nat, NEW f \in [0 .. n -> Nat],
         \A i \in 1 .. n : f[i] = f[i - 1] \div 2
  PROVE  Shifted(f[0], n) = f[n]
<1> DEFINE Rec(W) == W = [k \in 0 .. n |->
                            IF k = 0 THEN f[0] ELSE W[k - 1] \div 2]
           W0 == CHOOSE W : Rec(W)
<1>1. Rec(f)
  OBVIOUS
<1>2. Rec(W0)
  <2> HIDE DEF Rec
  <2> QED BY <1>1
<1>3. Shifted(f[0], n) = W0[n]
  BY DEF Shifted
<1> HIDE DEF W0
<1> DEFINE T == { k \in Nat : k <= n => W0[k] = f[k] }
<1>4. 0 \in T
  BY <1>2
<1>5. ASSUME NEW k \in Nat, k \in T PROVE k + 1 \in T
  <2> SUFFICES ASSUME k + 1 <= n PROVE W0[k + 1] = f[k + 1]
    OBVIOUS
  <2>1. W0[k + 1] = W0[k] \div 2 /\ W0[k] = f[k]
    BY <1>2, <1>5
  <2> QED BY <2>1
<1>6. n \in T
  <2> HIDE DEF T
  <2> QED BY <1>4, <1>5, AllNaturals
<1> QED BY <1>3, <1>6

\* A digit that is printed and parsed has the layers it was made of.
LEMMA DigitRoundTrip ==
  ASSUME NEW bits \in [1 .. DigitWidth -> Bit], NEW i \in 1 .. DigitWidth
  PROVE  BitOfDigit(Value(bits), i) = bits[i]
<1> USE PackedAssumption
<1>1. PICK V \in [0 .. DigitWidth -> Nat] :
        /\ Value(bits) = V[DigitWidth]
        /\ \A k \in 1 .. DigitWidth : V[k] = 2 * V[k - 1] + bits[k]
  BY ValueStepByStep
<1> DEFINE n == DigitWidth - i
           f == [k \in 0 .. n |-> V[DigitWidth - k]]
<1>2. ASSUME NEW k \in 1 .. DigitWidth
      PROVE  V[k] \div 2 = V[k - 1] /\ V[k] % 2 = bits[k]
  <2>1. V[k - 1] \in Nat /\ bits[k] \in 0 .. 2 - 1
    BY DEF Bit
  <2>2. V[k] = V[k - 1] * 2 + bits[k]
    BY <1>1, <2>1
  <2> DEFINE high == V[k - 1]
             low == bits[k]
  <2>3. high \in Nat /\ low \in {0, 1} /\ V[k] = 2 * high + low
    BY <2>1, <2>2
  <2> HIDE DEF high, low
  <2>4. V[k] \div 2 = high /\ V[k] % 2 = low
    BY <2>3
  <2> QED BY <2>4 DEF high, low
<1>3. n \in Nat /\ f \in [0 .. n -> Nat]
  OBVIOUS
<1>4. \A k \in 1 .. n : f[k] = f[k - 1] \div 2
  <2> SUFFICES ASSUME NEW k \in 1 .. n PROVE f[k] = f[k - 1] \div 2
    OBVIOUS
  <2>1. DigitWidth - (k - 1) \in 1 .. DigitWidth
        /\ DigitWidth - (k - 1) - 1 = DigitWidth - k
    OBVIOUS
  <2>2. f[k] = V[DigitWidth - k] /\ f[k - 1] = V[DigitWidth - (k - 1)]
    OBVIOUS
  <2> HIDE DEF f
  <2> QED BY <1>2, <2>1, <2>2
<1>5. f[0] = V[DigitWidth] /\ f[n] = V[i]
  OBVIOUS
<1>6. Shifted(V[DigitWidth], n) = V[i]
  <2> HIDE DEF f, n
  <2> QED BY <1>3, <1>4, <1>5, ShiftedStepByStep
<1> QED BY <1>1, <1>2, <1>6 DEF BitOfDigit

\* Of a number of layers, digits of DigitWidth layers and the others.
LEMMA DigitsWithin ==
  ASSUME NEW n \in Nat
  PROVE  /\ Digits(n) \in Nat
         /\ Digits(n) * DigitWidth \in 0 .. n
         /\ \A k \in 1 .. Digits(n) :
              /\ (k - 1) * DigitWidth \in Nat
              /\ k * DigitWidth = (k - 1) * DigitWidth + DigitWidth
              /\ k * DigitWidth <= Digits(n) * DigitWidth
<1> USE PackedAssumption
<1>1. Digits(n) \in Nat /\ Digits(n) * DigitWidth <= n
  BY DivisionParts DEF Digits
<1> DEFINE d == Digits(n)
<1> SUFFICES ASSUME NEW k \in 1 .. d
             PROVE  /\ (k - 1) * DigitWidth \in Nat
                    /\ k * DigitWidth = (k - 1) * DigitWidth + DigitWidth
                    /\ k * DigitWidth <= d * DigitWidth
  BY <1>1, ProductMonotone
<1>2. d \in Nat
  BY <1>1
<1> HIDE DEF d
<1>3. k * DigitWidth <= d * DigitWidth
  BY <1>2, ProductMonotone
<1>4. k - 1 \in Nat /\ (k - 1) * DigitWidth \in Nat
  BY <1>2
<1>5. k * DigitWidth = (k - 1) * DigitWidth + DigitWidth
  BY <1>2
<1> QED BY <1>3, <1>4, <1>5

\* The digit that a layer is in, and its place there.
LEMMA PlaceInDigit ==
  ASSUME NEW d \in Nat, NEW i \in 1 .. d * DigitWidth
  PROVE  LET k == (i - 1) \div DigitWidth + 1
             j == 1 + ((i - 1) % DigitWidth)
         IN /\ k \in 1 .. d /\ j \in 1 .. DigitWidth
            /\ i = (k - 1) * DigitWidth + j
<1> USE PackedAssumption
<1> DEFINE q == (i - 1) \div DigitWidth
           r == (i - 1) % DigitWidth
<1>1. /\ i - 1 \in Nat /\ d * DigitWidth \in Nat
      /\ i - 1 < d * DigitWidth
  OBVIOUS
<1>2. q \in Nat /\ r \in 0 .. DigitWidth - 1 /\ i - 1 = q * DigitWidth + r
  BY <1>1, DivisionParts
<1> HIDE DEF q, r
<1>3. q < d
  <2> SUFFICES ASSUME d <= q PROVE FALSE
    BY <1>2
  <2>1. d * DigitWidth <= q * DigitWidth /\ q * DigitWidth \in Nat
    BY <1>2, ProductMonotone
  <2> QED BY <1>1, <1>2, <2>1
<1>4. i = ((q + 1) - 1) * DigitWidth + (1 + r)
  <2>1. (q + 1) - 1 = q /\ q * DigitWidth \in Nat
    BY <1>2
  <2> QED BY <1>1, <1>2, <2>1
<1> QED BY <1>2, <1>3, <1>4 DEF q, r

\* A code that is printed and parsed has the layers it had, in memory of
\* their size.
LEMMA RoundTrip ==
  ASSUME AllPacked, NEW y \in Object
  PROVE  /\ LayersOf(String(y)) = layers[y]
         /\ Parsed(String(y)) \in [1 .. Bytes(layers[y]) * ByteWidth -> Bit]
         /\ \A i \in 1 .. layers[y] : Parsed(String(y))[i] = mem[y][i]
<1> USE PackedAssumption
<1> DEFINE n == layers[y]
           d == Digits(n)
           bytes == Bytes(n) * ByteWidth
           digit(k) == SubSeq(mem[y], (k - 1) * DigitWidth + 1, k * DigitWidth)
<1>1. n \in Nat /\ mem[y] \in [1 .. bytes -> Bit]
  BY DEF AllPacked, Packed
<1>2. bytes \in Nat /\ n <= bytes
  BY <1>1, BytesEnough
<1>3. d \in Nat /\ d * DigitWidth \in 0 .. n
  BY <1>1, DigitsWithin
<1>4. ASSUME NEW k \in 1 .. d
      PROVE  /\ digit(k) \in [1 .. DigitWidth -> Bit]
             /\ \A j \in 1 .. DigitWidth :
                  digit(k)[j] = mem[y][(k - 1) * DigitWidth + j]
  <2> DEFINE a == (k - 1) * DigitWidth
             b == k * DigitWidth
  <2>1. a \in Nat /\ b = a + DigitWidth /\ b <= d * DigitWidth
    BY <1>1, DigitsWithin
  <2> HIDE DEF n, d, bytes, a, b
  <2>2. a + 1 \in Nat \ {0} /\ b \in 0 .. bytes /\ a + 1 <= b + 1
    BY <1>1, <1>2, <1>3, <2>1
  <2>3. /\ SubSeq(mem[y], a + 1, b) \in [1 .. b - (a + 1) + 1 -> Bit]
        /\ \A j \in 1 .. b - (a + 1) + 1 :
             SubSeq(mem[y], a + 1, b)[j] = mem[y][(a + 1) + j - 1]
    BY <1>1, <1>2, <2>2, BitSubSeq, SMTT(30)
  <2>4. /\ b - (a + 1) + 1 = DigitWidth
        /\ \A j \in 1 .. DigitWidth : (a + 1) + j - 1 = a + j
    BY <2>1
  <2>5. /\ SubSeq(mem[y], a + 1, b) \in [1 .. DigitWidth -> Bit]
        /\ \A j \in 1 .. DigitWidth : SubSeq(mem[y], a + 1, b)[j] = mem[y][a + j]
    BY <2>3, <2>4
  <2> QED BY <2>5 DEF a, b
<1>5. ASSUME NEW k \in 1 .. d PROVE Value(digit(k)) \in Nat
  <2>1. digit(k) \in [1 .. DigitWidth -> Bit]
    BY <1>4
  <2> HIDE DEF digit
  <2>2. \E V \in [0 .. DigitWidth -> Nat] : Value(digit(k)) = V[DigitWidth]
    BY <2>1, ValueStepByStep
  <2> QED BY <2>2
<1> DEFINE s == String(y)
<1>6. /\ s.digits = [k \in 1 .. d |-> Value(digit(k))]
      /\ s.rest = SubSeq(mem[y], d * DigitWidth + 1, n)
  BY DEF String
<1>7. Len(s.digits) = d
  <2> DEFINE values == [k \in 1 .. d |-> Value(digit(k))]
  <2>1. values \in [1 .. d -> Nat]
    BY <1>5
  <2> HIDE DEF values, d
  <2>2. values \in Seq(Nat)
    BY <1>3, <2>1, SeqDef
  <2>3. Len(values) = d
    BY <1>3, <2>1, <2>2, LenProperties
  <2> QED BY <1>6, <2>3 DEF values
<1>8. /\ Len(s.rest) = n - d * DigitWidth
      /\ s.rest \in [1 .. n - d * DigitWidth -> Bit]
      /\ \A j \in 1 .. n - d * DigitWidth :
           s.rest[j] = mem[y][d * DigitWidth + j]
  <2> DEFINE a == d * DigitWidth
             rest == SubSeq(mem[y], a + 1, n)
  <2>1. a \in Nat /\ a <= n
    BY <1>3
  <2> HIDE DEF n, d, bytes, a
  <2>2. /\ rest \in [1 .. n - (a + 1) + 1 -> Bit]
        /\ Len(rest) = n - (a + 1) + 1
        /\ \A j \in 1 .. n - (a + 1) + 1 : rest[j] = mem[y][(a + 1) + j - 1]
    BY <1>1, <1>2, <2>1, BitSubSeq
  <2>3. n - (a + 1) + 1 = n - a /\ \A j \in 1 .. n - a : (a + 1) + j - 1 = a + j
    BY <1>1, <2>1
  <2>4. /\ rest \in [1 .. n - a -> Bit]
        /\ Len(rest) = n - a
        /\ \A j \in 1 .. n - a : rest[j] = mem[y][a + j]
    BY <2>2, <2>3
  <2>5. s.rest = rest
    BY <1>6 DEF a
  <2> HIDE DEF rest
  <2> QED BY <2>4, <2>5 DEF a
<1>9. LayersOf(s) = n
  <2> HIDE DEF n, d, s
  <2>1. d * DigitWidth \in Nat
    BY <1>3
  <2> QED BY <1>1, <1>3, <1>7, <1>8, <2>1 DEF LayersOf
<1>10. ASSUME NEW i \in 1 .. n
       PROVE  Parsed(s)[i] = mem[y][i]
  <2>1. Parsed(s)[i] =
          IF i <= d * DigitWidth
          THEN BitOfDigit(s.digits[(i - 1) \div DigitWidth + 1],
                          1 + ((i - 1) % DigitWidth))
          ELSE s.rest[i - d * DigitWidth]
    <3> HIDE DEF n, d, bytes, s
    <3>1. i \in 1 .. Bytes(LayersOf(s)) * ByteWidth
      BY <1>1, <1>2, <1>9 DEF bytes
    <3>2. d * DigitWidth \in Nat
      BY <1>3
    <3> QED BY <1>1, <1>7, <1>9, <3>1, <3>2 DEF Parsed
  <2>2. CASE i <= d * DigitWidth
    <3> DEFINE k == (i - 1) \div DigitWidth + 1
               j == 1 + ((i - 1) % DigitWidth)
    <3>1. i \in 1 .. d * DigitWidth
      <4> HIDE DEF n, d
      <4> QED BY <1>1, <1>3, <2>2
    <3>2. k \in 1 .. d /\ j \in 1 .. DigitWidth /\ i = (k - 1) * DigitWidth + j
      <4> HIDE DEF d
      <4> QED BY <1>3, <3>1, PlaceInDigit
    <3> HIDE DEF k, j
    <3>3. s.digits[k] = Value(digit(k))
      <4> HIDE DEF s, d, digit
      <4> QED BY <1>6, <3>2
    <3>4. digit(k) \in [1 .. DigitWidth -> Bit] /\ digit(k)[j] = mem[y][i]
      <4> HIDE DEF d, digit
      <4> QED BY <1>4, <3>2
    <3>5. BitOfDigit(Value(digit(k)), j) = digit(k)[j]
      <4> HIDE DEF d, digit
      <4> QED BY <3>2, <3>4, DigitRoundTrip
    <3>6. Parsed(s)[i] = BitOfDigit(s.digits[k], j)
      <4> HIDE DEF s, d, digit
      <4> QED BY <2>1, <2>2 DEF k, j
    <3> HIDE DEF s, d, digit
    <3> QED BY <3>3, <3>4, <3>5, <3>6
  <2>3. CASE ~ (i <= d * DigitWidth)
    <3> DEFINE a == d * DigitWidth
    <3>1. a \in Nat /\ a <= n /\ i \in 1 .. n /\ ~ (i <= a)
      BY <1>1, <1>3, <2>3
    <3>2. \A j \in 1 .. n - a : s.rest[j] = mem[y][a + j]
      BY <1>8
    <3>3. Parsed(s)[i] = s.rest[i - a]
      BY <2>1, <2>3
    <3> HIDE DEF s, a, n, d
    <3>4. i - a \in 1 .. n - a /\ a + (i - a) = i
      BY <1>1, <3>1
    <3> QED BY <3>2, <3>3, <3>4
  <2> QED BY <2>2, <2>3
<1>11. Parsed(s) \in [1 .. bytes -> Bit]
  <2>1. Parsed(s) = [i \in 1 .. bytes |-> Parsed(s)[i]]
    <3> HIDE DEF s, n
    <3> QED BY <1>9 DEF Parsed
  <2>2. ASSUME NEW i \in 1 .. bytes PROVE Parsed(s)[i] \in Bit
    <3>1. CASE i <= n
      <4>1. i \in 1 .. n
        BY <1>1, <1>2, <3>1
      <4> HIDE DEF s, n, bytes
      <4> QED BY <1>1, <1>10, <4>1
    <3>2. CASE ~ (i <= n)
      <4> HIDE DEF s, n, d
      <4>1. d * DigitWidth \in Nat /\ ~ (i <= d * DigitWidth)
        BY <1>1, <1>2, <1>3, <3>2
      <4>2. Parsed(s)[i] = 0
        BY <1>7, <1>9, <3>2, <4>1 DEF Parsed, bytes
      <4> QED BY <4>2 DEF Bit
    <3> QED BY <3>1, <3>2
  <2> HIDE DEF s, n, bytes
  <2> QED BY <2>1, <2>2
<1> HIDE DEF s, d, digit
<1> QED BY <1>9, <1>10, <1>11 DEF s

-----------------------------------------------------------------------------
\* The codes that the objects stand for have at most MaxLayers layers.
LEMMA PackedRef ==
  ASSUME AllPacked
  PROVE  ref \in [Object -> BitsUpTo(MaxLayers)]
<1>1. ASSUME NEW x \in Object PROVE ref[x] \in BitsUpTo(MaxLayers)
  <2>1. layers[x] \in 0 .. MaxLayers /\ ref[x] \in [1 .. layers[x] -> Bit]
    BY DEF AllPacked, Packed
  <2> QED BY <2>1 DEF BitsUpTo
<1> QED BY <1>1 DEF AllPacked

\* The steps: one object becomes another code, and the others stay.
LEMMA BecomesPacked ==
  ASSUME AllPacked, NEW x \in Object, NEW n, NEW memory, NEW code,
         Becomes(x, n, memory, code), Packed(n, memory, code)
  PROVE  AllPacked'
<1>1. /\ layers' \in [Object -> 0 .. MaxLayers]
      /\ mem' \in [Object -> Seq(Bit)] /\ ref' \in [Object -> Seq(Bit)]
  <2>1. n \in 0 .. MaxLayers /\ n \in Nat
    BY PackedAssumption DEF Packed
  <2>2. memory \in Seq(Bit) /\ code \in Seq(Bit)
    BY <2>1, BytesEnough, BitSeq DEF Packed
  <2> QED BY <2>1, <2>2 DEF AllPacked, Becomes
<1>2. ASSUME NEW y \in Object
      PROVE  Packed(layers'[y], mem'[y], ref'[y])
  <2>1. CASE y = x
    <3>1. layers'[y] = n /\ mem'[y] = memory /\ ref'[y] = code
      BY <2>1 DEF AllPacked, Becomes
    <3> QED BY <3>1
  <2>2. CASE y # x
    <3>1. layers'[y] = layers[y] /\ mem'[y] = mem[y] /\ ref'[y] = ref[y]
      BY <2>2 DEF AllPacked, Becomes
    <3> QED BY <3>1 DEF AllPacked
  <2> QED BY <2>1, <2>2
<1> QED BY <1>1, <1>2 DEF AllPacked

\* resize_layers keeps the layers there are and leaves memory for n.  Of a code
\* without layers this is so up to the first byte only, and MoreThanAByte says
\* what it leaves otherwise.
LEMMA ResizedEnough ==
  ASSUME NEW old \in Nat, NEW n \in Nat, old <= n, old = 0 => n <= ByteWidth,
         NEW memory \in [1 .. Bytes(old) * ByteWidth -> Bit],
         NEW new \in Resized(memory, old, n)
  PROVE  /\ new \in [1 .. Bytes(n) * ByteWidth -> Bit]
         /\ \A i \in 1 .. old : new[i] = memory[i]
<1> USE PackedAssumption
<1> DEFINE b == Bytes(old)
           c == Bytes(n)
<1>1. /\ b \in Nat \ {0} /\ c \in Nat \ {0} /\ b <= c
      /\ b * ByteWidth \in Nat /\ c * ByteWidth \in Nat
      /\ old <= b * ByteWidth
  BY BytesEnough, BytesMonotone
<1>2. CASE old # 0 /\ c > b
  <2>1. PICK rest \in [1 .. (c - b) * ByteWidth -> Bit] : new = memory \o rest
    BY <1>2 DEF Resized
  <2> HIDE DEF b, c
  <2> DEFINE p == b * ByteWidth
             q == (c - b) * ByteWidth
  <2>2. p \in Nat /\ q \in Nat /\ p + q = c * ByteWidth
    BY <1>1
  <2>3. memory \in [1 .. p -> Bit] /\ rest \in [1 .. q -> Bit]
    BY <2>1 DEF b
  <2> HIDE DEF p, q
  <2>4. /\ memory \in Seq(Bit) /\ Len(memory) = p
        /\ rest \in Seq(Bit) /\ Len(rest) = q
    BY <2>2, <2>3, BitSeq
  <2>5. /\ new \in Seq(Bit) /\ Len(new) = p + q
        /\ \A i \in 1 .. p + q : new[i] = IF i <= p THEN memory[i] ELSE rest[i - p]
    BY <2>1, <2>4, ConcatProperties, ZenonT(30)
  <2>6. new \in [1 .. p + q -> Bit]
    BY <2>5, LenProperties
  <2>7. old <= p
    BY <1>1 DEF p
  <2>8. \A i \in 1 .. old : i \in 1 .. p + q /\ i <= p
    BY <2>2, <2>7
  <2> QED BY <2>2, <2>5, <2>6, <2>8 DEF c
<1>3. CASE ~ (old # 0 /\ c > b)
  <2>1. new = memory
    BY <1>3 DEF Resized
  <2>2. c = b
    <3>1. CASE old = 0
      <4>1. b = 1 /\ c = 1
        BY <3>1, OneByte
      <4> QED BY <4>1
    <3>2. CASE old # 0
      <4> HIDE DEF b, c
      <4> QED BY <1>1, <1>3, <3>2
    <3> QED BY <3>1, <3>2
  <2> QED BY <2>1, <2>2
<1> QED BY <1>2, <1>3

LEMMA GrowPacked ==
  ASSUME AllPacked, NEW x \in Object, NEW bit \in Bit, Grow(x, bit)
  PROVE  AllPacked' /\ overrun' = overrun
<1> USE PackedAssumption
<1> DEFINE n == layers[x]
<1>1. PICK memory \in Resized(mem[x], n, n + 1) :
        /\ Becomes(x, n + 1, SetLayerCode(memory, n, bit), Append(ref[x], bit))
        /\ overrun' = Writing("grown", n + 1, memory)
  BY DEF Grow
<1>2. /\ n \in Nat /\ n + 1 \in 0 .. MaxLayers
      /\ mem[x] \in [1 .. Bytes(n) * ByteWidth -> Bit]
      /\ ref[x] \in [1 .. n -> Bit]
      /\ \A i \in 1 .. n : mem[x][i] = ref[x][i]
  BY DEF AllPacked, Packed, Grow
<1> HIDE DEF n
<1> DEFINE m == Bytes(n + 1) * ByteWidth
<1>3. /\ memory \in [1 .. m -> Bit]
      /\ \A i \in 1 .. n : memory[i] = mem[x][i]
  <2>1. n + 1 \in Nat /\ n <= n + 1 /\ (n = 0 => n + 1 <= ByteWidth)
    BY <1>2
  <2> QED BY <1>2, <2>1, ResizedEnough
<1>4. m \in Nat /\ n + 1 \in 1 .. m
  <2>1. n + 1 \in Nat
    BY <1>2
  <2> QED BY <1>2, <2>1, BytesEnough
<1> DEFINE new == SetLayerCode(memory, n, bit)
           code == Append(ref[x], bit)
<1>5. /\ new \in [1 .. m -> Bit]
      /\ new[n + 1] = bit /\ \A i \in 1 .. n : new[i] = memory[i]
  <2> HIDE DEF m
  <2> QED BY <1>2, <1>3, <1>4 DEF SetLayerCode
<1>6. /\ code \in [1 .. n + 1 -> Bit]
      /\ code[n + 1] = bit /\ \A i \in 1 .. n : code[i] = ref[x][i]
  <2>1. ref[x] \in Seq(Bit) /\ Len(ref[x]) = n
    BY <1>2, BitSeq
  <2>2. code \in Seq(Bit) /\ Len(code) = n + 1
    BY <2>1
  <2>3. code \in [1 .. n + 1 -> Bit]
    <3> HIDE DEF code
    <3> QED BY <2>2, LenProperties
  <2> QED BY <1>2, <2>1, <2>3
<1>7. \A i \in 1 .. n + 1 : new[i] = code[i]
  <2> SUFFICES ASSUME NEW i \in 1 .. n + 1 PROVE new[i] = code[i]
    OBVIOUS
  <2> HIDE DEF new, code
  <2>1. CASE i = n + 1
    BY <1>5, <1>6, <2>1
  <2>2. CASE i # n + 1
    <3>1. i \in 1 .. n
      BY <1>2, <2>2
    <3> QED BY <1>2, <1>3, <1>5, <1>6, <3>1
  <2> QED BY <2>1, <2>2
<1>8. Packed(n + 1, new, code)
  <2> HIDE DEF new, code
  <2> QED BY <1>2, <1>5, <1>6, <1>7 DEF Packed
<1> HIDE DEF new, code
<1>9. Becomes(x, n + 1, new, code)
  BY <1>1 DEF new, code
<1>10. overrun' = overrun
  <2> HIDE DEF m
  <2>1. Len(memory) = m
    BY <1>3, <1>4, BitSeq
  <2> QED BY <1>1, <1>4, <2>1 DEF Writing
<1> QED BY <1>8, <1>9, <1>10, BecomesPacked

LEMMA PrefixPacked ==
  ASSUME AllPacked, NEW x \in Object, NEW y \in Object,
         NEW n \in 0 .. MaxLayers, n <= ByteWidth, Prefix(x, y, n)
  PROVE  AllPacked' /\ overrun' = overrun
<1> USE PackedAssumption
<1>1. PICK memory \in Resized(Zeros(ByteWidth), 0, n) :
        /\ Becomes(x, n, FirstLayers(y, memory, n), SubSeq(ref[y], 1, n))
        /\ overrun' = Writing("cut", n, memory)
  BY DEF Prefix
<1>2. /\ layers[y] \in 0 .. MaxLayers /\ n <= layers[y]
      /\ mem[y] \in [1 .. Bytes(layers[y]) * ByteWidth -> Bit]
      /\ ref[y] \in [1 .. layers[y] -> Bit]
      /\ \A i \in 1 .. layers[y] : mem[y][i] = ref[y][i]
  BY DEF AllPacked, Packed, Prefix
<1>3. n \in Nat /\ n <= ByteWidth /\ n \in 0 .. MaxLayers
  BY <1>2
<1> DEFINE m == Bytes(n) * ByteWidth
<1>4. memory \in [1 .. m -> Bit]
  <2>1. Bytes(0) * ByteWidth = ByteWidth
    BY DEF Bytes
  <2>2. Zeros(ByteWidth) \in [1 .. Bytes(0) * ByteWidth -> Bit]
    BY <2>1 DEF Zeros, Bit
  <2>3. 0 \in Nat /\ 0 <= n
    BY <1>3
  <2> HIDE DEF m
  <2> DEFINE zero == 0
  <2>4. /\ zero \in Nat /\ zero <= n /\ memory \in Resized(Zeros(ByteWidth), zero, n)
        /\ Zeros(ByteWidth) \in [1 .. Bytes(zero) * ByteWidth -> Bit]
    BY <2>2, <2>3
  <2> HIDE DEF zero
  <2> QED BY <1>3, <2>4, ResizedEnough DEF m
<1>5. /\ layers[y] \in Nat /\ Bytes(layers[y]) * ByteWidth \in Nat
      /\ layers[y] <= Bytes(layers[y]) * ByteWidth
      /\ m \in Nat /\ n <= m
  <2>1. layers[y] \in Nat
    BY <1>2
  <2>2. /\ Bytes(layers[y]) * ByteWidth \in Nat
        /\ layers[y] <= Bytes(layers[y]) * ByteWidth
    BY <2>1, BytesEnough
  <2>3. m \in Nat /\ n <= m
    BY <1>3, BytesEnough
  <2> QED BY <2>1, <2>2, <2>3
<1> DEFINE new == FirstLayers(y, memory, n)
           code == SubSeq(ref[y], 1, n)
<1>6. new \in [1 .. m -> Bit] /\ \A i \in 1 .. n : new[i] = mem[y][i]
  <2>1. \A i \in 1 .. n : i \in 1 .. m /\ i \in 1 .. Bytes(layers[y]) * ByteWidth
    BY <1>2, <1>3, <1>5
  <2>2. new = [i \in 1 .. m |-> IF i <= n THEN mem[y][i] ELSE memory[i]]
    BY <1>4 DEF FirstLayers
  <2> HIDE DEF m
  <2>3. ASSUME NEW i \in 1 .. m
        PROVE  (IF i <= n THEN mem[y][i] ELSE memory[i]) \in Bit
    <3>1. i <= n => i \in 1 .. n
      BY <1>3
    <3> QED BY <1>2, <1>4, <2>1, <3>1
  <2>4. new \in [1 .. m -> Bit]
    BY <2>2, <2>3
  <2>5. ASSUME NEW i \in 1 .. n PROVE new[i] = mem[y][i]
    <3>1. i <= n /\ i \in 1 .. m
      BY <1>3, <2>1
    <3> HIDE DEF new
    <3>2. new[i] = IF i <= n THEN mem[y][i] ELSE memory[i]
      BY <2>2, <3>1
    <3> QED BY <3>1, <3>2
  <2> QED BY <2>4, <2>5
<1>7. code \in [1 .. n -> Bit] /\ \A i \in 1 .. n : code[i] = ref[y][i]
  <2> DEFINE l == layers[y]
             r == ref[y]
  <2>1. n \in 0 .. l /\ l \in Nat /\ r \in [1 .. l -> Bit]
    BY <1>2, <1>3, <1>5
  <2> HIDE DEF l, r
  <2>2. /\ SubSeq(r, 1, n) \in [1 .. n -> Bit]
        /\ \A i \in 1 .. n : SubSeq(r, 1, n)[i] = r[i]
    BY ONLY <2>1, BitPrefix
  <2> QED BY <2>2 DEF r
<1>8. Packed(n, new, code)
  <2>1. \A i \in 1 .. n : i \in 1 .. layers[y]
    BY <1>2, <1>3
  <2> HIDE DEF new, code
  <2> QED BY <1>2, <1>3, <1>6, <1>7, <2>1 DEF Packed
<1> HIDE DEF new, code
<1>9. Becomes(x, n, new, code)
  BY <1>1 DEF new, code
<1>10. overrun' = overrun
  <2> HIDE DEF m
  <2>1. Len(memory) = m
    BY <1>4, <1>5, BitSeq
  <2> QED BY <1>1, <1>5, <2>1 DEF Writing
<1> QED BY <1>8, <1>9, <1>10, BecomesPacked

\* A code without layers that is resized to more than a byte has is written
\* behind its memory.
LEMMA MoreThanAByte ==
  ASSUME AllPacked, NEW x \in Object, NEW y \in Object,
         NEW n \in 0 .. MaxLayers, ~ (n <= ByteWidth), Prefix(x, y, n)
  PROVE  /\ overrun' = "cut"
         /\ layers' \in [Object -> 0 .. MaxLayers]
         /\ ref' \in [Object -> BitsUpTo(MaxLayers)]
<1> USE PackedAssumption
<1>1. PICK memory \in Resized(Zeros(ByteWidth), 0, n) :
        /\ Becomes(x, n, FirstLayers(y, memory, n), SubSeq(ref[y], 1, n))
        /\ overrun' = Writing("cut", n, memory)
  BY DEF Prefix
<1>2. overrun' = "cut"
  <2>1. memory = Zeros(ByteWidth)
    BY DEF Resized
  <2>2. memory \in [1 .. ByteWidth -> Bit] /\ ByteWidth \in Nat
    BY <2>1 DEF Zeros, Bit
  <2>3. Len(memory) = ByteWidth
    BY <2>2, BitSeq
  <2> QED BY <1>1, <2>3 DEF Writing
<1>3. layers' \in [Object -> 0 .. MaxLayers]
  BY <1>1 DEF AllPacked, Becomes
<1>4. ref \in [Object -> BitsUpTo(MaxLayers)]
  BY PackedRef
<1>5. SubSeq(ref[y], 1, n) \in BitsUpTo(MaxLayers)
  <2>1. /\ layers[y] \in Nat /\ n \in 0 .. layers[y]
        /\ ref[y] \in [1 .. layers[y] -> Bit]
    BY DEF AllPacked, Packed, Prefix
  <2>2. SubSeq(ref[y], 1, n) \in [1 .. n -> Bit]
    BY <2>1, BitPrefix
  <2> QED BY <2>2 DEF BitsUpTo
<1> QED BY <1>1, <1>2, <1>3, <1>4, <1>5 DEF Becomes

LEMMA FromBytesPacked ==
  ASSUME AllPacked, NEW x \in Object, NEW bits \in [1 .. ByteWidth -> Bit],
         FromBytes(x, bits)
  PROVE  AllPacked' /\ overrun' = overrun
<1>1. Len(bits) = ByteWidth /\ ByteWidth \in Nat \ {0}
  BY BitSeq, PackedAssumption
<1>2. /\ ByteWidth % ByteWidth = 0 /\ ByteWidth <= MaxLayers
      /\ Becomes(x, ByteWidth, bits, bits) /\ overrun' = overrun
  BY <1>1 DEF FromBytes
<1>3. Bytes(ByteWidth) * ByteWidth = ByteWidth
  BY <1>1, <1>2, FullBytes
<1>4. Packed(ByteWidth, bits, bits)
  BY <1>1, <1>2, <1>3, PackedAssumption DEF Packed
<1> QED BY <1>2, <1>4, BecomesPacked

LEMMA AssignPacked ==
  ASSUME AllPacked, NEW x \in Object, NEW y \in Object, Assign(x, y)
  PROVE  AllPacked' /\ overrun' = overrun
<1> DEFINE n == layers[y]
           m == Bytes(n) * ByteWidth
<1>1. /\ n \in 0 .. MaxLayers /\ mem[y] \in [1 .. m -> Bit]
      /\ ref[y] \in [1 .. n -> Bit]
      /\ \A i \in 1 .. n : mem[y][i] = ref[y][i]
  BY DEF AllPacked, Packed
<1>2. m \in Nat
  <2>1. n \in Nat
    BY <1>1, PackedAssumption
  <2> HIDE DEF n
  <2> QED BY <2>1, BytesEnough
<1>3. Copied(y) = mem[y]
  <2> HIDE DEF n, m
  <2>1. mem[y] \in Seq(Bit) /\ Len(mem[y]) = m
    BY <1>1, <1>2, BitSeq
  <2>2. SubSeq(mem[y], 1, m) = mem[y]
    BY <2>1, SubSeqFull
  <2> QED BY <2>2 DEF Copied, m, n
<1>4. Packed(n, mem[y], ref[y])
  BY <1>1 DEF Packed
<1>5. Becomes(x, n, mem[y], ref[y]) /\ overrun' = overrun
  BY <1>3 DEF Assign
<1> HIDE DEF n
<1> QED BY <1>4, <1>5, BecomesPacked

LEMMA TransmitPacked ==
  ASSUME AllPacked, NEW x \in Object, NEW y \in Object, Transmit(x, y)
  PROVE  AllPacked' /\ overrun' = overrun
<1> DEFINE n == layers[y]
           memory == Parsed(String(y))
<1>1. /\ n \in 0 .. MaxLayers
      /\ ref[y] \in [1 .. n -> Bit]
      /\ \A i \in 1 .. n : mem[y][i] = ref[y][i]
  BY DEF AllPacked, Packed
<1>2. /\ LayersOf(String(y)) = n
      /\ memory \in [1 .. Bytes(n) * ByteWidth -> Bit]
      /\ \A i \in 1 .. n : memory[i] = mem[y][i]
  BY RoundTrip
<1>3. Becomes(x, n, memory, ref[y]) /\ overrun' = overrun
  BY <1>2 DEF Transmit
<1> HIDE DEF n, memory
<1>4. Packed(n, memory, ref[y])
  BY <1>1, <1>2 DEF Packed
<1> QED BY <1>3, <1>4, BecomesPacked

\* The objects are packed after every step, as after Init.
LEMMA InitPacked ==
  ASSUME Init
  PROVE  AllPacked
<1> USE PackedAssumption
<1>1. Bytes(0) * ByteWidth = ByteWidth
  BY DEF Bytes
<1>2. Packed(0, Zeros(ByteWidth), << >>)
  <2>1. Zeros(ByteWidth) \in [1 .. Bytes(0) * ByteWidth -> Bit]
    BY <1>1 DEF Zeros, Bit
  <2>2. << >> \in [1 .. 0 -> Bit]
    OBVIOUS
  <2> QED BY <2>1, <2>2 DEF Packed
<1>3. << >> \in Seq(Bit) /\ Zeros(ByteWidth) \in Seq(Bit)
  BY BitSeq DEF Zeros, Bit
<1> QED BY <1>2, <1>3 DEF Init, AllPacked

LEMMA OperationInv ==
  ASSUME AllPacked, overrun = "none", Operation
  PROVE  Inv'
<1> SUFFICES \/ AllPacked' /\ overrun' = overrun
             \/ /\ overrun' = "cut"
                /\ layers' \in [Object -> 0 .. MaxLayers]
                /\ ref' \in [Object -> BitsUpTo(MaxLayers)]
  <2>1. ASSUME AllPacked' PROVE ref' \in [Object -> BitsUpTo(MaxLayers)]
    <3>1. ASSUME NEW x \in Object PROVE ref'[x] \in BitsUpTo(MaxLayers)
      <4>1. layers'[x] \in 0 .. MaxLayers /\ ref'[x] \in [1 .. layers'[x] -> Bit]
        BY <2>1 DEF AllPacked, Packed
      <4> QED BY <4>1 DEF BitsUpTo
    <3> QED BY <2>1, <3>1 DEF AllPacked
  <2>2. AllPacked' => layers' \in [Object -> 0 .. MaxLayers]
    BY DEF AllPacked
  <2> QED BY <2>1, <2>2 DEF Inv
<1>1. CASE \E x \in Object : \E bit \in Bit : Grow(x, bit)
  BY <1>1, GrowPacked
<1>2. CASE \E x, y \in Object : \E n \in 0 .. MaxLayers : Prefix(x, y, n)
  <2>1. PICK x \in Object, y \in Object, n \in 0 .. MaxLayers : Prefix(x, y, n)
    BY <1>2
  <2>2. CASE n <= ByteWidth
    BY <2>1, <2>2, PrefixPacked
  <2>3. CASE ~ (n <= ByteWidth)
    BY <2>1, <2>3, MoreThanAByte
  <2> QED BY <2>2, <2>3
<1>3. CASE \E x \in Object : \E bits \in [1 .. ByteWidth -> Bit] : FromBytes(x, bits)
  BY <1>3, FromBytesPacked
<1>4. CASE \E x, y \in Object : Assign(x, y) \/ Transmit(x, y)
  BY <1>4, AssignPacked, TransmitPacked
<1> QED BY <1>1, <1>2, <1>3, <1>4 DEF Operation

LEMMA InitInv ==
  ASSUME Init
  PROVE  Inv
<1>1. AllPacked /\ overrun = "none"
  BY InitPacked DEF Init
<1>2. ref \in [Object -> BitsUpTo(MaxLayers)]
  BY <1>1, PackedRef
<1> QED BY <1>1, <1>2 DEF Inv, AllPacked

LEMMA NextInv ==
  ASSUME Inv, [Next]_vars
  PROVE  Inv'
<1>1. CASE overrun = "none" /\ Operation
  BY <1>1, OperationInv DEF Inv
<1>2. CASE UNCHANGED vars
  BY <1>2 DEF vars, Inv, AllPacked
<1> QED BY <1>1, <1>2 DEF Next, Undefined

\* However an object was grown, cut, copied, built from bytes, printed or
\* parsed, the bytes of its layers hold the code it stands for, and only the
\* cutting of a code to more layers than a byte has writes behind them
\* (code.cpp, peer_messages.cpp:620-624).
THEOREM PackedCorrect == Spec => []Inv
BY InitInv, NextInv, PTL DEF Spec

-----------------------------------------------------------------------------
\* What the comparisons see of two objects.
LEMMA PackedParts ==
  ASSUME AllPacked, NEW x \in Object
  PROVE  /\ layers[x] \in 0 .. MaxLayers /\ layers[x] \in Nat
         /\ Bytes(layers[x]) * ByteWidth \in Nat
         /\ layers[x] <= Bytes(layers[x]) * ByteWidth
         /\ mem[x] \in [1 .. Bytes(layers[x]) * ByteWidth -> Bit]
         /\ Len(mem[x]) = Bytes(layers[x]) * ByteWidth
         /\ ref[x] \in [1 .. layers[x] -> Bit]
         /\ Len(ref[x]) = layers[x]
         /\ \A i \in 1 .. layers[x] : mem[x][i] = ref[x][i]
         /\ \A i \in 0 .. layers[x] - 1 : LayerCode(x, i) = ref[x][i + 1]
<1>1. /\ layers[x] \in 0 .. MaxLayers
      /\ mem[x] \in [1 .. Bytes(layers[x]) * ByteWidth -> Bit]
      /\ ref[x] \in [1 .. layers[x] -> Bit]
      /\ \A i \in 1 .. layers[x] : mem[x][i] = ref[x][i]
  BY DEF AllPacked, Packed
<1>2. layers[x] \in Nat
  BY <1>1, PackedAssumption
<1>3. /\ Bytes(layers[x]) * ByteWidth \in Nat
      /\ layers[x] <= Bytes(layers[x]) * ByteWidth
  BY <1>2, BytesEnough
<1>4. Len(ref[x]) = layers[x] /\ Len(mem[x]) = Bytes(layers[x]) * ByteWidth
  BY <1>1, <1>2, <1>3, BitSeq
<1>5. ASSUME NEW i \in 0 .. layers[x] - 1
      PROVE  LayerCode(x, i) = ref[x][i + 1]
  <2>1. i + 1 \in 1 .. layers[x]
    BY <1>2
  <2> QED BY <1>1, <2>1 DEF LayerCode
<1> QED BY <1>1, <1>2, <1>3, <1>4, <1>5

LEMMA PackedType ==
  ASSUME Inv
  PROVE  TypeOK
<1>1. AllPacked =>
        \A x \in Object : mem[x] \in [1 .. Bytes(layers[x]) * ByteWidth -> Bit]
  BY DEF AllPacked, Packed
<1> QED BY <1>1 DEF Inv, TypeOK

\* TypeOK: as many bytes as the layers of an object take, which is what copies
\* of it read (code.h, the members of code; code.cpp, the copies).
THEOREM PackedTypeCorrect == Spec => []TypeOK
BY PackedCorrect, PackedType, PTL

LEMMA PackedRepresents ==
  ASSUME Inv
  PROVE  Represents
<1>1. AllPacked =>
        \A x \in Object :
          /\ layers[x] = Len(ref[x])
          /\ layers[x] <= Len(mem[x])
          /\ \A i \in 0 .. layers[x] - 1 : LayerCode(x, i) = ref[x][i + 1]
  BY PackedParts
<1> QED BY <1>1 DEF Inv, Represents

\* Growing never writes behind the memory of a code, and until cutting does,
\* every object holds the code it stands for, whatever resize_layers leaves
\* uncleared (code.cpp).
THEOREM RepresentsCorrect == Spec => []Represents
BY PackedCorrect, PackedRepresents, PTL

\* The bytes that are full have layers of the code only.
LEMMA FullWithin ==
  ASSUME NEW n \in Nat
  PROVE  /\ n \div ByteWidth \in Nat
         /\ (n \div ByteWidth) * ByteWidth \in Nat
         /\ (n \div ByteWidth) * ByteWidth <= n
<1> DEFINE q == n \div ByteWidth
<1>1. q \in Nat /\ q * ByteWidth <= n
  BY DivisionParts, PackedAssumption
<1> HIDE DEF q
<1>2. q * ByteWidth \in Nat
  BY <1>1, ProductMonotone, PackedAssumption
<1> QED BY <1>1, <1>2 DEF q

\* operator== compares all layers and nothing behind them.
LEMMA SameBitsIff ==
  ASSUME AllPacked, NEW x \in Object, NEW y \in Object, layers[x] = layers[y]
  PROVE  SameBits(x, y) <=> \A i \in 1 .. layers[x] : mem[x][i] = mem[y][i]
<1> DEFINE n == layers[x]
           f == (n \div ByteWidth) * ByteWidth
<1>1. n \in Nat /\ f \in Nat /\ f <= n
  <2>1. layers[x] \in Nat
    BY PackedParts
  <2> QED BY <2>1, FullWithin
<1>2. SameBits(x, y) <=> /\ \A i \in 1 .. f : mem[x][i] = mem[y][i]
                         /\ \A i \in f .. n - 1 : mem[x][i + 1] = mem[y][i + 1]
  BY DEF SameBits, LayerCode
<1> HIDE DEF n, f
<1>3. ASSUME \A i \in 1 .. n : mem[x][i] = mem[y][i]
      PROVE  SameBits(x, y)
  <2>1. \A i \in 1 .. f : i \in 1 .. n
    BY <1>1
  <2>2. \A i \in f .. n - 1 : i + 1 \in 1 .. n
    BY <1>1
  <2> QED BY <1>2, <1>3, <2>1, <2>2
<1>4. ASSUME SameBits(x, y), NEW i \in 1 .. n
      PROVE  mem[x][i] = mem[y][i]
  <2>1. CASE i <= f
    <3>1. i \in 1 .. f
      BY <1>1, <2>1
    <3> QED BY <1>2, <1>4, <3>1
  <2>2. CASE ~ (i <= f)
    <3>1. i - 1 \in f .. n - 1 /\ (i - 1) + 1 = i
      BY <1>1, <2>2
    <3>2. mem[x][(i - 1) + 1] = mem[y][(i - 1) + 1]
      BY <1>2, <1>4, <3>1
    <3> QED BY <3>1, <3>2
  <2> QED BY <2>1, <2>2
<1> QED BY <1>3, <1>4 DEF n

LEMMA PackedEqual ==
  ASSUME AllPacked, NEW x \in Object, NEW y \in Object
  PROVE  /\ Equal(x, y) <=> ref[x] = ref[y]
         /\ Equal(x, y) => layers[x] = layers[y]
                           /\ \A i \in 1 .. layers[x] : mem[x][i] = mem[y][i]
<1>1. CASE layers[x] = layers[y]
  <2>1. /\ ref[x] \in [1 .. layers[x] -> Bit] /\ ref[y] \in [1 .. layers[x] -> Bit]
        /\ \A i \in 1 .. layers[x] : mem[x][i] = ref[x][i] /\ mem[y][i] = ref[y][i]
    BY <1>1, PackedParts
  <2>2. ref[x] = ref[y] <=> \A i \in 1 .. layers[x] : ref[x][i] = ref[y][i]
    <3> DEFINE n == layers[x]
               c == ref[x]
               d == ref[y]
    <3>1. c \in [1 .. n -> Bit] /\ d \in [1 .. n -> Bit]
      BY <2>1
    <3> HIDE DEF n, c, d
    <3>2. ASSUME \A i \in 1 .. n : c[i] = d[i] PROVE c = d
      <4>1. c = [i \in 1 .. n |-> c[i]] /\ d = [i \in 1 .. n |-> d[i]]
        BY <3>1
      <4>2. [i \in 1 .. n |-> c[i]] = [i \in 1 .. n |-> d[i]]
        BY <3>2
      <4> QED BY <4>1, <4>2
    <3> QED BY <3>2 DEF n, c, d
  <2> QED BY <1>1, <2>1, <2>2, SameBitsIff DEF Equal
<1>2. CASE layers[x] # layers[y]
  <2>1. ref[x] # ref[y]
    BY <1>2, PackedParts
  <2> QED BY <1>2, <2>1 DEF Equal
<1> QED BY <1>1, <1>2

LEMMA PackedEqualIffSame ==
  ASSUME Inv
  PROVE  EqualIffSame
BY PackedEqual DEF EqualIffSame, Inv

\* operator== holds exactly of objects that stand for the same code, so that
\* a block is found under its code (code.cpp, operator==).
THEOREM EqualIffSameCorrect == Spec => []EqualIffSame
BY PackedCorrect, PackedEqualIffSame, PTL

\* Parts of two sequences that agree there are the same.
LEMMA SamePart ==
  ASSUME NEW m \in Nat \ {0}, NEW n \in Nat, NEW s, NEW t,
         \A i \in m .. n : s[i] \in Bit /\ s[i] = t[i]
  PROVE  SubSeq(s, m, n) = SubSeq(t, m, n)
<1>1. /\ SubSeq(s, m, n) \in Seq(Bit)
      /\ Len(SubSeq(s, m, n)) = IF m <= n THEN n - m + 1 ELSE 0
      /\ \A i \in 1 .. n - m + 1 : SubSeq(s, m, n)[i] = s[m + i - 1]
  BY SubSeqProperties
<1>2. /\ SubSeq(t, m, n) \in Seq(Bit)
      /\ Len(SubSeq(t, m, n)) = IF m <= n THEN n - m + 1 ELSE 0
      /\ \A i \in 1 .. n - m + 1 : SubSeq(t, m, n)[i] = t[m + i - 1]
  <2>1. \A i \in m .. n : t[i] \in Bit
    OBVIOUS
  <2> QED BY <2>1, SubSeqProperties
<1>3. ASSUME NEW i \in 1 .. Len(SubSeq(s, m, n))
      PROVE  SubSeq(s, m, n)[i] = SubSeq(t, m, n)[i]
  <2>1. i \in 1 .. n - m + 1 /\ m + i - 1 \in m .. n
    BY <1>1
  <2> QED BY <1>1, <1>2, <2>1
<1> QED BY <1>1, <1>2, <1>3, SeqEqual

LEMMA PackedEqualHash ==
  ASSUME Inv
  PROVE  EqualHash
<1> SUFFICES ASSUME AllPacked, NEW x \in Object, NEW y \in Object, Equal(x, y)
             PROVE  Hashed(x) = Hashed(y)
  BY DEF EqualHash, Inv
<1> DEFINE n == layers[x]
           full == n \div ByteWidth
<1>1. /\ n \in Nat /\ layers[y] = n
      /\ \A i \in 1 .. n : mem[x][i] \in Bit /\ mem[x][i] = mem[y][i]
  <2>1. \A i \in 1 .. n : ref[x][i] \in Bit /\ mem[x][i] = ref[x][i]
    BY PackedParts
  <2> QED BY <2>1, PackedEqual, PackedParts
<1>2. full \in Nat /\ full * ByteWidth \in Nat /\ full * ByteWidth <= n
  BY <1>1, FullWithin
<1>3. /\ Hashed(x) = <<SubSeq(mem[x], 1, full * ByteWidth),
                       IF full = 0 THEN << >>
                       ELSE SubSeq(mem[x], (full - 1) * ByteWidth + 1, n)>>
      /\ Hashed(y) = <<SubSeq(mem[y], 1, full * ByteWidth),
                       IF full = 0 THEN << >>
                       ELSE SubSeq(mem[y], (full - 1) * ByteWidth + 1, n)>>
  BY <1>1 DEF Hashed
<1> HIDE DEF n, full
<1>4. SubSeq(mem[x], 1, full * ByteWidth) = SubSeq(mem[y], 1, full * ByteWidth)
  <2> DEFINE e == full * ByteWidth
  <2>1. e \in Nat /\ \A i \in 1 .. e : i \in 1 .. n
    BY <1>1, <1>2
  <2> HIDE DEF e
  <2>2. \A i \in 1 .. e : mem[x][i] \in Bit /\ mem[x][i] = mem[y][i]
    BY <1>1, <2>1
  <2>3. SubSeq(mem[x], 1, e) = SubSeq(mem[y], 1, e)
    BY <2>1, <2>2, SamePart
  <2> QED BY <2>3 DEF e
<1>5. ASSUME full # 0
      PROVE  SubSeq(mem[x], (full - 1) * ByteWidth + 1, n)
               = SubSeq(mem[y], (full - 1) * ByteWidth + 1, n)
  <2> DEFINE b == (full - 1) * ByteWidth + 1
  <2>1. full - 1 \in Nat
    BY <1>2, <1>5
  <2>2. b \in Nat \ {0}
    <3>1. (full - 1) * ByteWidth \in Nat
      BY <2>1, ProductMonotone, PackedAssumption
    <3> QED BY <3>1
  <2> HIDE DEF b
  <2>3. \A i \in b .. n : i \in 1 .. n
    BY <1>1, <2>2
  <2>4. \A i \in b .. n : mem[x][i] \in Bit /\ mem[x][i] = mem[y][i]
    BY <1>1, <2>3
  <2>5. SubSeq(mem[x], b, n) = SubSeq(mem[y], b, n)
    BY <1>1, <2>2, <2>4, SamePart
  <2> QED BY <2>5 DEF b
<1>6. CASE full = 0
  BY <1>3, <1>4, <1>6
<1>7. CASE full # 0
  BY <1>3, <1>4, <1>5, <1>7
<1> QED BY <1>6, <1>7

\* Equal codes have equal hashes: std::hash<code> reads no bit behind the last
\* layer (code.cpp, hash).
THEOREM EqualHashCorrect == Spec => []EqualHash
BY PackedCorrect, PackedEqualHash, PTL

LEMMA PackedPrefixAgrees ==
  ASSUME Inv
  PROVE  PrefixAgrees
<1> SUFFICES ASSUME AllPacked, NEW x \in Object, NEW y \in Object,
                    layers[x] <= layers[y]
             PROVE  Differing(x, y) = Ref!DifferingLayers(ref[x], ref[y])
  BY DEF PrefixAgrees, Inv
<1>1. /\ layers[x] \in Nat /\ Len(ref[x]) = layers[x]
      /\ \A i \in 0 .. layers[x] - 1 : LayerCode(x, i) = ref[x][i + 1]
  BY PackedParts
<1>2. /\ layers[y] \in Nat /\ Len(ref[y]) = layers[y]
      /\ \A i \in 0 .. layers[y] - 1 : LayerCode(y, i) = ref[y][i + 1]
  BY PackedParts
<1>3. ASSUME NEW i \in 0 .. layers[x] - 1
      PROVE  ExtLayerCode(y, i) = Ref!ExtLayerCode(ref[y], i)
  <2>1. i \in 0 .. layers[y] - 1 /\ i < layers[y] /\ ~ (i > layers[y])
    BY <1>1, <1>2
  <2> QED BY <1>2, <2>1 DEF ExtLayerCode, Ref!ExtLayerCode
<1> QED BY <1>1, <1>3 DEF Differing, Ref!DifferingLayers

\* contains() and differing_layer() on the packed codes are those of Codes, by
\* which the network routes (code.cpp).
THEOREM PrefixAgreesCorrect == Spec => []PrefixAgrees
BY PackedCorrect, PackedPrefixAgrees, PTL

=============================================================================
