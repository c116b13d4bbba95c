----------------------------- MODULE DataLemmas -----------------------------
(***************************************************************************)
(* Facts about natural numbers and sequences for the other proofs:         *)
(* wherever the code takes the first of several things, or the smallest,   *)
(* there is one; what is computed step by step, layer by layer or message  *)
(* by message, is what the steps say.                                      *)
(***************************************************************************)
EXTENDS Integers, WellFoundedInduction, SequencesExt, SequenceTheorems, TLAPS

\* The library's order of the natural numbers, with its definition expanded.
LEMMA NatOrderWellFounded ==
  IsWellFoundedOn({ss \in Nat \X Nat : ss[1] < ss[2]}, Nat)
BY NatLessThanWellFounded DEF OpToRel

\* A set of natural numbers that is not empty has a least element.
LEMMA LeastNatural ==
  ASSUME NEW T \in SUBSET Nat, T # {}
  PROVE  \E k \in T : \A j \in T : k <= j
<1>1. PICK k \in T : \A j \in T :
        ~ (<<j, k>> \in {ss \in Nat \X Nat : ss[1] < ss[2]})
  BY NatOrderWellFounded, WFMin
<1>2. ASSUME NEW j \in T PROVE k <= j
  <2>1. j \in Nat /\ k \in Nat
    OBVIOUS
  <2>2. <<j, k>>[1] = j /\ <<j, k>>[2] = k /\ <<j, k>> \in Nat \X Nat
    BY <2>1
  <2>3. ~ (j < k)
    BY <1>1, <2>2
  <2> QED BY <2>1, <2>3
<1> QED BY <1>2

\* Induction, of which the library's form takes an operator: what holds of zero
\* and goes on from each number to the next holds of all.
LEMMA AllNaturals ==
  ASSUME NEW T, 0 \in T, \A n \in Nat : n \in T => n + 1 \in T
  PROVE  Nat \subseteq T
<1> DEFINE Rest == Nat \ T
<1>1. CASE Rest # {}
  <2>1. PICK k \in Rest : \A j \in Rest : k <= j
    <3>1. Rest \in SUBSET Nat
      OBVIOUS
    <3> HIDE DEF Rest
    <3> QED BY <1>1, <3>1, LeastNatural
  <2>2. k \in Nat /\ k # 0 /\ k \notin T
    OBVIOUS
  <2>3. k - 1 \in Nat /\ k - 1 \in T
    BY <2>1, <2>2
  <2>4. (k - 1) + 1 \in T
    BY <2>3
  <2> QED BY <2>2, <2>4
<1> QED BY <1>1

\* A function on 0 .. n may be defined by its first value and a step from each
\* value to the next.
Steps(f, n, first, step) ==
  /\ f[0] = first
  /\ \A i \in 1 .. n : f[i] = step[i][f[i - 1]]

LEMMA StepByStep ==
  ASSUME NEW n \in Nat, NEW S, NEW first \in S, NEW step \in [1 .. n -> [S -> S]]
  PROVE  \E f \in [0 .. n -> S] : Steps(f, n, first, step)
<1> DEFINE Right(f, k) == Steps(f, k, first, step)
           T == { k \in Nat : k <= n => \E f \in [0 .. n -> S] : Right(f, k) }
<1>1. 0 \in T
  <2>1. [i \in 0 .. n |-> first] \in [0 .. n -> S]
    OBVIOUS
  <2>2. Right([i \in 0 .. n |-> first], 0)
    BY DEF Steps
  <2> QED BY <2>1, <2>2
<1>2. ASSUME NEW k \in Nat, k \in T PROVE k + 1 \in T
  <2> SUFFICES ASSUME k + 1 <= n PROVE \E f \in [0 .. n -> S] : Right(f, k + 1)
    OBVIOUS
  <2>1. PICK f \in [0 .. n -> S] : Right(f, k)
    BY <1>2
  <2> DEFINE g == [i \in 0 .. n |-> IF i = k + 1 THEN step[k + 1][f[k]] ELSE f[i]]
  <2>2. step[k + 1][f[k]] \in S
    <3>1. k + 1 \in 1 .. n /\ k \in 0 .. n
      OBVIOUS
    <3> QED BY <3>1
  <2>3. g \in [0 .. n -> S]
    BY <2>2
  <2>4. g[0] = first /\ g[k + 1] = step[k + 1][f[k]] /\ g[k] = f[k]
    BY <2>1 DEF Steps
  <2>5. ASSUME NEW i \in 1 .. k PROVE g[i] = step[i][g[i - 1]]
    <3>1. g[i] = f[i] /\ g[i - 1] = f[i - 1]
      OBVIOUS
    <3> HIDE DEF g
    <3> QED BY <2>1, <3>1 DEF Steps
  <2>6. Right(g, k + 1)
    <3> SUFFICES ASSUME NEW i \in 1 .. k + 1 PROVE g[i] = step[i][g[i - 1]]
      BY <2>4 DEF Steps
    <3> HIDE DEF g
    <3>1. CASE i = k + 1
      BY <2>4, <3>1
    <3>2. CASE i # k + 1
      BY <2>5, <3>2
    <3> QED BY <3>1, <3>2
  <2> HIDE DEF g, Right
  <2> QED BY <2>3, <2>6
<1>3. n \in T
  <2> HIDE DEF T
  <2> QED BY <1>1, <1>2, AllNaturals
<1> QED BY <1>3

\* There is only one.
LEMMA StepsUnique ==
  ASSUME NEW n \in Nat, NEW first, NEW step, NEW f, NEW g,
         Steps(f, n, first, step), Steps(g, n, first, step)
  PROVE  f[n] = g[n]
<1> DEFINE T == { i \in Nat : i <= n => f[i] = g[i] }
<1>1. 0 \in T
  BY DEF Steps
<1>2. ASSUME NEW i \in Nat, i \in T PROVE i + 1 \in T
  <2> SUFFICES ASSUME i + 1 <= n PROVE f[i + 1] = g[i + 1]
    OBVIOUS
  <2>1. i + 1 \in 1 .. n /\ (i + 1) - 1 = i /\ f[i] = g[i]
    BY <1>2
  <2>2. f[i + 1] = step[i + 1][f[(i + 1) - 1]] /\ g[i + 1] = step[i + 1][g[(i + 1) - 1]]
    BY <2>1 DEF Steps
  <2> QED BY <2>1, <2>2
<1>3. n \in T
  <2> HIDE DEF T
  <2> QED BY <1>1, <1>2, AllNaturals
<1> QED BY <1>3

-----------------------------------------------------------------------------
\* The quotient and the remainder of a division.
LEMMA DivisionParts ==
  ASSUME NEW a \in Nat, NEW b \in Nat \ {0}
  PROVE  /\ a \div b \in Nat
         /\ a % b \in 0 .. b - 1
         /\ a = (a \div b) * b + (a % b)
         /\ (a \div b) * b <= a
OBVIOUS

\* There are no others.
LEMMA DivisionUnique ==
  ASSUME NEW b \in Nat \ {0}, NEW q \in Nat, NEW r \in 0 .. b - 1
  PROVE  (q * b + r) \div b = q /\ (q * b + r) % b = r
OBVIOUS

\* Larger numbers have no smaller quotients and products.
LEMMA DivisionMonotone ==
  ASSUME NEW a \in Nat, NEW c \in Nat, a <= c, NEW b \in Nat \ {0}
  PROVE  a \div b <= c \div b
OBVIOUS

LEMMA ProductMonotone ==
  ASSUME NEW a \in Nat, NEW c \in Nat, a <= c, NEW b \in Nat \ {0}
  PROVE  a * b \in Nat /\ c * b \in Nat /\ a * b <= c * b
OBVIOUS

-----------------------------------------------------------------------------
\* FlattenSeq, step by step.
LEMMA FlattenIs ==
  ASSUME NEW S, NEW seqs \in Seq(Seq(S)), NEW f \in [0 .. Len(seqs) -> Seq(S)],
         f[0] = << >>, \A i \in 1 .. Len(seqs) : f[i] = f[i - 1] \o seqs[i]
  PROVE  FlattenSeq(seqs) = f[Len(seqs)]
<1> DEFINE n == Len(seqs)
           Rec(W) == W = [i \in 1 .. n |->
                            IF i = 1 THEN seqs[i] ELSE W[i - 1] \o seqs[i]]
           W0 == CHOOSE W : Rec(W)
           h == [i \in 1 .. n |-> f[i]]
<1>1. n \in Nat
  OBVIOUS
<1>2. CASE n = 0
  <2>1. seqs = << >>
    BY <1>2, EmptySeq
  <2> QED BY <1>2, <2>1 DEF FlattenSeq
<1>3. CASE n # 0
  <2>1. FlattenSeq(seqs) = W0[n]
    BY <1>3 DEF FlattenSeq
  <2>2. f[1] = seqs[1]
    <3>1. 1 \in 1 .. n /\ 1 - 1 = 0
      BY <1>1, <1>3
    <3>2. ASSUME NEW k \in 1 .. n, k = 1 PROVE f[k] = seqs[k]
      <4>1. f[k] = f[k - 1] \o seqs[k]
        OBVIOUS
      <4>2. f[k - 1] = << >>
        BY <3>2
      <4>3. seqs[k] \in Seq(S)
        BY ElementOfSeq
      <4> QED BY <4>1, <4>2, <4>3, ConcatEmptySeq
    <3> QED BY <3>1, <3>2
  <2>3. Rec(h)
    <3>1. ASSUME NEW i \in 1 .. n
          PROVE  h[i] = IF i = 1 THEN seqs[i] ELSE h[i - 1] \o seqs[i]
      <4>1. CASE i = 1
        BY <2>2, <4>1
      <4>2. CASE i # 1
        <5>1. i - 1 \in 1 .. n
          BY <1>1, <4>2
        <5>2. h[i] = f[i] /\ h[i - 1] = f[i - 1]
          BY <5>1
        <5> QED BY <4>2, <5>2
      <4> QED BY <4>1, <4>2
    <3> QED BY <3>1
  <2>4. Rec(W0)
    <3> HIDE DEF Rec, h
    <3> QED BY <2>3
  <2> HIDE DEF W0
  <2> DEFINE T == { i \in Nat : i + 1 <= n => W0[i + 1] = f[i + 1] }
  <2>5. 0 \in T
    BY <1>1, <1>3, <2>2, <2>4
  <2>6. ASSUME NEW i \in Nat, i \in T PROVE i + 1 \in T
    <3> SUFFICES ASSUME (i + 1) + 1 <= n PROVE W0[(i + 1) + 1] = f[(i + 1) + 1]
      OBVIOUS
    <3> DEFINE k == (i + 1) + 1
    <3>1. k \in 1 .. n /\ k # 1 /\ k - 1 = i + 1 /\ W0[i + 1] = f[i + 1]
      BY <1>1, <2>6
    <3> HIDE DEF k
    <3>2. W0[k] = W0[k - 1] \o seqs[k] /\ f[k] = f[k - 1] \o seqs[k]
      BY <2>4, <3>1
    <3> QED BY <3>1, <3>2 DEF k
  <2>7. n - 1 \in T
    <3>1. n - 1 \in Nat
      BY <1>1, <1>3
    <3> HIDE DEF T
    <3> QED BY <2>5, <2>6, <3>1, AllNaturals
  <2>8. W0[n] = f[n]
    BY <1>1, <2>7
  <2> QED BY <2>1, <2>8
<1> QED BY <1>2, <1>3

LEMMA FlattenSteps ==
  ASSUME NEW S, NEW seqs \in Seq(Seq(S))
  PROVE  \E f \in [0 .. Len(seqs) -> Seq(S)] :
           f[0] = << >> /\ \A i \in 1 .. Len(seqs) : f[i] = f[i - 1] \o seqs[i]
<1> DEFINE n == Len(seqs)
           step == [i \in 1 .. n |-> [v \in Seq(S) |-> v \o seqs[i]]]
           nothing == << >>
<1>1. step \in [1 .. n -> [Seq(S) -> Seq(S)]]
  <2>1. ASSUME NEW i \in 1 .. n, NEW v \in Seq(S) PROVE v \o seqs[i] \in Seq(S)
    <3>1. seqs[i] \in Seq(S)
      OBVIOUS
    <3> QED BY <3>1, ConcatProperties
  <2> QED BY <2>1
<1>2. n \in Nat /\ nothing \in Seq(S)
  OBVIOUS
<1>3. PICK f \in [0 .. n -> Seq(S)] : Steps(f, n, nothing, step)
  <2> DEFINE Q == Seq(S)
  <2>1. nothing \in Q /\ step \in [1 .. n -> [Q -> Q]]
    BY <1>1, <1>2
  <2> HIDE DEF step, nothing, n, Q
  <2>2. \E f \in [0 .. n -> Q] : Steps(f, n, nothing, step)
    BY <1>2, <2>1, StepByStep
  <2> QED BY <2>2 DEF Q
<1>4. f[0] = << >>
  BY <1>3 DEF Steps
<1>5. ASSUME NEW i \in 1 .. n PROVE f[i] = f[i - 1] \o seqs[i]
  <2>1. f[i - 1] \in Seq(S)
    OBVIOUS
  <2>2. step[i] = [v \in Seq(S) |-> v \o seqs[i]]
    OBVIOUS
  <2>3. f[i] = step[i][f[i - 1]]
    <3> HIDE DEF step
    <3> QED BY <1>3 DEF Steps
  <2> HIDE DEF step
  <2> QED BY <2>1, <2>2, <2>3
<1> QED BY <1>4, <1>5

\* Joining three sequences.
LEMMA JoinThree ==
  ASSUME NEW S, NEW a \in Seq(S), NEW b \in Seq(S), NEW c \in Seq(S)
  PROVE  a \o (b \o c) = (a \o b) \o c
BY ConcatAssociative, SMTT(30)

\* Sequences written out.
LEMMA TuplesOf ==
  ASSUME NEW S
  PROVE  /\ \A a \in S : <<a>> \in Seq(S)
         /\ \A a, b \in S : <<a, b>> \in Seq(S)
         /\ \A a, b, c \in S : <<a, b, c>> \in Seq(S)
<1>1. ASSUME NEW a \in S PROVE <<a>> \in Seq(S)
  OBVIOUS
<1>2. ASSUME NEW a \in S, NEW b \in S PROVE <<a, b>> \in Seq(S)
  OBVIOUS
<1>3. ASSUME NEW a \in S, NEW b \in S, NEW c \in S PROVE <<a, b, c>> \in Seq(S)
  OBVIOUS
<1> QED BY <1>1, <1>2, <1>3

\* A sequence of sequences begins with the first of them.
LEMMA FlattenFirst ==
  ASSUME NEW S, NEW seqs \in Seq(Seq(S)), seqs # << >>
  PROVE  /\ FlattenSeq(Tail(seqs)) \in Seq(S)
         /\ FlattenSeq(seqs) = seqs[1] \o FlattenSeq(Tail(seqs))
<1> DEFINE n == Len(seqs)
           t == Tail(seqs)
           a == seqs[1]
<1>1. /\ n \in Nat /\ n # 0 /\ n - 1 \in Nat
      /\ t \in Seq(Seq(S)) /\ Len(t) = n - 1
      /\ \A i \in 1 .. n - 1 : t[i] = seqs[i + 1]
      /\ a \in Seq(S)
  BY EmptySeq, HeadTailProperties
<1> HIDE DEF t, n, a
<1>2. PICK g \in [0 .. n - 1 -> Seq(S)] :
        g[0] = << >> /\ \A i \in 1 .. n - 1 : g[i] = g[i - 1] \o t[i]
  <2> DEFINE l == Len(t)
  <2>1. \E g \in [0 .. l -> Seq(S)] :
          g[0] = << >> /\ \A i \in 1 .. l : g[i] = g[i - 1] \o t[i]
    BY <1>1, FlattenSteps
  <2>2. l = n - 1
    BY <1>1
  <2> HIDE DEF l
  <2> QED BY <2>1, <2>2
<1>3. FlattenSeq(t) = g[n - 1] /\ g[n - 1] \in Seq(S)
  <2>1. FlattenSeq(t) = g[Len(t)]
    <3> DEFINE l == Len(t)
    <3>1. /\ g \in [0 .. l -> Seq(S)] /\ g[0] = << >>
          /\ \A i \in 1 .. l : g[i] = g[i - 1] \o t[i]
      BY <1>1, <1>2
    <3> QED BY <1>1, <3>1, FlattenIs
  <2>2. n - 1 \in 0 .. n - 1
    BY <1>1
  <2> QED BY <1>1, <1>2, <2>1, <2>2
<1> DEFINE h == [i \in 0 .. n |-> IF i = 0 THEN << >> ELSE a \o g[i - 1]]
<1>4. h \in [0 .. n -> Seq(S)]
  <2>1. ASSUME NEW i \in 0 .. n, i # 0 PROVE a \o g[i - 1] \in Seq(S)
    <3>1. i - 1 \in 0 .. n - 1
      BY <1>1, <2>1
    <3>2. g[i - 1] \in Seq(S)
      BY <1>2, <3>1
    <3> QED BY <1>1, <3>2, ConcatProperties
  <2>2. << >> \in Seq(S)
    OBVIOUS
  <2> QED BY <2>1, <2>2
<1>5. ASSUME NEW i \in 1 .. n PROVE h[i] = h[i - 1] \o seqs[i]
  <2>1. h[i] = a \o g[i - 1]
    <3>1. i \in 0 .. n /\ i # 0
      BY <1>1
    <3> QED BY <3>1
  <2>2. CASE i = 1
    <3>1. h[i - 1] = << >> /\ g[i - 1] = << >>
      <4>1. i - 1 = 0 /\ i - 1 \in 0 .. n
        BY <1>1, <2>2
      <4> QED BY <1>2, <4>1
    <3>2. seqs[i] = a
      BY <2>2 DEF a
    <3> HIDE DEF h
    <3> QED BY <1>1, <2>1, <3>1, <3>2, ConcatEmptySeq
  <2>3. CASE i # 1
    <3>1. i - 1 \in 1 .. n - 1 /\ (i - 1) + 1 = i /\ i - 1 # 0 /\ (i - 1) - 1 \in 0 .. n - 1
      BY <1>1, <2>3
    <3>2. h[i - 1] = a \o g[(i - 1) - 1]
      BY <1>1, <3>1, SMTT(30)
    <3>3. g[i - 1] = g[(i - 1) - 1] \o t[i - 1] /\ t[i - 1] = seqs[i]
      BY <1>1, <1>2, <3>1
    <3>4. g[(i - 1) - 1] \in Seq(S) /\ seqs[i] \in Seq(S)
      <4>1. seqs[i] \in Seq(S)
        BY ElementOfSeq DEF n
      <4> QED BY <1>1, <1>2, <3>1, <4>1
    <3>5. a \o (g[(i - 1) - 1] \o seqs[i]) = (a \o g[(i - 1) - 1]) \o seqs[i]
      <4> DEFINE b == g[(i - 1) - 1]
                 c == seqs[i]
      <4>1. a \in Seq(S) /\ b \in Seq(S) /\ c \in Seq(S)
        BY <1>1, <3>4
      <4> HIDE DEF b, c, h
      <4>2. a \o (b \o c) = (a \o b) \o c
        BY ONLY <4>1, JoinThree, SMTT(30)
      <4> QED BY <4>2 DEF b, c
    <3> HIDE DEF h
    <3> QED BY <2>1, <3>2, <3>3, <3>5
  <2> QED BY <2>2, <2>3
<1>6. h[0] = << >> /\ h[n] = a \o g[n - 1]
  BY <1>1
<1>7. FlattenSeq(seqs) = h[n]
  <2> HIDE DEF h
  <2> QED BY <1>4, <1>5, <1>6, FlattenIs DEF n
<1> QED BY <1>3, <1>6, <1>7 DEF t, a

LEMMA FlattenType ==
  ASSUME NEW S, NEW seqs \in Seq(Seq(S))
  PROVE  FlattenSeq(seqs) \in Seq(S)
<1>1. PICK f \in [0 .. Len(seqs) -> Seq(S)] :
        f[0] = << >> /\ \A i \in 1 .. Len(seqs) : f[i] = f[i - 1] \o seqs[i]
  BY FlattenSteps
<1>2. FlattenSeq(seqs) = f[Len(seqs)]
  BY <1>1, FlattenIs
<1> QED BY <1>2

\* What is left of a sequence of sequences from the j-th on.
LEMMA FlattenFrom ==
  ASSUME NEW S, NEW seqs \in Seq(Seq(S)), NEW j \in 1 .. Len(seqs) + 1
  PROVE  /\ SubSeq(seqs, j, Len(seqs)) \in Seq(Seq(S))
         /\ Len(SubSeq(seqs, j, Len(seqs))) = Len(seqs) + 1 - j
         /\ \A i \in 1 .. Len(seqs) + 1 - j :
              SubSeq(seqs, j, Len(seqs))[i] = seqs[i + j - 1]
         /\ FlattenSeq(SubSeq(seqs, j, Len(seqs))) \in Seq(S)
<1> DEFINE n == Len(seqs)
           k == n + 1 - j
           rest == SubSeq(seqs, j, n)
<1>1. n \in Nat /\ k \in Nat
  OBVIOUS
<1>2. rest = [i \in 1 .. k |-> seqs[i + j - 1]]
  <2>1. (n - j) + 1 = k
    OBVIOUS
  <2> QED BY <2>1 DEF SubSeq
<1>3. ASSUME NEW i \in 1 .. k PROVE seqs[i + j - 1] \in Seq(S)
  <2> DEFINE p == i + j - 1
  <2>1. p \in 1 .. n
    BY <1>1
  <2> HIDE DEF p
  <2>2. seqs[p] \in Seq(S)
    BY <2>1, ElementOfSeq
  <2> QED BY <2>2 DEF p
<1> HIDE DEF k, rest
<1>4. rest \in [1 .. k -> Seq(S)]
  BY <1>2, <1>3
<1>5. rest \in Seq(Seq(S)) /\ Len(rest) = k
  BY <1>1, <1>4
<1>6. FlattenSeq(rest) \in Seq(S)
  BY <1>5, FlattenType
<1> QED BY <1>2, <1>5, <1>6 DEF rest, k

LEMMA FlattenNext ==
  ASSUME NEW S, NEW seqs \in Seq(Seq(S)), NEW j \in 1 .. Len(seqs)
  PROVE  /\ FlattenSeq(SubSeq(seqs, j + 1, Len(seqs))) \in Seq(S)
         /\ seqs[j] \in Seq(S)
         /\ FlattenSeq(SubSeq(seqs, j, Len(seqs)))
              = seqs[j] \o FlattenSeq(SubSeq(seqs, j + 1, Len(seqs)))
<1> DEFINE n == Len(seqs)
           k == n + 1 - j
           l == j + 1
           p == SubSeq(seqs, j, n)
           q == SubSeq(seqs, l, n)
<1>1. j \in 1 .. n + 1 /\ l \in 1 .. n + 1 /\ k \in Nat \ {0} /\ n + 1 - l = k - 1
  OBVIOUS
<1>2. /\ p \in Seq(Seq(S)) /\ Len(p) = k
      /\ \A i \in 1 .. k : p[i] = seqs[i + j - 1]
  BY <1>1, FlattenFrom
<1>3. /\ q \in Seq(Seq(S)) /\ Len(q) = k - 1 /\ FlattenSeq(q) \in Seq(S)
      /\ \A i \in 1 .. k - 1 : q[i] = seqs[i + j]
  <2> HIDE DEF l
  <2>1. /\ SubSeq(seqs, l, n) \in Seq(Seq(S))
        /\ Len(SubSeq(seqs, l, n)) = n + 1 - l
        /\ \A i \in 1 .. n + 1 - l : SubSeq(seqs, l, n)[i] = seqs[i + l - 1]
        /\ FlattenSeq(SubSeq(seqs, l, n)) \in Seq(S)
    BY <1>1, FlattenFrom
  <2>2. ASSUME NEW i \in 1 .. k - 1 PROVE i + l - 1 = i + j
    BY DEF l
  <2> QED BY <1>1, <2>1, <2>2
<1>4. seqs[j] \in Seq(S)
  BY ElementOfSeq
<1> HIDE DEF p, q, k, n, l
<1>5. p # << >>
  BY <1>1, <1>2, EmptySeq
<1>6. Tail(p) = q
  <2>1. /\ Tail(p) \in Seq(Seq(S)) /\ Len(Tail(p)) = k - 1
        /\ \A i \in 1 .. k - 1 : Tail(p)[i] = p[i + 1]
    BY <1>2, <1>5, HeadTailProperties
  <2>2. ASSUME NEW i \in 1 .. k - 1 PROVE Tail(p)[i] = q[i]
    <3>1. i + 1 \in 1 .. k /\ (i + 1) + j - 1 = i + j
      BY <1>1
    <3> QED BY <1>2, <1>3, <2>1, <3>1
  <2> QED BY <1>3, <2>1, <2>2, SeqEqual
<1>7. FlattenSeq(p) = p[1] \o FlattenSeq(q)
  BY <1>2, <1>5, <1>6, FlattenFirst
<1>8. p[1] = seqs[j]
  <2>1. 1 \in 1 .. k /\ 1 + j - 1 = j
    BY <1>1
  <2> QED BY <1>2, <2>1
<1> QED BY <1>3, <1>4, <1>7, <1>8 DEF p, q, n, l

LEMMA FlattenEnds ==
  ASSUME NEW S, NEW seqs \in Seq(Seq(S))
  PROVE  /\ SubSeq(seqs, 1, Len(seqs)) = seqs
         /\ FlattenSeq(SubSeq(seqs, Len(seqs) + 1, Len(seqs))) = << >>
<1> DEFINE n == Len(seqs)
<1>1. SubSeq(seqs, 1, n) = seqs
  <2> DEFINE j == 1
             p == SubSeq(seqs, j, n)
  <2>1. j \in 1 .. n + 1
    OBVIOUS
  <2>2. n + 1 - j = n /\ \A i \in 1 .. n : i + j - 1 = i
    OBVIOUS
  <2> HIDE DEF j
  <2>3. p \in Seq(Seq(S)) /\ Len(p) = n /\ \A i \in 1 .. n : p[i] = seqs[i]
    BY <2>1, <2>2, FlattenFrom
  <2> HIDE DEF p
  <2>4. p = seqs
    BY <2>3, SeqEqual
  <2> QED BY <2>4 DEF p, j
<1>2. FlattenSeq(SubSeq(seqs, n + 1, n)) = << >>
  <2> DEFINE j == n + 1
             q == SubSeq(seqs, j, n)
             f == [i \in 0 .. Len(q) |-> << >>]
  <2>1. j \in 1 .. n + 1 /\ n + 1 - j = 0
    OBVIOUS
  <2> HIDE DEF j
  <2>2. q \in Seq(Seq(S)) /\ Len(q) = 0
    BY <2>1, FlattenFrom
  <2> HIDE DEF q
  <2>3. f \in [0 .. Len(q) -> Seq(S)] /\ f[0] = << >> /\ 1 .. Len(q) = {}
    BY <2>2
  <2>4. FlattenSeq(q) = f[Len(q)]
    <3> HIDE DEF f
    <3> QED BY <2>2, <2>3, FlattenIs
  <2> QED BY <2>2, <2>3, <2>4 DEF q, j
<1> QED BY <1>1, <1>2

-----------------------------------------------------------------------------
\* A sequence that begins with x and goes on with s.
LEMMA FirstAndRest ==
  ASSUME NEW S, NEW x \in S, NEW s \in Seq(S)
  PROVE  /\ <<x>> \o s \in Seq(S) /\ <<x>> \o s # << >>
         /\ Head(<<x>> \o s) = x /\ Tail(<<x>> \o s) = s
<1> DEFINE t == <<x>>
<1>1. t \in Seq(S) /\ Len(t) = 1 /\ t[1] = x
  OBVIOUS
<1> HIDE DEF t
<1>2. /\ t \o s \in Seq(S) /\ Len(t \o s) = 1 + Len(s)
      /\ \A i \in 1 .. Len(s) : (t \o s)[i + 1] = s[i]
      /\ (t \o s)[1] = x
  <2>1. 1 \in 1 .. Len(t) + Len(s)
    BY <1>1
  <2> QED BY <1>1, <2>1, ConcatProperties, SMTT(30)
<1> DEFINE u == t \o s
<1>3. Len(u) # 0 /\ u # << >>
  BY <1>2, EmptySeq
<1> HIDE DEF u
<1>4. Head(u) = x
  BY <1>2, <1>3 DEF u
<1>5. Tail(u) = s
  <2>1. Tail(u) \in Seq(S) /\ Len(Tail(u)) = Len(s)
    BY <1>2, <1>3, HeadTailProperties DEF u
  <2>2. ASSUME NEW i \in 1 .. Len(s) PROVE Tail(u)[i] = s[i]
    BY <1>2, <1>3, <2>1, HeadTailProperties DEF u
  <2> QED BY <2>1, <2>2, SeqEqual
<1> QED BY <1>2, <1>3, <1>4, <1>5 DEF u, t

\* A sequence that is longer than another by its first element.
LEMMA LongerByFirst ==
  ASSUME NEW S, NEW a \in S, NEW q \in Seq(S), NEW r \in Seq(S),
         Len(r) = Len(q) + 1, r[1] = a, \A i \in 1 .. Len(q) : r[i + 1] = q[i]
  PROVE  <<a>> \o q = r
<1> DEFINE p == <<a>>
<1>1. p \in Seq(S) /\ Len(p) = 1 /\ p[1] = a
  OBVIOUS
<1> HIDE DEF p
<1>2. /\ p \o q \in Seq(S) /\ Len(p \o q) = Len(r)
      /\ \A i \in 1 .. Len(r) : (p \o q)[i] = IF i <= 1 THEN p[i] ELSE q[i - 1]
  <2>1. Len(r) = Len(p) + Len(q)
    BY <1>1
  <2>2. /\ p \o q \in Seq(S) /\ Len(p \o q) = Len(p) + Len(q)
        /\ \A i \in 1 .. Len(p) + Len(q) :
             (p \o q)[i] = IF i <= Len(p) THEN p[i] ELSE q[i - Len(p)]
    BY <1>1, ConcatProperties
  <2> QED BY <1>1, <2>1, <2>2
<1>3. ASSUME NEW i \in 1 .. Len(r) PROVE (p \o q)[i] = r[i]
  <2>1. CASE i = 1
    BY <1>1, <1>2, <2>1
  <2>2. CASE i # 1
    <3>1. i - 1 \in 1 .. Len(q) /\ (i - 1) + 1 = i
      BY <2>2
    <3>2. (p \o q)[i] = q[i - 1]
      BY <1>2, <2>2
    <3>3. r[(i - 1) + 1] = q[i - 1]
      BY <3>1
    <3> QED BY <3>1, <3>2, <3>3
  <2> QED BY <2>1, <2>2
<1>4. p \o q = r
  BY <1>2, <1>3, SeqEqual
<1> QED BY <1>4 DEF p

\* What is in a buffer and what is still to come: if there is something in the
\* buffer, it begins with what the whole begins with.
LEMMA FirstOfBoth ==
  ASSUME NEW S, NEW a \in Seq(S), NEW b \in Seq(S), a # << >>
  PROVE  /\ a \o b # << >> /\ Tail(a) \in Seq(S) /\ Head(a) \in S
         /\ Head(a \o b) = Head(a) /\ Tail(a \o b) = Tail(a) \o b
<1> DEFINE x == Head(a)
           t == Tail(a)
<1>1. x \in S /\ t \in Seq(S)
  BY EmptySeq, HeadTailProperties
<1>2. a = <<x>> \o t
  OBVIOUS
<1> HIDE DEF x, t
<1>3. t \o b \in Seq(S) /\ <<x>> \in Seq(S)
  BY <1>1, ConcatProperties
<1>4. a \o b = <<x>> \o (t \o b)
  BY <1>1, <1>2, <1>3, ConcatAssociative
<1> DEFINE r == t \o b
<1>5. r \in Seq(S)
  BY <1>3
<1> HIDE DEF r
<1>6. <<x>> \o r # << >> /\ Head(<<x>> \o r) = x /\ Tail(<<x>> \o r) = r
  BY <1>1, <1>5, FirstAndRest
<1> QED BY <1>1, <1>4, <1>6 DEF x, t, r

\* Some of what is to come is put into the buffer.
LEMMA Moved ==
  ASSUME NEW S, NEW a \in Seq(S), NEW b \in Seq(S), NEW n \in 1 .. Len(b)
  PROVE  /\ a \o SubSeq(b, 1, n) \in Seq(S) /\ SubSeq(b, n + 1, Len(b)) \in Seq(S)
         /\ (a \o SubSeq(b, 1, n)) \o SubSeq(b, n + 1, Len(b)) = a \o b
<1> DEFINE c == SubSeq(b, 1, n)
           d == SubSeq(b, n + 1, Len(b))
<1>1. c \in Seq(S) /\ d \in Seq(S)
  OBVIOUS
<1>2. c \o d = b
  OBVIOUS
<1> HIDE DEF c, d
<1>3. (a \o c) \o d = a \o (c \o d)
  BY <1>1, JoinThree, SMTT(30)
<1>4. a \o c \in Seq(S)
  BY <1>1, ConcatProperties
<1> QED BY <1>1, <1>2, <1>3, <1>4 DEF c, d

=============================================================================
