----------------------------- MODULE Areas_proofs -----------------------------
(***************************************************************************)
(* What the division of the blocks among the peers is for: as long as one  *)
(* peer was started with --integrated there is a peer for every block,     *)
(* while codes are offered and accepted in any order.                      *)
(***************************************************************************)
EXTENDS Areas, TLAPS

TypeOK ==
  /\ area \in [Peer -> SUBSET Block]
  /\ held \in [Peer -> SUBSET Block]

\* A peer takes a part that stays its giver's for now, so nothing is uncovered.
LEMMA TakeCovered ==
  ASSUME TypeOK, Covered, NEW p \in Peer, NEW q \in Peer, Take(p, q)
  PROVE  TypeOK' /\ Covered'
<1>1. PICK part \in SUBSET area[p] : area' = [area EXCEPT ![q] = part]
  BY DEF Take
<1>2. area' \in [Peer -> SUBSET Block]
  BY <1>1 DEF TypeOK
<1>3. \A r \in Peer : area[r] \subseteq area'[r]
  BY <1>1 DEF TypeOK, Take
<1> QED BY <1>2, <1>3 DEF TypeOK, Covered, Take

\* What a peer yields another has.
LEMMA YieldCovered ==
  ASSUME TypeOK, Covered, NEW p \in Peer, NEW q \in Peer, p # q, Yield(p, q)
  PROVE  TypeOK' /\ Covered'
<1>1. /\ area' \in [Peer -> SUBSET Block]
      /\ area'[p] = area[p] \ area[q]
      /\ \A r \in Peer \ {p} : area'[r] = area[r]
  BY DEF TypeOK, Yield
<1>2. Covered'
  <2> SUFFICES ASSUME NEW b \in Block PROVE \E r \in Peer : b \in area'[r]
    BY DEF Covered
  <2>1. PICK r \in Peer : b \in area[r]
    BY DEF Covered
  <2>2. CASE r = p /\ b \in area[q]
    BY <1>1, <2>2
  <2>3. CASE r # p \/ b \notin area[q]
    BY <1>1, <2>1, <2>3
  <2> QED BY <2>2, <2>3
<1> QED BY <1>1, <1>2 DEF TypeOK, Yield

\* Copies come and go and areas stay.
LEMMA CopiesCovered ==
  ASSUME TypeOK, Covered, NEW p \in Peer, NEW b \in Block,
         Save(p, b) \/ GiveAway(p, b)
  PROVE  TypeOK' /\ Covered'
BY DEF TypeOK, Covered, Save, GiveAway

\* So every step keeps every block covered.
LEMMA CoveredNext == TypeOK /\ Covered /\ [Next]_vars => (TypeOK /\ Covered)'
<1> SUFFICES ASSUME TypeOK, Covered, [Next]_vars PROVE TypeOK' /\ Covered'
  OBVIOUS
<1>1. CASE UNCHANGED vars
  BY <1>1 DEF vars, TypeOK, Covered
<1> QED BY <1>1, TakeCovered, YieldCovered, CopiesCovered DEF Next

\* There is a peer responsible for every block at any time, if one has been
\* started as the first of a network.
THEOREM AreasCovered ==
  ASSUME Founder \cap Peer # {}
  PROVE  Spec => []Covered
<1>1. Init => TypeOK /\ Covered
  BY DEF Init, TypeOK, Covered
<1> QED BY <1>1, CoveredNext, PTL DEF Spec

=============================================================================
