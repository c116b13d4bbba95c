-------------------------------- MODULE Areas --------------------------------
(***************************************************************************)
(* What a network of ddsn peers is meant to be: the blocks are divided     *)
(* among the peers, every peer having an area.  A peer without one takes a *)
(* part of another's area, which the other gives up after that, so that at *)
(* any time there is a peer for every block.  A peer holds copies of       *)
(* blocks: it saves those in its area, and may give away a copy outside it *)
(* when somebody else has one.                                             *)
(***************************************************************************)
EXTENDS FiniteSets

CONSTANTS Peer, Block, Founder

VARIABLES
  area,   \* the blocks every peer is responsible for
  held    \* the blocks every peer has a copy of

vars == <<area, held>>

Init ==
  /\ area = [p \in Peer |-> IF p \in Founder THEN Block ELSE {}]
  /\ held = [p \in Peer |-> {}]

\* Peer q takes a part of what only p is responsible for: SET CODE.
Take(p, q) ==
  /\ area[q] = {}
  /\ \E part \in SUBSET area[p] :
       /\ \A r \in Peer \ {p} : area[r] \cap part = {}
       /\ area' = [area EXCEPT ![q] = part]
  /\ UNCHANGED held

\* Peer p gives up what q has taken: GET CODE.
Yield(p, q) ==
  /\ area[q] \subseteq area[p]
  /\ area' = [area EXCEPT ![p] = @ \ area[q]]
  /\ UNCHANGED held

\* A block is stored, or stored again: store().
Save(p, b) ==
  /\ b \in area[p]
  /\ held' = [held EXCEPT ![p] = @ \cup {b}]
  /\ UNCHANGED area

\* A copy that has been handed over is deleted: action_peer_stored_block.
GiveAway(p, b) ==
  /\ b \in held[p] \ area[p]
  /\ \E q \in Peer \ {p} : b \in held[q]
  /\ held' = [held EXCEPT ![p] = @ \ {b}]
  /\ UNCHANGED area

Next ==
  \/ \E p, q \in Peer : p # q /\ (Take(p, q) \/ Yield(p, q))
  \/ \E p \in Peer, b \in Block : Save(p, b) \/ GiveAway(p, b)

Spec == Init /\ [][Next]_vars

-----------------------------------------------------------------------------
\* There is a peer responsible for every block, so that each can be stored and
\* looked up at any time.
Covered == \A b \in Block : \E p \in Peer : b \in area[p]

=============================================================================
