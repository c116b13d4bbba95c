--------------------------- MODULE DdsnProperties ---------------------------
(***************************************************************************)
(* What a network of ddsn peers has to keep up: the codes of the peers     *)
(* divide the blocks among them, the routing tables lead to the peer a     *)
(* block belongs to, and no block is lost on the way there.                *)
(***************************************************************************)
EXTENDS Ddsn

\* The peer has a place in the network: as its founder, or by SET CODE.
InPlace(p) == integrated[p] \/ code[p] # << >>
HasCode(p) == up[p] /\ InPlace(p)

Owners(b) == { p \in Peer : HasCode(p) /\ Contains(code[p], b) }

\* GET CODE, with the code of peer q, is on the way to p.
Accepting(q, p) ==
  \E e \in End : /\ conn[e].own = p
                 /\ \E i \in DOMAIN inbox[e] :
                      inbox[e][i] = [type |-> "GET CODE", code |-> code[q]]

\* The codes divide the blocks: every block belongs to one peer, or to a
\* mentor and the peer that has taken half of its code as long as the mentor
\* has not been told.  (SET CODE and GET CODE change two codes in two steps;
\* a second split in between hands out the same half twice.)
OneOwner ==
  \A b \in Block :
    \/ Cardinality(Owners(b)) = 1
    \/ \E p, q \in Peer : Owners(b) = {p, q} /\ p # q /\ Accepting(q, p)

\* The codes leave out no block, whether or not a process has crashed.
BlocksCovered ==
  \A b \in Block : \E p \in Peer : InPlace(p) /\ Contains(code[p], b)

\* SET CODE, which is taken as it comes, only comes to peers that have no code
\* yet, or brings the code they have.
OnlyFirstCodes ==
  \A e \in End : Receives(e, "SET CODE") =>
    \/ ~ InPlace(conn[e].own)
    \/ code[conn[e].own] = Head(inbox[e]).code

\* A routing table entry for layer l leads to a peer whose code is the same
\* below l and different at l, if it has got that far: store() sends every
\* block whose code first differs at l there.
RoutingTable ==
  \A p, q \in Peer :
    LET f == known[p][q]
        l == fp[f].out
    IN f # None /\ up[q] => l = -1 \/
         /\ l < Len(code[p]) /\ l <= Len(code[q])
         /\ \A i \in 1 .. l : code[p][i] = code[q][i]
         /\ l < Len(code[q]) => code[p][l + 1] # code[q][l + 1]

\* As long as no connection is lost, a peer that is integrated can pass on
\* every block that is not its own, and one about to finish its handshake can
\* tell its mentor: no handler follows a null pointer.
NoCrash == \A p \in Peer : up[p]

\* Once a block has been saved anywhere it stays saved somewhere: a mentor
\* deletes its copy of a block only when another peer has one.
NoBlockLost ==
  [][\A b \in Block :
       (\E p \in Peer : disk[p][b] # NoData) =>
       (\E p \in Peer : disk'[p][b] # NoData)]_vars

\* When everything has settled every block is at a peer whose code contains
\* it, the one all requests for it are sent to, and only there.
Placed ==
  Quiet => \A p \in Peer, b \in Block :
    up[p] /\ disk[p][b] # NoData => integrated[p] /\ Owners(b) = {p}

\* The index of the blocks agrees with the files, the two being changed one
\* after the other, and whichever files cannot be opened on the way.
IndexMatchesDisk ==
  \A p \in Peer, b \in Block : b \in stored[p] <=> disk[p][b] # NoData

\* A block that is being redistributed is kept until the answer: none of the
\* deletions of one block comes before its answer, however many chains of
\* redistribution are going on.
KeptUntilAnswered ==
  \A p \in Peer, b \in Block :
    \A i \in DOMAIN storeActions[p][b] :
      storeActions[p][b][i] = Redistribute => b \in stored[p]

\* A connection that has been closed by its process, after it was made.
Ended(e) == ~ IsOpen(e) /\ conn[Other(e)].status # "unused"

\* Whoever is in the map of foreign peers has proved the identity it is
\* listed under, and what is sent to it goes nowhere else: the connection it
\* has is one of this process, to that very peer if it has been made, and one
\* that has ended is not kept by the object it was attached to.  (HELLO gives
\* the object of an earlier connection to a new one, and either may close.)
KnownReached ==
  \A p, q \in Peer :
    LET f == known[p][q]
        e == fp[f].conn
    IN f # None =>
         /\ fp[f].id = q /\ fp[f].verified
         /\ Connected(fp, f) =>
              /\ conn[e].own = p
              /\ conn[Other(e)].own \in {q, None}
              /\ conn[e].att = f => ~ Ended(e)

\* What is on any disk of a block.
Copies(b) == { disk[p][b] : p \in Peer } \ {NoData}

\* The lookups of a program whose clients ask only when nothing is going on.
Undisturbed ==
  UNION { { c.id : c \in program.requests } :
            program \in { q \in Program :
                          \A c \in q.requests : c.after = "quiet" } }

\* Such a lookup finds the block wherever in the network it is, in the latest
\* version stored, and nothing if there is none: through as many peers as it
\* has to pass, after any number of splits.
LookupFinds ==
  [][\A c \in Undisturbed, b \in Block, v \in Found :
       LET answer == [file |-> c, block |-> b, found |-> v]
       IN answer \in answered' \ answered =>
            IF Copies(b) = {} THEN v = NoData ELSE Copies(b) = {v}]_vars

\* The network as a division of the blocks among the peers (Areas): a peer's
\* area are the blocks its code contains.
A == INSTANCE Areas WITH
       area <- [p \in Peer |-> { b \in Block : p \in Owners(b) }],
       held <- [p \in Peer |-> { b \in Block : disk[p][b] # NoData }]

\* However SET CODE, GET CODE and the messages about blocks interleave, what
\* the peers do to the division of the blocks and to their copies are steps of
\* Areas: a part of an area is taken before it is given up, a block is saved
\* only in an area it is in, and a copy given away only if there is another.
ImplementsAreas == A!Spec

-----------------------------------------------------------------------------
\* A code is on the way from peer p to another.
Offering(p) ==
  \E e \in End : /\ conn[Other(e)].own = p
                 /\ \E i \in DOMAIN inbox[e] : inbox[e][i].type = "SET CODE"

\* A split comes to an end: the joiner is integrated, everything in its half
\* has been handed over, and the mentor may split again.
SplitEnds == \A p \in Peer : Offering(p) ~> ~ splitting[p]

\* A peer that takes a code becomes integrated.
JoinerIntegrated == \A p \in Peer : code[p] # << >> ~> integrated[p]

\* A peer has a code and waits for its peers to be introduced.
Joining == \E p \in Peer : code[p] # << >> /\ ~ integrated[p]

\* A client is told what became of every block that store() takes for it, at
\* a peer that is integrated, unless the block may have come to one that was
\* joining just then: that peer takes no notice of it.
Taking(c, b) ==
  /\ integrated[c.at]
  /\ todo[c.at] # << >>
  /\ Head(todo[c.at]) = [op |-> "store", block |-> b, version |-> c.version,
                         action |-> [kind |-> "client", file |-> c.id]]

IsAnswered(c, b) ==
  \E ok \in BOOLEAN : [file |-> c.id, block |-> b, success |-> ok] \in answered

StoreAnswered ==
  \A c \in { d \in Command : d.op = "store" } :
    \A b \in { c.file[i] : i \in DOMAIN c.file } :
      Taking(c, b) ~> IsAnswered(c, b) \/ Joining

\* The same for a lookup: whoever has asked is told what was found, also when
\* several ask for the same block.
Asks(p, b, id) ==
  \E i \in DOMAIN loadActions[p][b] :
    loadActions[p][b][i] = [kind |-> "client", file |-> id]

LoadAnswered ==
  \A c \in { d \in Command : d.op = "load" } :
    Asks(c.at, c.block, c.id) ~>
      \/ \E v \in Found : [file |-> c.id, block |-> c.block, found |-> v] \in answered
      \/ Joining

-----------------------------------------------------------------------------
\* The next three say what comments of the code say, and do not hold.

\* local_peer.cpp:145: a peer only splits while nothing is being done about
\* its lack of room, so it offers no code while it is splitting.
Offers(e) == { i \in DOMAIN inbox[e] : inbox[e][i].type = "SET CODE" }

NoSplitWhileSplitting ==
  [][\A e \in End :
       Cardinality(Offers(e)') > Cardinality(Offers(e)) =>
         ~ splitting[conn[Other(e)].own]]_vars

\* peer_messages.cpp:128: who is connected to a peer already is refused, so
\* no two connections lead to the same peer.
OneConnectionPerPeer ==
  \A d, e \in End :
    /\ IsOpen(d) /\ IsOpen(e) /\ conn[d].own = conn[e].own
    /\ fp[conn[d].att].verified /\ fp[conn[e].att].verified
    /\ fp[conn[d].att].id = fp[conn[e].att].id
    => d = e

\* peer_messages.cpp:442: a peer that has a code waits for its peers to be
\* introduced, so once everything has settled it has them all.
IntroducedPeersArrive ==
  Quiet => \A p \in Peer : up[p] /\ code[p] # << >> => integrated[p]

=============================================================================
