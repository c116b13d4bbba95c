----------------------------- MODULE Ddsn_proofs -----------------------------
(***************************************************************************)
(* What a network of ddsn peers keeps up however messages, clients and     *)
(* failures follow each other: every variable keeps its type, the index of *)
(* the stored blocks agrees with the files, nobody is known by a name that *)
(* it has not proved or reached over another's connection, what is being   *)
(* handed over is kept until the answer, and the codes leave out no block. *)
(*                                                                         *)
(* Every operation has a lemma about what it assigns, and every action one *)
(* that it keeps an invariant: first TypeInv, then KnownInv and KeptInv,   *)
(* whose proofs rest on it, then SplitInv about the codes.                 *)
(*                                                                         *)
(* The types are not inductive on their own: that a connection which is in *)
(* use has an owner and that the peers in a map have an identity decide    *)
(* the types of what is sent, and so of what is saved and indexed.         *)
(***************************************************************************)
EXTENDS DdsnProperties, FiniteSetTheorems, TLAPS

Data == INSTANCE DataLemmas

\* Whoever has an end of a connection is a peer.
Owned == \A e \in End : conn[e].status # "unused" => conn[e].own \in Peer

\* Whoever is in a map of foreign peers has told its identity.
Identified ==
  \A p, q \in Peer : known[p][q] # None => fp[known[p][q]].id \in Peer

TypeInv == TypeOK /\ Owned /\ Identified /\ IndexMatchesDisk

-----------------------------------------------------------------------------
\* The two ends of a connection are different ends.
LEMMA OtherEnd ==
  ASSUME NEW e \in End
  PROVE  Other(e) \in End /\ Other(e) # e
BY DEF End, Other

\* Everything the handlers send is a message.
LEMMA MessagesMade ==
  /\ [type |-> "WRITE ERROR"] \in Message
  /\ [type |-> "PROVE IDENTITY"] \in Message
  /\ [type |-> "VERIFY IDENTITY"] \in Message
  /\ [type |-> "WELCOME"] \in Message
  /\ [type |-> "INTEGRATED"] \in Message
  /\ \A p \in Peer, k \in {"queued", "introduce", "?"} :
       [type |-> "HELLO", id |-> p, kind |-> k] \in Message
  /\ \A c \in PeerCode : /\ [type |-> "SET CODE", code |-> c] \in Message
                         /\ [type |-> "GET CODE", code |-> c] \in Message
  /\ \A p \in Peer, i \in Nat :
       [type |-> "INTRODUCE PEER", peer |-> p, layer |-> i] \in Message
  /\ \A i \in Nat : [type |-> "CONNECT IN", layer |-> i] \in Message
  /\ \A b \in Block, v \in Found :
       [type |-> "STORE BLOCK", block |-> b, version |-> v] \in Message
  /\ \A b \in Block, ok \in BOOLEAN :
       [type |-> "STORED BLOCK", block |-> b, success |-> ok] \in Message
  /\ \A b \in Block : [type |-> "LOAD BLOCK", block |-> b] \in Message
  /\ \A b \in Block, v \in Found :
       [type |-> "DELIVER BLOCK", block |-> b, found |-> v] \in Message
BY DEF Message

\* One element is a sequence.
LEMMA Single ==
  ASSUME NEW S, NEW x \in S
  PROVE  <<x>> \in Seq(S)
OBVIOUS

\* Sending messages, on an open connection, a closed one or none, leaves a
\* network of messages.
LEMMA SendType ==
  ASSUME NEW box \in [End -> Seq(Message)], NEW e \in End,
         NEW messages \in Seq(Message)
  PROVE  Send(box, e, messages) \in [End -> Seq(Message)]
<1>1. Other(e) \in End
  BY OtherEnd
<1>2. box[Other(e)] \o messages \in Seq(Message)
  BY <1>1
<1>3. [box EXCEPT ![Other(e)] = @ \o messages] \in [End -> Seq(Message)]
  BY <1>2
<1>4. <<[type |-> "WRITE ERROR"]>> \in Seq(Message)
  BY MessagesMade, Single
<1>5. [box EXCEPT ![e] = <<[type |-> "WRITE ERROR"]>>] \in [End -> Seq(Message)]
  BY <1>4
<1> QED BY <1>3, <1>5 DEF Send

\* The fields that a handler reads are those its type of message has.
LEMMA MessageFields ==
  ASSUME NEW m \in Message
  PROVE  /\ m.type = "HELLO" => m.id \in Peer
         /\ m.type \in {"SET CODE", "GET CODE"} => m.code \in PeerCode
         /\ m.type = "INTRODUCE PEER" => m.peer \in Peer /\ m.layer \in Nat
         /\ m.type = "CONNECT IN" => m.layer \in Nat
         /\ m.type = "STORE BLOCK" => m.block \in Block /\ m.version \in Found
         /\ m.type = "STORED BLOCK" => m.block \in Block /\ m.success \in BOOLEAN
         /\ m.type = "LOAD BLOCK" => m.block \in Block
         /\ m.type = "DELIVER BLOCK" => m.block \in Block /\ m.found \in Found
BY DEF Message

\* The end at which a message is handled is an end of a peer's connection.
LEMMA ReceivesAtPeer ==
  ASSUME TypeInv, NEW e \in End, NEW type, Receives(e, type)
  PROVE  /\ conn[e].own \in Peer
         /\ conn[e].att \in End
         /\ Head(inbox[e]) \in Message
         /\ Head(inbox[e]).type = type
         /\ Taken(e) \in [End -> Seq(Message)]
<1>1. conn[e] \in Connection /\ inbox[e] \in Seq(Message) /\ inbox[e] # << >>
  BY DEF TypeInv, TypeOK, Receives
<1>2. Head(inbox[e]) \in Message /\ Tail(inbox[e]) \in Seq(Message)
  BY <1>1
<1>3. conn[e].own \in Peer
  BY DEF TypeInv, Owned, Receives, IsOpen
<1>4. Taken(e) \in [End -> Seq(Message)]
  BY <1>2 DEF Taken, TypeInv, TypeOK
<1> QED BY <1>1, <1>2, <1>3, <1>4 DEF Receives, Connection

-----------------------------------------------------------------------------
\* What a step may do to the foreign_peer objects and to the connections.
SameIds(before, after) ==
  \A f \in End : before[f].id \in Peer => after[f].id \in Peer

SameOwners(before, after) ==
  \A e \in End : /\ after[e].own = before[e].own
                 /\ after[e].status = "unused" <=> before[e].status = "unused"

\* A connection that is used changes its status.
LEMMA StatusChanged ==
  ASSUME NEW ends \in [End -> Connection], NEW e \in End,
         NEW s \in {"open", "closed", "failed"},
         NEW after, after = [ends EXCEPT ![e].status = s]
  PROVE  /\ after \in [End -> Connection]
         /\ ends[e].status # "unused" => SameOwners(ends, after)
<1> DEFINE k == [ends[e] EXCEPT !.status = s]
<1>1. ends[e] \in Connection
  OBVIOUS
<1>2. k \in Connection /\ k.own = ends[e].own /\ k.status = s
  BY <1>1 DEF Connection
<1>3. after = [ends EXCEPT ![e] = k]
  OBVIOUS
<1> HIDE DEF k
<1>4. after \in [End -> Connection]
  BY <1>2, <1>3
<1>5. ends[e].status # "unused" => SameOwners(ends, after)
  BY <1>2, <1>3 DEF SameOwners
<1> QED BY <1>4, <1>5

\* A foreign_peer object is replaced by one that has an identity if it had.
LEMMA ObjectChanged ==
  ASSUME NEW objects \in [End -> ForeignPeer], NEW f \in End,
         NEW o \in ForeignPeer,
         NEW after, after = [objects EXCEPT ![f] = o],
         objects[f].id \in Peer => o.id \in Peer
  PROVE  after \in [End -> ForeignPeer] /\ SameIds(objects, after)
BY DEF SameIds

\* Assigning to a field of a foreign_peer leaves one with the same identity.
LEMMA ObjectUpdates ==
  ASSUME NEW o \in ForeignPeer
  PROVE  /\ \A c \in End \cup {None} :
              [o EXCEPT !.conn = c] \in ForeignPeer /\ [o EXCEPT !.conn = c].id = o.id
         /\ \A l \in Layer :
              /\ [o EXCEPT !.out = l] \in ForeignPeer /\ [o EXCEPT !.out = l].id = o.id
              /\ [o EXCEPT !.in = l] \in ForeignPeer /\ [o EXCEPT !.in = l].id = o.id
         /\ \A x \in BOOLEAN :
              /\ [o EXCEPT !.queued = x] \in ForeignPeer /\ [o EXCEPT !.queued = x].id = o.id
              /\ [o EXCEPT !.verified = x] \in ForeignPeer /\ [o EXCEPT !.verified = x].id = o.id
              /\ [o EXCEPT !.integrated = x] \in ForeignPeer /\ [o EXCEPT !.integrated = x].id = o.id
BY DEF ForeignPeer

\* With the maps as they are, identities that are kept are enough.
LEMMA IdentifiedKept ==
  ASSUME TypeInv, UNCHANGED known, SameIds(fp, fp')
  PROVE  Identified'
<1> SUFFICES ASSUME NEW p \in Peer, NEW q \in Peer, known[p][q] # None
             PROVE  fp'[known[p][q]].id \in Peer
  BY DEF Identified
<1>1. known[p][q] \in End
  BY DEF TypeInv, TypeOK
<1>2. fp[known[p][q]].id \in Peer
  BY DEF TypeInv, Identified
<1> QED BY <1>1, <1>2 DEF SameIds

\* The flags of a connection, and the object it is attached to.
LEMMA ConnectionUpdates ==
  ASSUME NEW c \in Connection
  PROVE  /\ [c EXCEPT !.introduced = TRUE] \in Connection
         /\ [c EXCEPT !.gotWelcome = TRUE] \in Connection
         /\ [c EXCEPT !.stuck = TRUE] \in Connection
BY DEF Connection

\* Setting a flag of one connection changes no owner.
LEMMA ConnectionFlags ==
  ASSUME TypeInv, NEW e \in End,
         \/ conn' = [conn EXCEPT ![e].introduced = TRUE]
         \/ conn' = [conn EXCEPT ![e].gotWelcome = TRUE]
         \/ conn' = [conn EXCEPT ![e].stuck = TRUE]
  PROVE  conn' \in [End -> Connection] /\ SameOwners(conn, conn')
<1>1. conn \in [End -> Connection]
  BY DEF TypeInv, TypeOK
<1>2. conn' \in [End -> Connection]
  <2>1. /\ [conn[e] EXCEPT !.introduced = TRUE] \in Connection
        /\ [conn[e] EXCEPT !.gotWelcome = TRUE] \in Connection
        /\ [conn[e] EXCEPT !.stuck = TRUE] \in Connection
    <3>1. conn[e] \in Connection
      BY <1>1
    <3> QED BY <3>1, ConnectionUpdates
  <2> QED BY <1>1, <2>1
<1>3. SameOwners(conn, conn')
  BY <1>1 DEF Connection, SameOwners
<1> QED BY <1>2, <1>3

\* With the owners as they are, every connection has one.
LEMMA OwnedKept ==
  ASSUME TypeInv, SameOwners(conn, conn')
  PROVE  Owned'
BY DEF TypeInv, Owned, SameOwners

\* With index and files as they are, they agree.
LEMMA IndexKept ==
  ASSUME TypeInv, UNCHANGED <<stored, disk>>
  PROVE  IndexMatchesDisk'
BY DEF TypeInv, IndexMatchesDisk

-----------------------------------------------------------------------------
\* Closing a connection.
LEMMA CloseTypes ==
  ASSUME TypeInv, NEW e \in End, Close(e)
  PROVE  /\ fp' \in [End -> ForeignPeer] /\ SameIds(fp, fp')
         /\ conn' \in [End -> Connection]
         /\ conn[e].status # "unused" => SameOwners(conn, conn')
         /\ inbox' \in [End -> Seq(Message)]
<1>1. conn[e].att \in End
  BY DEF TypeInv, TypeOK, Connection
<1>2. fp' \in [End -> ForeignPeer] /\ SameIds(fp, fp')
  <2>1. fp \in [End -> ForeignPeer] /\ fp[conn[e].att] \in ForeignPeer
    BY <1>1 DEF TypeInv, TypeOK
  <2> DEFINE o == [fp[conn[e].att] EXCEPT !.conn = None]
  <2>2. o \in ForeignPeer /\ o.id = fp[conn[e].att].id
    BY <2>1, ObjectUpdates
  <2>3. fp' = [fp EXCEPT ![conn[e].att] = o]
    BY DEF Close
  <2> HIDE DEF o
  <2> QED BY <1>1, <2>1, <2>2, <2>3, ObjectChanged
<1>3. conn' \in [End -> Connection]
  BY StatusChanged DEF Close, TypeInv, TypeOK
<1>4. conn[e].status # "unused" => SameOwners(conn, conn')
  BY StatusChanged DEF Close, TypeInv, TypeOK
<1>5. inbox' \in [End -> Seq(Message)]
  BY DEF Close, TypeInv, TypeOK
<1> QED BY <1>2, <1>3, <1>4, <1>5

\* HELLO refused: the invariant is kept.
LEMMA RefuseHelloInv ==
  ASSUME TypeInv, NEW e \in End, RefuseHello(e)
  PROVE  TypeInv'
<1>1. Close(e) /\ conn[e].status # "unused"
  BY DEF RefuseHello, Receives, IsOpen
<1>2. TypeOK'
  BY <1>1, CloseTypes DEF RefuseHello, TypeInv, TypeOK, localVars, blockVars, clientVars
<1>3. Owned' /\ Identified' /\ IndexMatchesDisk'
  BY <1>1, CloseTypes, OwnedKept, IdentifiedKept, IndexKept DEF RefuseHello, blockVars
<1> QED BY <1>2, <1>3 DEF TypeInv

\* VERIFY IDENTITY refused: the invariant is kept.
LEMMA RefuseIdentityInv ==
  ASSUME TypeInv, NEW e \in End, RefuseIdentity(e)
  PROVE  TypeInv'
<1>1. Close(e) /\ conn[e].status # "unused"
  BY DEF RefuseIdentity, Receives, IsOpen
<1>2. faults' \in Nat
  <2>1. faults \in Nat /\ faults > 0 /\ faults' = faults - 1
    BY DEF RefuseIdentity, TypeInv, TypeOK
  <2> QED BY <2>1
<1>3. TypeOK'
  BY <1>1, <1>2, CloseTypes DEF RefuseIdentity, TypeInv, TypeOK, localVars, blockVars, clientVars
<1>4. Owned' /\ Identified' /\ IndexMatchesDisk'
  BY <1>1, CloseTypes, OwnedKept, IdentifiedKept, IndexKept DEF RefuseIdentity, blockVars
<1> QED BY <1>3, <1>4 DEF TypeInv

\* A connection that is closed after a failure: the invariant is kept.
LEMMA FailInv ==
  ASSUME TypeInv, NEW e \in End, ReadError(e) \/ Reset(e) \/ StuckError(e)
  PROVE  TypeInv'
<1>1. Close(e) /\ conn[e].status # "unused" /\ Unaffected
  BY DEF ReadError, Reset, StuckError, IsOpen
<1>2. faults' \in Nat
  BY ConstantsAssumption DEF ReadError, Reset, StuckError, TypeInv, TypeOK
<1>3. TypeOK'
  BY <1>1, <1>2, CloseTypes DEF Unaffected, TypeInv, TypeOK, localVars, blockVars, clientVars
<1>4. Owned' /\ Identified' /\ IndexMatchesDisk'
  BY <1>1, CloseTypes, OwnedKept, IdentifiedKept, IndexKept DEF Unaffected, blockVars
<1> QED BY <1>3, <1>4 DEF TypeInv

\* A write that fails: the invariant is kept.
LEMMA WriteErrorInv ==
  ASSUME TypeInv, NEW e \in End, WriteError(e)
  PROVE  TypeInv'
<1>1. conn[e].att \in End /\ conn[e].status # "unused"
  BY DEF WriteError, TypeInv, TypeOK, Connection
<1>2. fp' \in [End -> ForeignPeer] /\ SameIds(fp, fp')
  <2>1. fp \in [End -> ForeignPeer] /\ fp[conn[e].att] \in ForeignPeer
    BY <1>1 DEF TypeInv, TypeOK
  <2> DEFINE o == [fp[conn[e].att] EXCEPT !.conn = None]
  <2>2. o \in ForeignPeer /\ o.id = fp[conn[e].att].id
    BY <2>1, ObjectUpdates
  <2>3. fp' = [fp EXCEPT ![conn[e].att] = o]
    BY DEF WriteError
  <2> HIDE DEF o
  <2> QED BY <1>1, <2>1, <2>2, <2>3, ObjectChanged
<1>3. conn' \in [End -> Connection] /\ SameOwners(conn, conn')
  BY <1>1, StatusChanged DEF WriteError, TypeInv, TypeOK
<1>4. inbox' \in [End -> Seq(Message)]
  BY DEF WriteError, TypeInv, TypeOK
<1>5. TypeOK'
  BY <1>2, <1>3, <1>4
  DEF WriteError, Unaffected, TypeInv, TypeOK, localVars, blockVars, clientVars
<1>6. Owned' /\ Identified' /\ IndexMatchesDisk'
  BY <1>2, <1>3, OwnedKept, IdentifiedKept, IndexKept DEF WriteError, Unaffected, blockVars
<1> QED BY <1>5, <1>6 DEF TypeInv

-----------------------------------------------------------------------------
\* The handshake.
LEMMA HandleHelloInv ==
  ASSUME TypeInv, NEW e \in End, HandleHello(e)
  PROVE  TypeInv'
<1> DEFINE p == conn[e].own
           m == Head(inbox[e])
           old == known[p][m.id]
           f == IF old = None THEN conn[e].att ELSE old
<1>1. /\ p \in Peer /\ conn[e].att \in End /\ m \in Message /\ m.type = "HELLO"
      /\ Taken(e) \in [End -> Seq(Message)] /\ conn[e].status = "open"
  BY ReceivesAtPeer DEF HandleHello, Receives, IsOpen
<1>2. m.id \in Peer
  BY <1>1, MessageFields
<1>3. f \in End
  BY <1>1, <1>2 DEF TypeInv, TypeOK
<1>4. fp' \in [End -> ForeignPeer] /\ SameIds(fp, fp')
  <2> DEFINE queued == m.kind = "queued"
             c == GreetedAt(f, e, m.id)
             o == [fp[f] EXCEPT !.id = m.id, !.queued = queued, !.conn = c]
  <2>1. fp \in [End -> ForeignPeer] /\ fp[f] \in ForeignPeer
    BY <1>3 DEF TypeInv, TypeOK
  <2>2. o \in ForeignPeer /\ o.id \in Peer
    <3>1. queued \in BOOLEAN /\ c \in End \cup {None}
      BY <2>1 DEF ForeignPeer, GreetedAt
    <3> HIDE DEF queued, c, f, m
    <3> QED BY <1>2, <2>1, <3>1 DEF ForeignPeer
  <2>3. fp' = [fp EXCEPT ![f] = o]
    <3>1. fp' = Greeted(f, e, m)
      BY DEF HandleHello
    <3>2. Greeted(f, e, m) = [fp EXCEPT ![f] = o]
      BY DEF Greeted
    <3> QED BY <3>1, <3>2
  <2> HIDE DEF o, f
  <2> QED BY <1>3, <2>1, <2>2, <2>3, ObjectChanged
<1>5. conn' \in [End -> Connection] /\ SameOwners(conn, conn')
  <2>1. conn' = [conn EXCEPT ![e].att = f]
    BY DEF HandleHello
  <2> HIDE DEF f
  <2>2. conn \in [End -> Connection]
    BY DEF TypeInv, TypeOK
  <2>3. conn' \in [End -> Connection]
    BY <1>3, <2>1, <2>2 DEF Connection
  <2>4. SameOwners(conn, conn')
    BY <2>1, <2>2 DEF Connection, SameOwners
  <2> QED BY <2>3, <2>4
<1>6. inbox' \in [End -> Seq(Message)]
  <2>1. inbox' = Send(Taken(e), e, <<[type |-> "PROVE IDENTITY"]>>)
    BY DEF HandleHello
  <2> QED BY <1>1, <2>1, MessagesMade, Single, SendType
<1>7. TypeOK'
  BY <1>4, <1>5, <1>6 DEF HandleHello, TypeInv, TypeOK, localVars, blockVars, clientVars
<1>8. Owned' /\ Identified' /\ IndexMatchesDisk'
  BY <1>4, <1>5, OwnedKept, IdentifiedKept, IndexKept DEF HandleHello, blockVars
<1> QED BY <1>7, <1>8 DEF TypeInv

\* PROVE IDENTITY: the invariant is kept.
LEMMA HandleProveIdentityInv ==
  ASSUME TypeInv, NEW e \in End, HandleProveIdentity(e)
  PROVE  TypeInv'
<1>1. inbox' \in [End -> Seq(Message)]
  BY ReceivesAtPeer, MessagesMade, Single, SendType DEF HandleProveIdentity
<1>2. TypeOK'
  BY <1>1 DEF HandleProveIdentity, TypeInv, TypeOK, localVars, blockVars, clientVars
<1>3. Owned' /\ Identified' /\ IndexMatchesDisk'
  BY DEF HandleProveIdentity, TypeInv, Owned, Identified, IndexMatchesDisk, blockVars
<1> QED BY <1>2, <1>3 DEF TypeInv

\* The peers that are looked up in a map have a connection.
LEMMA FoundPeers ==
  ASSUME NEW objects \in [End -> ForeignPeer], NEW map \in [Peer -> End \cup {None}],
         NEW f
  PROVE  /\ \A layer : f \in OutPeers(objects, map, layer) =>
              f \in End /\ objects[f].conn \in End /\ f \in Entries(map)
         /\ f \in QueuedPeers(objects, map) =>
              f \in End /\ objects[f].conn \in End
<1>1. f \in Entries(map) => f \in End
  BY DEF Entries
<1>2. f \in End /\ Connected(objects, f) => objects[f].conn \in End
  BY DEF Connected, ForeignPeer
<1> QED BY <1>1, <1>2 DEF OutPeers, QueuedPeers

\* The half of the code that is offered is a code.
LEMMA SetCodeType ==
  ASSUME TypeInv, NEW p \in Peer
  PROVE  SetCode(p) \in Seq(Message)
<1>1. Extend(code[p], 1) \in PeerCode
  BY DEF TypeInv, TypeOK, PeerCode, Bit, Extend
<1> QED BY <1>1, MessagesMade, Single DEF SetCode

\* add_foreign_peer(), in all its cases: the types of what it assigns, and the
\* object it enters in the map has an identity if it is found there.
LEMMA AddForeignPeerTypes ==
  ASSUME TypeInv, NEW p \in Peer, NEW e \in End,
         NEW objects \in [End -> ForeignPeer], SameIds(fp, objects),
         NEW box \in [End -> Seq(Message)], NEW last \in Seq(Message),
         AddForeignPeer(p, e, objects, box, last)
  PROVE  /\ up' \in [Peer -> BOOLEAN]
         /\ integrated' \in [Peer -> BOOLEAN]
         /\ splitting' \in [Peer -> BOOLEAN]
         /\ known' \in [Peer -> [Peer -> End \cup {None}]]
         /\ fp' \in [End -> ForeignPeer]
         /\ inbox' \in [End -> Seq(Message)]
         /\ Identified'
<1> DEFINE f == conn[e].att
           map == [known[p] EXCEPT ![objects[f].id] = f]
           out == Connected(objects, f) /\ objects[f].out # -1
           Rest == /\ up' \in [Peer -> BOOLEAN]
                   /\ integrated' \in [Peer -> BOOLEAN]
                   /\ splitting' \in [Peer -> BOOLEAN]
                   /\ fp' \in [End -> ForeignPeer]
                   /\ inbox' \in [End -> Seq(Message)]
                   /\ SameIds(objects, fp')
<1>1. f \in End /\ objects[f] \in ForeignPeer
  BY DEF TypeInv, TypeOK, Connection
<1>2. /\ up \in [Peer -> BOOLEAN] /\ integrated \in [Peer -> BOOLEAN]
      /\ splitting \in [Peer -> BOOLEAN] /\ mentor \in [Peer -> End \cup {None}]
      /\ known \in [Peer -> [Peer -> End \cup {None}]]
  BY DEF TypeInv, TypeOK
<1>3. map \in [Peer -> End \cup {None}]
  BY <1>1, <1>2
<1>4. known' = [known EXCEPT ![p] = map]
  BY DEF AddForeignPeer
<1>5. known' \in [Peer -> [Peer -> End \cup {None}]]
  <2> HIDE DEF map
  <2> QED BY <1>2, <1>3, <1>4
<1>6. ASSUME out, AddOutPeer(p, f, e, objects, map, box, last)
      PROVE  Rest
  <2> DEFINE connectIn == <<[type |-> "CONNECT IN", layer |-> objects[f].out]>>
             told == Send(box, objects[f].conn, connectIn)
             done == Send(told, objects[mentor[p]].conn, <<[type |-> "INTEGRATED"]>>)
  <2>1. objects[f].conn \in End /\ objects[f].out \in Nat
    BY <1>1, <1>6 DEF Connected, ForeignPeer, Layer
  <2>2. told \in [End -> Seq(Message)]
    <3>1. connectIn \in Seq(Message)
      BY <2>1, MessagesMade, Single
    <3> HIDE DEF connectIn
    <3> QED BY <2>1, <3>1, SendType
  <2>3. HasMentor(p, objects) => done \in [End -> Seq(Message)]
    <3>1. HasMentor(p, objects) => objects[mentor[p]].conn \in End
      BY <1>2 DEF HasMentor, Connected, ForeignPeer
    <3>2. <<[type |-> "INTEGRATED"]>> \in Seq(Message)
      BY MessagesMade, Single
    <3> HIDE DEF told
    <3> QED BY <2>2, <3>1, <3>2, SendType
  <2>4. /\ fp' = objects
        /\ splitting' = splitting
        /\ \/ inbox' = Send(told, e, last) /\ up' = up /\ integrated' = integrated
           \/ /\ HasMentor(p, objects)
              /\ integrated' = [integrated EXCEPT ![p] = TRUE]
              /\ inbox' = Send(done, e, last) /\ up' = up
           \/ Crash(p) /\ inbox' = told /\ integrated' = integrated
    BY <1>6 DEF AddOutPeer
  <2> HIDE DEF told, done
  <2>5. inbox' \in [End -> Seq(Message)]
    <3>1. CASE inbox' = Send(told, e, last)
      BY <2>2, <3>1, SendType
    <3>2. CASE HasMentor(p, objects) /\ inbox' = Send(done, e, last)
      BY <2>3, <3>2, SendType
    <3> QED BY <2>2, <2>4, <3>1, <3>2
  <2>6. SameIds(objects, fp')
    BY <2>4 DEF SameIds
  <2> QED BY <1>2, <2>4, <2>5, <2>6 DEF Crash
<1>7. ASSUME ~ out, Connected(objects, f), AddNewPeer(p, f, e, objects, box, last)
      PROVE  Rest
  <2>1. UNCHANGED <<up, integrated>>
    BY <1>7 DEF AddNewPeer
  <2>2. CASE TakesHalf(p, f, objects)
    <3> DEFINE o == [objects[f] EXCEPT !.queued = FALSE]
    <3>1. /\ fp' = [objects EXCEPT ![f] = o]
          /\ splitting' = [splitting EXCEPT ![p] = TRUE]
          /\ inbox' = Send(Send(box, objects[f].conn, SetCode(p)), e, last)
      BY <1>7, <2>2 DEF AddNewPeer
    <3>2. o \in ForeignPeer /\ o.id = objects[f].id
      BY <1>1, ObjectUpdates
    <3>3. fp' \in [End -> ForeignPeer] /\ SameIds(objects, fp')
      <4> HIDE DEF o
      <4> QED BY <1>1, <3>1, <3>2, ObjectChanged
    <3>4. objects[f].conn \in End
      BY <1>1, <1>7 DEF Connected, ForeignPeer
    <3>5. inbox' \in [End -> Seq(Message)]
      BY <3>1, <3>4, SetCodeType, SendType
    <3> QED BY <1>2, <2>1, <3>1, <3>3, <3>5
  <2>3. CASE ~ TakesHalf(p, f, objects)
    <3>1. fp' = objects /\ inbox' = Send(box, e, last) /\ splitting' = splitting
      BY <1>7, <2>3 DEF AddNewPeer
    <3>2. SameIds(objects, fp')
      BY <3>1 DEF SameIds
    <3> QED BY <1>2, <2>1, <3>1, <3>2, SendType
  <2> QED BY <2>2, <2>3
<1>8. ASSUME fp' = objects, inbox' = Send(box, e, last),
             UNCHANGED <<up, integrated, splitting>>
      PROVE  Rest
  <2>1. SameIds(objects, fp')
    BY <1>8 DEF SameIds
  <2> QED BY <1>2, <1>8, <2>1, SendType
<1>9. Rest
  <2> HIDE DEF Rest
  <2> QED BY <1>6, <1>7, <1>8 DEF AddForeignPeer
<1>10. Identified'
  <2> SUFFICES ASSUME NEW r \in Peer, NEW q \in Peer, known'[r][q] # None
               PROVE  fp'[known'[r][q]].id \in Peer
    BY DEF Identified
  <2>1. CASE known'[r][q] = known[r][q]
    <3>1. known[r][q] \in End /\ fp[known[r][q]].id \in Peer
      BY <1>2, <2>1 DEF TypeInv, Identified
    <3> QED BY <1>9, <2>1, <3>1 DEF SameIds
  <2>2. CASE known'[r][q] # known[r][q]
    <3>1. objects[f].id = q /\ known'[r][q] = f
      <4> HIDE DEF f
      <4> QED BY <1>2, <1>4, <2>2
    <3> QED BY <1>1, <1>9, <3>1 DEF SameIds
  <2> QED BY <2>1, <2>2
<1> QED BY <1>5, <1>9, <1>10

\* VERIFY IDENTITY: the invariant is kept.
LEMMA HandleVerifyIdentityInv ==
  ASSUME TypeInv, NEW e \in End, HandleVerifyIdentity(e)
  PROVE  TypeInv'
<1> DEFINE p == conn[e].own
           objects == Verified(conn[e].att)
           last == <<[type |-> "WELCOME"]>> \o Introduction(e)
<1>1. /\ p \in Peer /\ conn[e].att \in End
      /\ Taken(e) \in [End -> Seq(Message)] /\ conn[e].status = "open"
  BY ReceivesAtPeer DEF HandleVerifyIdentity, Receives, IsOpen
<1>2. objects \in [End -> ForeignPeer] /\ SameIds(fp, objects)
  <2> DEFINE o == [fp[conn[e].att] EXCEPT !.verified = TRUE]
  <2>1. fp \in [End -> ForeignPeer] /\ fp[conn[e].att] \in ForeignPeer
    BY <1>1 DEF TypeInv, TypeOK
  <2>2. o \in ForeignPeer /\ o.id = fp[conn[e].att].id
    BY <2>1, ObjectUpdates
  <2>3. objects = [fp EXCEPT ![conn[e].att] = o]
    BY DEF Verified
  <2> HIDE DEF o, objects
  <2> QED BY <1>1, <2>1, <2>2, <2>3, ObjectChanged
<1>3. last \in Seq(Message)
  <2>1. <<[type |-> "WELCOME"]>> \in Seq(Message)
    BY MessagesMade, Single
  <2>2. [type |-> "HELLO", id |-> p, kind |-> "?"] \in Message
    BY <1>1, MessagesMade
  <2>3. Introduction(e) \in Seq(Message)
    BY <2>2, Single DEF Introduction
  <2> QED BY <2>1, <2>3
<1>4. conn' \in [End -> Connection] /\ SameOwners(conn, conn')
  BY ConnectionFlags DEF HandleVerifyIdentity
<1>5. /\ up' \in [Peer -> BOOLEAN] /\ integrated' \in [Peer -> BOOLEAN]
      /\ splitting' \in [Peer -> BOOLEAN]
      /\ known' \in [Peer -> [Peer -> End \cup {None}]]
      /\ fp' \in [End -> ForeignPeer] /\ inbox' \in [End -> Seq(Message)]
      /\ Identified'
  <2>1. CASE AddForeignPeer(p, e, objects, Taken(e), last)
    <3> HIDE DEF p, objects, last
    <3> QED BY <1>1, <1>2, <1>3, <2>1, AddForeignPeerTypes
  <2>2. CASE /\ fp' = objects
             /\ inbox' = Send(Taken(e), e, last)
             /\ UNCHANGED <<up, integrated, splitting, known>>
    <3> HIDE DEF objects, last
    <3>1. Identified'
      BY <1>2, <2>2, IdentifiedKept
    <3> QED BY <1>1, <1>2, <1>3, <2>2, <3>1, SendType DEF TypeInv, TypeOK
  <2> QED BY <2>1, <2>2 DEF HandleVerifyIdentity
<1>6. TypeOK'
  BY <1>4, <1>5 DEF HandleVerifyIdentity, TypeInv, TypeOK, blockVars, clientVars
<1>7. Owned' /\ IndexMatchesDisk'
  BY <1>4, OwnedKept, IndexKept DEF HandleVerifyIdentity, blockVars
<1> QED BY <1>5, <1>6, <1>7 DEF TypeInv

\* WELCOME: the invariant is kept.
LEMMA HandleWelcomeInv ==
  ASSUME TypeInv, NEW e \in End, HandleWelcome(e)
  PROVE  TypeInv'
<1> DEFINE p == conn[e].own
<1>1. p \in Peer /\ Taken(e) \in [End -> Seq(Message)]
  BY ReceivesAtPeer DEF HandleWelcome
<1>2. conn' \in [End -> Connection] /\ SameOwners(conn, conn')
  BY ConnectionFlags DEF HandleWelcome
<1>3. /\ up' \in [Peer -> BOOLEAN] /\ integrated' \in [Peer -> BOOLEAN]
      /\ splitting' \in [Peer -> BOOLEAN]
      /\ known' \in [Peer -> [Peer -> End \cup {None}]]
      /\ fp' \in [End -> ForeignPeer] /\ inbox' \in [End -> Seq(Message)]
      /\ Identified'
  <2>1. CASE AddForeignPeer(p, e, fp, Taken(e), << >>)
    <3>1. fp \in [End -> ForeignPeer] /\ SameIds(fp, fp) /\ << >> \in Seq(Message)
      BY DEF TypeInv, TypeOK, SameIds
    <3> HIDE DEF p
    <3> QED BY <1>1, <2>1, <3>1, AddForeignPeerTypes
  <2>2. CASE inbox' = Taken(e) /\ UNCHANGED <<up, integrated, splitting, known, fp>>
    <3>1. Identified'
      BY <2>2 DEF TypeInv, Identified
    <3> QED BY <1>1, <2>2, <3>1 DEF TypeInv, TypeOK
  <2> QED BY <2>1, <2>2 DEF HandleWelcome
<1>4. TypeOK'
  BY <1>2, <1>3 DEF HandleWelcome, TypeInv, TypeOK, blockVars, clientVars
<1>5. Owned' /\ IndexMatchesDisk'
  BY <1>2, OwnedKept, IndexKept DEF HandleWelcome, blockVars
<1> QED BY <1>3, <1>4, <1>5 DEF TypeInv

-----------------------------------------------------------------------------
\* Codes and introductions.
LEMMA AtLayerType ==
  ASSUME TypeInv, NEW f \in End, NEW l \in Layer
  PROVE  AtLayer(f, l) \in [End -> ForeignPeer] /\ SameIds(fp, AtLayer(f, l))
<1> DEFINE o == [fp[f] EXCEPT !.out = l, !.in = l]
<1>1. fp \in [End -> ForeignPeer] /\ fp[f] \in ForeignPeer
  BY DEF TypeInv, TypeOK
<1>2. o \in ForeignPeer /\ o.id = fp[f].id
  BY <1>1 DEF ForeignPeer
<1>3. AtLayer(f, l) = [fp EXCEPT ![f] = o]
  BY <1>1 DEF AtLayer, ForeignPeer
<1> HIDE DEF o
<1> QED BY <1>1, <1>2, <1>3, ObjectChanged

\* SET CODE: the invariant is kept.
LEMMA HandleSetCodeInv ==
  ASSUME TypeInv, NEW e \in End, HandleSetCode(e)
  PROVE  TypeInv'
<1> DEFINE p == conn[e].own
           m == Head(inbox[e])
           layer == Len(m.code) - 1
           answer == <<[type |-> "GET CODE", code |-> m.code]>>
           last == IF HasAllPeers(layer) THEN <<[type |-> "INTEGRATED"]>> ELSE << >>
<1>1. /\ p \in Peer /\ conn[e].att \in End /\ m \in Message /\ m.type = "SET CODE"
      /\ Taken(e) \in [End -> Seq(Message)]
  BY ReceivesAtPeer DEF HandleSetCode
<1>2. m.code \in PeerCode
  BY <1>1, MessageFields
<1>3. layer \in Layer
  BY <1>2 DEF PeerCode, Layer
<1>4. fp' \in [End -> ForeignPeer] /\ SameIds(fp, fp')
  BY <1>1, <1>3, AtLayerType DEF HandleSetCode
<1>5. inbox' \in [End -> Seq(Message)]
  <2>1. answer \in Seq(Message)
    BY <1>2, MessagesMade, Single
  <2>2. last \in Seq(Message)
    <3>1. <<[type |-> "INTEGRATED"]>> \in Seq(Message)
      BY MessagesMade, Single
    <3>2. << >> \in Seq(Message)
      OBVIOUS
    <3> QED BY <3>1, <3>2
  <2>3. answer \o last \in Seq(Message)
    <3> HIDE DEF answer, last
    <3> QED BY <2>1, <2>2
  <2>4. inbox' = Send(Taken(e), e, answer \o last)
    BY DEF HandleSetCode
  <2> HIDE DEF answer, last
  <2> QED BY <1>1, <2>3, <2>4, SendType
<1>6. /\ code' \in [Peer -> PeerCode] /\ mentor' \in [Peer -> End \cup {None}]
      /\ integrated' \in [Peer -> BOOLEAN]
  <2>1. /\ code' = [code EXCEPT ![p] = m.code]
        /\ mentor' = [mentor EXCEPT ![p] = conn[e].att]
        /\ integrated' = [integrated EXCEPT ![p] = @ \/ HasAllPeers(layer)]
    BY DEF HandleSetCode
  <2> HIDE DEF p, layer
  <2> QED BY <1>1, <1>2, <2>1 DEF TypeInv, TypeOK
<1>7. TypeOK'
  BY <1>4, <1>5, <1>6 DEF HandleSetCode, TypeInv, TypeOK, blockVars, clientVars
<1>8. Owned' /\ Identified' /\ IndexMatchesDisk'
  BY <1>4, IdentifiedKept, IndexKept DEF HandleSetCode, TypeInv, Owned, blockVars
<1> QED BY <1>7, <1>8 DEF TypeInv

\* GET CODE refused: the invariant is kept.
LEMMA RefuseGetCodeInv ==
  ASSUME TypeInv, NEW e \in End, RefuseGetCode(e)
  PROVE  TypeInv'
<1>1. Taken(e) \in [End -> Seq(Message)]
  BY ReceivesAtPeer DEF RefuseGetCode
<1>2. conn' \in [End -> Connection] /\ SameOwners(conn, conn')
  BY ConnectionFlags DEF RefuseGetCode
<1>3. TypeOK'
  BY <1>1, <1>2 DEF RefuseGetCode, TypeInv, TypeOK, localVars, blockVars, clientVars
<1>4. Owned' /\ Identified' /\ IndexMatchesDisk'
  BY <1>2, OwnedKept, IndexKept DEF RefuseGetCode, TypeInv, Identified, blockVars
<1> QED BY <1>3, <1>4 DEF TypeInv

\* GET CODE: the invariant is kept.
LEMMA HandleGetCodeInv ==
  ASSUME TypeInv, NEW e \in End, HandleGetCode(e)
  PROVE  TypeInv'
<1> DEFINE p == conn[e].own
           layer == Len(code[p])
           rounds == [i \in 1 .. layer |->
                        [op |-> "introduce", end |-> e, layer |-> i - 1]]
<1>1. /\ p \in Peer /\ conn[e].att \in End /\ Taken(e) \in [End -> Seq(Message)]
  BY ReceivesAtPeer DEF HandleGetCode
<1>2. code[p] \in PeerCode /\ layer \in Nat
  BY <1>1 DEF TypeInv, TypeOK, PeerCode
<1>3. fp' \in [End -> ForeignPeer] /\ SameIds(fp, fp')
  BY <1>1, <1>2, AtLayerType DEF HandleGetCode, Layer
<1>4. rounds \in Seq(Task)
  <2>1. \A i \in 1 .. layer : [op |-> "introduce", end |-> e, layer |-> i - 1] \in Task
    BY <1>2 DEF Task
  <2> HIDE DEF layer
  <2> QED BY <1>2, <2>1
<1>5. code' \in [Peer -> PeerCode] /\ todo' \in [Peer -> Seq(Task)]
  <2>1. code' = [code EXCEPT ![p] = Extend(@, 0)] /\ todo' = [todo EXCEPT ![p] = rounds]
    BY DEF HandleGetCode
  <2>2. Extend(code[p], 0) \in PeerCode
    BY <1>2 DEF PeerCode, Extend, Bit
  <2> HIDE DEF p, rounds
  <2> QED BY <1>1, <1>4, <2>1, <2>2 DEF TypeInv, TypeOK
<1>6. TypeOK'
  BY <1>1, <1>3, <1>5 DEF HandleGetCode, TypeInv, TypeOK, blockVars, clientVars
<1>7. Owned' /\ Identified' /\ IndexMatchesDisk'
  BY <1>3, IdentifiedKept, IndexKept DEF HandleGetCode, TypeInv, Owned, blockVars
<1> QED BY <1>6, <1>7 DEF TypeInv

\* What the running handler does next, and what is left.
LEMMA RunsTask ==
  ASSUME TypeInv, NEW p \in Peer, NEW op, Runs(p, op)
  PROVE  /\ Head(todo[p]) \in Task
         /\ Head(todo[p]).op = op
         /\ Done(p) \in [Peer -> Seq(Task)]
<1>1. todo[p] \in Seq(Task) /\ todo[p] # << >>
  BY DEF Runs, TypeInv, TypeOK
<1>2. Head(todo[p]) \in Task /\ Tail(todo[p]) \in Seq(Task)
  BY <1>1
<1>3. Done(p) \in [Peer -> Seq(Task)]
  BY <1>2 DEF Done, TypeInv, TypeOK
<1> QED BY <1>2, <1>3 DEF Runs

\* The fields that a running handler reads are those its task has.
LEMMA TaskFields ==
  ASSUME NEW t \in Task
  PROVE  /\ t.op = "store" => /\ t.block \in Block /\ t.version \in Version
                              /\ t.action \in ClientAction
         /\ t.op = "answer" => /\ t.block \in Block /\ t.success \in BOOLEAN
                               /\ t.action \in Action
         /\ t.op = "deliver" => /\ t.block \in Block /\ t.found \in Found
                                /\ t.action \in LoadAction
         /\ t.op = "introduce" => t.end \in End /\ t.layer \in Nat
BY DEF Task

\* INTRODUCE PEER sent: the invariant is kept, the peer having an identity.
LEMMA RunIntroduceInv ==
  ASSUME TypeInv, NEW p \in Peer, RunIntroduce(p)
  PROVE  TypeInv'
<1> DEFINE t == Head(todo[p])
<1>1. t \in Task /\ t.op = "introduce" /\ Done(p) \in [Peer -> Seq(Task)]
  BY RunsTask DEF RunIntroduce
<1>2. t.end \in End /\ t.layer \in Nat
  BY <1>1, TaskFields
<1>3. inbox' \in [End -> Seq(Message)]
  <2>1. CASE inbox' = inbox
    BY <2>1 DEF TypeInv, TypeOK
  <2>2. ASSUME NEW f \in OutPeers(fp, known[p], t.layer),
               inbox' = Send(inbox, t.end, Introduced(f, t.layer))
        PROVE  inbox' \in [End -> Seq(Message)]
    <3>1. f \in Entries(known[p])
      BY <2>2 DEF OutPeers
    <3>2. fp[f].id \in Peer
      BY <3>1 DEF Entries, TypeInv, Identified
    <3>3. Introduced(f, t.layer) \in Seq(Message)
      BY <1>2, <3>2, MessagesMade, Single DEF Introduced
    <3> HIDE DEF t
    <3> QED BY <1>2, <2>2, <3>3, SendType DEF TypeInv, TypeOK
  <2> QED BY <2>1, <2>2 DEF RunIntroduce
<1>4. TypeOK'
  BY <1>1, <1>3 DEF RunIntroduce, TypeInv, TypeOK, localVars, blockVars, clientVars
<1>5. Owned' /\ Identified' /\ IndexMatchesDisk'
  BY IndexKept DEF RunIntroduce, TypeInv, Owned, Identified, blockVars
<1> QED BY <1>4, <1>5 DEF TypeInv

\* CONNECT IN: the invariant is kept.
LEMMA HandleConnectInInv ==
  ASSUME TypeInv, NEW e \in End, HandleConnectIn(e)
  PROVE  TypeInv'
<1> DEFINE l == Head(inbox[e]).layer
           o == [fp[conn[e].att] EXCEPT !.in = l]
<1>1. /\ conn[e].att \in End /\ Head(inbox[e]) \in Message
      /\ Head(inbox[e]).type = "CONNECT IN" /\ Taken(e) \in [End -> Seq(Message)]
  BY ReceivesAtPeer DEF HandleConnectIn
<1>2. l \in Layer
  BY <1>1, MessageFields DEF Layer
<1>3. fp' \in [End -> ForeignPeer] /\ SameIds(fp, fp')
  <2>1. fp \in [End -> ForeignPeer] /\ fp[conn[e].att] \in ForeignPeer
    BY <1>1 DEF TypeInv, TypeOK
  <2>2. o \in ForeignPeer /\ o.id = fp[conn[e].att].id
    BY <1>2, <2>1, ObjectUpdates
  <2>3. fp' = [fp EXCEPT ![conn[e].att] = o]
    BY DEF HandleConnectIn
  <2> HIDE DEF o
  <2> QED BY <1>1, <2>1, <2>2, <2>3, ObjectChanged
<1>4. TypeOK'
  BY <1>1, <1>3 DEF HandleConnectIn, TypeInv, TypeOK, localVars, blockVars, clientVars
<1>5. Owned' /\ Identified' /\ IndexMatchesDisk'
  BY <1>3, IdentifiedKept, IndexKept DEF HandleConnectIn, TypeInv, Owned, blockVars
<1> QED BY <1>4, <1>5 DEF TypeInv

\* While connections are left the next one is not in use.
LEMMA NewPeerIsUnused ==
  ASSUME Unused # {}
  PROVE  /\ NextConn \in Conn
         /\ NewPeer \in End
         /\ conn[NewPeer].status = "unused"
<1> DEFINE S == Unused
<1>1. S \in SUBSET Nat
  BY ConstantsAssumption DEF Unused, Conn
<1>2. \E c \in S : \A d \in S : c <= d
  <2> HIDE DEF S
  <2>1. S # {}
    BY DEF S
  <2> QED BY <1>1, <2>1, Data!LeastNatural
<1>3. NextConn \in Unused
  BY <1>2 DEF NextConn
<1> QED BY <1>3 DEF Unused, NewPeer, End

-----------------------------------------------------------------------------
\* Storing a block: what an outcome leads to.
LEMMA OutcomeTypes ==
  ASSUME TypeInv, NEW box \in [End -> Seq(Message)], NEW b \in Block,
         NEW action \in Action, NEW ok \in BOOLEAN
  PROVE  /\ Reply(box, b, action, ok) \in [End -> Seq(Message)]
         /\ Told(b, action, ok) \subseteq
              Answer
<1>1. Reply(box, b, action, ok) \in [End -> Seq(Message)]
  <2>1. CASE action.kind = "reply"
    <3>1. action.end \in End
      BY <2>1 DEF Action, LoadAction, ClientAction, ReplyAction, Redistribute
    <3>2. <<[type |-> "STORED BLOCK", block |-> b, success |-> ok]>> \in Seq(Message)
      BY MessagesMade, Single
    <3> QED BY <2>1, <3>1, <3>2, SendType DEF Reply
  <2>2. CASE action.kind # "reply"
    BY <2>2 DEF Reply
  <2> QED BY <2>1, <2>2
<1>2. Told(b, action, ok) \subseteq Answer
  <2>1. answered \subseteq Answer
    BY DEF TypeInv, TypeOK
  <2>2. CASE action.kind = "client"
    <3>1. action.file \in Nat
      BY <2>2 DEF Action, LoadAction, ClientAction, ReplyAction, Redistribute
    <3> QED BY <2>1, <2>2, <3>1 DEF Told, Answer
  <2>3. CASE action.kind # "client"
    BY <2>1, <2>3 DEF Told
  <2> QED BY <2>2, <2>3
<1> QED BY <1>1, <1>2

\* The end of store(), the types of what it assigns.
LEMMA SplitIfFullTypes ==
  ASSUME TypeInv, NEW p \in Peer, NEW index,
         NEW box \in [End -> Seq(Message)], SplitIfFull(p, index, box)
  PROVE  /\ fp' \in [End -> ForeignPeer] /\ SameIds(fp, fp')
         /\ splitting' \in [Peer -> BOOLEAN]
         /\ inbox' \in [End -> Seq(Message)]
<1> DEFINE Goal == /\ fp' \in [End -> ForeignPeer] /\ SameIds(fp, fp')
                   /\ splitting' \in [Peer -> BOOLEAN]
                   /\ inbox' \in [End -> Seq(Message)]
<1>1. /\ fp \in [End -> ForeignPeer] /\ splitting \in [Peer -> BOOLEAN]
      /\ known[p] \in [Peer -> End \cup {None}]
  BY DEF TypeInv, TypeOK
<1>2. ASSUME inbox' = box, UNCHANGED <<fp, splitting>>
      PROVE  Goal
  BY <1>1, <1>2 DEF SameIds
<1>3. ASSUME NEW f \in QueuedPeers(fp, known[p]),
             fp' = [fp EXCEPT ![f].queued = FALSE],
             splitting' = [splitting EXCEPT ![p] = TRUE],
             inbox' = Send(box, fp[f].conn, SetCode(p))
      PROVE  Goal
  <2>1. f \in End /\ fp[f].conn \in End
    BY <1>1, FoundPeers
  <2> DEFINE o == [fp[f] EXCEPT !.queued = FALSE]
  <2>2. o \in ForeignPeer /\ o.id = fp[f].id
    <3>1. fp[f] \in ForeignPeer
      BY <1>1, <2>1
    <3> QED BY <3>1, ObjectUpdates
  <2>3. fp' = [fp EXCEPT ![f] = o]
    BY <1>3
  <2>4. fp' \in [End -> ForeignPeer] /\ SameIds(fp, fp')
    <3> HIDE DEF o
    <3> QED BY <1>1, <2>1, <2>2, <2>3, ObjectChanged
  <2>5. inbox' \in [End -> Seq(Message)]
    BY <1>3, <2>1, SetCodeType, SendType
  <2> QED BY <1>1, <1>3, <2>4, <2>5
<1> HIDE DEF Goal
<1>4. Goal
  BY <1>2, <1>3 DEF SplitIfFull
<1> QED BY <1>4 DEF Goal

\* The last part of store(), the types of what it assigns.
LEMMA PassOnTypes ==
  ASSUME TypeInv, NEW p \in Peer, NEW b \in Block, NEW v \in Found,
         NEW action \in Action, NEW box \in [End -> Seq(Message)],
         PassOn(p, b, v, action, box)
  PROVE  /\ up' \in [Peer -> BOOLEAN]
         /\ storeActions' \in [Peer -> [Block -> Seq(Action)]]
         /\ inbox' \in [End -> Seq(Message)]
<1> DEFINE peers == OutPeers(fp, known[p], DifferingLayer(code[p], b))
           Goal == /\ up' \in [Peer -> BOOLEAN]
                   /\ storeActions' \in [Peer -> [Block -> Seq(Action)]]
                   /\ inbox' \in [End -> Seq(Message)]
<1>1. /\ up \in [Peer -> BOOLEAN]
      /\ storeActions \in [Peer -> [Block -> Seq(Action)]]
      /\ fp \in [End -> ForeignPeer] /\ known[p] \in [Peer -> End \cup {None}]
  BY DEF TypeInv, TypeOK
<1>2. ASSUME Crash(p), inbox' = box, UNCHANGED storeActions
      PROVE  Goal
  BY <1>1, <1>2 DEF Crash
<1>3. ASSUME NEW f \in peers,
             storeActions' = [storeActions EXCEPT ![p][b] = Append(@, action)],
             inbox' = Send(box, fp[f].conn,
                           <<[type |-> "STORE BLOCK", block |-> b, version |-> v]>>),
             UNCHANGED up
      PROVE  Goal
  <2>1. fp[f].conn \in End
    BY <1>1, FoundPeers
  <2>2. <<[type |-> "STORE BLOCK", block |-> b, version |-> v]>> \in Seq(Message)
    BY MessagesMade, Single
  <2>3. inbox' \in [End -> Seq(Message)]
    BY <1>3, <2>1, <2>2, SendType
  <2>4. storeActions' \in [Peer -> [Block -> Seq(Action)]]
    <3>1. Append(storeActions[p][b], action) \in Seq(Action)
      BY <1>1
    <3> QED BY <1>1, <1>3, <3>1
  <2> QED BY <1>1, <1>3, <2>3, <2>4
<1>4. Goal
  <2> HIDE DEF Goal
  <2> QED BY <1>2, <1>3 DEF PassOn
<1> QED BY <1>4

\* store(), in all its cases: the types of what it assigns, and index and files
\* agree when it is done, whether or not the file could be written.
LEMMA StoreTypes ==
  ASSUME TypeInv, NEW p \in Peer, NEW b \in Block, NEW v \in Version,
         NEW action \in Action, NEW box \in [End -> Seq(Message)],
         Store(p, b, v, action, box)
  PROVE  /\ up' \in [Peer -> BOOLEAN]
         /\ splitting' \in [Peer -> BOOLEAN]
         /\ stored' \in [Peer -> SUBSET Block]
         /\ disk' \in [Peer -> [Block -> Found]]
         /\ storeActions' \in [Peer -> [Block -> Seq(Action)]]
         /\ loadActions' \in [Peer -> [Block -> Seq(LoadAction)]]
         /\ fp' \in [End -> ForeignPeer] /\ SameIds(fp, fp')
         /\ inbox' \in [End -> Seq(Message)]
         /\ answered' \subseteq Answer
         /\ faults' \in Nat
         /\ IndexMatchesDisk'
<1> DEFINE Goal ==
         /\ up' \in [Peer -> BOOLEAN]
         /\ splitting' \in [Peer -> BOOLEAN]
         /\ stored' \in [Peer -> SUBSET Block]
         /\ disk' \in [Peer -> [Block -> Found]]
         /\ storeActions' \in [Peer -> [Block -> Seq(Action)]]
         /\ loadActions' \in [Peer -> [Block -> Seq(LoadAction)]]
         /\ fp' \in [End -> ForeignPeer] /\ SameIds(fp, fp')
         /\ inbox' \in [End -> Seq(Message)]
         /\ answered' \subseteq Answer
         /\ faults' \in Nat
         /\ IndexMatchesDisk'
<1>1. /\ up \in [Peer -> BOOLEAN] /\ splitting \in [Peer -> BOOLEAN]
      /\ stored \in [Peer -> SUBSET Block]
      /\ disk \in [Peer -> [Block -> Found]]
      /\ storeActions \in [Peer -> [Block -> Seq(Action)]]
      /\ loadActions \in [Peer -> [Block -> Seq(LoadAction)]]
      /\ fp \in [End -> ForeignPeer] /\ SameIds(fp, fp)
      /\ answered \subseteq Answer
      /\ faults \in Nat
  BY DEF TypeInv, TypeOK, SameIds
<1>2. ASSUME StoreIgnored(p, box) PROVE Goal
  BY <1>1, <1>2, IndexKept DEF StoreIgnored, blockVars
<1>3. ASSUME StoreSaved(p, b, v, action, box) PROVE Goal
  <2>1. /\ disk' = [disk EXCEPT ![p][b] = v]
        /\ stored' = [stored EXCEPT ![p] = @ \cup {b}]
        /\ answered' = Told(b, action, TRUE)
        /\ SplitIfFull(p, stored[p] \cup {b}, Reply(box, b, action, TRUE))
        /\ UNCHANGED <<up, storeActions, loadActions, faults>>
    BY <1>3 DEF StoreSaved
  <2>2. /\ Reply(box, b, action, TRUE) \in [End -> Seq(Message)]
        /\ answered' \subseteq Answer
    BY <2>1, OutcomeTypes
  <2>3. /\ fp' \in [End -> ForeignPeer] /\ SameIds(fp, fp')
        /\ splitting' \in [Peer -> BOOLEAN]
        /\ inbox' \in [End -> Seq(Message)]
    BY <2>1, <2>2, SplitIfFullTypes
  <2>4. /\ stored' \in [Peer -> SUBSET Block]
        /\ disk' \in [Peer -> [Block -> Found]]
    BY <1>1, <2>1 DEF Found
  <2>5. IndexMatchesDisk'
    <3> SUFFICES ASSUME NEW q \in Peer, NEW c \in Block
                 PROVE  c \in stored'[q] <=> disk'[q][c] # NoData
      BY DEF IndexMatchesDisk
    <3>1. c \in stored[q] <=> disk[q][c] # NoData
      BY DEF TypeInv, IndexMatchesDisk
    <3>2. v # NoData
      BY ConstantsAssumption
    <3>3. CASE q = p /\ c = b
      BY <1>1, <2>1, <3>2, <3>3
    <3>4. CASE ~ (q = p /\ c = b)
      <4>1. disk'[q][c] = disk[q][c]
        BY <1>1, <2>1, <3>4
      <4>2. c \in stored'[q] <=> c \in stored[q]
        BY <1>1, <2>1, <3>4
      <4> QED BY <3>1, <4>1, <4>2
    <3> QED BY <3>3, <3>4
  <2> QED BY <1>1, <2>1, <2>2, <2>3, <2>4, <2>5
<1>4. ASSUME StoreFailed(p, b, action, box) PROVE Goal
  <2>1. /\ answered' = Told(b, action, FALSE)
        /\ inbox' = Reply(box, b, action, FALSE)
        /\ faults > 0 /\ faults' = faults - 1
        /\ UNCHANGED <<up, splitting, stored, disk, storeActions, loadActions, fp>>
    BY <1>4 DEF StoreFailed, blockVars
  <2>2. faults' \in Nat
    BY <1>1, <2>1, ConstantsAssumption
  <2>3. /\ inbox' \in [End -> Seq(Message)]
        /\ answered' \subseteq Answer
    BY <2>1, OutcomeTypes
  <2>4. IndexMatchesDisk'
    BY <2>1, IndexKept
  <2> QED BY <1>1, <2>1, <2>2, <2>3, <2>4
<1>5. ASSUME StorePassedOn(p, b, v, action, box) PROVE Goal
  <2>1. /\ PassOn(p, b, v, action, box)
        /\ UNCHANGED <<splitting, stored, disk, loadActions, fp, answered, faults>>
    BY <1>5 DEF StorePassedOn
  <2>2. IndexMatchesDisk'
    BY <2>1, IndexKept
  <2>3. v \in Found
    BY DEF Found
  <2> QED BY <1>1, <2>1, <2>2, <2>3, PassOnTypes
<1>6. Goal
  <2> HIDE DEF Goal
  <2> QED BY <1>2, <1>3, <1>4, <1>5 DEF Store
<1> QED BY <1>6

\* STORE BLOCK: the invariant is kept.
LEMMA HandleStoreBlockInv ==
  ASSUME TypeInv, NEW e \in End, HandleStoreBlock(e)
  PROVE  TypeInv'
<1> DEFINE p == conn[e].own
           m == Head(inbox[e])
           reply == [kind |-> "reply", end |-> e]
<1>1. /\ p \in Peer /\ m \in Message /\ m.type = "STORE BLOCK"
      /\ Taken(e) \in [End -> Seq(Message)]
  BY ReceivesAtPeer DEF HandleStoreBlock
<1>2. m.block \in Block /\ m.version \in Version
  <2>1. m.version # NoData
    BY DEF HandleStoreBlock
  <2> HIDE DEF m
  <2> QED BY <1>1, <2>1, MessageFields DEF Found
<1>3. reply \in Action
  BY DEF Action, LoadAction, ReplyAction
<1>4. Store(p, m.block, m.version, reply, Taken(e))
  BY DEF HandleStoreBlock
<1>5. UNCHANGED <<code, integrated, mentor, known, todo, conn, commands>>
  BY DEF HandleStoreBlock
<1> HIDE DEF p, m, reply
<1>6. TypeOK' /\ SameIds(fp, fp') /\ IndexMatchesDisk'
  BY <1>1, <1>2, <1>3, <1>4, <1>5, StoreTypes DEF TypeInv, TypeOK
<1>7. Owned' /\ Identified'
  BY <1>5, <1>6, IdentifiedKept DEF TypeInv, Owned
<1> QED BY <1>6, <1>7 DEF TypeInv

\* STORE BLOCK refused: the invariant is kept, whether the connection is closed
\* or the process is gone.
LEMMA RefuseStoreBlockInv ==
  ASSUME TypeInv, NEW e \in End, RefuseStoreBlock(e)
  PROVE  TypeInv'
<1>1. /\ conn[e].own \in Peer /\ conn[e].status # "unused"
      /\ Taken(e) \in [End -> Seq(Message)]
  BY ReceivesAtPeer DEF RefuseStoreBlock, Receives, IsOpen
<1>2. UNCHANGED <<localVars, known, blockVars, todo, clientVars, faults>>
  BY DEF RefuseStoreBlock
<1>3. CASE Close(e) /\ UNCHANGED up
  <2>1. TypeOK'
    BY <1>2, <1>3, CloseTypes DEF TypeInv, TypeOK, localVars, blockVars, clientVars
  <2>2. Owned' /\ Identified' /\ IndexMatchesDisk'
    BY <1>1, <1>2, <1>3, CloseTypes, OwnedKept, IdentifiedKept, IndexKept DEF blockVars
  <2> QED BY <2>1, <2>2 DEF TypeInv
<1>4. CASE Crash(conn[e].own) /\ inbox' = Taken(e) /\ UNCHANGED <<conn, fp>>
  <2>1. up' \in [Peer -> BOOLEAN]
    BY <1>1, <1>4 DEF Crash, TypeInv, TypeOK
  <2>2. TypeOK'
    BY <1>1, <1>2, <1>4, <2>1 DEF TypeInv, TypeOK, localVars, blockVars, clientVars
  <2>3. Owned' /\ Identified' /\ IndexMatchesDisk'
    BY <1>2, <1>4, IndexKept DEF TypeInv, Owned, Identified, blockVars
  <2> QED BY <2>2, <2>3 DEF TypeInv
<1> QED BY <1>3, <1>4 DEF RefuseStoreBlock

\* store() for a client: the invariant is kept.
LEMMA RunStoreInv ==
  ASSUME TypeInv, NEW p \in Peer, RunStore(p)
  PROVE  TypeInv'
<1> DEFINE t == Head(todo[p])
<1>1. t \in Task /\ t.op = "store" /\ Done(p) \in [Peer -> Seq(Task)]
  BY RunsTask DEF RunStore
<1>2. t.block \in Block /\ t.version \in Version /\ t.action \in Action
  BY <1>1, TaskFields DEF Action, LoadAction
<1>3. Store(p, t.block, t.version, t.action, inbox) /\ todo' = Done(p)
  BY DEF RunStore
<1>4. UNCHANGED <<code, integrated, mentor, known, conn, commands>>
  BY DEF RunStore
<1>5. inbox \in [End -> Seq(Message)]
  BY DEF TypeInv, TypeOK
<1> HIDE DEF t
<1>6. TypeOK' /\ SameIds(fp, fp') /\ IndexMatchesDisk'
  BY <1>1, <1>2, <1>3, <1>4, <1>5, StoreTypes DEF TypeInv, TypeOK
<1>7. Owned' /\ Identified'
  BY <1>4, <1>6, IdentifiedKept DEF TypeInv, Owned
<1> QED BY <1>6, <1>7 DEF TypeInv

\* STORED BLOCK: the invariant is kept, the waiting actions becoming tasks.
LEMMA HandleStoredBlockInv ==
  ASSUME TypeInv, NEW e \in End, HandleStoredBlock(e)
  PROVE  TypeInv'
<1> DEFINE p == conn[e].own
           m == Head(inbox[e])
           waiting == Waiting(p, m.block)
           answers == [i \in 1 .. Len(waiting) |->
                         [op |-> "answer", block |-> m.block,
                          success |-> m.success, action |-> waiting[i]]]
<1>1. /\ p \in Peer /\ m \in Message /\ m.type = "STORED BLOCK"
      /\ Taken(e) \in [End -> Seq(Message)]
  BY ReceivesAtPeer DEF HandleStoredBlock
<1>2. m.block \in Block /\ m.success \in BOOLEAN
  BY <1>1, MessageFields
<1>3. waiting \in Seq(Action)
  BY <1>1, <1>2 DEF Waiting, TypeInv, TypeOK
<1>4. answers \in Seq(Task)
  <2> HIDE DEF waiting, m
  <2>1. ASSUME NEW i \in 1 .. Len(waiting)
        PROVE  [op |-> "answer", block |-> m.block, success |-> m.success,
                action |-> waiting[i]] \in Task
    <3>1. waiting[i] \in Action
      BY <1>3
    <3> QED BY <1>2, <3>1 DEF Task
  <2> QED BY <1>3, <2>1
<1>5. /\ storeActions' = [storeActions EXCEPT ![p][m.block] = << >>]
      /\ todo' = [todo EXCEPT ![p] = answers]
      /\ inbox' = Taken(e)
  BY DEF HandleStoredBlock, LeftWaiting
<1>6. /\ storeActions' \in [Peer -> [Block -> Seq(Action)]]
      /\ todo' \in [Peer -> Seq(Task)]
  <2> HIDE DEF answers, p, m
  <2>1. << >> \in Seq(Action)
    OBVIOUS
  <2>2. storeActions \in [Peer -> [Block -> Seq(Action)]] /\ todo \in [Peer -> Seq(Task)]
    BY DEF TypeInv, TypeOK
  <2>3. storeActions' \in [Peer -> [Block -> Seq(Action)]]
    BY <1>1, <1>2, <1>5, <2>1, <2>2
  <2>4. todo' \in [Peer -> Seq(Task)]
    BY <1>1, <1>4, <1>5, <2>2
  <2> QED BY <2>3, <2>4
<1>7. TypeOK'
  BY <1>1, <1>6 DEF HandleStoredBlock, TypeInv, TypeOK, localVars, clientVars
<1>8. Owned' /\ Identified' /\ IndexMatchesDisk'
  BY IndexKept DEF HandleStoredBlock, TypeInv, Owned, Identified
<1> QED BY <1>7, <1>8 DEF TypeInv

\* An outcome passed on: the invariant is kept.
LEMMA RunAnswerInv ==
  ASSUME TypeInv, NEW p \in Peer, RunAnswer(p)
  PROVE  TypeInv'
<1> DEFINE t == Head(todo[p])
<1>1. t \in Task /\ t.op = "answer" /\ Done(p) \in [Peer -> Seq(Task)]
  BY RunsTask DEF RunAnswer
<1>2. t.block \in Block /\ t.success \in BOOLEAN /\ t.action \in Action
  BY <1>1, TaskFields
<1>3. inbox \in [End -> Seq(Message)]
  BY DEF TypeInv, TypeOK
<1>4. answered' = Told(t.block, t.action, t.success)
  BY DEF RunAnswer
<1>5. inbox' = Reply(inbox, t.block, t.action, t.success)
  BY DEF RunAnswer
<1>6. /\ inbox' \in [End -> Seq(Message)]
      /\ answered' \subseteq Answer
  <2> HIDE DEF t
  <2> QED BY <1>2, <1>3, <1>4, <1>5, OutcomeTypes
<1>7. TypeOK'
  BY <1>1, <1>6 DEF RunAnswer, TypeInv, TypeOK, localVars, blockVars
<1>8. Owned' /\ Identified' /\ IndexMatchesDisk'
  BY IndexKept DEF RunAnswer, TypeInv, Owned, Identified, blockVars
<1> QED BY <1>7, <1>8 DEF TypeInv

-----------------------------------------------------------------------------
\* Looking a block up: what the outcome leads to.
LEMMA FoundTypes ==
  ASSUME TypeInv, NEW box \in [End -> Seq(Message)], NEW b \in Block,
         NEW action \in LoadAction, NEW found \in Found
  PROVE  /\ Delivery(box, b, action, found) \in [End -> Seq(Message)]
         /\ Shown(b, action, found) \subseteq Answer
<1>1. Delivery(box, b, action, found) \in [End -> Seq(Message)]
  <2>1. CASE action.kind = "reply"
    <3>1. action.end \in End
      BY <2>1 DEF LoadAction, ClientAction, ReplyAction
    <3>2. <<[type |-> "DELIVER BLOCK", block |-> b, found |-> found]>> \in Seq(Message)
      BY MessagesMade, Single
    <3> QED BY <2>1, <3>1, <3>2, SendType DEF Delivery
  <2>2. CASE action.kind # "reply"
    BY <2>2 DEF Delivery
  <2> QED BY <2>1, <2>2
<1>2. Shown(b, action, found) \subseteq Answer
  <2>1. answered \subseteq Answer
    BY DEF TypeInv, TypeOK
  <2>2. CASE action.kind = "client"
    <3>1. action.file \in Nat
      BY <2>2 DEF LoadAction, ClientAction, ReplyAction
    <3> QED BY <2>1, <2>2, <3>1 DEF Shown, Answer
  <2>3. CASE action.kind # "client"
    BY <2>1, <2>3 DEF Shown
  <2> QED BY <2>2, <2>3
<1> QED BY <1>1, <1>2

\* A lookup passed on: the types of what is assigned.
LEMMA LoadPassedOnTypes ==
  ASSUME TypeInv, NEW p \in Peer, NEW b \in Block, NEW action \in LoadAction,
         NEW box \in [End -> Seq(Message)], LoadPassedOn(p, b, action, box)
  PROVE  /\ up' \in [Peer -> BOOLEAN]
         /\ loadActions' \in [Peer -> [Block -> Seq(LoadAction)]]
         /\ inbox' \in [End -> Seq(Message)]
<1> DEFINE peers == OutPeers(fp, known[p], DifferingLayer(code[p], b))
           ask == <<[type |-> "LOAD BLOCK", block |-> b]>>
           Goal == /\ up' \in [Peer -> BOOLEAN]
                   /\ loadActions' \in [Peer -> [Block -> Seq(LoadAction)]]
                   /\ inbox' \in [End -> Seq(Message)]
<1>1. /\ up \in [Peer -> BOOLEAN]
      /\ loadActions \in [Peer -> [Block -> Seq(LoadAction)]]
      /\ fp \in [End -> ForeignPeer] /\ known[p] \in [Peer -> End \cup {None}]
  BY DEF TypeInv, TypeOK
<1>2. ASSUME Crash(p), inbox' = box, UNCHANGED loadActions
      PROVE  Goal
  BY <1>1, <1>2 DEF Crash
<1>3. ASSUME NEW f \in peers,
             loadActions' = [loadActions EXCEPT ![p][b] = Append(@, action)],
             inbox' = Send(box, fp[f].conn, ask),
             UNCHANGED up
      PROVE  Goal
  <2>1. fp[f].conn \in End
    BY <1>1, FoundPeers
  <2>2. ask \in Seq(Message)
    BY MessagesMade, Single
  <2>3. inbox' \in [End -> Seq(Message)]
    <3> HIDE DEF ask
    <3> QED BY <1>3, <2>1, <2>2, SendType
  <2>4. loadActions' \in [Peer -> [Block -> Seq(LoadAction)]]
    <3>1. Append(loadActions[p][b], action) \in Seq(LoadAction)
      BY <1>1
    <3> QED BY <1>1, <1>3, <3>1
  <2> QED BY <1>1, <1>3, <2>3, <2>4
<1>4. Goal
  <2> HIDE DEF Goal
  <2> QED BY <1>2, <1>3 DEF LoadPassedOn
<1> QED BY <1>4

\* load(), in all its cases: the types of what it assigns.
LEMMA LoadTypes ==
  ASSUME TypeInv, NEW p \in Peer, NEW b \in Block, NEW action \in LoadAction,
         NEW box \in [End -> Seq(Message)], Load(p, b, action, box)
  PROVE  /\ up' \in [Peer -> BOOLEAN]
         /\ loadActions' \in [Peer -> [Block -> Seq(LoadAction)]]
         /\ inbox' \in [End -> Seq(Message)]
         /\ answered' \subseteq Answer
         /\ faults' \in Nat
<1> DEFINE Goal == /\ up' \in [Peer -> BOOLEAN]
                   /\ loadActions' \in [Peer -> [Block -> Seq(LoadAction)]]
                   /\ inbox' \in [End -> Seq(Message)]
                   /\ answered' \subseteq Answer
                   /\ faults' \in Nat
<1>1. /\ up \in [Peer -> BOOLEAN]
      /\ loadActions \in [Peer -> [Block -> Seq(LoadAction)]]
      /\ answered \subseteq Answer /\ faults \in Nat
      /\ disk[p][b] \in Found /\ NoData \in Found
  BY DEF TypeInv, TypeOK, Found
<1>2. ASSUME LoadIgnored(p, box) PROVE Goal
  BY <1>1, <1>2 DEF LoadIgnored
<1>3. ASSUME LoadHere(p, b, action, box) PROVE Goal
  BY <1>1, <1>3, FoundTypes DEF LoadHere
<1>4. ASSUME LoadFailed(p, b, action, box) PROVE Goal
  <2>1. /\ answered' = Shown(b, action, NoData)
        /\ inbox' = Delivery(box, b, action, NoData)
        /\ faults > 0 /\ faults' = faults - 1
        /\ UNCHANGED <<up, loadActions>>
    BY <1>4 DEF LoadFailed
  <2>2. faults' \in Nat
    BY <1>1, <2>1
  <2> QED BY <1>1, <2>1, <2>2, FoundTypes
<1>5. ASSUME LoadPassedOn(p, b, action, box) PROVE Goal
  <2>1. UNCHANGED <<answered, faults>>
    BY <1>5 DEF LoadPassedOn
  <2> QED BY <1>1, <1>5, <2>1, LoadPassedOnTypes
<1>6. Goal
  <2> HIDE DEF Goal
  <2> QED BY <1>2, <1>3, <1>4, <1>5 DEF Load
<1> QED BY <1>6

\* LOAD BLOCK: the invariant is kept.
LEMMA HandleLoadBlockInv ==
  ASSUME TypeInv, NEW e \in End, HandleLoadBlock(e)
  PROVE  TypeInv'
<1> DEFINE p == conn[e].own
           m == Head(inbox[e])
           reply == [kind |-> "reply", end |-> e]
<1>1. /\ p \in Peer /\ m \in Message /\ m.type = "LOAD BLOCK"
      /\ Taken(e) \in [End -> Seq(Message)]
  BY ReceivesAtPeer DEF HandleLoadBlock
<1>2. m.block \in Block
  BY <1>1, MessageFields
<1>3. reply \in LoadAction
  BY DEF LoadAction, ReplyAction
<1>4. Load(p, m.block, reply, Taken(e))
  BY DEF HandleLoadBlock
<1>5. UNCHANGED <<localVars, known, stored, disk, storeActions, todo, conn, fp,
                  commands>>
  BY DEF HandleLoadBlock
<1> HIDE DEF p, m, reply
<1>6. TypeOK'
  BY <1>1, <1>2, <1>3, <1>4, <1>5, LoadTypes DEF TypeInv, TypeOK, localVars
<1>7. Owned' /\ Identified' /\ IndexMatchesDisk'
  BY <1>5, IndexKept DEF TypeInv, Owned, Identified
<1> QED BY <1>6, <1>7 DEF TypeInv

\* DELIVER BLOCK: the invariant is kept, those who have asked becoming tasks.
LEMMA HandleDeliverBlockInv ==
  ASSUME TypeInv, NEW e \in End, HandleDeliverBlock(e)
  PROVE  TypeInv'
<1> DEFINE p == conn[e].own
           m == Head(inbox[e])
           asking == Asking(p, m.block)
           deliveries == [i \in 1 .. Len(asking) |->
                            [op |-> "deliver", block |-> m.block,
                             found |-> m.found, action |-> asking[i]]]
<1>1. /\ p \in Peer /\ m \in Message /\ m.type = "DELIVER BLOCK"
      /\ Taken(e) \in [End -> Seq(Message)]
  BY ReceivesAtPeer DEF HandleDeliverBlock
<1>2. m.block \in Block /\ m.found \in Found
  BY <1>1, MessageFields
<1>3. asking \in Seq(LoadAction)
  BY <1>1, <1>2, ZenonT(30) DEF Asking, TypeInv, TypeOK
<1>4. deliveries \in Seq(Task)
  <2> HIDE DEF asking, m
  <2>1. ASSUME NEW i \in 1 .. Len(asking)
        PROVE  [op |-> "deliver", block |-> m.block, found |-> m.found,
                action |-> asking[i]] \in Task
    <3>1. asking[i] \in LoadAction
      BY <1>3
    <3> QED BY <1>2, <3>1 DEF Task
  <2> QED BY <1>3, <2>1
<1>5. /\ loadActions' = [loadActions EXCEPT ![p][m.block] = << >>]
      /\ todo' = [todo EXCEPT ![p] = deliveries]
      /\ inbox' = Taken(e)
  BY DEF HandleDeliverBlock
<1>6. /\ loadActions' \in [Peer -> [Block -> Seq(LoadAction)]]
      /\ todo' \in [Peer -> Seq(Task)]
  <2> HIDE DEF deliveries, p, m
  <2>1. << >> \in Seq(LoadAction)
    OBVIOUS
  <2>2. /\ loadActions \in [Peer -> [Block -> Seq(LoadAction)]]
        /\ todo \in [Peer -> Seq(Task)]
    BY DEF TypeInv, TypeOK
  <2>3. loadActions' \in [Peer -> [Block -> Seq(LoadAction)]]
    BY <1>1, <1>2, <1>5, <2>1, <2>2
  <2>4. todo' \in [Peer -> Seq(Task)]
    BY <1>1, <1>4, <1>5, <2>2
  <2> QED BY <2>3, <2>4
<1>7. TypeOK'
  BY <1>1, <1>6 DEF HandleDeliverBlock, TypeInv, TypeOK, localVars, clientVars
<1>8. Owned' /\ Identified' /\ IndexMatchesDisk'
  BY IndexKept DEF HandleDeliverBlock, TypeInv, Owned, Identified
<1> QED BY <1>7, <1>8 DEF TypeInv

\* A delivery made: the invariant is kept.
LEMMA RunDeliverInv ==
  ASSUME TypeInv, NEW p \in Peer, RunDeliver(p)
  PROVE  TypeInv'
<1> DEFINE t == Head(todo[p])
<1>1. t \in Task /\ t.op = "deliver" /\ Done(p) \in [Peer -> Seq(Task)]
  BY RunsTask DEF RunDeliver
<1>2. t.block \in Block /\ t.found \in Found /\ t.action \in LoadAction
  BY <1>1, TaskFields
<1>3. inbox \in [End -> Seq(Message)]
  BY DEF TypeInv, TypeOK
<1>4. /\ answered' = Shown(t.block, t.action, t.found)
      /\ inbox' = Delivery(inbox, t.block, t.action, t.found)
  BY DEF RunDeliver
<1>5. inbox' \in [End -> Seq(Message)] /\ answered' \subseteq Answer
  <2> HIDE DEF t
  <2> QED BY <1>2, <1>3, <1>4, FoundTypes
<1>6. TypeOK'
  BY <1>1, <1>5 DEF RunDeliver, TypeInv, TypeOK, localVars, blockVars
<1>7. Owned' /\ Identified' /\ IndexMatchesDisk'
  BY IndexKept DEF RunDeliver, TypeInv, Owned, Identified, blockVars
<1> QED BY <1>6, <1>7 DEF TypeInv

-----------------------------------------------------------------------------
\* Redistributing blocks.
LEMMA RedistributeBlockTypes ==
  ASSUME TypeInv, NEW p \in Peer, NEW index \in SUBSET stored[p],
         NEW box \in [End -> Seq(Message)], RedistributeBlock(p, index, box)
  PROVE  /\ up' \in [Peer -> BOOLEAN]
         /\ splitting' \in [Peer -> BOOLEAN]
         /\ storeActions' \in [Peer -> [Block -> Seq(Action)]]
         /\ inbox' \in [End -> Seq(Message)]
         /\ faults' \in Nat
<1> DEFINE Goal == /\ up' \in [Peer -> BOOLEAN]
                   /\ splitting' \in [Peer -> BOOLEAN]
                   /\ storeActions' \in [Peer -> [Block -> Seq(Action)]]
                   /\ inbox' \in [End -> Seq(Message)]
                   /\ faults' \in Nat
<1>1. /\ up \in [Peer -> BOOLEAN] /\ splitting \in [Peer -> BOOLEAN]
      /\ storeActions \in [Peer -> [Block -> Seq(Action)]]
      /\ stored[p] \subseteq Block
      /\ disk \in [Peer -> [Block -> Found]]
      /\ faults \in Nat
  BY DEF TypeInv, TypeOK
<1>2. ASSUME splitting' = SplitOver(p), inbox' = box, UNCHANGED <<up, storeActions, faults>>
      PROVE  Goal
  BY <1>1, <1>2 DEF SplitOver
<1>3. ASSUME inbox' = box, UNCHANGED <<up, splitting, storeActions, faults>>
      PROVE  Goal
  BY <1>1, <1>3
<1>4. ASSUME NEW b \in Misplaced(p, index), UNCHANGED <<splitting, faults>>,
             PassOn(p, b, disk[p][b], Redistribute, box)
      PROVE  Goal
  <2>1. b \in Block
    BY <1>1 DEF Misplaced
  <2>2. disk[p][b] \in Found
    BY <1>1, <2>1
  <2>3. Redistribute \in Action
    BY DEF Action
  <2> QED BY <1>1, <1>4, <2>1, <2>2, <2>3, PassOnTypes
<1>5. ASSUME NEW b \in Misplaced(p, index), UNCHANGED splitting,
             faults > 0, faults' = faults - 1,
             PassOn(p, b, NoData, Redistribute, box)
      PROVE  Goal
  <2>1. b \in Block
    BY <1>1 DEF Misplaced
  <2>2. NoData \in Found /\ faults' \in Nat
    BY <1>1, <1>5 DEF Found
  <2>3. Redistribute \in Action
    BY DEF Action
  <2> QED BY <1>1, <1>5, <2>1, <2>2, <2>3, PassOnTypes
<1>6. Goal
  <2> HIDE DEF Goal
  <2> QED BY <1>2, <1>3, <1>4, <1>5 DEF RedistributeBlock
<1> QED BY <1>6

\* INTEGRATED: the invariant is kept.
LEMMA HandleIntegratedInv ==
  ASSUME TypeInv, NEW e \in End, HandleIntegrated(e)
  PROVE  TypeInv'
<1> DEFINE p == conn[e].own
           o == [fp[conn[e].att] EXCEPT !.integrated = TRUE]
<1>1. p \in Peer /\ conn[e].att \in End /\ Taken(e) \in [End -> Seq(Message)]
  BY ReceivesAtPeer DEF HandleIntegrated
<1>2. fp' \in [End -> ForeignPeer] /\ SameIds(fp, fp')
  <2>1. fp \in [End -> ForeignPeer] /\ fp[conn[e].att] \in ForeignPeer
    BY <1>1 DEF TypeInv, TypeOK
  <2>2. o \in ForeignPeer /\ o.id = fp[conn[e].att].id
    BY <2>1, ObjectUpdates
  <2>3. fp' = [fp EXCEPT ![conn[e].att] = o]
    BY DEF HandleIntegrated
  <2> HIDE DEF o
  <2> QED BY <1>1, <2>1, <2>2, <2>3, ObjectChanged
<1>3. /\ up' \in [Peer -> BOOLEAN] /\ splitting' \in [Peer -> BOOLEAN]
      /\ storeActions' \in [Peer -> [Block -> Seq(Action)]]
      /\ inbox' \in [End -> Seq(Message)] /\ faults' \in Nat
  <2>1. RedistributeBlock(p, stored[p], Taken(e))
    BY DEF HandleIntegrated
  <2> HIDE DEF p
  <2> QED BY <1>1, <2>1, RedistributeBlockTypes
<1>4. TypeOK'
  BY <1>2, <1>3 DEF HandleIntegrated, TypeInv, TypeOK, clientVars
<1>5. Owned' /\ Identified' /\ IndexMatchesDisk'
  BY <1>2, IdentifiedKept, IndexKept DEF HandleIntegrated, TypeInv, Owned
<1> QED BY <1>4, <1>5 DEF TypeInv

\* A redistribution that failed: the invariant is kept.
LEMMA RunNotRedistributedInv ==
  ASSUME TypeInv, NEW p \in Peer, RunNotRedistributed(p)
  PROVE  TypeInv'
<1>1. Done(p) \in [Peer -> Seq(Task)]
  BY RunsTask DEF RunNotRedistributed
<1>2. TypeOK'
  BY <1>1 DEF RunNotRedistributed, TypeInv, TypeOK, localVars, blockVars, clientVars
<1>3. Owned' /\ Identified' /\ IndexMatchesDisk'
  BY IndexKept DEF RunNotRedistributed, TypeInv, Owned, Identified, blockVars
<1> QED BY <1>2, <1>3 DEF TypeInv

\* A redistribution that succeeded: the block is gone from the index and from
\* the disk, and the next one is redistributed; the invariant is kept.
LEMMA RunRedistributedInv ==
  ASSUME TypeInv, NEW p \in Peer, RunRedistributed(p)
  PROVE  TypeInv'
<1> DEFINE b == Head(todo[p]).block
<1>1. Done(p) \in [Peer -> Seq(Task)] /\ b \in Block
  BY RunsTask, TaskFields DEF RunRedistributed
<1>2. /\ stored \in [Peer -> SUBSET Block]
      /\ disk \in [Peer -> [Block -> Found]]
      /\ inbox \in [End -> Seq(Message)]
  BY DEF TypeInv, TypeOK
<1>3. /\ disk' = [disk EXCEPT ![p] = [disk[p] EXCEPT ![b] = NoData]]
      /\ stored' = [stored EXCEPT ![p] = stored[p] \ {b}]
      /\ RedistributeBlock(p, stored[p] \ {b}, inbox)
  BY DEF RunRedistributed, Deleted, Erased, RedistributeNext
<1> HIDE DEF b
<1>4. /\ stored' \in [Peer -> SUBSET Block]
      /\ disk' \in [Peer -> [Block -> Found]]
  BY <1>1, <1>2, <1>3 DEF Found
<1>5. /\ up' \in [Peer -> BOOLEAN] /\ splitting' \in [Peer -> BOOLEAN]
      /\ storeActions' \in [Peer -> [Block -> Seq(Action)]]
      /\ inbox' \in [End -> Seq(Message)] /\ faults' \in Nat
  <2>1. stored[p] \ {b} \in SUBSET stored[p]
    OBVIOUS
  <2> QED BY <1>2, <1>3, <2>1, RedistributeBlockTypes
<1>6. TypeOK'
  BY <1>1, <1>4, <1>5 DEF RunRedistributed, TypeInv, TypeOK, clientVars
<1>7. IndexMatchesDisk'
  <2> SUFFICES ASSUME NEW q \in Peer, NEW c \in Block
               PROVE  c \in stored'[q] <=> disk'[q][c] # NoData
    BY DEF IndexMatchesDisk
  <2>1. c \in stored[q] <=> disk[q][c] # NoData
    BY DEF TypeInv, IndexMatchesDisk
  <2>2. CASE q = p /\ c = b
    BY <1>1, <1>2, <1>3, <2>2
  <2>3. CASE ~ (q = p /\ c = b)
    <3>1. disk'[q][c] = disk[q][c]
      BY <1>1, <1>2, <1>3, <2>3
    <3>2. c \in stored'[q] <=> c \in stored[q]
      BY <1>1, <1>2, <1>3, <2>3
    <3> QED BY <2>1, <3>1, <3>2
  <2> QED BY <2>2, <2>3
<1>8. Owned' /\ Identified'
  BY DEF RunRedistributed, TypeInv, Owned, Identified
<1> QED BY <1>6, <1>7, <1>8 DEF TypeInv

-----------------------------------------------------------------------------
\* Connecting.
\* What is assigned to an end that is connected, or is not.
LEMMA ConnectionOpened ==
  ASSUME NEW c \in Connection, NEW p \in Peer, NEW f \in End
  PROVE  /\ [c EXCEPT !.own = p, !.status = "open", !.att = f,
                      !.introduced = TRUE] \in Connection
         /\ [c EXCEPT !.own = p, !.status = "open", !.att = f,
                      !.introduced = TRUE].own = p
         /\ [c EXCEPT !.own = p, !.status = "open"] \in Connection
         /\ [c EXCEPT !.own = p, !.status = "open"].own = p
         /\ [c EXCEPT !.own = p, !.status = "closed", !.att = f] \in Connection
         /\ [c EXCEPT !.own = p, !.status = "closed", !.att = f].own = p
BY DEF Connection

\* connect() that succeeds: both ends get an owner that is a peer.
LEMMA ConnectToTypes ==
  ASSUME TypeInv, NEW p \in Peer, NEW q \in Peer, NEW f \in End,
         NEW kind \in {"queued", "introduce", "?"},
         NEW objects \in [End -> ForeignPeer], SameIds(fp, objects),
         NEW box \in [End -> Seq(Message)],
         ConnectTo(p, q, f, kind, objects, box)
  PROVE  /\ fp' \in [End -> ForeignPeer] /\ SameIds(fp, fp')
         /\ conn' \in [End -> Connection] /\ Owned'
         /\ inbox' \in [End -> Seq(Message)]
         /\ faults' = faults
<1> DEFINE here == NewPeer
           there == Other(here)
           c == [conn[here] EXCEPT !.own = p, !.status = "open", !.att = f,
                                   !.introduced = TRUE]
           d == [conn[there] EXCEPT !.own = q, !.status = "open"]
           hello == <<[type |-> "HELLO", id |-> p, kind |-> kind]>>
<1>1. here \in End /\ there \in End /\ there # here
  BY NewPeerIsUnused, OtherEnd DEF ConnectTo
<1>2. conn \in [End -> Connection]
  BY DEF TypeInv, TypeOK
<1>3. /\ conn' = [conn EXCEPT
           ![here] = [@ EXCEPT !.own = p, !.status = "open", !.att = f,
                               !.introduced = TRUE],
           ![there] = [@ EXCEPT !.own = q, !.status = "open"]]
      /\ fp' = [objects EXCEPT ![f].conn = here, ![there].conn = there]
      /\ inbox' = [box EXCEPT ![there] = hello]
      /\ faults' = faults
  BY DEF ConnectTo
<1> HIDE DEF here, there
<1>4. conn' = [conn EXCEPT ![here] = c, ![there] = d]
  BY <1>1, <1>2, <1>3
<1>5. c \in Connection /\ c.own = p /\ d \in Connection /\ d.own = q
  <2>1. conn[here] \in Connection /\ conn[there] \in Connection
    BY <1>1, <1>2
  <2>2. c \in Connection
    BY <2>1, ConnectionOpened, Zenon
  <2>3. c.own = p
    BY <2>1 DEF Connection
  <2>4. d \in Connection /\ d.own = q
    BY <2>1, ConnectionOpened, Zenon
  <2> QED BY <2>2, <2>3, <2>4
<1>6. conn' \in [End -> Connection] /\ Owned'
  <2> HIDE DEF c, d
  <2> QED BY <1>1, <1>2, <1>4, <1>5 DEF TypeInv, Owned
<1>7. fp' \in [End -> ForeignPeer] /\ SameIds(fp, fp')
  <2> DEFINE o == [objects[f] EXCEPT !.conn = here]
             between == [objects EXCEPT ![f] = o]
             n == [between[there] EXCEPT !.conn = there]
  <2>1. o \in ForeignPeer /\ o.id = objects[f].id
    BY <1>1, ObjectUpdates
  <2>2. between \in [End -> ForeignPeer] /\ SameIds(objects, between)
    <3> HIDE DEF o
    <3> QED BY <2>1, ObjectChanged
  <2>3. n \in ForeignPeer /\ n.id = between[there].id
    <3> HIDE DEF between
    <3> QED BY <1>1, <2>2, ObjectUpdates
  <2>4. fp' = [between EXCEPT ![there] = n]
    BY <1>1, <1>3
  <2>5. fp' \in [End -> ForeignPeer] /\ SameIds(between, fp')
    <3> HIDE DEF between, n
    <3> QED BY <1>1, <2>2, <2>3, <2>4, ObjectChanged
  <2> QED BY <2>2, <2>5 DEF SameIds
<1>8. inbox' \in [End -> Seq(Message)]
  <2>1. hello \in Seq(Message)
    BY MessagesMade, Single
  <2> HIDE DEF hello
  <2> QED BY <1>1, <1>3, <2>1
<1> QED BY <1>3, <1>6, <1>7, <1>8

\* connect(), whether or not it succeeds.
LEMMA ConnectTypes ==
  ASSUME TypeInv, NEW p \in Peer, NEW q \in Peer, NEW f \in End,
         NEW kind \in {"queued", "introduce", "?"},
         NEW objects \in [End -> ForeignPeer], SameIds(fp, objects),
         NEW box \in [End -> Seq(Message)],
         Connect(p, q, f, kind, objects, box)
  PROVE  /\ fp' \in [End -> ForeignPeer] /\ SameIds(fp, fp')
         /\ conn' \in [End -> Connection] /\ Owned'
         /\ inbox' \in [End -> Seq(Message)]
         /\ faults' \in Nat
<1> DEFINE Goal == /\ fp' \in [End -> ForeignPeer] /\ SameIds(fp, fp')
                   /\ conn' \in [End -> Connection] /\ Owned'
                   /\ inbox' \in [End -> Seq(Message)]
                   /\ faults' \in Nat
<1>1. /\ fp \in [End -> ForeignPeer] /\ conn \in [End -> Connection]
      /\ faults \in Nat
  BY DEF TypeInv, TypeOK
<1>2. ASSUME ConnectTo(p, q, f, kind, objects, box) PROVE Goal
  BY <1>1, <1>2, ConnectToTypes
<1>3. ASSUME HostUnknown(objects, box) PROVE Goal
  <2>1. NewPeer \in End
    BY <1>3, NewPeerIsUnused DEF HostUnknown
  <2>2. /\ fp' = [objects EXCEPT ![NewPeer] = fp[NewPeer]] /\ inbox' = box
        /\ conn' = conn /\ faults > 0 /\ faults' = faults - 1
    BY <1>3 DEF HostUnknown
  <2>3. fp' \in [End -> ForeignPeer] /\ SameIds(fp, fp')
    BY <1>1, <2>1, <2>2 DEF SameIds
  <2>4. faults' \in Nat
    BY <1>1, <2>2, ConstantsAssumption
  <2> QED BY <1>1, <2>2, <2>3, <2>4 DEF TypeInv, Owned
<1>4. ASSUME ConnectFails(p, q, f, objects, box) PROVE Goal
  <2> DEFINE c == [conn[NewPeer] EXCEPT !.own = p, !.status = "closed", !.att = f]
             o == [objects[f] EXCEPT !.conn = NewPeer]
  <2>1. NewPeer \in End
    BY <1>4, NewPeerIsUnused DEF ConnectFails
  <2>2. conn' = [conn EXCEPT ![NewPeer] = c] /\ fp' = [objects EXCEPT ![f] = o]
    BY <1>1, <1>4, <2>1 DEF ConnectFails
  <2>3. c \in Connection /\ c.own = p
    <3>1. conn[NewPeer] \in Connection
      BY <1>1, <2>1
    <3>2. c \in Connection
      BY <3>1, ConnectionOpened, Zenon
    <3>3. c.own = p
      BY <3>1 DEF Connection
    <3> QED BY <3>2, <3>3
  <2>4. conn' \in [End -> Connection] /\ Owned'
    <3> HIDE DEF c
    <3> QED BY <1>1, <2>1, <2>2, <2>3 DEF TypeInv, Owned
  <2>5. o \in ForeignPeer /\ o.id = objects[f].id
    BY <2>1, ObjectUpdates
  <2>6. fp' \in [End -> ForeignPeer] /\ SameIds(objects, fp')
    <3> HIDE DEF o
    <3> QED BY <2>2, <2>5, ObjectChanged
  <2>7. faults' \in Nat /\ inbox' = box
    BY <1>1, <1>4, ConstantsAssumption DEF ConnectFails
  <2> QED BY <2>4, <2>6, <2>7 DEF SameIds
<1>5. Goal
  <2> HIDE DEF Goal
  <2> QED BY <1>2, <1>3, <1>4 DEF Connect
<1> QED BY <1>5

\* Setting the out layer of an object keeps its type and its identity.
LEMMA WithOutType ==
  ASSUME TypeInv, NEW f \in End, NEW l \in Layer
  PROVE  WithOut(f, l) \in [End -> ForeignPeer] /\ SameIds(fp, WithOut(f, l))
<1> DEFINE o == [fp[f] EXCEPT !.out = l]
<1>1. fp \in [End -> ForeignPeer] /\ fp[f] \in ForeignPeer
  BY DEF TypeInv, TypeOK
<1>2. o \in ForeignPeer /\ o.id = fp[f].id
  BY <1>1, ObjectUpdates
<1>3. WithOut(f, l) = [fp EXCEPT ![f] = o]
  BY DEF WithOut
<1> HIDE DEF o
<1> QED BY <1>1, <1>2, <1>3, ObjectChanged

\* INTRODUCE PEER of a peer that is connected: the invariant is kept.
LEMMA IntroduceConnectedInv ==
  ASSUME TypeInv, NEW e \in End, IntroduceConnected(e)
  PROVE  TypeInv'
<1> DEFINE m == Head(inbox[e])
           f == known[conn[e].own][m.peer]
           connectIn == <<[type |-> "CONNECT IN", layer |-> m.layer]>>
<1>1. /\ conn[e].own \in Peer /\ m \in Message /\ m.type = "INTRODUCE PEER"
      /\ Taken(e) \in [End -> Seq(Message)]
  BY ReceivesAtPeer DEF IntroduceConnected
<1>2. m.peer \in Peer /\ m.layer \in Nat
  BY <1>1, MessageFields
<1>3. f \in End /\ fp[f].conn \in End
  <2>1. known \in [Peer -> [Peer -> End \cup {None}]] /\ fp \in [End -> ForeignPeer]
    BY DEF TypeInv, TypeOK
  <2>2. f # None /\ fp[f].conn # None
    BY DEF IntroduceConnected, KnownConnected, Connected
  <2>3. f \in End
    <3>1. f \in End \cup {None}
      <4> HIDE DEF m
      <4> QED BY <1>1, <1>2, <2>1, ZenonT(30)
    <3> QED BY <2>2, <3>1
  <2>4. fp[f] \in ForeignPeer
    <3> HIDE DEF f
    <3> QED BY <2>1, <2>3
  <2>5. fp[f].conn \in End \cup {None}
    BY <2>4 DEF ForeignPeer
  <2> QED BY <2>2, <2>3, <2>5
<1>4. /\ fp' = WithOut(f, m.layer)
      /\ inbox' = Send(Taken(e), fp[f].conn, connectIn)
  BY DEF IntroduceConnected
<1>5. connectIn \in Seq(Message)
  BY <1>2, MessagesMade, Single
<1>6. /\ fp' \in [End -> ForeignPeer] /\ SameIds(fp, fp')
      /\ inbox' \in [End -> Seq(Message)]
  <2>1. m.layer \in Layer
    BY <1>2 DEF Layer
  <2> HIDE DEF connectIn, f, m
  <2> QED BY <1>1, <1>3, <1>4, <1>5, <2>1, WithOutType, SendType
<1>7. TypeOK'
  BY <1>6 DEF IntroduceConnected, TypeInv, TypeOK, localVars, blockVars, clientVars
<1>8. Owned' /\ Identified' /\ IndexMatchesDisk'
  BY <1>6, IdentifiedKept, IndexKept DEF IntroduceConnected, TypeInv, Owned, blockVars
<1> QED BY <1>7, <1>8 DEF TypeInv

\* INTRODUCE PEER of another peer: the invariant is kept.
LEMMA IntroduceNewInv ==
  ASSUME TypeInv, NEW e \in End, IntroduceNew(e)
  PROVE  TypeInv'
<1> DEFINE p == conn[e].own
           m == Head(inbox[e])
           old == known[p][m.peer]
           f == IF old = None THEN NewPeer ELSE old
<1>1. /\ p \in Peer /\ m \in Message /\ m.type = "INTRODUCE PEER"
      /\ Taken(e) \in [End -> Seq(Message)]
  BY ReceivesAtPeer DEF IntroduceNew
<1>2. m.peer \in Peer /\ m.layer \in Layer
  BY <1>1, MessageFields DEF Layer
<1>3. Connect(p, m.peer, f, "introduce", WithOut(f, m.layer), Taken(e))
  BY DEF IntroduceNew
<1>4. f \in End
  <2>1. Unused # {}
    BY <1>3 DEF Connect, ConnectTo, HostUnknown, ConnectFails
  <2>2. NewPeer \in End
    BY <2>1, NewPeerIsUnused
  <2>3. old \in End \cup {None}
    <3>1. known \in [Peer -> [Peer -> End \cup {None}]]
      BY DEF TypeInv, TypeOK
    <3> HIDE DEF p, m
    <3> QED BY <1>1, <1>2, <3>1
  <2> QED BY <2>2, <2>3
<1>5. UNCHANGED <<up, localVars, known, blockVars, todo, clientVars>>
  BY DEF IntroduceNew
<1>6. /\ fp' \in [End -> ForeignPeer] /\ SameIds(fp, fp')
      /\ conn' \in [End -> Connection] /\ Owned'
      /\ inbox' \in [End -> Seq(Message)] /\ faults' \in Nat
  <2> HIDE DEF f, m, p
  <2> QED BY <1>1, <1>2, <1>3, <1>4, WithOutType, ConnectTypes
<1>7. TypeOK'
  BY <1>5, <1>6 DEF TypeInv, TypeOK, localVars, blockVars, clientVars
<1>8. Identified' /\ IndexMatchesDisk'
  BY <1>5, <1>6, IdentifiedKept, IndexKept DEF blockVars
<1> QED BY <1>6, <1>7, <1>8 DEF TypeInv

-----------------------------------------------------------------------------
\* The clients.
LEMMA CommandFields ==
  ASSUME NEW c \in Command
  PROVE  /\ c.at \in Peer
         /\ c.op = "connect" => c.to \in Peer
         /\ c.id \in Nat
         /\ c.op = "store" => c.file \in Seq(Block) /\ c.version \in Version
         /\ c.op = "load" => c.block \in Block
<1>1. PICK program \in Program : c \in program.requests
  BY DEF Command
<1>2. program.requests \subseteq Request
  BY ConstantsAssumption
<1> QED BY <1>1, <1>2 DEF Request

\* CONNECT PEER: the invariant is kept.
LEMMA ClientConnectInv ==
  ASSUME TypeInv, NEW c \in Command, ClientConnect(c)
  PROVE  TypeInv'
<1>1. c.at \in Peer /\ c.to \in Peer
  BY CommandFields DEF ClientConnect
<1>2. UNCHANGED <<up, localVars, known, blockVars, todo, answered>>
  BY DEF ClientConnect
<1>3. commands' \subseteq Command
  BY DEF ClientConnect, Issued, TypeInv, TypeOK
<1>4. /\ fp' \in [End -> ForeignPeer] /\ SameIds(fp, fp')
      /\ conn' \in [End -> Connection] /\ Owned'
      /\ inbox' \in [End -> Seq(Message)] /\ faults' \in Nat
  <2>1. /\ fp \in [End -> ForeignPeer] /\ SameIds(fp, fp)
        /\ inbox \in [End -> Seq(Message)]
    BY DEF TypeInv, TypeOK, SameIds
  <2>2. CASE Connect(c.at, c.to, NewPeer, "queued", fp, inbox)
    <3>1. Unused # {}
      BY <2>2 DEF Connect, ConnectTo, HostUnknown, ConnectFails
    <3>2. NewPeer \in End
      BY <3>1, NewPeerIsUnused
    <3> QED BY <1>1, <2>1, <2>2, <3>2, ConnectTypes
  <2>3. CASE UNCHANGED <<conn, fp, inbox, faults>>
    BY <2>1, <2>3 DEF TypeInv, TypeOK, Owned
  <2> QED BY <2>2, <2>3 DEF ClientConnect
<1>5. TypeOK'
  BY <1>2, <1>3, <1>4 DEF TypeInv, TypeOK, localVars, blockVars
<1>6. Identified' /\ IndexMatchesDisk'
  BY <1>2, <1>4, IdentifiedKept, IndexKept DEF blockVars
<1> QED BY <1>4, <1>5, <1>6 DEF TypeInv

\* STORE FILE: the invariant is kept.
LEMMA ClientStoreInv ==
  ASSUME TypeInv, NEW c \in Command, ClientStore(c)
  PROVE  TypeInv'
<1> DEFINE action == [kind |-> "client", file |-> c.id]
           calls == [i \in 1 .. Len(c.file) |->
                       [op |-> "store", block |-> c.file[i],
                        version |-> c.version, action |-> action]]
<1>1. /\ c.at \in Peer /\ c.file \in Seq(Block) /\ c.version \in Version
      /\ c.id \in Nat
  BY CommandFields DEF ClientStore
<1>2. calls \in Seq(Task)
  <2>1. action \in ClientAction
    BY <1>1 DEF ClientAction
  <2> HIDE DEF action
  <2>2. ASSUME NEW i \in 1 .. Len(c.file)
        PROVE  [op |-> "store", block |-> c.file[i], version |-> c.version,
                action |-> action] \in Task
    <3>1. c.file[i] \in Block
      BY <1>1
    <3> QED BY <1>1, <2>1, <3>1 DEF Task
  <2>3. Len(c.file) \in Nat
    BY <1>1
  <2> QED BY <2>2, <2>3
<1>3. todo' \in [Peer -> Seq(Task)]
  <2>1. todo' = [todo EXCEPT ![c.at] = calls]
    BY DEF ClientStore
  <2>2. todo \in [Peer -> Seq(Task)]
    BY DEF TypeInv, TypeOK
  <2> HIDE DEF calls
  <2> QED BY <1>2, <2>1, <2>2
<1>4. commands' \subseteq Command
  BY DEF ClientStore, Issued, TypeInv, TypeOK
<1>5. TypeOK'
  BY <1>3, <1>4 DEF ClientStore, TypeInv, TypeOK, localVars, blockVars
<1>6. Owned' /\ Identified' /\ IndexMatchesDisk'
  BY IndexKept DEF ClientStore, TypeInv, Owned, Identified, blockVars
<1> QED BY <1>5, <1>6 DEF TypeInv

\* LOAD FILE: the invariant is kept.
LEMMA ClientLoadInv ==
  ASSUME TypeInv, NEW c \in Command, ClientLoad(c)
  PROVE  TypeInv'
<1> DEFINE action == [kind |-> "client", file |-> c.id]
<1>1. c.at \in Peer /\ c.block \in Block /\ c.id \in Nat
  BY CommandFields DEF ClientLoad
<1>2. action \in LoadAction
  BY <1>1 DEF LoadAction, ClientAction
<1>3. Load(c.at, c.block, action, inbox)
  BY DEF ClientLoad
<1>4. UNCHANGED <<localVars, known, stored, disk, storeActions, todo, conn, fp>>
  BY DEF ClientLoad
<1>5. commands' \subseteq Command /\ inbox \in [End -> Seq(Message)]
  BY DEF ClientLoad, Issued, TypeInv, TypeOK
<1> HIDE DEF action
<1>6. TypeOK'
  BY <1>1, <1>2, <1>3, <1>4, <1>5, LoadTypes DEF TypeInv, TypeOK, localVars
<1>7. Owned' /\ Identified' /\ IndexMatchesDisk'
  BY <1>4, IndexKept DEF TypeInv, Owned, Identified
<1> QED BY <1>6, <1>7 DEF TypeInv

-----------------------------------------------------------------------------
\* The invariant holds when the peers start.
LEMMA TypeInvInit == Init => TypeInv
<1> SUFFICES ASSUME Init PROVE TypeInv
  OBVIOUS
<1>1. /\ up \in [Peer -> BOOLEAN] /\ integrated \in [Peer -> BOOLEAN]
      /\ splitting \in [Peer -> BOOLEAN]
  <2>1. PICK program \in Program : splitting \in program.splitting
    BY DEF Init
  <2>2. program.splitting \subseteq [Peer -> BOOLEAN]
    BY ConstantsAssumption
  <2> QED BY <2>1, <2>2, ConstantsAssumption DEF Init
<1>2. /\ code \in [Peer -> PeerCode] /\ mentor \in [Peer -> End \cup {None}]
      /\ known \in [Peer -> [Peer -> End \cup {None}]]
  <2>1. << >> \in PeerCode
    BY DEF PeerCode
  <2> QED BY <2>1 DEF Init
<1>3. /\ stored \in [Peer -> SUBSET Block]
      /\ disk \in [Peer -> [Block -> Found]]
      /\ storeActions \in [Peer -> [Block -> Seq(Action)]]
      /\ loadActions \in [Peer -> [Block -> Seq(LoadAction)]]
      /\ todo \in [Peer -> Seq(Task)]
  <2>1. << >> \in Seq(Action) /\ << >> \in Seq(LoadAction) /\ << >> \in Seq(Task)
    OBVIOUS
  <2> QED BY <2>1 DEF Init, Found
<1>4. conn \in [End -> Connection]
  BY DEF Init, Connection
<1>5. fp \in [End -> ForeignPeer]
  BY DEF Init, ForeignPeer, Layer
<1>6. inbox \in [End -> Seq(Message)]
  BY DEF Init
<1>7. /\ commands \subseteq Command
      /\ answered \subseteq Answer
      /\ faults \in Nat
  <2>1. PICK program \in Program :
          commands = program.requests /\ faults = program.faults
    BY DEF Init
  <2>2. program.faults \in Nat
    BY ConstantsAssumption
  <2> QED BY <2>1, <2>2 DEF Init, Command
<1>8. Owned /\ Identified /\ IndexMatchesDisk
  BY DEF Init, Owned, Identified, IndexMatchesDisk
<1> QED BY <1>1, <1>2, <1>3, <1>4, <1>5, <1>6, <1>7, <1>8 DEF TypeInv, TypeOK

\* The invariant is kept while nothing happens.
LEMMA TypeInvUnchanged ==
  ASSUME TypeInv, UNCHANGED vars
  PROVE  TypeInv'
BY DEF TypeInv, TypeOK, Owned, Identified, IndexMatchesDisk, vars, localVars,
       blockVars, clientVars

\* Every step of the network keeps the invariant.
LEMMA TypeInvNext == TypeInv /\ [Next]_vars => TypeInv'
<1> SUFFICES ASSUME TypeInv, [Next]_vars PROVE TypeInv'
  OBVIOUS
<1>1. ASSUME NEW e \in End, Receive(e) PROVE TypeInv'
  BY <1>1, RefuseHelloInv, HandleHelloInv, HandleProveIdentityInv,
     HandleVerifyIdentityInv, HandleWelcomeInv, HandleSetCodeInv,
     HandleGetCodeInv, RefuseGetCodeInv, IntroduceConnectedInv,
     IntroduceNewInv, HandleConnectInInv, HandleIntegratedInv,
     HandleStoreBlockInv, HandleStoredBlockInv, HandleLoadBlockInv,
     HandleDeliverBlockInv, RefuseIdentityInv, RefuseStoreBlockInv
  DEF Receive
<1>2. ASSUME NEW e \in End, Fail(e) \/ Reset(e) PROVE TypeInv'
  BY <1>2, FailInv, WriteErrorInv DEF Fail
<1>3. ASSUME NEW p \in Peer, Run(p) PROVE TypeInv'
  BY <1>3, RunStoreInv, RunAnswerInv, RunIntroduceInv, RunRedistributedInv,
     RunNotRedistributedInv, RunDeliverInv
  DEF Run
<1>4. ASSUME NEW c \in Command,
             ClientConnect(c) \/ ClientStore(c) \/ ClientLoad(c)
      PROVE  TypeInv'
  BY <1>4, ClientConnectInv, ClientStoreInv, ClientLoadInv
<1>5. ASSUME Idle \/ UNCHANGED vars PROVE TypeInv'
  BY <1>5, TypeInvUnchanged DEF Idle
<1> QED BY <1>1, <1>2, <1>3, <1>4, <1>5 DEF Next

\* The invariant holds in every state of the network.
LEMMA TypeInvAlways == Spec => []TypeInv
BY TypeInvInit, TypeInvNext, PTL DEF Spec

\* Every variable keeps its type, whatever the handlers do.
THEOREM TypeCorrect == Spec => []TypeOK
<1>1. TypeInv => TypeOK
  BY DEF TypeInv
<1> QED BY <1>1, TypeInvAlways, PTL

\* The index stored_blocks_ and the files of blocks/ agree after every step
\* of every handler, also when a file cannot be written or read and when a
\* connection breaks: redistribution deletes both or neither.
THEOREM IndexCorrect == Spec => []IndexMatchesDisk
<1>1. TypeInv => IndexMatchesDisk
  BY DEF TypeInv
<1> QED BY <1>1, TypeInvAlways, PTL

-----------------------------------------------------------------------------
(***************************************************************************)
(* Whoever is in the map of foreign peers has proved the identity it is    *)
(* listed under, and a connection that its object has leads there.  HELLO  *)
(* gives an object its identity, and an object may be shared by            *)
(* connections and stay in maps when they are gone.  So the invariant says *)
(* who is at the other end of a connection: HELLO names it, and so do the  *)
(* object that is attached and the one that has the connection, if they    *)
(* have an identity.  And what a process has is its own.                   *)
(*                                                                         *)
(* Most actions are calm: they change no identity, attach and open         *)
(* nothing, give no object a connection and say no wrong HELLO.  HELLO and *)
(* connecting have lemmas of their own.                                    *)
(***************************************************************************)

Used(e) == conn[e].status # "unused"
OwnedBy(e, p) == Used(e) /\ conn[e].own = p

\* Whoever is known is called, and has proved, what it is listed under.
KnownVerified ==
  \A p, q \in Peer : known[p][q] # None =>
    fp[known[p][q]].id = q /\ fp[known[p][q]].verified

\* A HELLO on the way comes from the peer that it names.
HelloFrom(box) ==
  \A e \in End : \A i \in DOMAIN box[e] :
    box[e][i].type = "HELLO" =>
      conn[e].status # "unused" /\ box[e][i].id = conn[Other(e)].own

\* The object attached to an open connection is new or is the peer at the other
\* end; one that did not come with the connection has an identity.
AttachedRight ==
  \A e \in End : IsOpen(e) =>
    /\ fp[conn[e].att].id \in {None, conn[Other(e)].own}
    /\ conn[e].att # e => fp[conn[e].att].id # None

\* An end that has not been used has its own object, which nobody else has.
UnusedEnds ==
  \A e \in End : conn[e].status = "unused" =>
    /\ conn[e].att = e /\ fp[e].id = None /\ conn[e].own = None
    /\ e[2] = "out" => conn[Other(e)].status = "unused"

\* The objects of a process are attached to its connections, are in its map
\* and have its connections.
OwnersRight ==
  /\ \A e \in End : Used(e) =>
       Used(conn[e].att) /\ conn[conn[e].att].own = conn[e].own
  /\ \A p, q \in Peer : known[p][q] # None =>
       Used(known[p][q]) /\ conn[known[p][q]].own = p
  /\ \A f \in End : fp[f].conn # None =>
       /\ Used(f) /\ Used(fp[f].conn)
       /\ conn[fp[f].conn].own = conn[f].own

\* The connection e of an object f: its own as long as f is nobody, leading to
\* the peer that f is, and not ended if f is the one attached to it.
LinkRight(f, e) ==
  /\ fp[f].id = None => e = f
  /\ fp[f].id # None => conn[Other(e)].own \in {fp[f].id, None}
  /\ conn[e].att = f => ~ Ended(e)

LinksRight == \A f \in End : fp[f].conn # None => LinkRight(f, fp[f].conn)

KnownInv ==
  /\ KnownVerified /\ HelloFrom(inbox) /\ AttachedRight /\ UnusedEnds
  /\ OwnersRight /\ LinksRight

\* Connections that are used stay so and keep their owners.
OwnersKept ==
  \A e \in End : Used(e) => conn'[e].status # "unused" /\ conn'[e].own = conn[e].own

\* What every step does.
KnownStep == KnownInv' /\ OwnersKept

-----------------------------------------------------------------------------
\* Messages on the way of which every HELLO is right.
Honest(box) == box \in [End -> Seq(Message)] /\ HelloFrom(box)

\* Every HELLO among the messages names this peer.
Naming(messages, id) ==
  \A i \in DOMAIN messages : messages[i].type = "HELLO" => messages[i].id = id

NoHello(messages) == \A i \in DOMAIN messages : messages[i].type # "HELLO"

\* One message, or one of another kind.
LEMMA SingleNaming ==
  ASSUME NEW m \in Message, NEW id, m.type = "HELLO" => m.id = id
  PROVE  <<m>> \in Seq(Message) /\ Naming(<<m>>, id)
BY DEF Naming

\* One message that is no HELLO.
LEMMA SingleQuiet ==
  ASSUME NEW m \in Message, m.type # "HELLO"
  PROVE  <<m>> \in Seq(Message) /\ NoHello(<<m>>)
BY DEF NoHello

\* Messages that come behind others.
LEMMA NamingBoth ==
  ASSUME NEW first \in Seq(Message), NEW second \in Seq(Message), NEW id,
         Naming(first, id), Naming(second, id)
  PROVE  first \o second \in Seq(Message) /\ Naming(first \o second, id)
<1> SUFFICES ASSUME NEW i \in DOMAIN (first \o second)
             PROVE  (first \o second)[i].type = "HELLO" => (first \o second)[i].id = id
  BY DEF Naming
<1>1. CASE i \in DOMAIN first
  <2>1. (first \o second)[i] = first[i]
    BY <1>1
  <2> QED BY <1>1, <2>1 DEF Naming
<1>2. CASE i \notin DOMAIN first
  <2>1. /\ i - Len(first) \in DOMAIN second
        /\ (first \o second)[i] = second[i - Len(first)]
    BY <1>2
  <2> QED BY <2>1 DEF Naming
<1> QED BY <1>1, <1>2

\* Sending leaves every HELLO right, if those that are sent name the sender.
LEMMA SendHonest ==
  ASSUME TypeInv, NEW box, Honest(box), NEW e \in End,
         NEW messages \in Seq(Message), Naming(messages, conn[e].own)
  PROVE  Honest(Send(box, e, messages))
<1> DEFINE o == Other(e)
<1>1. o \in End /\ o # e /\ Other(o) = e
  BY DEF Other, End
<1>2. box \in [End -> Seq(Message)]
  BY DEF Honest
<1>3. Send(box, e, messages) \in [End -> Seq(Message)]
  BY <1>2, SendType
<1> HIDE DEF o
<1>4. CASE IsOpen(e) /\ IsOpen(Other(e))
  <2>1. Send(box, e, messages) = [box EXCEPT ![o] = box[o] \o messages]
    BY <1>4 DEF Send, IsOpen, o
  <2>2. conn[o].status # "unused"
    BY <1>4 DEF IsOpen, o
  <2>3. Naming(box[o] \o messages, conn[e].own)
    <3>1. box[o] \in Seq(Message) /\ Naming(box[o], conn[e].own)
      BY <1>1, <1>2 DEF Honest, HelloFrom, Naming
    <3> QED BY <3>1, NamingBoth
  <2>4. HelloFrom(Send(box, e, messages))
    <3> SUFFICES ASSUME NEW x \in End,
                        NEW i \in DOMAIN Send(box, e, messages)[x],
                        Send(box, e, messages)[x][i].type = "HELLO"
                 PROVE  /\ conn[x].status # "unused"
                        /\ Send(box, e, messages)[x][i].id = conn[Other(x)].own
      BY DEF HelloFrom
    <3>1. CASE x = o
      BY <1>1, <1>2, <2>1, <2>2, <2>3, <3>1 DEF Naming
    <3>2. CASE x # o
      BY <1>2, <2>1, <3>2 DEF Honest, HelloFrom
    <3> QED BY <3>1, <3>2
  <2> QED BY <1>3, <2>4 DEF Honest
<1>5. CASE Send(box, e, messages) = [box EXCEPT ![e] = <<[type |-> "WRITE ERROR"]>>]
  <2> DEFINE error == [type |-> "WRITE ERROR"]
             after == [box EXCEPT ![e] = <<error>>]
  <2>1. error.type # "HELLO"
    OBVIOUS
  <2> HIDE DEF error
  <2>2. \A x \in End : after[x] = IF x = e THEN <<error>> ELSE box[x]
    BY <1>2
  <2>3. \A i \in DOMAIN <<error>> : <<error>>[i] = error
    OBVIOUS
  <2>4. HelloFrom(after)
    BY <2>1, <2>2, <2>3 DEF Honest, HelloFrom
  <2> QED BY <1>3, <1>5, <2>4 DEF Honest, error
<1>6. CASE Send(box, e, messages) = box
  BY <1>6
<1> QED BY <1>4, <1>5, <1>6 DEF Send

\* Sending nothing that says HELLO leaves every HELLO right.
LEMMA SendQuiet ==
  ASSUME TypeInv, NEW box, Honest(box), NEW e \in End,
         NEW messages \in Seq(Message), NoHello(messages)
  PROVE  Honest(Send(box, e, messages))
BY SendHonest DEF NoHello, Naming

\* What a handler leaves when it has taken its message.
LEMMA TakenHonest ==
  ASSUME TypeInv, KnownInv, NEW e \in End, NEW type, Receives(e, type)
  PROVE  Honest(Taken(e))
<1>1. inbox \in [End -> Seq(Message)] /\ inbox[e] # << >>
  BY DEF TypeInv, TypeOK, Receives
<1>2. Taken(e) \in [End -> Seq(Message)]
  BY ReceivesAtPeer
<1>3. \A i \in DOMAIN Tail(inbox[e]) :
        i + 1 \in DOMAIN inbox[e] /\ Tail(inbox[e])[i] = inbox[e][i + 1]
  BY <1>1
<1>4. \A x \in End : Taken(e)[x] = IF x = e THEN Tail(inbox[e]) ELSE inbox[x]
  BY <1>1 DEF Taken
<1>5. HelloFrom(inbox)
  BY DEF KnownInv
<1>6. HelloFrom(Taken(e))
  <2> DEFINE rest == Tail(inbox[e])
  <2>1. \A i \in DOMAIN rest : rest[i].type = "HELLO" =>
          conn[e].status # "unused" /\ rest[i].id = conn[Other(e)].own
    BY <1>3, <1>5 DEF HelloFrom
  <2> HIDE DEF rest
  <2> QED BY <1>4, <1>5, <2>1 DEF HelloFrom, rest
<1> QED BY <1>2, <1>6 DEF Honest

\* A HELLO that is handled names the peer at the other end.
LEMMA HelloHandled ==
  ASSUME TypeInv, KnownInv, NEW e \in End, Receives(e, "HELLO")
  PROVE  Head(inbox[e]).id = conn[Other(e)].own
<1>1. inbox[e] \in Seq(Message) /\ inbox[e] # << >>
  BY DEF TypeInv, TypeOK, Receives
<1>2. 1 \in DOMAIN inbox[e] /\ inbox[e][1] = Head(inbox[e])
  BY <1>1
<1> QED BY <1>2 DEF Receives, KnownInv, HelloFrom

-----------------------------------------------------------------------------
\* What a calm step does to the objects and to the connections, and what it
\* enters in the maps.
SameObjects(before, after) ==
  \A f \in End : /\ after[f].id = before[f].id
                 /\ before[f].verified => after[f].verified

\* Objects keep or lose their connections.
SameLinks(before, after) ==
  \A f \in End : after[f].conn \in {before[f].conn, None}

SameConnections(before, after) ==
  \A e \in End : /\ after[e].own = before[e].own
                 /\ after[e].att = before[e].att
                 /\ after[e].status = "unused" <=> before[e].status = "unused"
                 /\ after[e].status = "open" => before[e].status = "open"

\* The object of a connection that is closed loses its own.
Freed ==
  \A e \in End : IsOpen(e) /\ conn'[e].status # "open" => fp'[conn[e].att].conn = None

EntriesRight ==
  \A p, q \in Peer : known'[p][q] # None =>
    \/ known'[p][q] = known[p][q]
    \/ fp'[known'[p][q]].id = q /\ fp'[known'[p][q]].verified

EntriesOwned ==
  \A p, q \in Peer :
    \/ known'[p][q] = known[p][q]
    \/ \E e \in End : OwnedBy(e, p) /\ known'[p][q] = conn[e].att

Calm ==
  /\ SameObjects(fp, fp') /\ SameLinks(fp, fp')
  /\ SameConnections(conn, conn') /\ Freed
  /\ EntriesRight /\ EntriesOwned /\ Honest(inbox')

\* Those known keep the identity that they have proved.
LEMMA VerifiedKept ==
  ASSUME TypeInv, KnownInv, SameObjects(fp, fp'), UNCHANGED known
  PROVE  KnownVerified'
<1> SUFFICES ASSUME NEW p \in Peer, NEW q \in Peer, known[p][q] # None
             PROVE  fp'[known[p][q]].id = q /\ fp'[known[p][q]].verified
  BY DEF KnownVerified
<1>1. known[p][q] \in End
  BY DEF TypeInv, TypeOK
<1> QED BY <1>1 DEF KnownInv, KnownVerified, SameObjects

\* With the connections as they are, the objects stay with their processes.
LEMMA OwnersSteady ==
  ASSUME TypeInv, OwnersRight, SameConnections(conn, conn'), SameLinks(fp, fp'),
         EntriesOwned
  PROVE  OwnersRight' /\ OwnersKept
<1>1. /\ \A e \in End : conn[e].att \in End
      /\ \A p, q \in Peer : known[p][q] # None => known[p][q] \in End
      /\ \A f \in End : fp[f].conn # None => fp[f].conn \in End
  BY DEF TypeInv, TypeOK, Connection, ForeignPeer
<1>2. \A e \in End : /\ conn'[e].own = conn[e].own /\ conn'[e].att = conn[e].att
                     /\ conn'[e].status # "unused" <=> Used(e)
  BY DEF SameConnections, Used
<1>3. ASSUME NEW e \in End, conn'[e].status # "unused"
      PROVE  /\ conn'[conn'[e].att].status # "unused"
             /\ conn'[conn'[e].att].own = conn'[e].own
  BY <1>1, <1>2, <1>3 DEF OwnersRight
<1>4. ASSUME NEW p \in Peer, NEW q \in Peer, known'[p][q] # None
      PROVE  conn'[known'[p][q]].status # "unused" /\ conn'[known'[p][q]].own = p
  <2>1. CASE known'[p][q] = known[p][q]
    BY <1>1, <1>2, <1>4, <2>1 DEF OwnersRight
  <2>2. CASE \E e \in End : OwnedBy(e, p) /\ known'[p][q] = conn[e].att
    BY <1>1, <1>2, <2>2 DEF OwnersRight, OwnedBy
  <2> QED BY <2>1, <2>2 DEF EntriesOwned
<1>5. ASSUME NEW f \in End, fp'[f].conn # None
      PROVE  /\ conn'[f].status # "unused" /\ conn'[fp'[f].conn].status # "unused"
             /\ conn'[fp'[f].conn].own = conn'[f].own
  <2>1. fp'[f].conn = fp[f].conn
    BY <1>5 DEF SameLinks
  <2> QED BY <1>1, <1>2, <1>5, <2>1 DEF OwnersRight
<1>6. OwnersRight'
  BY <1>3, <1>4, <1>5 DEF OwnersRight, Used
<1> QED BY <1>2, <1>6 DEF OwnersKept

\* And the objects with their connections.
LEMMA LinksSteady ==
  ASSUME TypeInv, KnownInv, Calm
  PROVE  LinksRight'
<1> SUFFICES ASSUME NEW f \in End, NEW e, e = fp'[f].conn, e # None
             PROVE  /\ fp'[f].id = None => e = f
                    /\ fp'[f].id # None => conn'[Other(e)].own \in {fp'[f].id, None}
                    /\ conn'[e].att = f =>
                         ~ (conn'[e].status # "open" /\ conn'[Other(e)].status # "unused")
  BY DEF LinksRight, LinkRight, Ended, IsOpen
<1>1. e = fp[f].conn
  BY DEF Calm, SameLinks
<1>2. e \in End /\ Other(e) \in End
  BY <1>1, OtherEnd DEF TypeInv, TypeOK, ForeignPeer
<1>3. fp'[f].id = fp[f].id
  BY DEF Calm, SameObjects
<1>4. /\ conn'[e].att = conn[e].att
      /\ conn'[Other(e)].own = conn[Other(e)].own
      /\ conn'[Other(e)].status = "unused" <=> conn[Other(e)].status = "unused"
  BY <1>2 DEF Calm, SameConnections
<1>5. LinkRight(f, e)
  BY <1>1 DEF KnownInv, LinksRight
<1>6. conn[e].att = f => ~ (IsOpen(e) /\ conn'[e].status # "open")
  BY <1>2 DEF Calm, Freed
<1> QED BY <1>3, <1>4, <1>5, <1>6 DEF LinkRight, Ended

\* A calm step keeps the invariant.
LEMMA CalmKept ==
  ASSUME TypeInv, KnownInv, Calm
  PROVE  KnownStep
<1>1. /\ \A e \in End : conn[e].att \in End /\ Other(e) \in End
      /\ known \in [Peer -> [Peer -> End \cup {None}]]
  BY OtherEnd DEF TypeInv, TypeOK, Connection
<1>2. KnownVerified'
  <2> SUFFICES ASSUME NEW p \in Peer, NEW q \in Peer, known'[p][q] # None,
                      known'[p][q] = known[p][q]
               PROVE  fp'[known[p][q]].id = q /\ fp'[known[p][q]].verified
    BY DEF KnownVerified, Calm, EntriesRight
  <2>1. known[p][q] \in End
    BY <1>1
  <2> QED BY <2>1 DEF KnownInv, KnownVerified, Calm, SameObjects
<1>3. HelloFrom(inbox)'
  <2> SUFFICES ASSUME NEW e \in End, NEW i \in DOMAIN inbox'[e],
                      inbox'[e][i].type = "HELLO"
               PROVE  /\ conn'[e].status # "unused"
                      /\ inbox'[e][i].id = conn'[Other(e)].own
    BY DEF HelloFrom
  <2>1. conn[e].status # "unused" /\ inbox'[e][i].id = conn[Other(e)].own
    BY DEF Calm, Honest, HelloFrom
  <2> QED BY <1>1, <2>1 DEF Calm, SameConnections
<1>4. AttachedRight'
  <2> SUFFICES ASSUME NEW e \in End, conn'[e].status = "open"
               PROVE  /\ fp'[conn'[e].att].id \in {None, conn'[Other(e)].own}
                      /\ conn'[e].att # e => fp'[conn'[e].att].id # None
    BY DEF AttachedRight, IsOpen
  <2>1. /\ conn[e].status = "open" /\ conn'[e].att = conn[e].att
        /\ conn'[Other(e)].own = conn[Other(e)].own
        /\ fp'[conn[e].att].id = fp[conn[e].att].id
    BY <1>1 DEF Calm, SameConnections, SameObjects
  <2> QED BY <2>1 DEF KnownInv, AttachedRight, IsOpen
<1>5. UnusedEnds'
  BY <1>1 DEF Calm, SameConnections, SameObjects, KnownInv, UnusedEnds
<1>6. OwnersRight' /\ OwnersKept
  BY OwnersSteady DEF Calm, KnownInv
<1> QED BY <1>2, <1>3, <1>4, <1>5, <1>6, LinksSteady DEF KnownInv, KnownStep

\* The maps are as they were.
LEMMA EntriesKept ==
  ASSUME UNCHANGED known
  PROVE  EntriesRight /\ EntriesOwned
BY DEF EntriesRight, EntriesOwned

\* What is not assigned is as it was.
LEMMA Unmoved ==
  /\ UNCHANGED conn => SameConnections(conn, conn') /\ Freed
  /\ UNCHANGED fp => SameObjects(fp, fp') /\ SameLinks(fp, fp')
BY DEF SameConnections, Freed, IsOpen, SameObjects, SameLinks

\* A step of which the objects, the connections and the maps know nothing.
LEMMA OnlySent ==
  ASSUME TypeInv, KnownInv, UNCHANGED <<fp, conn, known>>, Honest(inbox')
  PROVE  KnownStep
BY CalmKept, EntriesKept, Unmoved DEF Calm

\* An assignment to a field of an object that changes no identity and gives it
\* no connection.
LEMMA ObjectCalm ==
  ASSUME NEW objects \in [End -> ForeignPeer], NEW f \in End, NEW x, NEW y, NEW after,
         \/ after = [objects EXCEPT ![f].conn = None]
         \/ after = [objects EXCEPT ![f].out = x]
         \/ after = [objects EXCEPT ![f].in = x]
         \/ after = [objects EXCEPT ![f].out = x, ![f].in = y]
         \/ after = [objects EXCEPT ![f].queued = x]
         \/ after = [objects EXCEPT ![f].integrated = x]
         \/ after = [objects EXCEPT ![f].verified = TRUE]
  PROVE  SameObjects(objects, after) /\ SameLinks(objects, after)
<1>1. objects[f] \in ForeignPeer
  OBVIOUS
<1> QED BY <1>1 DEF SameObjects, SameLinks, ForeignPeer

\* An assignment to a field of a connection that attaches and opens nothing.
LEMMA ConnectionCalm ==
  ASSUME TypeInv, NEW e \in End,
         \/ conn' = [conn EXCEPT ![e].introduced = TRUE]
         \/ conn' = [conn EXCEPT ![e].gotWelcome = TRUE]
         \/ conn' = [conn EXCEPT ![e].stuck = TRUE]
  PROVE  SameConnections(conn, conn') /\ Freed
<1>1. conn \in [End -> Connection]
  BY DEF TypeInv, TypeOK
<1> QED BY <1>1 DEF SameConnections, Freed, IsOpen, Connection

\* A connection that ends.
LEMMA EndedCalm ==
  ASSUME TypeInv, NEW e \in End, conn[e].status # "unused",
         NEW s \in {"closed", "failed"}, conn' = [conn EXCEPT ![e].status = s],
         fp' = [fp EXCEPT ![conn[e].att].conn = None]
  PROVE  /\ SameConnections(conn, conn') /\ Freed
         /\ SameObjects(fp, fp') /\ SameLinks(fp, fp')
<1> DEFINE f == conn[e].att
<1>1. /\ conn \in [End -> Connection] /\ fp \in [End -> ForeignPeer]
      /\ conn[e] \in Connection /\ f \in End
  BY DEF TypeInv, TypeOK, Connection
<1>2. fp' = [fp EXCEPT ![f].conn = None]
  OBVIOUS
<1> HIDE DEF f
<1>3. SameObjects(fp, fp') /\ SameLinks(fp, fp')
  BY <1>1, <1>2, ObjectCalm
<1>4. SameConnections(conn, conn')
  BY <1>1 DEF SameConnections, Connection
<1>5. \A x \in End \ {e} : conn'[x] = conn[x]
  BY <1>1
<1>6. fp'[f].conn = None
  <2>1. fp[f] \in ForeignPeer
    BY <1>1
  <2> QED BY <1>1, <1>2, <2>1 DEF ForeignPeer
<1>7. Freed
  BY <1>5, <1>6 DEF Freed, IsOpen, f
<1> QED BY <1>3, <1>4, <1>7

\* Nothing is on the way to an end any more.
LEMMA EmptiedHonest ==
  ASSUME TypeInv, KnownInv, NEW e \in End, inbox' = [inbox EXCEPT ![e] = << >>]
  PROVE  Honest(inbox')
<1>1. inbox \in [End -> Seq(Message)]
  BY DEF TypeInv, TypeOK
<1>2. inbox' \in [End -> Seq(Message)]
  BY <1>1
<1>3. \A x \in End : \A i \in DOMAIN inbox'[x] :
        i \in DOMAIN inbox[x] /\ inbox'[x][i] = inbox[x][i]
  BY <1>1
<1> QED BY <1>2, <1>3 DEF Honest, HelloFrom, KnownInv

\* A connection is closed: what is refused, and what Fail and Reset do.
LEMMA CloseKept ==
  ASSUME TypeInv, KnownInv, NEW e \in End, conn[e].status # "unused", Close(e),
         UNCHANGED known
  PROVE  KnownStep
<1>1. /\ conn' = [conn EXCEPT ![e].status = "closed"]
      /\ fp' = [fp EXCEPT ![conn[e].att].conn = None]
      /\ inbox' = [inbox EXCEPT ![e] = << >>]
  BY DEF Close
<1> QED BY <1>1, EndedCalm, EmptiedHonest, EntriesKept, CalmKept DEF Calm

\* A failed write takes the connection from the object and goes on.
LEMMA WriteErrorKept ==
  ASSUME TypeInv, KnownInv, NEW e \in End, WriteError(e)
  PROVE  KnownStep
<1>1. /\ conn[e].status # "unused" /\ conn' = [conn EXCEPT ![e].status = "failed"]
      /\ fp' = [fp EXCEPT ![conn[e].att].conn = None]
      /\ inbox' = [inbox EXCEPT ![e] = << >>]
      /\ UNCHANGED known
  BY DEF WriteError, Unaffected
<1> QED BY <1>1, EndedCalm, EmptiedHonest, EntriesKept, CalmKept DEF Calm

-----------------------------------------------------------------------------
\* What is sent about blocks and codes is no HELLO.
LEMMA BlockMessagesQuiet ==
  ASSUME NEW b \in Block
  PROVE  /\ \A ok \in BOOLEAN :
              LET m == <<[type |-> "STORED BLOCK", block |-> b, success |-> ok]>>
              IN m \in Seq(Message) /\ NoHello(m)
         /\ \A v \in Found :
              LET m == <<[type |-> "STORE BLOCK", block |-> b, version |-> v]>>
              IN m \in Seq(Message) /\ NoHello(m)
         /\ LET m == <<[type |-> "LOAD BLOCK", block |-> b]>>
            IN m \in Seq(Message) /\ NoHello(m)
         /\ \A v \in Found :
              LET m == <<[type |-> "DELIVER BLOCK", block |-> b, found |-> v]>>
              IN m \in Seq(Message) /\ NoHello(m)
BY MessagesMade, SingleQuiet

\* SET CODE says no HELLO.
LEMMA SetCodeQuiet ==
  ASSUME TypeInv, NEW p \in Peer
  PROVE  SetCode(p) \in Seq(Message) /\ NoHello(SetCode(p))
<1> DEFINE m == [type |-> "SET CODE", code |-> Extend(code[p], 1)]
<1>1. Extend(code[p], 1) \in PeerCode
  BY DEF TypeInv, TypeOK, PeerCode, Bit, Extend
<1>2. m \in Message /\ m.type # "HELLO"
  BY <1>1, MessagesMade
<1>3. SetCode(p) = <<m>>
  BY DEF SetCode
<1> HIDE DEF m
<1> QED BY <1>2, <1>3, SingleQuiet

\* store() and load() say no HELLO, and store() changes no identity.
LEMMA OutcomesHonest ==
  ASSUME TypeInv, NEW box, Honest(box), NEW b \in Block
  PROVE  /\ \A action \in Action, ok \in BOOLEAN :
              Honest(Reply(box, b, action, ok))
         /\ \A action \in LoadAction, v \in Found :
              Honest(Delivery(box, b, action, v))
<1>1. \A action \in Action : action.kind = "reply" => action.end \in End
  BY DEF Action, LoadAction, ClientAction, ReplyAction, Redistribute
<1>2. LoadAction \subseteq Action
  BY DEF Action
<1>3. ASSUME NEW action \in Action, NEW ok \in BOOLEAN
      PROVE  Honest(Reply(box, b, action, ok))
  BY <1>1, BlockMessagesQuiet, SendQuiet DEF Reply
<1>4. ASSUME NEW action \in LoadAction, NEW v \in Found
      PROVE  Honest(Delivery(box, b, action, v))
  BY <1>1, <1>2, BlockMessagesQuiet, SendQuiet DEF Delivery
<1> QED BY <1>3, <1>4

\* Passing a block on leaves every HELLO right.
LEMMA PassOnHonest ==
  ASSUME TypeInv, NEW p \in Peer, NEW b \in Block, NEW v \in Found,
         NEW action \in Action, NEW box, Honest(box),
         PassOn(p, b, v, action, box)
  PROVE  Honest(inbox')
<1> DEFINE peers == OutPeers(fp, known[p], DifferingLayer(code[p], b))
           store == <<[type |-> "STORE BLOCK", block |-> b, version |-> v]>>
<1>1. fp \in [End -> ForeignPeer] /\ known[p] \in [Peer -> End \cup {None}]
  BY DEF TypeInv, TypeOK
<1>2. \A f \in peers : fp[f].conn \in End
  BY <1>1, FoundPeers
<1>3. store \in Seq(Message) /\ NoHello(store)
  BY BlockMessagesQuiet
<1>4. inbox' = box \/ \E f \in peers : inbox' = Send(box, fp[f].conn, store)
  BY DEF PassOn
<1> HIDE DEF peers, store
<1> QED BY <1>2, <1>3, <1>4, SendQuiet

\* Offering a code changes no identity and says no HELLO.
LEMMA SplitIfFullCalm ==
  ASSUME TypeInv, NEW p \in Peer, NEW index, NEW box, Honest(box),
         SplitIfFull(p, index, box)
  PROVE  SameObjects(fp, fp') /\ SameLinks(fp, fp') /\ Honest(inbox')
<1>1. fp \in [End -> ForeignPeer] /\ known[p] \in [Peer -> End \cup {None}]
  BY DEF TypeInv, TypeOK
<1>2. CASE inbox' = box /\ fp' = fp
  BY <1>2, Unmoved
<1>3. ASSUME NEW f \in QueuedPeers(fp, known[p]),
             fp' = [fp EXCEPT ![f].queued = FALSE],
             inbox' = Send(box, fp[f].conn, SetCode(p))
      PROVE  SameObjects(fp, fp') /\ SameLinks(fp, fp') /\ Honest(inbox')
  <2>1. f \in End /\ fp[f].conn \in End
    BY <1>1, FoundPeers
  <2>2. SameObjects(fp, fp') /\ SameLinks(fp, fp')
    BY <1>1, <1>3, <2>1, ObjectCalm
  <2>3. Honest(inbox')
    BY <1>3, <2>1, SetCodeQuiet, SendQuiet
  <2> QED BY <2>2, <2>3
<1> QED BY <1>2, <1>3 DEF SplitIfFull

\* Storing a block changes no identity and says no HELLO.
LEMMA StoreCalm ==
  ASSUME TypeInv, NEW p \in Peer, NEW b \in Block, NEW v \in Version,
         NEW action \in Action, NEW box, Honest(box),
         Store(p, b, v, action, box)
  PROVE  SameObjects(fp, fp') /\ SameLinks(fp, fp') /\ Honest(inbox')
<1>1. /\ fp' = fp => SameObjects(fp, fp') /\ SameLinks(fp, fp')
      /\ v \in Found
  BY Unmoved DEF Found
<1>2. CASE StoreIgnored(p, box)
  BY <1>1, <1>2 DEF StoreIgnored
<1>3. CASE StoreSaved(p, b, v, action, box)
  BY <1>3, OutcomesHonest, SplitIfFullCalm DEF StoreSaved
<1>4. CASE StoreFailed(p, b, action, box)
  BY <1>1, <1>4, OutcomesHonest DEF StoreFailed
<1>5. CASE StorePassedOn(p, b, v, action, box)
  BY <1>1, <1>5, PassOnHonest DEF StorePassedOn
<1> QED BY <1>2, <1>3, <1>4, <1>5 DEF Store

\* Looking a block up leaves every HELLO right.
LEMMA LoadHonest ==
  ASSUME TypeInv, NEW p \in Peer, NEW b \in Block, NEW action \in LoadAction,
         NEW box, Honest(box), Load(p, b, action, box)
  PROVE  Honest(inbox')
<1> DEFINE peers == OutPeers(fp, known[p], DifferingLayer(code[p], b))
           ask == <<[type |-> "LOAD BLOCK", block |-> b]>>
<1>1. /\ fp \in [End -> ForeignPeer] /\ known[p] \in [Peer -> End \cup {None}]
      /\ disk[p][b] \in Found /\ NoData \in Found
  BY DEF TypeInv, TypeOK, Found
<1>2. CASE LoadIgnored(p, box)
  BY <1>2 DEF LoadIgnored
<1>3. CASE LoadHere(p, b, action, box) \/ LoadFailed(p, b, action, box)
  BY <1>1, <1>3, OutcomesHonest DEF LoadHere, LoadFailed
<1>4. CASE LoadPassedOn(p, b, action, box)
  <2>1. \A f \in peers : fp[f].conn \in End
    BY <1>1, FoundPeers
  <2>2. ask \in Seq(Message) /\ NoHello(ask)
    BY BlockMessagesQuiet
  <2>3. inbox' = box \/ \E f \in peers : inbox' = Send(box, fp[f].conn, ask)
    BY <1>4 DEF LoadPassedOn
  <2> HIDE DEF peers, ask
  <2> QED BY <2>1, <2>2, <2>3, SendQuiet
<1> QED BY <1>2, <1>3, <1>4 DEF Load

\* Handing over the blocks of the other half does so too.
LEMMA RedistributeHonest ==
  ASSUME TypeInv, NEW p \in Peer, NEW index \in SUBSET stored[p],
         NEW box, Honest(box), RedistributeBlock(p, index, box)
  PROVE  Honest(inbox')
<1>1. stored[p] \subseteq Block /\ disk \in [Peer -> [Block -> Found]]
  BY DEF TypeInv, TypeOK
<1>2. ASSUME NEW b \in Misplaced(p, index), NEW v \in {disk[p][b], NoData},
             PassOn(p, b, v, Redistribute, box)
      PROVE  Honest(inbox')
  <2>1. b \in Block
    BY <1>1 DEF Misplaced
  <2>2. v \in Found
    BY <1>1, <2>1 DEF Found
  <2>3. Redistribute \in Action
    BY DEF Action
  <2> QED BY <1>2, <2>1, <2>2, <2>3, PassOnHonest
<1> QED BY <1>2 DEF RedistributeBlock

-----------------------------------------------------------------------------
\* add_foreign_peer() enters the object that is attached, under its identity,
\* and the object has been verified when it is called.
LEMMA AddForeignPeerCalm ==
  ASSUME TypeInv, NEW p \in Peer, NEW e \in End,
         OwnedBy(e, p),
         NEW objects \in [End -> ForeignPeer],
         SameObjects(fp, objects), SameLinks(fp, objects),
         objects[conn[e].att].verified,
         NEW box, Honest(box), NEW last \in Seq(Message), Naming(last, conn[e].own),
         AddForeignPeer(p, e, objects, box, last)
  PROVE  /\ SameObjects(fp, fp') /\ SameLinks(fp, fp')
         /\ EntriesRight /\ EntriesOwned /\ Honest(inbox')
<1> DEFINE f == conn[e].att
           map == [known[p] EXCEPT ![objects[f].id] = f]
           out == Connected(objects, f) /\ objects[f].out # -1
<1>1. f \in End /\ objects[f] \in ForeignPeer
  BY DEF TypeInv, TypeOK, Connection
<1>2. known \in [Peer -> [Peer -> End \cup {None}]] /\ mentor[p] \in End \cup {None}
  BY DEF TypeInv, TypeOK
<1>3. known' = [known EXCEPT ![p] = map]
  BY DEF AddForeignPeer
<1>4. fp' = objects \/ fp' = [objects EXCEPT ![f].queued = FALSE]
  BY DEF AddForeignPeer, AddOutPeer, AddNewPeer
<1>5. SameObjects(objects, fp') /\ SameLinks(objects, fp')
  <2>1. SameObjects(objects, objects) /\ SameLinks(objects, objects)
    BY DEF SameObjects, SameLinks
  <2>2. CASE fp' = [objects EXCEPT ![f].queued = FALSE]
    <3> HIDE DEF f
    <3> QED BY <1>1, <2>2, ObjectCalm
  <2> QED BY <1>4, <2>1, <2>2
<1>6. SameObjects(fp, fp') /\ SameLinks(fp, fp') /\ EntriesOwned
  <2>1. SameObjects(fp, fp') /\ SameLinks(fp, fp')
    BY <1>5 DEF SameObjects, SameLinks
  <2>2. EntriesOwned
    BY <1>2, <1>3 DEF EntriesOwned
  <2> QED BY <2>1, <2>2
<1>7. EntriesRight
  <2> SUFFICES ASSUME NEW q \in Peer, NEW r \in Peer, known'[q][r] # None,
                      known'[q][r] # known[q][r]
               PROVE  fp'[known'[q][r]].id = r /\ fp'[known'[q][r]].verified
    BY DEF EntriesRight
  <2>1. known'[q][r] = f /\ objects[f].id = r
    BY <1>2, <1>3
  <2> QED BY <1>1, <1>5, <2>1 DEF SameObjects
<1>8. \A x : Honest(x) => Honest(Send(x, e, last))
  BY SendHonest
<1>9. ASSUME out, AddOutPeer(p, f, e, objects, map, box, last)
      PROVE  Honest(inbox')
  <2> DEFINE m == [type |-> "CONNECT IN", layer |-> objects[f].out]
             told == Send(box, objects[f].conn, <<m>>)
             done == Send(told, objects[mentor[p]].conn, <<[type |-> "INTEGRATED"]>>)
  <2>1. objects[f].conn \in End /\ objects[f].out \in Nat
    BY <1>1, <1>9 DEF Connected, ForeignPeer, Layer
  <2>2. m \in Message /\ m.type # "HELLO"
    BY <2>1, MessagesMade
  <2>3. Honest(told)
    <3> HIDE DEF m
    <3> QED BY <2>1, <2>2, SingleQuiet, SendQuiet
  <2>4. HasMentor(p, objects) => Honest(done)
    <3>1. HasMentor(p, objects) => objects[mentor[p]].conn \in End
      BY <1>2 DEF HasMentor, Connected, ForeignPeer
    <3>2. [type |-> "INTEGRATED"] \in Message /\ [type |-> "INTEGRATED"].type # "HELLO"
      BY MessagesMade
    <3> HIDE DEF told
    <3> QED BY <2>3, <3>1, <3>2, SingleQuiet, SendQuiet
  <2>5. \/ inbox' = told
        \/ inbox' = Send(told, e, last)
        \/ HasMentor(p, objects) /\ inbox' = Send(done, e, last)
    BY <1>9 DEF AddOutPeer
  <2> HIDE DEF told, done
  <2> QED BY <1>8, <2>3, <2>4, <2>5
<1>10. ASSUME Connected(objects, f), AddNewPeer(p, f, e, objects, box, last)
       PROVE  Honest(inbox')
  <2>1. objects[f].conn \in End
    BY <1>1, <1>10 DEF Connected, ForeignPeer
  <2>2. Honest(Send(box, objects[f].conn, SetCode(p)))
    BY <2>1, SetCodeQuiet, SendQuiet
  <2>3. \/ inbox' = Send(box, e, last)
        \/ inbox' = Send(Send(box, objects[f].conn, SetCode(p)), e, last)
    BY <1>10 DEF AddNewPeer
  <2> QED BY <1>8, <2>2, <2>3
<1>11. ASSUME inbox' = Send(box, e, last)
       PROVE  Honest(inbox')
  BY <1>8, <1>11
<1>12. Honest(inbox')
  <2>1. \/ out /\ AddOutPeer(p, f, e, objects, map, box, last)
        \/ Connected(objects, f) /\ AddNewPeer(p, f, e, objects, box, last)
        \/ inbox' = Send(box, e, last)
    BY DEF AddForeignPeer
  <2> HIDE DEF f, map, out
  <2> QED BY <1>9, <1>10, <1>11, <2>1
<1> QED BY <1>6, <1>7, <1>12

\* VERIFY IDENTITY and WELCOME.
LEMMA HandleVerifyIdentityKept ==
  ASSUME TypeInv, KnownInv, NEW e \in End, HandleVerifyIdentity(e)
  PROVE  KnownStep
<1> DEFINE p == conn[e].own
           objects == Verified(conn[e].att)
           last == <<[type |-> "WELCOME"]>> \o Introduction(e)
<1>1. /\ p \in Peer /\ conn[e].att \in End /\ fp \in [End -> ForeignPeer]
      /\ Receives(e, "VERIFY IDENTITY")
  BY ReceivesAtPeer DEF HandleVerifyIdentity, TypeInv, TypeOK
<1>2. Honest(Taken(e))
  BY <1>1, TakenHonest
<1>3. /\ objects \in [End -> ForeignPeer]
      /\ SameObjects(fp, objects) /\ SameLinks(fp, objects)
      /\ objects[conn[e].att].verified
  <2>1. objects = [fp EXCEPT ![conn[e].att].verified = TRUE]
    BY DEF Verified
  <2>2. fp[conn[e].att] \in ForeignPeer
    BY <1>1
  <2>3. objects \in [End -> ForeignPeer] /\ objects[conn[e].att].verified
    <3> DEFINE f == conn[e].att
               o == [fp[f] EXCEPT !.verified = TRUE]
    <3>1. o \in ForeignPeer /\ o.verified
      BY <2>2 DEF ForeignPeer
    <3>2. f \in End /\ fp \in [End -> ForeignPeer] /\ objects = [fp EXCEPT ![f] = o]
      BY <1>1, <2>1
    <3> HIDE DEF f, o, objects
    <3>3. objects \in [End -> ForeignPeer] /\ objects[f] = o
      BY <3>1, <3>2
    <3> QED BY <3>1, <3>3 DEF f
  <2>4. SameObjects(fp, objects) /\ SameLinks(fp, objects)
    BY <1>1, <2>1, ObjectCalm
  <2> QED BY <2>3, <2>4
<1>4. last \in Seq(Message) /\ Naming(last, conn[e].own)
  <2> DEFINE welcome == [type |-> "WELCOME"]
             hello == [type |-> "HELLO", id |-> p, kind |-> "?"]
  <2>1. /\ welcome \in Message /\ hello \in Message
        /\ welcome.type # "HELLO" /\ hello.id = conn[e].own
    BY <1>1, MessagesMade
  <2>2. Introduction(e) = << >> \/ Introduction(e) = <<hello>>
    BY DEF Introduction
  <2> HIDE DEF welcome, hello
  <2>3. << >> \in Seq(Message) /\ Naming(<< >>, conn[e].own)
    BY DEF Naming
  <2>4. <<welcome>> \in Seq(Message) /\ Naming(<<welcome>>, conn[e].own)
    BY <2>1, SingleNaming
  <2>5. Introduction(e) \in Seq(Message) /\ Naming(Introduction(e), conn[e].own)
    BY <2>1, <2>2, <2>3, SingleNaming
  <2> QED BY <2>4, <2>5, NamingBoth DEF welcome
<1>5. SameConnections(conn, conn') /\ Freed /\ OwnedBy(e, conn[e].own)
  BY ConnectionCalm DEF HandleVerifyIdentity, Receives, IsOpen, OwnedBy, Used
<1>6. CASE AddForeignPeer(p, e, objects, Taken(e), last)
  <2> HIDE DEF objects, last
  <2> QED BY <1>1, <1>2, <1>3, <1>4, <1>5, <1>6, AddForeignPeerCalm, CalmKept DEF Calm
<1>7. CASE fp' = objects /\ inbox' = Send(Taken(e), e, last) /\ UNCHANGED known
  <2> HIDE DEF objects, last
  <2>1. Honest(inbox')
    BY <1>2, <1>4, <1>7, SendHonest
  <2> QED BY <1>3, <1>5, <1>7, <2>1, EntriesKept, CalmKept DEF Calm
<1> QED BY <1>6, <1>7 DEF HandleVerifyIdentity

\* WELCOME keeps the invariant.
LEMMA HandleWelcomeKept ==
  ASSUME TypeInv, KnownInv, NEW e \in End, HandleWelcome(e)
  PROVE  KnownStep
<1>1. /\ conn[e].own \in Peer /\ fp \in [End -> ForeignPeer]
      /\ Receives(e, "WELCOME")
  BY ReceivesAtPeer DEF HandleWelcome, TypeInv, TypeOK
<1>2. Honest(Taken(e))
  BY <1>1, TakenHonest
<1>3. SameConnections(conn, conn') /\ Freed /\ OwnedBy(e, conn[e].own)
  BY ConnectionCalm DEF HandleWelcome, Receives, IsOpen, OwnedBy, Used
<1>4. SameObjects(fp, fp) /\ SameLinks(fp, fp)
  BY DEF SameObjects, SameLinks
<1>5. CASE fp[conn[e].att].verified /\ AddForeignPeer(conn[e].own, e, fp, Taken(e), << >>)
  <2>1. << >> \in Seq(Message) /\ Naming(<< >>, conn[e].own)
    BY DEF Naming
  <2> QED BY <1>1, <1>2, <1>3, <1>4, <1>5, <2>1, AddForeignPeerCalm, CalmKept DEF Calm
<1>6. CASE inbox' = Taken(e) /\ UNCHANGED <<known, fp>>
  BY <1>2, <1>3, <1>4, <1>6, EntriesKept, CalmKept DEF Calm
<1> QED BY <1>5, <1>6 DEF HandleWelcome

-----------------------------------------------------------------------------
\* The other calm steps.
LEMMA InboxHonest ==
  ASSUME TypeInv, KnownInv
  PROVE  Honest(inbox)
BY DEF TypeInv, TypeOK, KnownInv, Honest

\* A step that touches objects, but neither identities nor connections of theirs.
LEMMA ObjectsOnly ==
  ASSUME TypeInv, KnownInv, SameObjects(fp, fp'), SameLinks(fp, fp'),
         UNCHANGED <<conn, known>>, Honest(inbox')
  PROVE  KnownStep
BY CalmKept, EntriesKept, Unmoved DEF Calm

\* An object that a message is about is the one attached.
LEMMA AttachedUpdate ==
  ASSUME TypeInv, KnownInv, NEW e \in End, NEW x, NEW y,
         \/ fp' = [fp EXCEPT ![conn[e].att].out = x, ![conn[e].att].in = y]
         \/ fp' = [fp EXCEPT ![conn[e].att].in = x]
         \/ fp' = [fp EXCEPT ![conn[e].att].integrated = x],
         UNCHANGED <<conn, known>>, Honest(inbox')
  PROVE  KnownStep
<1>1. fp \in [End -> ForeignPeer] /\ conn[e].att \in End
  BY DEF TypeInv, TypeOK, Connection
<1>2. SameObjects(fp, fp') /\ SameLinks(fp, fp')
  <2> DEFINE f == conn[e].att
  <2>1. \/ fp' = [fp EXCEPT ![f].out = x, ![f].in = y]
        \/ fp' = [fp EXCEPT ![f].in = x]
        \/ fp' = [fp EXCEPT ![f].integrated = x]
    OBVIOUS
  <2>2. f \in End
    BY <1>1
  <2> HIDE DEF f
  <2>3. CASE fp' = [fp EXCEPT ![f].out = x, ![f].in = y]
    BY <1>1, <2>2, <2>3 DEF SameObjects, SameLinks, ForeignPeer
  <2>4. CASE fp' = [fp EXCEPT ![f].in = x]
    BY <1>1, <2>2, <2>4, ObjectCalm
  <2>5. CASE fp' = [fp EXCEPT ![f].integrated = x]
    BY <1>1, <2>2, <2>5, ObjectCalm
  <2> QED BY <2>1, <2>3, <2>4, <2>5
<1> QED BY <1>2, ObjectsOnly

\* PROVE IDENTITY keeps the invariant.
LEMMA HandleProveIdentityKept ==
  ASSUME TypeInv, KnownInv, NEW e \in End, HandleProveIdentity(e)
  PROVE  KnownStep
<1> DEFINE m == [type |-> "VERIFY IDENTITY"]
<1>1. m \in Message /\ m.type # "HELLO"
  BY MessagesMade
<1>2. inbox' = Send(Taken(e), e, <<m>>) /\ Honest(Taken(e))
  BY TakenHonest DEF HandleProveIdentity
<1> HIDE DEF m
<1>3. Honest(inbox')
  BY <1>1, <1>2, SingleQuiet, SendQuiet
<1> QED BY <1>3, OnlySent DEF HandleProveIdentity

\* SET CODE keeps the invariant.
LEMMA HandleSetCodeKept ==
  ASSUME TypeInv, KnownInv, NEW e \in End, HandleSetCode(e)
  PROVE  KnownStep
<1> DEFINE m == Head(inbox[e])
           layer == Len(m.code) - 1
           accept == [type |-> "GET CODE", code |-> m.code]
           ready == [type |-> "INTEGRATED"]
           last == IF HasAllPeers(layer) THEN <<ready>> ELSE << >>
<1>1. m \in Message /\ m.type = "SET CODE" /\ Honest(Taken(e))
  BY ReceivesAtPeer, TakenHonest DEF HandleSetCode
<1>2. accept \in Message /\ accept.type # "HELLO"
  BY <1>1, MessageFields, MessagesMade
<1>3. ready \in Message /\ ready.type # "HELLO"
  BY MessagesMade
<1>4. fp' = [fp EXCEPT ![conn[e].att].out = layer, ![conn[e].att].in = layer]
  BY DEF HandleSetCode, AtLayer
<1>5. inbox' = Send(Taken(e), e, <<accept>> \o last)
  BY DEF HandleSetCode
<1>6. Honest(inbox')
  <2>1. last = <<ready>> \/ last = << >>
    OBVIOUS
  <2> HIDE DEF accept, ready, last
  <2>2. << >> \in Seq(Message) /\ Naming(<< >>, conn[e].own)
    BY DEF Naming
  <2>3. last \in Seq(Message) /\ Naming(last, conn[e].own)
    BY <1>3, <2>1, <2>2, SingleNaming
  <2>4. <<accept>> \in Seq(Message) /\ Naming(<<accept>>, conn[e].own)
    BY <1>2, SingleNaming
  <2>5. /\ <<accept>> \o last \in Seq(Message)
        /\ Naming(<<accept>> \o last, conn[e].own)
    BY <2>3, <2>4, NamingBoth
  <2> QED BY <1>1, <1>5, <2>5, SendHonest
<1> QED BY <1>4, <1>6, AttachedUpdate DEF HandleSetCode

\* GET CODE keeps the invariant, taken or refused.
LEMMA GetCodeKept ==
  ASSUME TypeInv, KnownInv, NEW e \in End, HandleGetCode(e) \/ RefuseGetCode(e)
  PROVE  KnownStep
<1>1. Honest(Taken(e)) /\ inbox' = Taken(e)
  BY TakenHonest DEF HandleGetCode, RefuseGetCode
<1>2. CASE HandleGetCode(e)
  BY <1>1, <1>2, AttachedUpdate DEF HandleGetCode, AtLayer
<1>3. CASE RefuseGetCode(e)
  <2>1. SameConnections(conn, conn') /\ Freed
    BY <1>3, ConnectionCalm DEF RefuseGetCode
  <2>2. SameObjects(fp, fp') /\ SameLinks(fp, fp') /\ UNCHANGED known
    BY <1>3, Unmoved DEF RefuseGetCode
  <2> QED BY <1>1, <2>1, <2>2, EntriesKept, CalmKept DEF Calm
<1> QED BY <1>2, <1>3

\* INTRODUCE PEER of a peer that is connected.
LEMMA IntroduceConnectedKept ==
  ASSUME TypeInv, KnownInv, NEW e \in End, IntroduceConnected(e)
  PROVE  KnownStep
<1> DEFINE m == Head(inbox[e])
           f == known[conn[e].own][m.peer]
           told == [type |-> "CONNECT IN", layer |-> m.layer]
<1>1. /\ conn[e].own \in Peer /\ m \in Message /\ m.type = "INTRODUCE PEER"
      /\ Honest(Taken(e))
  BY ReceivesAtPeer, TakenHonest DEF IntroduceConnected
<1>2. m.peer \in Peer /\ m.layer \in Nat
  BY <1>1, MessageFields
<1>3. f \in End /\ fp \in [End -> ForeignPeer] /\ fp[f].conn \in End
  <2>1. KnownConnected(conn[e].own, m.peer)
    BY DEF IntroduceConnected
  <2>2. /\ known \in [Peer -> [Peer -> End \cup {None}]]
        /\ fp \in [End -> ForeignPeer]
    BY DEF TypeInv, TypeOK
  <2>3. f # None /\ f \in End
    BY <1>1, <1>2, <2>1, <2>2, ZenonT(30) DEF KnownConnected
  <2> QED BY <2>1, <2>2, <2>3 DEF KnownConnected, Connected, ForeignPeer
<1>4. told \in Message /\ told.type # "HELLO"
  BY <1>2, MessagesMade
<1>5. inbox' = Send(Taken(e), fp[f].conn, <<told>>) /\ fp' = [fp EXCEPT ![f].out = m.layer]
  BY DEF IntroduceConnected, WithOut
<1> HIDE DEF f, m, told
<1>6. Honest(inbox')
  BY <1>1, <1>3, <1>4, <1>5, SingleQuiet, SendQuiet
<1>7. SameObjects(fp, fp') /\ SameLinks(fp, fp')
  BY <1>3, <1>5, ObjectCalm
<1> QED BY <1>6, <1>7, ObjectsOnly DEF IntroduceConnected

\* CONNECT IN keeps the invariant.
LEMMA HandleConnectInKept ==
  ASSUME TypeInv, KnownInv, NEW e \in End, HandleConnectIn(e)
  PROVE  KnownStep
<1>1. Honest(inbox')
  BY TakenHonest DEF HandleConnectIn
<1> QED BY <1>1, AttachedUpdate DEF HandleConnectIn

\* INTEGRATED keeps the invariant.
LEMMA IntegratedKnown ==
  ASSUME TypeInv, KnownInv, NEW e \in End, HandleIntegrated(e)
  PROVE  KnownStep
<1>1. conn[e].own \in Peer /\ Honest(Taken(e))
  BY ReceivesAtPeer, TakenHonest DEF HandleIntegrated
<1>2. Honest(inbox')
  BY <1>1, RedistributeHonest DEF HandleIntegrated
<1> QED BY <1>2, AttachedUpdate DEF HandleIntegrated

\* The messages about blocks.
LEMMA BlockMessagesKept ==
  ASSUME TypeInv, KnownInv, NEW e \in End,
         \/ HandleStoreBlock(e) \/ RefuseStoreBlock(e) \/ HandleStoredBlock(e)
         \/ HandleLoadBlock(e) \/ HandleDeliverBlock(e)
  PROVE  KnownStep
<1> DEFINE m == Head(inbox[e])
           reply == [kind |-> "reply", end |-> e]
<1>1. reply \in LoadAction /\ reply \in Action
  BY DEF Action, LoadAction, ReplyAction
<1>2. CASE HandleStoreBlock(e)
  <2>1. /\ conn[e].own \in Peer /\ m.block \in Block /\ m.version \in Version
        /\ Honest(Taken(e))
    BY <1>2, ReceivesAtPeer, MessageFields, TakenHonest DEF HandleStoreBlock, Found
  <2>2. Store(conn[e].own, m.block, m.version, reply, Taken(e)) /\ UNCHANGED <<conn, known>>
    BY <1>2 DEF HandleStoreBlock
  <2> HIDE DEF reply, m
  <2> QED BY <1>1, <2>1, <2>2, StoreCalm, ObjectsOnly
<1>3. CASE HandleStoredBlock(e)
  BY <1>3, TakenHonest, OnlySent DEF HandleStoredBlock
<1>4. CASE HandleLoadBlock(e)
  <2>1. conn[e].own \in Peer /\ m.block \in Block /\ Honest(Taken(e))
    BY <1>4, ReceivesAtPeer, MessageFields, TakenHonest DEF HandleLoadBlock
  <2>2. Load(conn[e].own, m.block, reply, Taken(e)) /\ UNCHANGED <<fp, conn, known>>
    BY <1>4 DEF HandleLoadBlock
  <2> HIDE DEF reply, m
  <2> QED BY <1>1, <2>1, <2>2, LoadHonest, OnlySent
<1>5. CASE HandleDeliverBlock(e)
  BY <1>5, TakenHonest, OnlySent DEF HandleDeliverBlock
<1>6. CASE RefuseStoreBlock(e)
  <2>1. conn[e].status # "unused" /\ Honest(Taken(e)) /\ UNCHANGED known
    BY <1>6, TakenHonest DEF RefuseStoreBlock, Receives, IsOpen
  <2>2. CASE Close(e)
    BY <2>1, <2>2, CloseKept
  <2>3. CASE inbox' = Taken(e) /\ UNCHANGED <<conn, fp>>
    BY <2>1, <2>3, OnlySent
  <2> QED BY <1>6, <2>2, <2>3 DEF RefuseStoreBlock
<1> QED BY <1>2, <1>3, <1>4, <1>5, <1>6

\* What a running handler goes on with.
LEMMA RunKept ==
  ASSUME TypeInv, KnownInv, NEW p \in Peer, Run(p)
  PROVE  KnownStep
<1> DEFINE t == Head(todo[p])
<1>1. Honest(inbox)
  BY InboxHonest
<1>2. CASE RunStore(p)
  <2>1. t.block \in Block /\ t.version \in Version /\ t.action \in Action
    BY <1>2, RunsTask, TaskFields DEF RunStore, Action, LoadAction
  <2>2. Store(p, t.block, t.version, t.action, inbox) /\ UNCHANGED <<conn, known>>
    BY <1>2 DEF RunStore
  <2> HIDE DEF t
  <2> QED BY <1>1, <2>1, <2>2, StoreCalm, ObjectsOnly
<1>3. CASE RunAnswer(p)
  <2>1. t.block \in Block /\ t.success \in BOOLEAN /\ t.action \in Action
    BY <1>3, RunsTask, TaskFields DEF RunAnswer
  <2>2. Honest(inbox')
    BY <1>1, <1>3, <2>1, OutcomesHonest DEF RunAnswer
  <2> QED BY <1>3, <2>2, OnlySent DEF RunAnswer
<1>4. CASE RunDeliver(p)
  <2>1. t.block \in Block /\ t.found \in Found /\ t.action \in LoadAction
    BY <1>4, RunsTask, TaskFields DEF RunDeliver
  <2>2. Honest(inbox')
    BY <1>1, <1>4, <2>1, OutcomesHonest DEF RunDeliver
  <2> QED BY <1>4, <2>2, OnlySent DEF RunDeliver
<1>5. CASE RunNotRedistributed(p)
  BY <1>1, <1>5, OnlySent DEF RunNotRedistributed
<1>6. CASE RunRedistributed(p)
  <2>1. Erased(p, t.block) \in SUBSET stored[p]
    BY DEF Erased
  <2>2. Honest(inbox')
    BY <1>1, <1>6, <2>1, RedistributeHonest DEF RunRedistributed, RedistributeNext
  <2> QED BY <1>6, <2>2, OnlySent DEF RunRedistributed
<1>7. CASE RunIntroduce(p)
  <2> DEFINE peers == OutPeers(fp, known[p], t.layer)
  <2>1. t.end \in End /\ t.layer \in Nat
    BY <1>7, RunsTask, TaskFields DEF RunIntroduce
  <2>2. ASSUME NEW f \in peers
        PROVE  Introduced(f, t.layer) \in Seq(Message) /\ NoHello(Introduced(f, t.layer))
    <3> DEFINE m == [type |-> "INTRODUCE PEER", peer |-> fp[f].id, layer |-> t.layer]
    <3>1. fp[f].id \in Peer
      BY <2>2 DEF OutPeers, Entries, TypeInv, Identified
    <3>2. m \in Message /\ m.type # "HELLO"
      BY <2>1, <3>1, MessagesMade
    <3> QED BY <3>2, SingleQuiet DEF Introduced
  <2>3. inbox' = inbox \/ \E f \in peers : inbox' = Send(inbox, t.end, Introduced(f, t.layer))
    BY <1>7 DEF RunIntroduce
  <2> HIDE DEF peers, t
  <2>4. Honest(inbox')
    BY <1>1, <2>1, <2>2, <2>3, SendQuiet
  <2> QED BY <1>7, <2>4, OnlySent DEF RunIntroduce
<1> QED BY <1>2, <1>3, <1>4, <1>5, <1>6, <1>7 DEF Run, RunStore

\* Requests that are not about connections.
LEMMA ClientKept ==
  ASSUME TypeInv, KnownInv, NEW c \in Command, ClientStore(c) \/ ClientLoad(c)
  PROVE  KnownStep
<1>1. Honest(inbox)
  BY InboxHonest
<1>2. CASE ClientStore(c)
  BY <1>1, <1>2, OnlySent DEF ClientStore
<1>3. CASE ClientLoad(c)
  <2> DEFINE action == [kind |-> "client", file |-> c.id]
  <2>1. c.at \in Peer /\ c.block \in Block /\ action \in LoadAction
    BY <1>3, CommandFields DEF ClientLoad, LoadAction, ClientAction
  <2>2. Load(c.at, c.block, action, inbox)
    BY <1>3 DEF ClientLoad
  <2> HIDE DEF action
  <2>3. Honest(inbox')
    BY <1>1, <2>1, <2>2, LoadHonest
  <2> QED BY <1>3, <2>3, OnlySent DEF ClientLoad
<1> QED BY <1>2, <1>3

-----------------------------------------------------------------------------
\* HELLO gives an object its identity: one from the map has it already, and the
\* one that came with the connection is attached to no other end.
LEMMA HandleHelloKept ==
  ASSUME TypeInv, KnownInv, NEW e \in End, HandleHello(e)
  PROVE  KnownStep
<1> DEFINE p == conn[e].own
           m == Head(inbox[e])
           old == known[p][m.id]
           f == IF old = None THEN conn[e].att ELSE old
           id == m.id
<1>1. /\ p \in Peer /\ conn[e].att \in End /\ m \in Message /\ m.type = "HELLO"
      /\ conn[e].status = "open" /\ Honest(Taken(e)) /\ Other(e) \in End
  BY ReceivesAtPeer, TakenHonest, OtherEnd DEF HandleHello, Receives, IsOpen
<1>2. id \in Peer /\ id = conn[Other(e)].own
  BY <1>1, MessageFields, HelloHandled DEF HandleHello
<1>3. /\ fp \in [End -> ForeignPeer] /\ conn \in [End -> Connection]
      /\ known \in [Peer -> [Peer -> End \cup {None}]]
      /\ None \notin Peer
  BY ConstantsAssumption DEF TypeInv, TypeOK
<1>4. f \in End
  BY <1>1, <1>2, <1>3
<1>5. OwnedBy(e, p) /\ OwnedBy(f, p)
  <2>1. OwnedBy(e, p)
    BY <1>1 DEF OwnedBy, Used
  <2>2. CASE old = None
    BY <1>1, <2>1, <2>2 DEF KnownInv, OwnersRight, OwnedBy
  <2>3. CASE old # None
    <3>1. f = old /\ OwnersRight
      BY <2>3 DEF KnownInv
    <3>2. OwnedBy(old, p)
      <4> HIDE DEF p, m
      <4> QED BY <1>1, <1>2, <2>3, <3>1 DEF OwnersRight, OwnedBy
    <3> HIDE DEF f, old, p
    <3> QED BY <2>1, <3>1, <3>2
  <2> QED BY <2>1, <2>2, <2>3
\* What f was before: it was called so already, or it was new and is this end's.
<1>6. fp[f].id = id \/ (fp[f].id = None /\ f = e)
  <2>1. CASE old = None
    <3>1. f = conn[e].att
      BY <2>1
    <3> QED BY <1>1, <1>2, <3>1 DEF KnownInv, AttachedRight, IsOpen
  <2>2. CASE old # None
    BY <1>1, <1>2, <2>2 DEF KnownInv, KnownVerified
  <2> QED BY <2>1, <2>2
<1>7. /\ \A x \in End : /\ fp'[x].id = IF x = f THEN id ELSE fp[x].id
                        /\ fp'[x].verified = fp[x].verified
      /\ conn' = [conn EXCEPT ![e].att = f]
      /\ known' = known
  <2>1. fp' = Greeted(f, e, m) /\ conn' = [conn EXCEPT ![e].att = f] /\ known' = known
    BY DEF HandleHello
  <2> HIDE DEF f
  <2>2. fp[f] \in ForeignPeer
    BY <1>3, <1>4
  <2> QED BY <1>3, <1>4, <2>1, <2>2 DEF Greeted, ForeignPeer
\* The connection it has now: the one it had, or this one.
<1>8. \/ /\ f = conn[e].att
          /\ \A x \in End : fp'[x].conn = fp[x].conn
       \/ /\ fp[f].id = id
          /\ \A x \in End : fp'[x].conn = IF x = f THEN e ELSE fp[x].conn
  <2>1. fp' = Greeted(f, e, m) /\ fp[f] \in ForeignPeer
    BY <1>3, <1>4 DEF HandleHello
  <2>2. CASE old = None
    <3>1. f = conn[e].att /\ GreetedAt(f, e, m.id) = fp[f].conn
      BY <2>2 DEF GreetedAt
    <3> HIDE DEF f
    <3> QED BY <1>3, <1>4, <2>1, <3>1 DEF Greeted, ForeignPeer
  <2>3. CASE old # None
    <3>1. f = old /\ GreetedAt(f, e, m.id) = e
      BY <2>3 DEF GreetedAt
    <3>2. fp[f].id = id
      BY <1>1, <1>2, <2>3 DEF KnownInv, KnownVerified
    <3> HIDE DEF f
    <3> QED BY <1>3, <1>4, <2>1, <3>1, <3>2 DEF Greeted, ForeignPeer
  <2> QED BY <2>2, <2>3
<1>9. Honest(inbox')
  <2> DEFINE prove == [type |-> "PROVE IDENTITY"]
  <2>1. prove \in Message /\ prove.type # "HELLO"
    BY MessagesMade
  <2>2. inbox' = Send(Taken(e), e, <<prove>>)
    BY DEF HandleHello
  <2> HIDE DEF prove
  <2> QED BY <1>1, <2>1, <2>2, SingleQuiet, SendQuiet
<1> HIDE DEF p, m, old, f, id
<1>10. /\ \A x \in End : /\ conn'[x].own = conn[x].own
                        /\ conn'[x].status = conn[x].status
                        /\ conn'[x].att = IF x = e THEN f ELSE conn[x].att
      /\ \A x \in End : conn[x].att \in End /\ Other(x) \in End
  BY <1>3, <1>7, OtherEnd DEF Connection
<1>11. KnownVerified'
  <2> SUFFICES ASSUME NEW q \in Peer, NEW r \in Peer, known[q][r] # None
               PROVE  fp'[known[q][r]].id = r /\ fp'[known[q][r]].verified
    BY <1>7 DEF KnownVerified
  <2>1. known[q][r] \in End /\ fp[known[q][r]].id = r /\ fp[known[q][r]].verified
    BY <1>3 DEF KnownInv, KnownVerified
  <2> QED BY <1>3, <1>6, <1>7, <2>1
<1>12. HelloFrom(inbox)'
  BY <1>9, <1>10 DEF Honest, HelloFrom
<1>13. AttachedRight'
  <2> SUFFICES ASSUME NEW x \in End, conn[x].status = "open"
               PROVE  /\ fp'[conn'[x].att].id \in {None, conn[Other(x)].own}
                      /\ conn'[x].att # x => fp'[conn'[x].att].id # None
    BY <1>10 DEF AttachedRight, IsOpen
  <2>1. /\ fp[conn[x].att].id \in {None, conn[Other(x)].own}
        /\ conn[x].att # x => fp[conn[x].att].id # None
    BY DEF KnownInv, AttachedRight, IsOpen
  <2>2. CASE x = e
    BY <1>2, <1>3, <1>4, <1>7, <1>10, <2>2
  <2>3. CASE x # e /\ conn[x].att # f
    BY <1>7, <1>10, <2>1, <2>3
  <2>4. CASE x # e /\ conn[x].att = f
    <3>1. fp[f].id = id
      BY <1>6, <2>1, <2>4
    <3> QED BY <1>4, <1>7, <1>10, <2>1, <2>4, <3>1
  <2> QED BY <2>2, <2>3, <2>4
<1>14. UnusedEnds'
  <2> SUFFICES ASSUME NEW x \in End, conn[x].status = "unused"
               PROVE  /\ conn'[x].att = x /\ fp'[x].id = None /\ conn'[x].own = None
                      /\ x[2] = "out" => conn[Other(x)].status = "unused"
    BY <1>10 DEF UnusedEnds
  <2>1. /\ conn[x].att = x /\ fp[x].id = None /\ conn[x].own = None
        /\ x[2] = "out" => conn[Other(x)].status = "unused"
    BY DEF KnownInv, UnusedEnds
  <2>2. x # e
    BY <1>1
  <2>3. x # f
    BY <1>2, <1>3, <1>6, <2>1, <2>2
  <2> QED BY <1>7, <1>10, <2>1, <2>2, <2>3
<1>15. /\ \A x \in End : fp[x].conn # None => fp[x].conn \in End
       /\ \A x \in End : fp'[x].conn \in {fp[x].conn, e}
       /\ \A x \in End : fp'[x].conn # fp[x].conn => x = f
  BY <1>3, <1>8 DEF ForeignPeer
<1>16. OwnersRight'
  <2>1. ASSUME NEW x \in End, conn'[x].status # "unused"
        PROVE  /\ conn'[conn'[x].att].status # "unused"
               /\ conn'[conn'[x].att].own = conn'[x].own
    <3>1. CASE x = e
      BY <1>1, <1>4, <1>10, <1>5, <3>1 DEF OwnedBy, Used
    <3>2. CASE x # e
      BY <1>10, <2>1, <3>2 DEF KnownInv, OwnersRight, Used
    <3> QED BY <3>1, <3>2
  <2>2. ASSUME NEW x \in Peer, NEW y \in Peer, known'[x][y] # None
        PROVE  conn'[known'[x][y]].status # "unused" /\ conn'[known'[x][y]].own = x
    <3>1. known[x][y] \in End /\ known'[x][y] = known[x][y]
      BY <1>3, <1>7, <2>2
    <3> QED BY <1>10, <2>2, <3>1 DEF KnownInv, OwnersRight, Used
  <2>3. ASSUME NEW x \in End, fp'[x].conn # None
        PROVE  /\ conn'[x].status # "unused" /\ conn'[fp'[x].conn].status # "unused"
               /\ conn'[fp'[x].conn].own = conn'[x].own
    <3>1. CASE fp'[x].conn = fp[x].conn
      BY <1>10, <1>15, <2>3, <3>1 DEF KnownInv, OwnersRight, Used
    <3>2. CASE x = f /\ fp'[x].conn = e
      BY <1>1, <1>4, <1>10, <1>5, <3>2 DEF OwnedBy, Used
    <3> QED BY <1>15, <3>1, <3>2
  <2> QED BY <2>1, <2>2, <2>3 DEF OwnersRight, Used
<1>17. LinksRight'
  <2> SUFFICES ASSUME NEW x \in End, NEW y, y = fp'[x].conn, y # None
               PROVE  /\ fp'[x].id = None => y = x
                      /\ fp'[x].id # None => conn'[Other(y)].own \in {fp'[x].id, None}
                      /\ conn'[y].att = x =>
                           ~ (conn'[y].status # "open" /\ conn'[Other(y)].status # "unused")
    BY DEF LinksRight, LinkRight, Ended, IsOpen
  <2>1. y \in End /\ Other(y) \in End
    BY <1>1, <1>15, OtherEnd
  <2>2. CASE x = f /\ y = e
    <3>1. fp'[x].id = id /\ id # None
      BY <1>2, <1>3, <1>7, <2>2
    <3>2. conn'[Other(y)].own = id /\ conn'[y].status = "open"
      BY <1>1, <1>2, <1>10, <2>2
    <3> QED BY <3>1, <3>2
  <2>3. CASE y = fp[x].conn /\ ~ (x = f /\ y = e)
    <3>1. LinkRight(x, y)
      BY <2>3 DEF KnownInv, LinksRight
    <3>2. fp'[x].id = fp[x].id
      <4>1. CASE x # f
        BY <1>7, <4>1
      <4>2. CASE x = f /\ fp[f].id = None
        BY <1>2, <1>3, <1>6, <2>3, <3>1, <4>2 DEF LinkRight
      <4>3. CASE x = f /\ fp[f].id = id
        BY <1>7, <4>3
      <4> QED BY <1>6, <4>1, <4>2, <4>3
    <3>3. conn'[y].att = x => conn[y].att = x
      BY <1>10, <2>1, <2>3
    <3> QED BY <1>10, <2>1, <3>1, <3>2, <3>3 DEF LinkRight, Ended, IsOpen
  <2> QED BY <1>15, <2>2, <2>3
<1>18. OwnersKept
  BY <1>10 DEF OwnersKept, Used
<1> QED BY <1>11, <1>12, <1>13, <1>14, <1>16, <1>17, <1>18 DEF KnownInv, KnownStep

-----------------------------------------------------------------------------
\* Connecting: the object that is given to the connection is the one of a new
\* end or is called like the peer that is connected.
LEMMA ConnectHonest ==
  ASSUME TypeInv, KnownInv, Unused # {}, NEW box, Honest(box)
  PROVE  /\ NewPeer \in End /\ Other(NewPeer) \in End /\ Other(NewPeer) # NewPeer
         /\ \A x \in End : Other(x) = NewPeer <=> x = Other(NewPeer)
         /\ \A x \in End : Other(x) = Other(NewPeer) <=> x = NewPeer
         /\ conn[NewPeer].status = "unused"
         /\ conn[Other(NewPeer)].status = "unused"
         /\ \A x \in {NewPeer, Other(NewPeer)} : \A i \in DOMAIN box[x] :
               box[x][i].type # "HELLO"
<1>1. /\ NewPeer \in End /\ conn[NewPeer].status = "unused"
      /\ Other(NewPeer) \in End /\ Other(NewPeer) # NewPeer
  BY NewPeerIsUnused, OtherEnd
<1>2. NewPeer[2] = "out"
  BY DEF NewPeer
<1>3. conn[Other(NewPeer)].status = "unused"
  BY <1>1, <1>2 DEF KnownInv, UnusedEnds
<1>4. /\ \A x \in End : Other(x) = NewPeer <=> x = Other(NewPeer)
      /\ \A x \in End : Other(x) = Other(NewPeer) <=> x = NewPeer
  <2>1. \A x \in End : Other(x) \in End /\ Other(Other(x)) = x
    BY DEF End, Other
  <2> QED BY <1>1, <2>1
<1> QED BY <1>1, <1>3, <1>4 DEF Honest, HelloFrom

\* The ends of a new connection belong to the processes that make it, its object
\* is one of the process that connects, and it leads where the object says.
LEMMA NewLinks ==
  ASSUME TypeInv, KnownInv, Unused # {}, NEW p \in Peer, NEW q \in Peer, NEW f \in End,
         NEW here, NEW there, here = NewPeer, there = Other(NewPeer),
         f = here \/ (OwnedBy(f, p) /\ fp[f].id = q),
         conn'[here].own = p, conn'[here].att = f,
         \/ conn'[here].status = "closed" /\ conn'[there] = conn[there]
         \/ /\ conn'[here].status = "open" /\ conn'[there].status = "open"
            /\ conn'[there].own = q /\ conn'[there].att = there,
         \A x \in End \ {here, there} : conn'[x] = conn[x],
         fp'[f].conn = here,
         \A x \in End : \/ x = f
                        \/ fp'[x].conn \in {fp[x].conn, None}
                        \/ /\ x = there /\ fp'[x].conn = there
                           /\ conn'[there].status = "open",
         SameObjects(fp, fp'), UNCHANGED known
  PROVE  OwnersRight' /\ OwnersKept /\ LinksRight'
<1>1. /\ here \in End /\ there \in End /\ here # there
      /\ ~ Used(here) /\ ~ Used(there) /\ OwnersRight
      /\ \A x \in End : Other(x) = here <=> x = there
      /\ \A x \in End : Other(x) = there <=> x = here
  BY InboxHonest, ConnectHonest DEF Used, KnownInv
<1>2. /\ \A x \in End : conn[x].att \in End
      /\ known \in [Peer -> [Peer -> End \cup {None}]]
      /\ \A x \in End : fp[x].conn # None => fp[x].conn \in End
  BY DEF TypeInv, TypeOK, Connection, ForeignPeer
\* An end that was in use is neither of the two.
<1>3. \A x \in End : Used(x) => x \notin {here, there} /\ conn'[x] = conn[x]
  BY <1>1
<1>4. OwnersKept
  BY <1>3 DEF OwnersKept, Used
<1>5. conn'[f].status # "unused" /\ conn'[f].own = p
  BY <1>3, <1>1 DEF OwnedBy, Used
<1>6. ASSUME NEW x \in End, conn'[x].status # "unused"
      PROVE  /\ conn'[conn'[x].att].status # "unused"
             /\ conn'[conn'[x].att].own = conn'[x].own
  <2>1. CASE x = here
    BY <1>5, <2>1
  <2>2. CASE x = there
    <3>1. conn'[there].att = there
      BY <1>6, <1>1, <2>2 DEF Used
    <3> QED BY <1>6, <2>2, <3>1
  <2>3. CASE x \notin {here, there}
    <3>1. conn'[x] = conn[x] /\ Used(x)
      BY <1>6, <2>3 DEF Used
    <3>2. Used(conn[x].att) /\ conn[conn[x].att].own = conn[x].own
      BY <1>1, <3>1 DEF OwnersRight
    <3>3. conn'[conn[x].att] = conn[conn[x].att]
      BY <1>2, <1>3, <3>2
    <3> QED BY <3>1, <3>2, <3>3 DEF Used
  <2> QED BY <2>1, <2>2, <2>3
<1>7. ASSUME NEW x \in Peer, NEW y \in Peer, known'[x][y] # None
      PROVE  conn'[known'[x][y]].status # "unused" /\ conn'[known'[x][y]].own = x
  <2>1. known'[x][y] = known[x][y] /\ known[x][y] \in End
    BY <1>2, <1>7
  <2>2. Used(known[x][y]) /\ conn[known[x][y]].own = x
    BY <1>7, <1>1, <2>1 DEF OwnersRight
  <2> QED BY <1>3, <2>1, <2>2 DEF Used
<1>8. ASSUME NEW x \in End, fp'[x].conn # None
      PROVE  /\ conn'[x].status # "unused" /\ conn'[fp'[x].conn].status # "unused"
             /\ conn'[fp'[x].conn].own = conn'[x].own
  <2>1. CASE x = f
    BY <1>5, <2>1
  <2>2. CASE x # f /\ fp'[x].conn = fp[x].conn
    <3>1. /\ Used(x) /\ Used(fp[x].conn) /\ fp[x].conn \in End
          /\ conn[fp[x].conn].own = conn[x].own
      BY <1>2, <1>8, <1>1, <2>2 DEF OwnersRight
    <3> QED BY <1>3, <2>2, <3>1 DEF Used
  <2>3. CASE x = there /\ fp'[x].conn = there /\ conn'[there].status = "open"
    BY <2>3
  <2> QED BY <1>8, <2>1, <2>2, <2>3
<1>9. OwnersRight'
  BY <1>6, <1>7, <1>8 DEF OwnersRight, Used
<1>10. LinksRight'
  <2> SUFFICES ASSUME NEW x \in End, NEW y, y = fp'[x].conn, y # None
               PROVE  /\ fp'[x].id = None => y = x
                      /\ fp'[x].id # None => conn'[Other(y)].own \in {fp'[x].id, None}
                      /\ conn'[y].att = x =>
                           ~ (conn'[y].status # "open" /\ conn'[Other(y)].status # "unused")
    BY DEF LinksRight, LinkRight, Ended, IsOpen
  <2>1. /\ conn[there].own = None /\ conn[there].status = "unused"
        /\ fp'[here].id = None /\ fp'[there].id = None
        /\ fp'[x].id = fp[x].id
    BY <1>1 DEF KnownInv, UnusedEnds, Used, SameObjects
  <2>2. CASE x = f
    <3>1. y = here /\ Other(y) = there
      BY <1>1, <2>2
    <3>2. conn'[there].own \in {q, None}
      BY <2>1
    <3>3. ~ (conn'[here].status # "open" /\ conn'[there].status # "unused")
      BY <2>1
    <3>4. fp'[x].id = None => x = here
      BY <2>1, <2>2, ConstantsAssumption
    <3>5. fp'[x].id # None => fp'[x].id = q
      BY <2>1, <2>2
    <3> QED BY <3>1, <3>2, <3>3, <3>4, <3>5
  <2>3. CASE x # f /\ y = fp[x].conn
    <3>1. LinkRight(x, y) /\ Used(y) /\ y \in End
      BY <1>2, <1>1, <2>3 DEF KnownInv, LinksRight, OwnersRight
    <3>2. conn'[y] = conn[y] /\ conn'[Other(y)] = conn[Other(y)]
      BY <1>3, <1>1, <3>1, OtherEnd
    <3> QED BY <2>1, <3>1, <3>2 DEF LinkRight, Ended, IsOpen
  <2>4. CASE x = there /\ y = there /\ conn'[there].status = "open"
    BY <2>1, <2>4
  <2> QED BY <2>2, <2>3, <2>4
<1> QED BY <1>4, <1>9, <1>10

\* The objects and the maps are as calm steps leave them, the messages right.
LEMMA ConnectKept ==
  ASSUME TypeInv, KnownInv, NEW p \in Peer, NEW q \in Peer, NEW f \in End,
         f = NewPeer \/ (OwnedBy(f, p) /\ fp[f].id = q),
         NEW kind \in {"queued", "introduce", "?"},
         NEW objects \in [End -> ForeignPeer],
         SameObjects(fp, objects), SameLinks(fp, objects),
         NEW box, Honest(box),
         Connect(p, q, f, kind, objects, box), UNCHANGED known
  PROVE  KnownStep
<1> DEFINE here == NewPeer
           there == Other(NewPeer)
<1>1. Unused # {}
  BY DEF Connect, ConnectTo, HostUnknown, ConnectFails
<1>2. /\ here \in End /\ there \in End /\ there # here
      /\ \A x \in End : Other(x) = here <=> x = there
      /\ \A x \in End : Other(x) = there <=> x = here
      /\ conn[here].status = "unused" /\ conn[there].status = "unused"
      /\ \A x \in {here, there} : \A i \in DOMAIN box[x] : box[x][i].type # "HELLO"
  BY <1>1, ConnectHonest
<1>3. /\ fp \in [End -> ForeignPeer] /\ conn \in [End -> Connection]
      /\ box \in [End -> Seq(Message)] /\ None \notin Peer
      /\ \A x \in End : conn[x].att \in End /\ Other(x) \in End
  BY ConstantsAssumption, OtherEnd DEF TypeInv, TypeOK, Connection, Honest
<1>4. ASSUME HostUnknown(objects, box) PROVE KnownStep
  <2>1. /\ fp' = [objects EXCEPT ![here] = fp[here]]
        /\ inbox' = box /\ conn' = conn
    BY <1>4 DEF HostUnknown
  <2> HIDE DEF here
  <2>2. SameObjects(fp, fp') /\ SameLinks(fp, fp')
    BY <1>2, <2>1 DEF SameObjects, SameLinks
  <2> QED BY <2>1, <2>2, ObjectsOnly
\* Of the object f and those at the new ends only the connection is assigned.
<1>5. ASSUME ConnectTo(p, q, f, kind, objects, box) PROVE KnownStep
  <2>1. /\ conn' = [conn EXCEPT
             ![here] = [@ EXCEPT !.own = p, !.status = "open", !.att = f,
                                 !.introduced = TRUE],
             ![there] = [@ EXCEPT !.own = q, !.status = "open"]]
        /\ fp' = [objects EXCEPT ![f].conn = here, ![there].conn = there]
        /\ inbox' = [box EXCEPT
             ![there] = <<[type |-> "HELLO", id |-> p, kind |-> kind]>>]
    BY <1>5 DEF ConnectTo
  <2> HIDE DEF here, there
  <2>2. SameObjects(fp, fp')
    <3>1. objects[f] \in ForeignPeer /\ objects[there] \in ForeignPeer
      BY <1>2
    <3> QED BY <1>2, <2>1, <3>1 DEF SameObjects, ForeignPeer
  <2>3. /\ conn'[here].own = p /\ conn'[here].status = "open" /\ conn'[here].att = f
        /\ conn'[there].own = q /\ conn'[there].status = "open"
        /\ conn'[there].att = conn[there].att
        /\ \A x \in End \ {here, there} : conn'[x] = conn[x]
    BY <1>2, <1>3, <2>1, ZenonT(30) DEF Connection
  <2>4. HelloFrom(inbox)'
    <3> SUFFICES ASSUME NEW x \in End, NEW i \in DOMAIN inbox'[x],
                        inbox'[x][i].type = "HELLO"
                 PROVE  conn'[x].status # "unused" /\ inbox'[x][i].id = conn'[Other(x)].own
      BY DEF HelloFrom
    <3>1. CASE x = there
      <4>1. inbox'[x][i].id = p
        BY <1>2, <1>3, <2>1, <3>1
      <4>2. Other(x) = here
        BY <1>2, <3>1
      <4> QED BY <2>3, <3>1, <4>1, <4>2
    <3>2. CASE x # there
      <4>1. inbox'[x] = box[x]
        BY <1>2, <1>3, <2>1, <3>2
      <4>2. x # here
        BY <1>2, <4>1
      <4>3. conn[x].status # "unused" /\ box[x][i].id = conn[Other(x)].own
        BY <4>1 DEF Honest, HelloFrom
      <4>4. conn'[x] = conn[x] /\ conn'[Other(x)] = conn[Other(x)]
        BY <1>2, <1>3, <2>3, <3>2, <4>2
      <4> QED BY <4>1, <4>3, <4>4
    <3> QED BY <3>1, <3>2
  <2>5. AttachedRight'
    <3> SUFFICES ASSUME NEW x \in End, conn'[x].status = "open"
                 PROVE  /\ fp'[conn'[x].att].id \in {None, conn'[Other(x)].own}
                        /\ conn'[x].att # x => fp'[conn'[x].att].id # None
      BY DEF AttachedRight, IsOpen
    <3>1. CASE x = here
      <4>1. conn'[x].att = f /\ conn'[Other(x)].own = q
        BY <1>2, <2>3, <3>1
      <4>2. fp'[f].id = fp[f].id
        BY <2>2 DEF SameObjects
      <4>3. fp[here].id = None
        BY <1>2 DEF KnownInv, UnusedEnds
      <4> QED BY <1>3, <3>1, <4>1, <4>2, <4>3 DEF here
    <3>2. CASE x = there
      <4>1. conn[there].att = there /\ fp[there].id = None
        BY <1>2 DEF KnownInv, UnusedEnds
      <4> QED BY <1>2, <2>2, <2>3, <3>2, <4>1 DEF SameObjects
    <3>3. CASE x \notin {here, there}
      <4>1. conn'[x] = conn[x] /\ conn'[Other(x)] = conn[Other(x)]
        BY <1>2, <1>3, <2>3, <3>3
      <4>2. /\ fp[conn[x].att].id \in {None, conn[Other(x)].own}
            /\ conn[x].att # x => fp[conn[x].att].id # None
        BY <4>1 DEF KnownInv, AttachedRight, IsOpen
      <4>3. fp'[conn[x].att].id = fp[conn[x].att].id
        BY <1>3, <2>2 DEF SameObjects
      <4> QED BY <4>1, <4>2, <4>3
    <3> QED BY <3>1, <3>2, <3>3
  <2>6. UnusedEnds'
    <3> SUFFICES ASSUME NEW x \in End, conn'[x].status = "unused"
                 PROVE  /\ conn'[x].att = x /\ fp'[x].id = None /\ conn'[x].own = None
                        /\ x[2] = "out" => conn'[Other(x)].status = "unused"
      BY DEF UnusedEnds
    <3>1. x # here /\ x # there
      BY <2>3
    <3>2. conn'[x] = conn[x] /\ conn'[Other(x)] = conn[Other(x)]
      BY <1>2, <1>3, <2>3, <3>1
    <3> QED BY <2>2, <3>2 DEF KnownInv, UnusedEnds, SameObjects
  <2>7. KnownVerified'
    BY <2>2, VerifiedKept
  <2>8. OwnersRight' /\ OwnersKept /\ LinksRight'
    <3>1. conn[there].att = there
      BY <1>2 DEF KnownInv, UnusedEnds
    <3>2. fp'[f].conn = here /\ f # there
      <4>1. f # there
        BY <1>2, <1>3 DEF here, there, OwnedBy, Used
      <4> QED BY <1>2, <2>1, <4>1 DEF ForeignPeer
    <3>3. \A x \in End : \/ x = f
                         \/ fp'[x].conn \in {fp[x].conn, None}
                         \/ x = there /\ fp'[x].conn = there
      BY <1>2, <2>1 DEF SameLinks, ForeignPeer
    <3> QED BY <1>1, <2>2, <2>3, <3>1, <3>2, <3>3, NewLinks DEF here, there
  <2> QED BY <2>4, <2>5, <2>6, <2>7, <2>8 DEF KnownInv, KnownStep
<1>6. ASSUME ConnectFails(p, q, f, objects, box) PROVE KnownStep
  <2>1. /\ conn' = [conn EXCEPT ![here].own = p, ![here].status = "closed",
                                ![here].att = f]
        /\ fp' = [objects EXCEPT ![f].conn = here]
        /\ inbox' = box
    BY <1>6 DEF ConnectFails
  <2> HIDE DEF here, there
  <2>2. SameObjects(fp, fp')
    <3>1. objects[f] \in ForeignPeer
      OBVIOUS
    <3> QED BY <1>2, <2>1, <3>1 DEF SameObjects, ForeignPeer
  <2>3. /\ conn'[here].own = p /\ conn'[here].status = "closed" /\ conn'[here].att = f
        /\ \A x \in End \ {here} : conn'[x] = conn[x]
    BY <1>2, <1>3, <2>1 DEF Connection
  <2>4. HelloFrom(inbox)'
    <3> SUFFICES ASSUME NEW x \in End, NEW i \in DOMAIN box[x],
                        box[x][i].type = "HELLO"
                 PROVE  conn'[x].status # "unused" /\ box[x][i].id = conn'[Other(x)].own
      BY <2>1 DEF HelloFrom
    <3>1. x \notin {here, there}
      BY <1>2
    <3>2. conn'[x] = conn[x] /\ conn'[Other(x)] = conn[Other(x)]
      BY <1>2, <1>3, <2>3, <3>1
    <3> QED BY <3>2 DEF Honest, HelloFrom
  <2>5. AttachedRight'
    <3> SUFFICES ASSUME NEW x \in End, conn'[x].status = "open"
                 PROVE  /\ fp'[conn'[x].att].id \in {None, conn'[Other(x)].own}
                        /\ conn'[x].att # x => fp'[conn'[x].att].id # None
      BY DEF AttachedRight, IsOpen
    <3>1. x # here /\ x # there
      BY <1>2, <2>3
    <3>2. conn'[x] = conn[x] /\ conn'[Other(x)] = conn[Other(x)]
      BY <1>2, <1>3, <2>3, <3>1
    <3>3. /\ fp[conn[x].att].id \in {None, conn[Other(x)].own}
          /\ conn[x].att # x => fp[conn[x].att].id # None
      BY <3>2 DEF KnownInv, AttachedRight, IsOpen
    <3>4. fp'[conn[x].att].id = fp[conn[x].att].id
      BY <1>3, <2>2 DEF SameObjects
    <3> QED BY <3>2, <3>3, <3>4
  <2>6. UnusedEnds'
    <3> SUFFICES ASSUME NEW x \in End, conn'[x].status = "unused"
                 PROVE  /\ conn'[x].att = x /\ fp'[x].id = None /\ conn'[x].own = None
                        /\ x[2] = "out" => conn'[Other(x)].status = "unused"
      BY DEF UnusedEnds
    <3>1. x # here
      BY <2>3
    <3>2. conn'[x] = conn[x]
      BY <2>3, <3>1
    <3>3. x[2] = "out" => Other(x) # here
      BY DEF here, NewPeer, Other
    <3>4. x[2] = "out" => conn'[Other(x)] = conn[Other(x)]
      BY <1>3, <2>3, <3>3
    <3> QED BY <2>2, <3>2, <3>4 DEF KnownInv, UnusedEnds, SameObjects
  <2>7. KnownVerified'
    BY <2>2, VerifiedKept
  <2>8. OwnersRight' /\ OwnersKept /\ LinksRight'
    <3>1. conn'[there] = conn[there]
      BY <1>2, <2>3
    <3>2. fp'[f].conn = here
      BY <2>1 DEF ForeignPeer
    <3>3. \A x \in End : x = f \/ fp'[x].conn \in {fp[x].conn, None}
      BY <2>1 DEF SameLinks, ForeignPeer
    <3> QED BY <1>1, <2>2, <2>3, <3>1, <3>2, <3>3, NewLinks DEF here, there
  <2> QED BY <2>4, <2>5, <2>6, <2>7, <2>8 DEF KnownInv, KnownStep
<1> QED BY <1>4, <1>5, <1>6 DEF Connect

\* INTRODUCE PEER of another peer: it is called as the message says.
LEMMA IntroduceNewKept ==
  ASSUME TypeInv, KnownInv, NEW e \in End, IntroduceNew(e)
  PROVE  KnownStep
<1> DEFINE p == conn[e].own
           m == Head(inbox[e])
           old == known[p][m.peer]
           f == IF old = None THEN NewPeer ELSE old
<1>1. /\ p \in Peer /\ m \in Message /\ m.type = "INTRODUCE PEER"
      /\ Honest(Taken(e))
  BY ReceivesAtPeer, TakenHonest DEF IntroduceNew
<1>2. m.peer \in Peer /\ m.layer \in Layer
  BY <1>1, MessageFields DEF Layer
<1>3. Connect(p, m.peer, f, "introduce", WithOut(f, m.layer), Taken(e))
  BY DEF IntroduceNew
<1>4. f \in End /\ (f = NewPeer \/ (OwnedBy(f, p) /\ fp[f].id = m.peer))
  <2>1. CASE old = None
    <3>1. Unused # {}
      BY <1>3 DEF Connect, ConnectTo, HostUnknown, ConnectFails
    <3> QED BY <2>1, <3>1, NewPeerIsUnused
  <2>2. CASE old # None
    <3>1. known \in [Peer -> [Peer -> End \cup {None}]]
      BY DEF TypeInv, TypeOK
    <3>2. old \in End
      <4> HIDE DEF p, m
      <4> QED BY <1>1, <1>2, <2>2, <3>1
    <3>3. fp[old].id = m.peer
      BY <1>1, <1>2, <2>2 DEF KnownInv, KnownVerified
    <3>4. OwnedBy(old, p)
      <4> HIDE DEF p, m
      <4> QED BY <1>1, <1>2, <2>2 DEF KnownInv, OwnersRight, OwnedBy
    <3> QED BY <2>2, <3>2, <3>3, <3>4
  <2> QED BY <2>1, <2>2
<1>5. UNCHANGED known
  BY DEF IntroduceNew
<1> HIDE DEF f, m, p, old
<1>6. WithOut(f, m.layer) \in [End -> ForeignPeer]
  BY <1>2, <1>4, WithOutType
<1>7. /\ SameObjects(fp, WithOut(f, m.layer))
      /\ SameLinks(fp, WithOut(f, m.layer))
  <2>1. fp \in [End -> ForeignPeer]
    BY DEF TypeInv, TypeOK
  <2> QED BY <1>4, <2>1, ObjectCalm DEF WithOut
<1> QED BY <1>1, <1>2, <1>3, <1>4, <1>5, <1>6, <1>7, ConnectKept

\* CONNECT PEER, by a client: the object is a new one.
LEMMA ClientConnectKept ==
  ASSUME TypeInv, KnownInv, NEW c \in Command, ClientConnect(c)
  PROVE  KnownStep
<1>1. c.at \in Peer /\ c.to \in Peer /\ Honest(inbox) /\ UNCHANGED known
  BY CommandFields, InboxHonest DEF ClientConnect
<1>2. CASE Connect(c.at, c.to, NewPeer, "queued", fp, inbox)
  <2>1. Unused # {}
    BY <1>2 DEF Connect, ConnectTo, HostUnknown, ConnectFails
  <2>2. /\ fp \in [End -> ForeignPeer] /\ NewPeer \in End
        /\ SameObjects(fp, fp) /\ SameLinks(fp, fp)
    BY <2>1, NewPeerIsUnused DEF TypeInv, TypeOK, SameObjects, SameLinks
  <2> QED BY <1>1, <1>2, <2>2, ConnectKept
<1>3. CASE UNCHANGED <<conn, fp, inbox, faults>>
  BY <1>1, <1>3, OnlySent
<1> QED BY <1>2, <1>3 DEF ClientConnect

-----------------------------------------------------------------------------
\* Every step of the network keeps the invariant.
LEMMA KnownNext == TypeInv /\ KnownInv /\ [Next]_vars => KnownInv' /\ OwnersKept
<1> SUFFICES ASSUME TypeInv, KnownInv, [Next]_vars PROVE KnownStep
  BY DEF KnownStep
<1>1. ASSUME NEW e \in End, Receive(e) PROVE KnownStep
  <2>1. ASSUME RefuseHello(e) \/ RefuseIdentity(e) PROVE KnownStep
    <3>1. conn[e].status # "unused" /\ Close(e) /\ UNCHANGED known
      BY <2>1 DEF RefuseHello, RefuseIdentity, Receives, IsOpen
    <3> QED BY <3>1, CloseKept
  <2> QED BY <1>1, <2>1, HandleHelloKept, HandleProveIdentityKept,
             HandleVerifyIdentityKept, HandleWelcomeKept, HandleSetCodeKept,
             GetCodeKept, IntroduceConnectedKept, IntroduceNewKept,
             HandleConnectInKept, IntegratedKnown, BlockMessagesKept
          DEF Receive
<1>2. ASSUME NEW e \in End, Fail(e) \/ Reset(e) PROVE KnownStep
  <2>1. ASSUME ReadError(e) \/ StuckError(e) \/ Reset(e) PROVE KnownStep
    <3>1. conn[e].status # "unused" /\ Close(e) /\ UNCHANGED known
      BY <2>1 DEF ReadError, StuckError, Reset, IsOpen, Unaffected
    <3> QED BY <3>1, CloseKept
  <2> QED BY <1>2, <2>1, WriteErrorKept DEF Fail
<1>3. ASSUME NEW p \in Peer, Run(p) PROVE KnownStep
  BY <1>3, RunKept
<1>4. ASSUME NEW c \in Command,
             ClientConnect(c) \/ ClientStore(c) \/ ClientLoad(c)
      PROVE  KnownStep
  BY <1>4, ClientConnectKept, ClientKept
<1>5. ASSUME Idle \/ UNCHANGED vars PROVE KnownStep
  BY <1>5, InboxHonest, OnlySent DEF Idle, vars
<1> QED BY <1>1, <1>2, <1>3, <1>4, <1>5 DEF Next

\* No connection is in use and nobody is known when the peers start.
LEMMA KnownInit == Init => KnownInv
<1> SUFFICES ASSUME Init PROVE KnownInv
  OBVIOUS
<1>1. KnownVerified
  BY DEF Init, KnownVerified
<1>2. HelloFrom(inbox)
  BY DEF Init, HelloFrom
<1>3. AttachedRight /\ UnusedEnds
  BY OtherEnd DEF Init, AttachedRight, UnusedEnds, IsOpen
<1>4. OwnersRight /\ LinksRight
  BY DEF Init, OwnersRight, LinksRight, Used
<1> QED BY <1>1, <1>2, <1>3, <1>4 DEF KnownInv

\* Whoever is in a map of foreign peers has proved the identity it is listed
\* under, and the connection it has is the process's own, leads to that peer and
\* has not ended, unless HELLO has attached it to another object since: whatever
\* connections fail, are closed or are made twice, and whichever object HELLO
\* finds for them.
THEOREM KnownCorrect == Spec => []KnownReached
<1>1. Init => TypeInv /\ KnownInv
  BY TypeInvInit, KnownInit
<1>2. TypeInv /\ KnownInv /\ [Next]_vars => (TypeInv /\ KnownInv)'
  BY TypeInvNext, KnownNext
<1>3. ASSUME TypeInv, KnownInv PROVE KnownReached
  <2> SUFFICES ASSUME NEW p \in Peer, NEW q \in Peer, NEW f, NEW e,
                      f = known[p][q], f # None, e = fp[f].conn
               PROVE  /\ fp[f].id = q /\ fp[f].verified
                      /\ e # None => /\ conn[e].own = p
                                     /\ conn[Other(e)].own \in {q, None}
                                     /\ conn[e].att = f => ~ Ended(e)
    BY DEF KnownReached, Connected
  <2>1. f \in End
    BY <1>3 DEF TypeInv, TypeOK
  <2>2. fp[f].id = q /\ fp[f].verified /\ conn[f].own = p
    BY <1>3 DEF KnownInv, KnownVerified, OwnersRight
  <2>3. q # None
    BY ConstantsAssumption
  <2>4. e # None => conn[e].own = p /\ LinkRight(f, e)
    BY <1>3, <2>1, <2>2 DEF KnownInv, OwnersRight, LinksRight
  <2> QED BY <2>2, <2>3, <2>4 DEF LinkRight
<1> QED BY <1>1, <1>2, <1>3, PTL DEF Spec

-----------------------------------------------------------------------------
(***************************************************************************)
(* A block that is being redistributed is kept until the answer.  The      *)
(* property is not inductive: the answers that do_store_actions has still  *)
(* to run delete a block as well.  What makes it so is that the actions    *)
(* have been taken out of storeActions before the first of them runs, and  *)
(* that they are all about one block, so that the redistribution of the    *)
(* next block, which one of them starts, is no matter of the others.       *)
(***************************************************************************)

\* The answer to a redistribution of b is awaited, or about to be run.
Awaited(p, b) ==
  \E i \in DOMAIN storeActions[p][b] : storeActions[p][b][i] = Redistribute

Answering(p, b) ==
  \E i \in DOMAIN todo[p] : todo[p][i].op = "answer" /\ todo[p][i].block = b

AwaitedKept == \A p \in Peer, b \in Block : Awaited(p, b) => b \in stored[p]

NoneLeft == \A p \in Peer, b \in Block : Answering(p, b) => ~ Awaited(p, b)

OneAnswered ==
  \A p \in Peer, b, c \in Block : Answering(p, b) /\ Answering(p, c) => b = c

KeptInv == AwaitedKept /\ NoneLeft /\ OneAnswered

-----------------------------------------------------------------------------
\* A step that adds nothing to what is awaited or answered, and deletes
\* nothing.
Fewer ==
  \A p \in Peer, b \in Block : /\ Awaited(p, b)' => Awaited(p, b)
                               /\ Answering(p, b)' => Answering(p, b)
                               /\ b \in stored[p] => b \in stored'[p]

\* Such a step keeps the invariant.
LEMMA FewerKept ==
  ASSUME KeptInv, Fewer
  PROVE  KeptInv'
BY DEF KeptInv, AwaitedKept, NoneLeft, OneAnswered, Fewer

\* Most handlers do not touch these variables at all.
LEMMA UntouchedFewer ==
  ASSUME UNCHANGED <<stored, storeActions, todo>>
  PROVE  Fewer
BY DEF Fewer, Awaited, Answering

\* What is awaited when an action has been added to a list.
LEMMA AppendAwaited ==
  ASSUME TypeInv, NEW p \in Peer, NEW b \in Block, NEW action \in Action,
         storeActions' = [storeActions EXCEPT ![p][b] = Append(@, action)],
         NEW q \in Peer, NEW c \in Block, Awaited(q, c)'
  PROVE  Awaited(q, c) \/ (q = p /\ c = b /\ action = Redistribute)
<1>1. storeActions \in [Peer -> [Block -> Seq(Action)]]
  BY DEF TypeInv, TypeOK
<1>2. PICK i \in DOMAIN storeActions'[q][c] : storeActions'[q][c][i] = Redistribute
  BY DEF Awaited
<1>3. CASE q = p /\ c = b
  <2>1. storeActions[p][b] \in Seq(Action)
    BY <1>1
  <2>2. storeActions'[q][c] = Append(storeActions[p][b], action)
    BY <1>1, <1>3
  <2>3. \/ i \in DOMAIN storeActions[p][b] /\ storeActions[p][b][i] = Redistribute
        \/ action = Redistribute
    BY <1>2, <2>1, <2>2
  <2> QED BY <1>3, <2>3 DEF Awaited
<1>4. CASE ~ (q = p /\ c = b)
  <2>1. storeActions'[q][c] = storeActions[q][c]
    BY <1>1, <1>4
  <2> QED BY <1>2, <2>1 DEF Awaited
<1> QED BY <1>3, <1>4

\* What is awaited after passing a block on.
LEMMA PassOnAwaited ==
  ASSUME TypeInv, NEW p \in Peer, NEW b \in Block, NEW v, NEW action \in Action,
         NEW box, PassOn(p, b, v, action, box),
         NEW q \in Peer, NEW c \in Block, Awaited(q, c)'
  PROVE  Awaited(q, c) \/ (q = p /\ c = b /\ action = Redistribute)
<1>1. CASE UNCHANGED storeActions
  BY <1>1 DEF Awaited
<1>2. CASE storeActions' = [storeActions EXCEPT ![p][b] = Append(@, action)]
  BY <1>2, AppendAwaited
<1> QED BY <1>1, <1>2 DEF PassOn

\* A handler that goes on has one task less.
LEMMA DoneAnswering ==
  ASSUME TypeInv, NEW p \in Peer, NEW op, Runs(p, op), todo' = Done(p),
         NEW q \in Peer, NEW b, Answering(q, b)'
  PROVE  Answering(q, b)
<1>1. todo \in [Peer -> Seq(Task)] /\ todo[p] # << >>
  BY DEF TypeInv, TypeOK, Runs
<1>2. PICK i \in DOMAIN todo'[q] : todo'[q][i].op = "answer" /\ todo'[q][i].block = b
  BY DEF Answering
<1>3. CASE q = p
  <2>1. todo'[p] = Tail(todo[p])
    BY <1>1 DEF Done
  <2>2. i + 1 \in DOMAIN todo[p] /\ todo'[p][i] = todo[p][i + 1]
    BY <1>1, <1>2, <1>3, <2>1
  <2> QED BY <1>2, <1>3, <2>2 DEF Answering
<1>4. CASE q # p
  <2>1. todo'[q] = todo[q]
    BY <1>1, <1>4 DEF Done
  <2> QED BY <1>2, <2>1 DEF Answering
<1> QED BY <1>3, <1>4

\* A process that is free has nothing to answer.
LEMMA FreeAnswersNothing ==
  ASSUME NEW p, todo[p] = << >>, NEW b
  PROVE  ~ Answering(p, b)
BY DEF Answering

-----------------------------------------------------------------------------
\* store() adds the actions of clients and of other peers, and deletes
\* nothing.
LEMMA StoreFewer ==
  ASSUME TypeInv, NEW p \in Peer, NEW b \in Block, NEW v,
         NEW action \in Action, action # Redistribute, NEW box,
         Store(p, b, v, action, box)
  PROVE  \A q \in Peer, c \in Block : /\ Awaited(q, c)' => Awaited(q, c)
                                      /\ c \in stored[q] => c \in stored'[q]
<1> SUFFICES ASSUME NEW q \in Peer, NEW c \in Block
             PROVE  /\ Awaited(q, c)' => Awaited(q, c)
                    /\ c \in stored[q] => c \in stored'[q]
  OBVIOUS
<1>1. stored \in [Peer -> SUBSET Block]
  BY DEF TypeInv, TypeOK
<1>2. CASE UNCHANGED <<stored, storeActions>>
  BY <1>2 DEF Awaited
<1>3. CASE stored' = [stored EXCEPT ![p] = @ \cup {b}] /\ UNCHANGED storeActions
  BY <1>1, <1>3 DEF Awaited
<1>4. CASE StorePassedOn(p, b, v, action, box)
  BY <1>4, PassOnAwaited DEF StorePassedOn
<1> QED BY <1>2, <1>3, <1>4 DEF Store, StoreIgnored, StoreSaved, StoreFailed, blockVars

\* STORE BLOCK: the action added is a reply.
LEMMA HandleStoreBlockKept ==
  ASSUME TypeInv, KeptInv, NEW e \in End, HandleStoreBlock(e)
  PROVE  KeptInv'
<1> DEFINE p == conn[e].own
           m == Head(inbox[e])
           reply == [kind |-> "reply", end |-> e]
<1>1. p \in Peer /\ m \in Message /\ m.type = "STORE BLOCK"
  BY ReceivesAtPeer DEF HandleStoreBlock
<1>2. m.block \in Block
  BY <1>1, MessageFields
<1>3. reply \in Action /\ reply # Redistribute
  BY DEF Action, LoadAction, ReplyAction, Redistribute
<1>4. Store(p, m.block, m.version, reply, Taken(e)) /\ todo' = todo
  BY DEF HandleStoreBlock
<1> HIDE DEF p, m, reply
<1>5. Fewer
  <2>1. \A q \in Peer, c \in Block : Answering(q, c)' => Answering(q, c)
    BY <1>4 DEF Answering
  <2> QED BY <1>1, <1>2, <1>3, <1>4, <2>1, StoreFewer DEF Fewer
<1> QED BY <1>5, FewerKept

\* store() for a client: the action added is the client's.
LEMMA RunStoreKept ==
  ASSUME TypeInv, KeptInv, NEW p \in Peer, RunStore(p)
  PROVE  KeptInv'
<1> DEFINE t == Head(todo[p])
<1>1. t \in Task /\ t.op = "store"
  BY RunsTask DEF RunStore
<1>2. t.block \in Block /\ t.action \in ClientAction
  BY <1>1, TaskFields
<1>3. t.action \in Action /\ t.action # Redistribute
  <2> HIDE DEF t
  <2> QED BY <1>2 DEF Action, LoadAction, ClientAction, Redistribute
<1>4. Store(p, t.block, t.version, t.action, inbox)
  BY DEF RunStore
<1>5. Fewer
  <2>1. \A q \in Peer, c \in Block : Answering(q, c)' => Answering(q, c)
    BY DoneAnswering DEF RunStore
  <2> HIDE DEF t
  <2> QED BY <1>2, <1>3, <1>4, <2>1, StoreFewer DEF Fewer
<1> QED BY <1>5, FewerKept

\* A handler that goes on and changes no list of actions.
LEMMA DoneFewer ==
  ASSUME TypeInv, NEW p \in Peer, NEW op, Runs(p, op), todo' = Done(p),
         UNCHANGED <<stored, storeActions>>
  PROVE  Fewer
<1>1. \A q \in Peer, c \in Block : Answering(q, c)' => Answering(q, c)
  BY DoneAnswering
<1> QED BY <1>1 DEF Fewer, Awaited

\* A free process begins a handler that answers nothing.
LEMMA BegunFewer ==
  ASSUME TypeInv, NEW p \in Peer, NEW tasks,
         todo' = [todo EXCEPT ![p] = tasks],
         \A i \in DOMAIN tasks : tasks[i].op # "answer",
         UNCHANGED <<stored, storeActions>>
  PROVE  Fewer
<1>1. ASSUME NEW q \in Peer, NEW c \in Block, Answering(q, c)'
      PROVE  Answering(q, c)
  <2>1. todo \in [Peer -> Seq(Task)]
    BY DEF TypeInv, TypeOK
  <2>2. PICK i \in DOMAIN todo'[q] : todo'[q][i].op = "answer" /\ todo'[q][i].block = c
    BY <1>1 DEF Answering
  <2>3. q # p
    BY <2>1, <2>2
  <2>4. todo'[q] = todo[q]
    BY <2>1, <2>3
  <2> QED BY <2>2, <2>4 DEF Answering
<1> QED BY <1>1 DEF Fewer, Awaited

\* GET CODE begins introductions only.
LEMMA HandleGetCodeKept ==
  ASSUME TypeInv, KeptInv, NEW e \in End, HandleGetCode(e)
  PROVE  KeptInv'
<1> DEFINE p == conn[e].own
           rounds == [i \in 1 .. Len(code[p]) |->
                        [op |-> "introduce", end |-> e, layer |-> i - 1]]
<1>1. p \in Peer
  BY ReceivesAtPeer DEF HandleGetCode
<1>2. todo' = [todo EXCEPT ![p] = rounds] /\ UNCHANGED <<stored, storeActions>>
  BY DEF HandleGetCode, blockVars
<1>3. \A i \in DOMAIN rounds : rounds[i].op # "answer"
  OBVIOUS
<1>4. Fewer
  <2> HIDE DEF p, rounds
  <2> QED BY <1>1, <1>2, <1>3, BegunFewer
<1> QED BY <1>4, FewerKept

\* STORE FILE begins calls of store() only.
LEMMA ClientStoreKept ==
  ASSUME TypeInv, KeptInv, NEW c \in Command, ClientStore(c)
  PROVE  KeptInv'
<1> DEFINE calls == [i \in 1 .. Len(c.file) |->
                       [op |-> "store", block |-> c.file[i],
                        version |-> c.version,
                        action |-> [kind |-> "client", file |-> c.id]]]
<1>1. c.at \in Peer
  BY CommandFields
<1>2. todo' = [todo EXCEPT ![c.at] = calls] /\ UNCHANGED <<stored, storeActions>>
  BY DEF ClientStore, blockVars
<1>3. \A i \in DOMAIN calls : calls[i].op # "answer"
  OBVIOUS
<1>4. Fewer
  <2> HIDE DEF calls
  <2> QED BY <1>1, <1>2, <1>3, BegunFewer
<1> QED BY <1>4, FewerKept

\* DELIVER BLOCK begins deliveries only.
LEMMA HandleDeliverBlockKept ==
  ASSUME TypeInv, KeptInv, NEW e \in End, HandleDeliverBlock(e)
  PROVE  KeptInv'
<1> DEFINE p == conn[e].own
           m == Head(inbox[e])
           asking == Asking(p, m.block)
           deliveries == [i \in 1 .. Len(asking) |->
                            [op |-> "deliver", block |-> m.block,
                             found |-> m.found, action |-> asking[i]]]
<1>1. p \in Peer
  BY ReceivesAtPeer DEF HandleDeliverBlock
<1>2. /\ todo' = [todo EXCEPT ![p] = deliveries]
      /\ UNCHANGED <<stored, storeActions>>
  BY DEF HandleDeliverBlock
<1>3. \A i \in DOMAIN deliveries : deliveries[i].op # "answer"
  OBVIOUS
<1>4. Fewer
  <2> HIDE DEF p, deliveries
  <2> QED BY <1>1, <1>2, <1>3, BegunFewer
<1> QED BY <1>4, FewerKept

-----------------------------------------------------------------------------
\* redistribute_block() sends a block that is still there.
LEMMA RedistributeBlockAwaited ==
  ASSUME TypeInv, NEW p \in Peer, NEW index \in SUBSET stored[p], NEW box,
         RedistributeBlock(p, index, box),
         NEW q \in Peer, NEW c \in Block, Awaited(q, c)'
  PROVE  Awaited(q, c) \/ (q = p /\ c \in index)
<1>1. CASE UNCHANGED storeActions
  BY <1>1 DEF Awaited
<1>2. ASSUME NEW b \in Misplaced(p, index), NEW v,
             PassOn(p, b, v, Redistribute, box)
      PROVE  Awaited(q, c) \/ (q = p /\ c \in index)
  <2>1. b \in index /\ b \in Block /\ Redistribute \in Action
    BY DEF Misplaced, Action, TypeInv, TypeOK
  <2> QED BY <1>2, <2>1, PassOnAwaited
<1> QED BY <1>1, <1>2 DEF RedistributeBlock

\* INTEGRATED: the process has nothing to answer, and what it sends it has.
LEMMA HandleIntegratedKept ==
  ASSUME TypeInv, KeptInv, NEW e \in End, HandleIntegrated(e)
  PROVE  KeptInv'
<1> DEFINE p == conn[e].own
<1>1. /\ p \in Peer /\ todo[p] = << >>
      /\ RedistributeBlock(p, stored[p], Taken(e))
      /\ UNCHANGED <<stored, todo>>
  BY ReceivesAtPeer DEF HandleIntegrated, Receives
<1> HIDE DEF p
<1>2. ASSUME NEW q \in Peer, NEW c \in Block, Awaited(q, c)'
      PROVE  Awaited(q, c) \/ (q = p /\ c \in stored[q])
  BY <1>1, <1>2, RedistributeBlockAwaited
<1>3. \A q \in Peer, c \in Block : Answering(q, c)' <=> Answering(q, c)
  BY <1>1 DEF Answering
<1>4. AwaitedKept'
  BY <1>1, <1>2 DEF AwaitedKept, KeptInv
<1>5. NoneLeft'
  BY <1>1, <1>2, <1>3, FreeAnswersNothing DEF NoneLeft, KeptInv
<1>6. OneAnswered'
  BY <1>3 DEF OneAnswered, KeptInv
<1> QED BY <1>4, <1>5, <1>6 DEF KeptInv

\* do_store_actions() takes out all actions for a block before it runs them.
LEMMA HandleStoredBlockKept ==
  ASSUME TypeInv, KeptInv, NEW e \in End, HandleStoredBlock(e)
  PROVE  KeptInv'
<1> DEFINE p == conn[e].own
           m == Head(inbox[e])
           b == m.block
           waiting == Waiting(p, b)
           answers == [i \in 1 .. Len(waiting) |->
                         [op |-> "answer", block |-> b,
                          success |-> m.success, action |-> waiting[i]]]
<1>1. p \in Peer /\ m \in Message /\ m.type = "STORED BLOCK"
  BY ReceivesAtPeer DEF HandleStoredBlock
<1>2. b \in Block
  BY <1>1, MessageFields
<1>3. /\ storeActions' = [storeActions EXCEPT ![p][b] = << >>]
      /\ todo' = [todo EXCEPT ![p] = answers]
      /\ stored' = stored
  BY DEF HandleStoredBlock, LeftWaiting
<1>4. \A i \in DOMAIN answers : answers[i].block = b
  OBVIOUS
<1>5. /\ storeActions \in [Peer -> [Block -> Seq(Action)]]
      /\ todo \in [Peer -> Seq(Task)]
  BY DEF TypeInv, TypeOK
<1> HIDE DEF p, b, answers
<1>6. ASSUME NEW q \in Peer, NEW c \in Block, Awaited(q, c)'
      PROVE  Awaited(q, c) /\ ~ (q = p /\ c = b)
  <2>1. PICK i \in DOMAIN storeActions'[q][c] : storeActions'[q][c][i] = Redistribute
    BY <1>6 DEF Awaited
  <2>2. ~ (q = p /\ c = b)
    BY <1>3, <1>5, <2>1
  <2>3. storeActions'[q][c] = storeActions[q][c]
    BY <1>3, <1>5, <2>2
  <2> QED BY <2>1, <2>2, <2>3 DEF Awaited
<1>7. ASSUME NEW q \in Peer, NEW c \in Block, Answering(q, c)'
      PROVE  IF q = p THEN c = b ELSE Answering(q, c)
  <2>1. PICK i \in DOMAIN todo'[q] : todo'[q][i].op = "answer" /\ todo'[q][i].block = c
    BY <1>7 DEF Answering
  <2>2. CASE q = p
    BY <1>3, <1>4, <1>5, <2>1, <2>2
  <2>3. CASE q # p
    <3>1. todo'[q] = todo[q]
      BY <1>3, <1>5, <2>3
    <3> QED BY <2>1, <2>3, <3>1 DEF Answering
  <2> QED BY <2>2, <2>3
<1>8. AwaitedKept'
  BY <1>3, <1>6 DEF AwaitedKept, KeptInv
<1>9. NoneLeft'
  BY <1>6, <1>7 DEF NoneLeft, KeptInv
<1>10. OneAnswered'
  BY <1>7 DEF OneAnswered, KeptInv
<1> QED BY <1>8, <1>9, <1>10 DEF KeptInv

\* The answer deletes a block no other answer is awaited for, and the next
\* redistribution is of another block.
LEMMA RunRedistributedKept ==
  ASSUME TypeInv, KeptInv, NEW p \in Peer, RunRedistributed(p)
  PROVE  KeptInv'
<1> DEFINE t == Head(todo[p])
           b == t.block
<1>1. t \in Task /\ t.op = "answer" /\ b \in Block
  BY RunsTask, TaskFields DEF RunRedistributed
<1>2. Answering(p, b)
  <2>1. todo[p] \in Seq(Task) /\ todo[p] # << >>
    BY DEF RunRedistributed, Runs, TypeInv, TypeOK
  <2>2. 1 \in DOMAIN todo[p] /\ todo[p][1] = t
    BY <2>1
  <2> QED BY <1>1, <2>2 DEF Answering
<1>3. /\ stored' = [stored EXCEPT ![p] = stored[p] \ {b}]
      /\ RedistributeBlock(p, stored[p] \ {b}, inbox)
  BY DEF RunRedistributed, Erased, RedistributeNext
<1>4. \A q \in Peer, c \in Block : Answering(q, c)' => Answering(q, c)
  BY DoneAnswering DEF RunRedistributed
<1>5. stored \in [Peer -> SUBSET Block]
  BY DEF TypeInv, TypeOK
<1> HIDE DEF b
<1>6. ASSUME NEW q \in Peer, NEW c \in Block, Awaited(q, c)'
      PROVE  Awaited(q, c) \/ (q = p /\ c \in stored[p] \ {b})
  <2>1. stored[p] \ {b} \in SUBSET stored[p]
    OBVIOUS
  <2> QED BY <1>3, <1>6, <2>1, RedistributeBlockAwaited
<1>7. ~ Awaited(p, b)
  BY <1>1, <1>2 DEF KeptInv, NoneLeft
<1>8. AwaitedKept'
  <2> SUFFICES ASSUME NEW q \in Peer, NEW c \in Block, Awaited(q, c)'
               PROVE  c \in stored'[q]
    BY DEF AwaitedKept
  <2>1. c \in stored[q] /\ ~ (q = p /\ c = b)
    BY <1>6, <1>7 DEF KeptInv, AwaitedKept
  <2> QED BY <1>3, <1>5, <2>1
<1>9. NoneLeft'
  <2> SUFFICES ASSUME NEW q \in Peer, NEW c \in Block,
                      Answering(q, c)', Awaited(q, c)'
               PROVE  FALSE
    BY DEF NoneLeft
  <2>1. Answering(q, c)
    BY <1>4
  <2>2. q = p /\ c # b
    BY <1>6, <2>1 DEF KeptInv, NoneLeft
  <2> QED BY <1>1, <1>2, <2>1, <2>2 DEF KeptInv, OneAnswered
<1>10. OneAnswered'
  BY <1>4 DEF KeptInv, OneAnswered
<1> QED BY <1>8, <1>9, <1>10 DEF KeptInv

-----------------------------------------------------------------------------
\* No other step touches the index, the actions or the running handlers,
\* but to go on with them.
LEMMA KeptNext == TypeInv /\ KeptInv /\ [Next]_vars => KeptInv'
<1> SUFFICES ASSUME TypeInv, KeptInv, [Next]_vars PROVE KeptInv'
  OBVIOUS
<1>1. ASSUME UNCHANGED <<stored, storeActions, todo>> PROVE KeptInv'
  BY <1>1, UntouchedFewer, FewerKept
<1>2. ASSUME NEW e \in End, Receive(e) PROVE KeptInv'
  <2>1. CASE \/ RefuseHello(e) \/ HandleHello(e) \/ HandleProveIdentity(e)
             \/ HandleVerifyIdentity(e) \/ RefuseIdentity(e) \/ HandleWelcome(e)
             \/ HandleSetCode(e)
    BY <1>1, <2>1 DEF RefuseHello, HandleHello, HandleProveIdentity,
       HandleVerifyIdentity, RefuseIdentity, HandleWelcome, HandleSetCode,
       blockVars
  <2>2. CASE \/ RefuseGetCode(e) \/ IntroduceConnected(e) \/ IntroduceNew(e)
             \/ HandleConnectIn(e) \/ RefuseStoreBlock(e) \/ HandleLoadBlock(e)
    BY <1>1, <2>2 DEF RefuseGetCode, IntroduceConnected, IntroduceNew,
       HandleConnectIn, RefuseStoreBlock, HandleLoadBlock, blockVars
  <2> QED BY <1>2, <2>1, <2>2, HandleGetCodeKept, HandleIntegratedKept,
             HandleStoreBlockKept, HandleStoredBlockKept,
             HandleDeliverBlockKept
          DEF Receive
<1>3. ASSUME NEW e \in End, Fail(e) \/ Reset(e) PROVE KeptInv'
  BY <1>1, <1>3 DEF Fail, ReadError, StuckError, WriteError, Reset, Unaffected,
                    blockVars
<1>4. ASSUME NEW p \in Peer, Run(p) PROVE KeptInv'
  <2>1. ASSUME \/ RunAnswer(p) \/ RunIntroduce(p) \/ RunNotRedistributed(p)
               \/ RunDeliver(p)
        PROVE  KeptInv'
    <3>1. \E op : Runs(p, op) /\ todo' = Done(p) /\ UNCHANGED <<stored, storeActions>>
      BY <2>1 DEF RunAnswer, RunIntroduce, RunNotRedistributed, RunDeliver,
                  blockVars
    <3> QED BY <3>1, DoneFewer, FewerKept
  <2> QED BY <1>4, <2>1, RunStoreKept, RunRedistributedKept DEF Run
<1>5. ASSUME NEW c \in Command,
             ClientConnect(c) \/ ClientStore(c) \/ ClientLoad(c)
      PROVE  KeptInv'
  BY <1>1, <1>5, ClientStoreKept DEF ClientConnect, ClientLoad, blockVars
<1>6. ASSUME Idle \/ UNCHANGED vars PROVE KeptInv'
  BY <1>1, <1>6 DEF Idle, vars, blockVars
<1> QED BY <1>2, <1>3, <1>4, <1>5, <1>6 DEF Next

\* Nothing is awaited or answered when the peers start.
LEMMA KeptInit == Init => KeptInv
BY DEF Init, KeptInv, AwaitedKept, NoneLeft, OneAnswered, Awaited, Answering

\* A mentor keeps every block it has sent to another peer until that peer
\* has answered, with any number of joiners, blocks, failures and parallel
\* chains of redistribution.
THEOREM KeptCorrect == Spec => []KeptUntilAnswered
<1>1. Init => TypeInv /\ KeptInv
  BY TypeInvInit, KeptInit
<1>2. TypeInv /\ KeptInv /\ [Next]_vars => (TypeInv /\ KeptInv)'
  BY TypeInvNext, KeptNext
<1>3. TypeInv /\ KeptInv => KeptUntilAnswered
  BY DEF KeptInv, AwaitedKept, Awaited, KeptUntilAnswered
<1> QED BY <1>1, <1>2, <1>3, PTL DEF Spec

-----------------------------------------------------------------------------
(***************************************************************************)
(* Every block has a peer whose code contains it, as long as SET CODE only *)
(* comes to peers without a code: neither failures, nor messages that are  *)
(* lost, nor a half that is handed out twice leave a block without one.    *)
(*                                                                         *)
(* A mentor gives its upper half up when GET CODE comes, of which it only  *)
(* checks the length.  So the invariant says of the codes on the way that  *)
(* they are a half of the mentor's code as it was or is, and of GET CODE   *)
(* that the half is taken: each of its blocks has a peer with a code at    *)
(* least that long.  This is more than that the joiner has the half, which *)
(* may have split it in the meantime, and rules out that the peers of two  *)
(* halves each take the other for the one which has them.                  *)
(***************************************************************************)

\* Blocks are saved by integrated peers only.
HoldersIntegrated == \A p \in Peer : stored[p] # {} => integrated[p]

\* The code c is the upper half of the code p has or once had.
HalfOf(p, c) ==
  /\ InPlace(p)
  /\ Len(c) \in 1 .. Len(code[p]) + 1
  /\ \A i \in 1 .. Len(c) - 1 : c[i] = code[p][i]
  /\ c[Len(c)] = 1

\* Whoever has this half, or has split it, is responsible for its blocks.
HalfTaken(c) ==
  \A b \in Block : Contains(c, b) =>
    \E q \in Peer : /\ InPlace(q) /\ Contains(code[q], b)
                    /\ Len(c) <= Len(code[q])

\* The messages about codes.
Offer(c) == [type |-> "SET CODE", code |-> c]
Accept(c) == [type |-> "GET CODE", code |-> c]

\* A code on the way to e with SET CODE is a half the peer at the other end may
\* give away, and one with GET CODE a half of the peer at e that is taken.
RightOffer(e, c) == \E p \in Peer : OwnedBy(Other(e), p) /\ HalfOf(p, c)

RightAnswer(e, c) == HalfTaken(c) /\ \E p \in Peer : OwnedBy(e, p) /\ HalfOf(p, c)

RightCode(e, m) ==
  \A c \in PeerCode :
    /\ m = Offer(c) => RightOffer(e, c)
    /\ m = Accept(c) => RightAnswer(e, c)

RightCodes(box) == \A e \in End : \A i \in DOMAIN box[e] : RightCode(e, box[e][i])

\* A peer that has a mentor got its code from it.
MentorsRight == \A p \in Peer : mentor[p] # None => code[p] # << >>

SplitInv ==
  /\ HoldersIntegrated /\ MentorsRight
  /\ RightCodes(inbox) /\ BlocksCovered

-----------------------------------------------------------------------------
\* Integrated peers stay so, and peers without a code do not become so.
IntegratedStay ==
  \A p \in Peer : /\ integrated[p] => integrated'[p]
                  /\ integrated'[p] /\ code[p] = << >> => integrated[p]

\* Peers that are in place stay there, with the codes they have.
PlacesKept ==
  \A p \in Peer : InPlace(p) => InPlace(p)' /\ code'[p] = code[p]

LEMMA PlacesStay ==
  ASSUME UNCHANGED code, IntegratedStay
  PROVE  PlacesKept
BY DEF PlacesKept, InPlace, IntegratedStay

\* Then what is right of the codes on the way stays so, and no block is left
\* without a peer.
LEMMA CoveredKept ==
  ASSUME PlacesKept, BlocksCovered
  PROVE  BlocksCovered'
<1> SUFFICES ASSUME NEW b \in Block
             PROVE  \E p \in Peer : InPlace(p)' /\ Contains(code'[p], b)
  BY DEF BlocksCovered
<1>1. PICK p \in Peer : InPlace(p) /\ Contains(code[p], b)
  BY DEF BlocksCovered
<1>2. InPlace(p)' /\ code'[p] = code[p]
  BY <1>1 DEF PlacesKept
<1> QED BY <1>1, <1>2

LEMMA CodesKept ==
  ASSUME TypeInv, PlacesKept, OwnersKept,
         NEW e \in End, NEW m, RightCode(e, m)
  PROVE  RightCode(e, m)'
<1>1. Other(e) \in End
  BY OtherEnd
<1>2. \A p : p \in Peer /\ InPlace(p) => InPlace(p)' /\ code'[p] = code[p]
  BY DEF PlacesKept
<1>3. ASSUME NEW x \in End, NEW p, OwnedBy(x, p) PROVE OwnedBy(x, p)'
  BY <1>3 DEF OwnedBy, Used, OwnersKept
<1>4. ASSUME NEW p \in Peer, NEW c, HalfOf(p, c) PROVE HalfOf(p, c)'
  BY <1>2, <1>4 DEF HalfOf
<1>5. ASSUME NEW c, HalfTaken(c) PROVE HalfTaken(c)'
  BY <1>2, <1>5 DEF HalfTaken
<1>6. ASSUME NEW x \in End, NEW c, \E p \in Peer : OwnedBy(x, p) /\ HalfOf(p, c)
      PROVE  (\E p \in Peer : OwnedBy(x, p) /\ HalfOf(p, c))'
  <2>1. PICK p \in Peer : OwnedBy(x, p) /\ HalfOf(p, c)
    BY <1>6
  <2>2. OwnedBy(x, p)' /\ HalfOf(p, c)'
    BY <1>3, <1>4, <2>1
  <2> QED BY <2>2
<1>7. ASSUME NEW c, RightOffer(e, c) PROVE RightOffer(e, c)'
  BY <1>1, <1>6, <1>7 DEF RightOffer
<1>8. ASSUME NEW c, RightAnswer(e, c) PROVE RightAnswer(e, c)'
  BY <1>5, <1>6, <1>8 DEF RightAnswer
<1> QED BY <1>7, <1>8 DEF RightCode

\* Messages that are not about codes.
NoCode(m) == \A c \in PeerCode : m # Offer(c) /\ m # Accept(c)
NoCodes(messages) == \A i \in DOMAIN messages : NoCode(messages[i])

CodeType == {"SET CODE", "GET CODE"}

\* The messages about codes are told apart by their types, which no others have.
LEMMA CodeTypes ==
  \A c : /\ Offer(c).type = "SET CODE" /\ Accept(c).type = "GET CODE"
         /\ Offer(c).type \in CodeType /\ Accept(c).type \in CodeType
<1>1. \A c : Offer(c).type = "SET CODE" /\ Accept(c).type = "GET CODE"
  BY DEF Offer, Accept
<1>2. "SET CODE" \in CodeType /\ "GET CODE" \in CodeType
  BY DEF CodeType
<1> QED BY <1>1, <1>2

LEMMA CodeFields ==
  \A c : Offer(c).code = c /\ Accept(c).code = c
BY DEF Offer, Accept

\* Those two types of messages have a code and nothing else.
LEMMA CodeOfType ==
  ASSUME NEW m \in Message
  PROVE  /\ m.type = "SET CODE" => m = Offer(m.code)
         /\ m.type = "GET CODE" => m = Accept(m.code)
<1>1. ASSUME NEW types, m \in [type : types, code : PeerCode]
      PROVE  m = [type |-> m.type, code |-> m.code]
  BY <1>1
<1>2. m.type \in CodeType => m \in [type : CodeType, code : PeerCode]
  BY DEF Message, CodeType
<1>3. m.type \in CodeType => m = [type |-> m.type, code |-> m.code]
  BY <1>1, <1>2
<1>4. m.type = "SET CODE" => m = Offer(m.code)
  BY <1>3 DEF CodeType, Offer
<1>5. m.type = "GET CODE" => m = Accept(m.code)
  BY <1>3 DEF CodeType, Accept
<1> QED BY <1>4, <1>5

LEMMA CodeMessages ==
  /\ \A c \in PeerCode : Offer(c) \in Message /\ Accept(c) \in Message
  /\ \A c, d : Offer(c) # Accept(d)
  /\ \A c, d : /\ Offer(c) = Offer(d) => c = d
               /\ Accept(c) = Accept(d) => c = d
  /\ \A m \in Message : m.type \notin CodeType => NoCode(m)
<1>1. \A c \in PeerCode : Offer(c) \in Message /\ Accept(c) \in Message
  BY MessagesMade DEF Offer, Accept
<1>2. ASSUME NEW c, NEW d, Offer(c) = Accept(d) PROVE FALSE
  <2>1. Offer(c).type = Accept(d).type
    BY <1>2
  <2>2. Offer(c).type = "SET CODE" /\ Accept(d).type = "GET CODE"
    BY CodeTypes
  <2> QED BY <2>1, <2>2
<1>3. \A c, d : /\ Offer(c) = Offer(d) => c = d
                /\ Accept(c) = Accept(d) => c = d
  BY CodeFields
<1>4. \A c : Offer(c).type \in CodeType /\ Accept(c).type \in CodeType
  BY CodeTypes
<1>5. \A m \in Message : m.type \notin CodeType => NoCode(m)
  BY <1>4 DEF NoCode
<1> QED BY <1>1, <1>2, <1>3, <1>5

\* A failed write is reported in a message that is not about codes.
LEMMA ErrorNoCode ==
  ASSUME NEW error, error = [type |-> "WRITE ERROR"]
  PROVE  error \in Message /\ NoCode(error)
<1>1. error \in Message
  BY MessagesMade
<1>2. error.type = "WRITE ERROR"
  OBVIOUS
<1>3. "WRITE ERROR" \notin CodeType
  BY DEF CodeType
<1>4. error.type \notin CodeType
  BY <1>2, <1>3
<1> HIDE DEF CodeType
<1> QED BY <1>1, <1>4, CodeMessages

\* A message on the way to e after a step: it was there before, or half of the
\* code of the peer at the other end is offered, or it is not about codes.
FromCode(e, m) ==
  \/ \E i \in DOMAIN inbox[e] : m = inbox[e][i]
  \/ \E p \in Peer : OwnedBy(Other(e), p) /\ InPlace(p) /\ m = Offer(Extend(code[p], 1))
  \/ NoCode(m)

FromCodes(box) == \A e \in End : \A i \in DOMAIN box[e] : FromCode(e, box[e][i])

\* Messages on the way that are none but those.
Lawful(box) == box \in [End -> Seq(Message)] /\ FromCodes(box)

LEMMA InboxLawful ==
  ASSUME TypeInv PROVE Lawful(inbox)
BY DEF TypeInv, TypeOK, Lawful, FromCodes, FromCode

\* So the codes on the way are right.
LEMMA HalfRight ==
  ASSUME TypeInv, NEW p \in Peer, InPlace(p), NEW e \in End, OwnedBy(Other(e), p)
  PROVE  /\ Extend(code[p], 1) \in PeerCode
         /\ RightCode(e, Offer(Extend(code[p], 1)))
<1> DEFINE c == Extend(code[p], 1)
<1>1. c \in PeerCode /\ code[p] \in Seq(Bit)
  BY DEF TypeInv, TypeOK, PeerCode, Bit, Extend
<1>2. /\ Len(c) = Len(code[p]) + 1 /\ c[Len(c)] = 1
      /\ \A i \in 1 .. Len(code[p]) : c[i] = code[p][i]
  BY <1>1 DEF Extend
<1>3. HalfOf(p, c)
  BY <1>1, <1>2 DEF HalfOf
<1> HIDE DEF c
<1>4. RightOffer(e, c)
  BY <1>3 DEF RightOffer
<1>5. RightCode(e, Offer(c))
  BY <1>1, <1>4, CodeMessages DEF RightCode
<1> QED BY <1>1, <1>5 DEF c

LEMMA FromCodesRight ==
  ASSUME TypeInv, SplitInv, NEW box, FromCodes(box)
  PROVE  RightCodes(box)
<1> SUFFICES ASSUME NEW e \in End, NEW i \in DOMAIN box[e], NEW m, m = box[e][i]
             PROVE  RightCode(e, m)
  BY DEF RightCodes
<1>1. FromCode(e, m)
  BY DEF FromCodes
<1>2. CASE \E j \in DOMAIN inbox[e] : m = inbox[e][j]
  BY <1>2 DEF SplitInv, RightCodes
<1>3. CASE \E p \in Peer : /\ OwnedBy(Other(e), p) /\ InPlace(p)
                          /\ m = Offer(Extend(code[p], 1))
  BY <1>3, HalfRight
<1>4. CASE NoCode(m)
  BY <1>4 DEF NoCode, RightCode
<1> QED BY <1>1, <1>2, <1>3, <1>4 DEF FromCode

\* A message after sending was there before, is sent, or reports an error.
LEMMA SendMessages ==
  ASSUME NEW box \in [End -> Seq(Message)], NEW e \in End,
         NEW messages \in Seq(Message), NEW x \in End,
         NEW i \in DOMAIN Send(box, e, messages)[x], NEW m,
         m = Send(box, e, messages)[x][i]
  PROVE  \/ \E j \in DOMAIN box[x] : m = box[x][j]
         \/ /\ x = Other(e) /\ IsOpen(e) /\ IsOpen(Other(e))
            /\ \E j \in DOMAIN messages : m = messages[j]
         \/ NoCode(m)
<1> DEFINE o == Other(e)
<1>1. o \in End
  BY OtherEnd
<1>2. CASE IsOpen(e) /\ IsOpen(Other(e))
  <2>1. Send(box, e, messages) = [box EXCEPT ![o] = box[o] \o messages]
    BY <1>2 DEF Send, IsOpen, o
  <2> HIDE DEF o
  <2>2. CASE x = o
    <3>1. Send(box, e, messages)[x] = box[o] \o messages
      BY <1>1, <2>1, <2>2
    <3>2. box[o] \in Seq(Message)
      BY <1>1
    <3>3. \/ i \in DOMAIN box[o] /\ m = box[o][i]
          \/ i - Len(box[o]) \in DOMAIN messages /\ m = messages[i - Len(box[o])]
      BY <3>1, <3>2
    <3> QED BY <1>2, <2>2, <3>3 DEF o
  <2>3. CASE x # o
    <3>1. Send(box, e, messages)[x] = box[x]
      BY <2>1, <2>3
    <3> QED BY <3>1
  <2> QED BY <2>2, <2>3
<1>3. CASE Send(box, e, messages) = [box EXCEPT ![e] = <<[type |-> "WRITE ERROR"]>>]
  <2> DEFINE error == [type |-> "WRITE ERROR"]
  <2>2. NoCode(error)
    BY ErrorNoCode
  <2>3. Send(box, e, messages) = [box EXCEPT ![e] = <<error>>]
    BY <1>3
  <2> HIDE DEF error
  <2>4. CASE x = e
    <3>1. Send(box, e, messages)[x] = <<error>>
      BY <2>3, <2>4
    <3> QED BY <2>2, <3>1
  <2>5. CASE x # e
    <3>1. Send(box, e, messages)[x] = box[x]
      BY <2>3, <2>5
    <3> QED BY <3>1
  <2> QED BY <2>4, <2>5
<1>4. CASE Send(box, e, messages) = box
  BY <1>4
<1> QED BY <1>2, <1>3, <1>4 DEF Send

\* Sending leaves the codes on the way lawful, if those that are sent are.
LEMMA SendLawful ==
  ASSUME NEW box, Lawful(box), NEW e \in End, NEW messages \in Seq(Message),
         IsOpen(e) => \A i \in DOMAIN messages : FromCode(Other(e), messages[i])
  PROVE  Lawful(Send(box, e, messages))
<1>1. box \in [End -> Seq(Message)] /\ FromCodes(box)
  BY DEF Lawful
<1>2. Send(box, e, messages) \in [End -> Seq(Message)]
  BY <1>1, SendType
<1>3. ASSUME NEW x \in End, NEW i \in DOMAIN Send(box, e, messages)[x]
      PROVE  FromCode(x, Send(box, e, messages)[x][i])
  <2> DEFINE m == Send(box, e, messages)[x][i]
  <2>1. NoCode(m) => FromCode(x, m)
    BY DEF FromCode
  <2>2. \/ \E j \in DOMAIN box[x] : m = box[x][j]
        \/ /\ x = Other(e) /\ IsOpen(e)
           /\ \E j \in DOMAIN messages : m = messages[j]
        \/ NoCode(m)
    BY <1>1, SendMessages
  <2> HIDE DEF m
  <2>3. FromCode(x, m)
    BY <1>1, <2>1, <2>2 DEF FromCodes
  <2> QED BY <2>3 DEF m
<1> QED BY <1>2, <1>3 DEF Lawful, FromCodes

\* Sending nothing about codes leaves them lawful.
LEMMA SendNoCodes ==
  ASSUME NEW box, Lawful(box), NEW e \in End, NEW messages \in Seq(Message),
         NoCodes(messages)
  PROVE  Lawful(Send(box, e, messages))
<1>1. \A x : \A i \in DOMAIN messages : FromCode(x, messages[i])
  BY DEF NoCodes, FromCode
<1> QED BY <1>1, SendLawful

\* One message that is not about a code.
LEMMA SingleNoCode ==
  ASSUME NEW m \in Message, m.type \notin CodeType
  PROVE  <<m>> \in Seq(Message) /\ NoCodes(<<m>>)
BY CodeMessages DEF NoCodes

\* Messages that come behind others.
LEMMA NoCodesBoth ==
  ASSUME NEW first \in Seq(Message), NEW second \in Seq(Message),
         NoCodes(first), NoCodes(second)
  PROVE  first \o second \in Seq(Message) /\ NoCodes(first \o second)
<1>1. ASSUME NEW i \in DOMAIN (first \o second)
      PROVE  NoCode((first \o second)[i])
  <2>1. CASE i \in DOMAIN first
    <3>1. (first \o second)[i] = first[i]
      BY <2>1
    <3> QED BY <2>1, <3>1 DEF NoCodes
  <2>2. CASE i \notin DOMAIN first
    <3>1. /\ i - Len(first) \in DOMAIN second
          /\ (first \o second)[i] = second[i - Len(first)]
      BY <2>2
    <3> QED BY <3>1 DEF NoCodes
  <2> QED BY <2>1, <2>2
<1> QED BY <1>1 DEF NoCodes

\* A peer that is in place may offer half of its code.
LEMMA SendOffer ==
  ASSUME TypeInv, NEW box, Lawful(box), NEW p \in Peer, InPlace(p),
         NEW e \in End, OwnedBy(e, p)
  PROVE  Lawful(Send(box, e, SetCode(p)))
<1> DEFINE c == Extend(code[p], 1)
<1>1. c \in PeerCode
  BY DEF TypeInv, TypeOK, PeerCode, Bit, Extend
<1>2. Other(Other(e)) = e
  BY DEF End, Other
<1>3. SetCode(p) = <<Offer(c)>>
  BY DEF SetCode, Offer
<1>4. FromCode(Other(e), Offer(c))
  BY <1>2 DEF FromCode
<1> HIDE DEF c
<1>5. <<Offer(c)>> \in Seq(Message)
  BY <1>1, CodeMessages, Single
<1>6. \A i \in DOMAIN <<Offer(c)>> : <<Offer(c)>>[i] = Offer(c)
  OBVIOUS
<1> QED BY <1>3, <1>4, <1>5, <1>6, SendLawful

\* What is left on the way when a message has been taken was there before.
LEMMA TakenFromCodes ==
  ASSUME TypeInv, NEW e \in End, NEW type, Receives(e, type)
  PROVE  /\ Taken(e) \in [End -> Seq(Message)] /\ FromCodes(Taken(e))
         /\ Head(inbox[e]) = inbox[e][1] /\ 1 \in DOMAIN inbox[e]
         /\ \A i \in DOMAIN inbox[e] :
              i # 1 => /\ i - 1 \in DOMAIN Taken(e)[e]
                       /\ Taken(e)[e][i - 1] = inbox[e][i]
         /\ \A i \in DOMAIN Taken(e)[e] :
              i + 1 \in DOMAIN inbox[e] /\ Taken(e)[e][i] = inbox[e][i + 1]
         /\ \A x \in End \ {e} : Taken(e)[x] = inbox[x]
<1>1. inbox \in [End -> Seq(Message)] /\ inbox[e] \in Seq(Message) /\ inbox[e] # << >>
  BY DEF TypeInv, TypeOK, Receives
<1>2. Taken(e) \in [End -> Seq(Message)]
  BY ReceivesAtPeer
<1>3. /\ Head(inbox[e]) = inbox[e][1] /\ 1 \in DOMAIN inbox[e]
      /\ \A i \in DOMAIN inbox[e] :
           i # 1 => /\ i - 1 \in DOMAIN Tail(inbox[e])
                    /\ Tail(inbox[e])[i - 1] = inbox[e][i]
      /\ \A i \in DOMAIN Tail(inbox[e]) :
           i + 1 \in DOMAIN inbox[e] /\ Tail(inbox[e])[i] = inbox[e][i + 1]
  BY <1>1
<1>4. /\ Taken(e)[e] = Tail(inbox[e])
      /\ \A x \in End \ {e} : Taken(e)[x] = inbox[x]
  BY <1>1 DEF Taken
<1>5. ASSUME NEW x \in End, NEW i \in DOMAIN Taken(e)[x]
      PROVE  \E j \in DOMAIN inbox[x] : Taken(e)[x][i] = inbox[x][j]
  <2>1. CASE x = e
    BY <1>3, <1>4, <2>1, ZenonT(30)
  <2>2. CASE x # e
    BY <1>4, <2>2
  <2> QED BY <2>1, <2>2
<1>6. FromCodes(Taken(e))
  BY <1>5 DEF FromCodes, FromCode
<1> QED BY <1>2, <1>3, <1>4, <1>6

LEMMA TakenLawful ==
  ASSUME TypeInv, NEW e \in End, NEW type, Receives(e, type)
  PROVE  Lawful(Taken(e))
BY TakenFromCodes DEF Lawful

-----------------------------------------------------------------------------
\* What is sent about blocks is not about codes.
LEMMA BlockMessagesNoCode ==
  ASSUME NEW b \in Block
  PROVE  /\ \A ok \in BOOLEAN :
              LET m == <<[type |-> "STORED BLOCK", block |-> b, success |-> ok]>>
              IN m \in Seq(Message) /\ NoCodes(m)
         /\ \A v \in Found :
              LET m == <<[type |-> "STORE BLOCK", block |-> b, version |-> v]>>
              IN m \in Seq(Message) /\ NoCodes(m)
         /\ LET m == <<[type |-> "LOAD BLOCK", block |-> b]>>
            IN m \in Seq(Message) /\ NoCodes(m)
         /\ \A v \in Found :
              LET m == <<[type |-> "DELIVER BLOCK", block |-> b, found |-> v]>>
              IN m \in Seq(Message) /\ NoCodes(m)
<1>1. {"STORED BLOCK", "STORE BLOCK", "LOAD BLOCK", "DELIVER BLOCK"} \cap CodeType = {}
  BY DEF CodeType
<1>2. ASSUME NEW ok \in BOOLEAN, NEW m,
             m = [type |-> "STORED BLOCK", block |-> b, success |-> ok]
      PROVE  <<m>> \in Seq(Message) /\ NoCodes(<<m>>)
  <2>1. m \in Message /\ m.type \notin CodeType
    BY <1>1, <1>2, MessagesMade
  <2> QED BY <2>1, SingleNoCode
<1>3. ASSUME NEW v \in Found, NEW m,
             m = [type |-> "STORE BLOCK", block |-> b, version |-> v]
      PROVE  <<m>> \in Seq(Message) /\ NoCodes(<<m>>)
  <2>1. m \in Message /\ m.type \notin CodeType
    BY <1>1, <1>3, MessagesMade
  <2> QED BY <2>1, SingleNoCode
<1>4. ASSUME NEW m, m = [type |-> "LOAD BLOCK", block |-> b]
      PROVE  <<m>> \in Seq(Message) /\ NoCodes(<<m>>)
  <2>1. m \in Message /\ m.type \notin CodeType
    BY <1>1, <1>4, MessagesMade
  <2> QED BY <2>1, SingleNoCode
<1>5. ASSUME NEW v \in Found, NEW m,
             m = [type |-> "DELIVER BLOCK", block |-> b, found |-> v]
      PROVE  <<m>> \in Seq(Message) /\ NoCodes(<<m>>)
  <2>1. m \in Message /\ m.type \notin CodeType
    BY <1>1, <1>5, MessagesMade
  <2> QED BY <2>1, SingleNoCode
<1> QED BY <1>2, <1>3, <1>4, <1>5

\* So the outcomes of store() and load() are not.
LEMMA OutcomesLawful ==
  ASSUME NEW box, Lawful(box), NEW b \in Block
  PROVE  /\ \A action \in Action, ok \in BOOLEAN :
              Lawful(Reply(box, b, action, ok))
         /\ \A action \in LoadAction, v \in Found :
              Lawful(Delivery(box, b, action, v))
<1>1. \A action \in Action : action.kind = "reply" => action.end \in End
  BY DEF Action, LoadAction, ClientAction, ReplyAction, Redistribute
<1>2. LoadAction \subseteq Action
  BY DEF Action
<1>3. ASSUME NEW action \in Action, NEW ok \in BOOLEAN
      PROVE  Lawful(Reply(box, b, action, ok))
  BY <1>1, BlockMessagesNoCode, SendNoCodes DEF Reply
<1>4. ASSUME NEW action \in LoadAction, NEW v \in Found
      PROVE  Lawful(Delivery(box, b, action, v))
  BY <1>1, <1>2, BlockMessagesNoCode, SendNoCodes DEF Delivery
<1> QED BY <1>3, <1>4

\* Passing a block on leaves the codes right.
LEMMA PassOnLawful ==
  ASSUME TypeInv, NEW p \in Peer, NEW b \in Block, NEW v \in Found,
         NEW action \in Action, NEW box, Lawful(box),
         PassOn(p, b, v, action, box)
  PROVE  Lawful(inbox')
<1> DEFINE peers == OutPeers(fp, known[p], DifferingLayer(code[p], b))
           store == <<[type |-> "STORE BLOCK", block |-> b, version |-> v]>>
<1>1. fp \in [End -> ForeignPeer] /\ known[p] \in [Peer -> End \cup {None}]
  BY DEF TypeInv, TypeOK
<1>2. \A f \in peers : fp[f].conn \in End
  BY <1>1, FoundPeers
<1>3. store \in Seq(Message) /\ NoCodes(store)
  BY BlockMessagesNoCode
<1>4. inbox' = box \/ \E f \in peers : inbox' = Send(box, fp[f].conn, store)
  BY DEF PassOn
<1> HIDE DEF peers, store
<1> QED BY <1>2, <1>3, <1>4, SendNoCodes

\* What is known of the objects in a map and their connections.
LEMMA KnownOwned ==
  ASSUME TypeInv, KnownInv, NEW p \in Peer, NEW f \in QueuedPeers(fp, known[p])
  PROVE  f \in End /\ fp[f].conn \in End /\ OwnedBy(fp[f].conn, p)
<1>1. fp \in [End -> ForeignPeer] /\ known[p] \in [Peer -> End \cup {None}]
  BY DEF TypeInv, TypeOK
<1>2. f \in End /\ fp[f].conn \in End
  BY <1>1, FoundPeers
<1>3. PICK q \in Peer : known[p][q] = f /\ f # None
  BY DEF QueuedPeers, Entries
<1>4. conn[f].own = p
  BY <1>3 DEF KnownInv, OwnersRight
<1>5. fp[f].conn # None
  BY DEF QueuedPeers, Connected
<1> QED BY <1>2, <1>4, <1>5 DEF KnownInv, OwnersRight, OwnedBy

\* An integrated peer that is full offers half of its code.
LEMMA SplitIfFullLawful ==
  ASSUME TypeInv, KnownInv, NEW p \in Peer, InPlace(p), NEW index,
         NEW box, Lawful(box), SplitIfFull(p, index, box)
  PROVE  Lawful(inbox')
<1>1. ASSUME NEW f \in QueuedPeers(fp, known[p])
      PROVE  Lawful(Send(box, fp[f].conn, SetCode(p)))
  BY KnownOwned, SendOffer
<1> QED BY <1>1 DEF SplitIfFull

\* Storing a block leaves the codes right, and integrated peers save it.
LEMMA StoreLawful ==
  ASSUME TypeInv, KnownInv, SplitInv,
         NEW p \in Peer, NEW b \in Block, NEW v \in Version,
         NEW action \in Action, NEW box, Lawful(box),
         Store(p, b, v, action, box)
  PROVE  Lawful(inbox') /\ \A q \in Peer : stored'[q] # {} => integrated[q]
<1>1. \A q \in Peer : stored[q] # {} => integrated[q]
  BY DEF SplitInv, HoldersIntegrated
<1>2. CASE StoreIgnored(p, box)
  BY <1>1, <1>2 DEF StoreIgnored, blockVars
<1>3. CASE StoreSaved(p, b, v, action, box)
  <2>1. integrated[p] /\ InPlace(p)
    BY <1>3 DEF StoreSaved, InPlace
  <2>2. /\ stored' = [stored EXCEPT ![p] = @ \cup {b}]
        /\ SplitIfFull(p, stored[p] \cup {b}, Reply(box, b, action, TRUE))
    BY <1>3 DEF StoreSaved
  <2>3. Lawful(Reply(box, b, action, TRUE))
    BY OutcomesLawful
  <2>4. Lawful(inbox')
    BY <2>1, <2>2, <2>3, SplitIfFullLawful
  <2>5. \A q \in Peer : stored'[q] # {} => integrated[q]
    BY <1>1, <2>1, <2>2 DEF TypeInv, TypeOK
  <2> QED BY <2>4, <2>5
<1>4. CASE StoreFailed(p, b, action, box)
  BY <1>1, <1>4, OutcomesLawful DEF StoreFailed, blockVars
<1>5. CASE StorePassedOn(p, b, v, action, box)
  BY <1>1, <1>5, PassOnLawful DEF StorePassedOn, Found
<1> QED BY <1>2, <1>3, <1>4, <1>5 DEF Store

\* Looking a block up leaves the codes right.
LEMMA LoadLawful ==
  ASSUME TypeInv, NEW p \in Peer, NEW b \in Block, NEW action \in LoadAction,
         NEW box, Lawful(box), Load(p, b, action, box)
  PROVE  Lawful(inbox')
<1> DEFINE peers == OutPeers(fp, known[p], DifferingLayer(code[p], b))
           ask == <<[type |-> "LOAD BLOCK", block |-> b]>>
<1>1. /\ fp \in [End -> ForeignPeer] /\ known[p] \in [Peer -> End \cup {None}]
      /\ disk[p][b] \in Found /\ NoData \in Found
  BY DEF TypeInv, TypeOK, Found
<1>2. CASE LoadIgnored(p, box)
  BY <1>2 DEF LoadIgnored
<1>3. CASE LoadHere(p, b, action, box) \/ LoadFailed(p, b, action, box)
  BY <1>1, <1>3, OutcomesLawful DEF LoadHere, LoadFailed
<1>4. CASE LoadPassedOn(p, b, action, box)
  <2>1. \A f \in peers : fp[f].conn \in End
    BY <1>1, FoundPeers
  <2>2. ask \in Seq(Message) /\ NoCodes(ask)
    BY BlockMessagesNoCode
  <2>3. inbox' = box \/ \E f \in peers : inbox' = Send(box, fp[f].conn, ask)
    BY <1>4 DEF LoadPassedOn
  <2> HIDE DEF peers, ask
  <2> QED BY <2>1, <2>2, <2>3, SendNoCodes
<1> QED BY <1>2, <1>3, <1>4 DEF Load

\* Handing over the blocks of the other half does so too.
LEMMA RedistributeLawful ==
  ASSUME TypeInv, NEW p \in Peer, NEW index \in SUBSET stored[p],
         NEW box, Lawful(box), RedistributeBlock(p, index, box)
  PROVE  Lawful(inbox')
<1>1. stored[p] \subseteq Block /\ disk \in [Peer -> [Block -> Found]]
  BY DEF TypeInv, TypeOK
<1>2. ASSUME NEW b \in Misplaced(p, index), NEW v \in {disk[p][b], NoData},
             PassOn(p, b, v, Redistribute, box)
      PROVE  Lawful(inbox')
  <2>1. b \in Block /\ v \in Found
    BY <1>1 DEF Misplaced, Found
  <2>2. Redistribute \in Action
    BY DEF Action
  <2> QED BY <1>2, <2>1, <2>2, PassOnLawful
<1> QED BY <1>2 DEF RedistributeBlock

-----------------------------------------------------------------------------
\* A peer over its capacity has blocks, so it is integrated.
LEMMA FullInPlace ==
  ASSUME TypeInv, HoldersIntegrated, NEW p \in Peer,
         Cardinality(stored[p]) > Capacity[p]
  PROVE  InPlace(p)
<1>1. Capacity[p] \in Nat
  BY ConstantsAssumption
<1>2. stored[p] # {}
  BY <1>1, FS_EmptySet
<1> QED BY <1>2 DEF HoldersIntegrated, InPlace

\* add_foreign_peer() sends CONNECT IN and INTEGRATED, or half of the code of a
\* peer that is full, and enters the object that is attached.
LEMMA AddForeignPeerLawful ==
  ASSUME TypeInv, KnownInv, SplitInv, NEW p \in Peer, NEW e \in End, OwnedBy(e, p),
         NEW objects \in [End -> ForeignPeer],
         \A f \in End : objects[f].conn = fp[f].conn,
         NEW box, Lawful(box), NEW last \in Seq(Message), NoCodes(last),
         AddForeignPeer(p, e, objects, box, last)
  PROVE  IntegratedStay /\ Lawful(inbox')
<1> DEFINE f == conn[e].att
           map == [known[p] EXCEPT ![objects[f].id] = f]
           out == Connected(objects, f) /\ objects[f].out # -1
<1>1. f \in End /\ objects[f] \in ForeignPeer
  BY DEF TypeInv, TypeOK, Connection
<1>2. mentor[p] \in End \cup {None} /\ integrated \in [Peer -> BOOLEAN]
  BY DEF TypeInv, TypeOK
<1>3. \/ integrated' = integrated
      \/ mentor[p] # None /\ integrated' = [integrated EXCEPT ![p] = TRUE]
  BY DEF AddForeignPeer, AddOutPeer, AddNewPeer, HasMentor
<1>4. IntegratedStay
  BY <1>2, <1>3 DEF IntegratedStay, SplitInv, MentorsRight
<1>5. \A x : Lawful(x) => Lawful(Send(x, e, last))
  BY SendNoCodes
<1>6. "CONNECT IN" \notin CodeType /\ "INTEGRATED" \notin CodeType
  BY DEF CodeType
<1>7. ASSUME out, AddOutPeer(p, f, e, objects, map, box, last)
       PROVE  Lawful(inbox')
  <2> DEFINE m == [type |-> "CONNECT IN", layer |-> objects[f].out]
             told == Send(box, objects[f].conn, <<m>>)
             done == Send(told, objects[mentor[p]].conn, <<[type |-> "INTEGRATED"]>>)
  <2>1. objects[f].conn \in End /\ objects[f].out \in Nat
    BY <1>1, <1>7 DEF Connected, ForeignPeer, Layer
  <2>2. m \in Message /\ m.type \notin CodeType
    BY <1>6, <2>1, MessagesMade
  <2>3. Lawful(told)
    <3> HIDE DEF m
    <3> QED BY <2>1, <2>2, SingleNoCode, SendNoCodes
  <2>4. HasMentor(p, objects) => Lawful(done)
    <3>1. HasMentor(p, objects) => objects[mentor[p]].conn \in End
      BY <1>2 DEF HasMentor, Connected, ForeignPeer
    <3>2. ASSUME NEW ready, ready = [type |-> "INTEGRATED"]
          PROVE  ready \in Message /\ ready.type \notin CodeType
      BY <1>6, <3>2, MessagesMade
    <3> HIDE DEF told
    <3> QED BY <2>3, <3>1, <3>2, SingleNoCode, SendNoCodes
  <2>5. \/ inbox' = told
        \/ inbox' = Send(told, e, last)
        \/ HasMentor(p, objects) /\ inbox' = Send(done, e, last)
    BY <1>7 DEF AddOutPeer
  <2> HIDE DEF told, done
  <2> QED BY <1>5, <2>3, <2>4, <2>5
<1>8. ASSUME Connected(objects, f), AddNewPeer(p, f, e, objects, box, last)
       PROVE  Lawful(inbox')
  <2>1. objects[f].conn \in End /\ objects[f].conn = fp[f].conn /\ fp[f].conn # None
    BY <1>1, <1>8 DEF Connected, ForeignPeer
  <2>2. OwnedBy(objects[f].conn, p)
    BY <1>1, <2>1 DEF KnownInv, OwnersRight, OwnedBy
  <2>3. TakesHalf(p, f, objects) => InPlace(p)
    BY FullInPlace DEF TakesHalf, SplitInv
  <2>4. TakesHalf(p, f, objects) => Lawful(Send(box, objects[f].conn, SetCode(p)))
    BY <2>1, <2>2, <2>3, SendOffer
  <2>5. \/ inbox' = Send(box, e, last)
        \/ /\ TakesHalf(p, f, objects)
           /\ inbox' = Send(Send(box, objects[f].conn, SetCode(p)), e, last)
    BY <1>8 DEF AddNewPeer
  <2> QED BY <1>5, <2>4, <2>5
<1>9. ASSUME inbox' = Send(box, e, last)
       PROVE  Lawful(inbox')
  BY <1>5, <1>9
<1>10. Lawful(inbox')
  <2>1. \/ out /\ AddOutPeer(p, f, e, objects, map, box, last)
        \/ Connected(objects, f) /\ AddNewPeer(p, f, e, objects, box, last)
        \/ inbox' = Send(box, e, last)
    BY DEF AddForeignPeer
  <2> HIDE DEF f, map, out
  <2> QED BY <1>7, <1>8, <1>9, <2>1
<1> QED BY <1>4, <1>10

\* A step that leaves the codes as they are, and nothing wrong on the way.
Steady ==
  /\ UNCHANGED code /\ IntegratedStay
  /\ HoldersIntegrated' /\ MentorsRight' /\ FromCodes(inbox')

LEMMA SplitKept ==
  ASSUME TypeInv, SplitInv, OwnersKept, Steady
  PROVE  SplitInv'
<1>1. RightCodes(inbox')
  BY FromCodesRight DEF Steady
<1>2. RightCodes(inbox)'
  BY <1>1, PlacesStay, CodesKept DEF RightCodes, Steady
<1>3. BlocksCovered'
  BY PlacesStay, CoveredKept DEF SplitInv, Steady
<1> QED BY <1>2, <1>3 DEF SplitInv, Steady

LEMMA LawfulSteady ==
  ASSUME SplitInv, UNCHANGED <<code, mentor>>, IntegratedStay,
         HoldersIntegrated', Lawful(inbox')
  PROVE  Steady
BY DEF SplitInv, MentorsRight, Lawful, Steady

\* A step which does not touch what peers and the index have either.
LEMMA LocalsSteady ==
  ASSUME SplitInv, UNCHANGED <<code, integrated, mentor, stored>>,
         FromCodes(inbox')
  PROVE  Steady
BY DEF IntegratedStay, SplitInv, HoldersIntegrated, MentorsRight, Steady

\* What is lost on the way leaves no wrong code there.
LEMMA ClearedFromCodes ==
  ASSUME TypeInv, NEW e \in End, inbox' = [inbox EXCEPT ![e] = << >>]
  PROVE  FromCodes(inbox')
<1>1. inbox \in [End -> Seq(Message)]
  BY DEF TypeInv, TypeOK
<1>2. \A x \in End : \A i \in DOMAIN inbox'[x] :
        i \in DOMAIN inbox[x] /\ inbox'[x][i] = inbox[x][i]
  BY <1>1
<1> QED BY <1>2 DEF FromCodes, FromCode

-----------------------------------------------------------------------------
\* A failure closes a connection, and so does a message that is refused.
LEMMA CloseCovers ==
  ASSUME TypeInv, SplitInv, NEW e \in End,
         \/ Fail(e) \/ Reset(e) \/ RefuseHello(e)
         \/ RefuseIdentity(e) \/ RefuseStoreBlock(e)
  PROVE  Steady
<1>1. UNCHANGED <<code, integrated, mentor, stored>>
  BY DEF Fail, ReadError, StuckError, WriteError, Reset, RefuseHello,
         RefuseIdentity, RefuseStoreBlock, Unaffected, localVars, blockVars
<1>2. FromCodes(inbox')
  <2>1. CASE inbox' = [inbox EXCEPT ![e] = << >>]
    BY <2>1, ClearedFromCodes
  <2>2. CASE Receives(e, "STORE BLOCK") /\ inbox' = Taken(e)
    BY <2>2, TakenFromCodes
  <2> QED BY <2>1, <2>2
       DEF Fail, ReadError, StuckError, WriteError, Reset, RefuseHello,
           RefuseIdentity, RefuseStoreBlock, Close
<1> QED BY <1>1, <1>2, LocalsSteady

\* The messages of the handshake are not about codes.
LEMMA HandshakeNoCode ==
  /\ \A type \in {"PROVE IDENTITY", "VERIFY IDENTITY", "WELCOME"} :
       [type |-> type] \in Message /\ NoCode([type |-> type])
  /\ \A p \in Peer, kind \in {"queued", "introduce", "?"} :
       LET hello == [type |-> "HELLO", id |-> p, kind |-> kind]
       IN hello \in Message /\ NoCode(hello)
<1>1. {"PROVE IDENTITY", "VERIFY IDENTITY", "WELCOME", "HELLO"} \cap CodeType = {}
  BY DEF CodeType
<1>2. ASSUME NEW type \in {"PROVE IDENTITY", "VERIFY IDENTITY", "WELCOME"},
             NEW m, m = [type |-> type]
      PROVE  m \in Message /\ NoCode(m)
  <2>1. m \in Message /\ m.type \notin CodeType
    BY <1>1, <1>2, MessagesMade
  <2> QED BY <2>1, CodeMessages
<1>3. ASSUME NEW p \in Peer, NEW kind \in {"queued", "introduce", "?"},
             NEW m, m = [type |-> "HELLO", id |-> p, kind |-> kind]
      PROVE  m \in Message /\ NoCode(m)
  <2>1. m \in Message /\ m.type \notin CodeType
    BY <1>1, <1>3, MessagesMade
  <2> QED BY <2>1, CodeMessages
<1> QED BY <1>2, <1>3

\* Whoever handles a message owns the end it came to.
LEMMA ReceivesOwned ==
  ASSUME NEW e \in End, NEW type, Receives(e, type)
  PROVE  OwnedBy(e, conn[e].own)
BY DEF Receives, IsOpen, OwnedBy, Used

\* HELLO is answered.
LEMMA HandleHelloCovers ==
  ASSUME TypeInv, SplitInv, NEW e \in End, HandleHello(e)
  PROVE  Steady
<1> DEFINE m == [type |-> "PROVE IDENTITY"]
<1>1. m \in Message /\ NoCode(m)
  BY HandshakeNoCode
<1>2. inbox' = Send(Taken(e), e, <<m>>) /\ Lawful(Taken(e))
  BY TakenLawful DEF HandleHello
<1>3. UNCHANGED <<code, integrated, mentor, stored>>
  BY DEF HandleHello, localVars, blockVars
<1> HIDE DEF m
<1>4. <<m>> \in Seq(Message) /\ NoCodes(<<m>>)
  BY <1>1 DEF NoCodes
<1>5. Lawful(inbox')
  BY <1>2, <1>4, SendNoCodes
<1> QED BY <1>3, <1>5, LocalsSteady DEF Lawful

\* PROVE IDENTITY is answered.
LEMMA HandleProveIdentityCovers ==
  ASSUME TypeInv, SplitInv, NEW e \in End, HandleProveIdentity(e)
  PROVE  Steady
<1> DEFINE m == [type |-> "VERIFY IDENTITY"]
<1>1. m \in Message /\ NoCode(m)
  BY HandshakeNoCode
<1>2. inbox' = Send(Taken(e), e, <<m>>) /\ Lawful(Taken(e))
  BY TakenLawful DEF HandleProveIdentity
<1>3. UNCHANGED <<code, integrated, mentor, stored>>
  BY DEF HandleProveIdentity, localVars, blockVars
<1> HIDE DEF m
<1>4. <<m>> \in Seq(Message) /\ NoCodes(<<m>>)
  BY <1>1 DEF NoCodes
<1>5. Lawful(inbox')
  BY <1>2, <1>4, SendNoCodes
<1> QED BY <1>3, <1>5, LocalsSteady DEF Lawful

\* The last step of a handshake, in which the peer may be added.
LEMMA VerifiedCovers ==
  ASSUME TypeInv, KnownInv, SplitInv, NEW e \in End, OwnedBy(e, conn[e].own),
         conn[e].own \in Peer,
         NEW objects \in [End -> ForeignPeer],
         \A f \in End : objects[f].conn = fp[f].conn,
         Lawful(Taken(e)), NEW last \in Seq(Message), NoCodes(last),
         \/ AddForeignPeer(conn[e].own, e, objects, Taken(e), last)
         \/ inbox' = Send(Taken(e), e, last) /\ UNCHANGED integrated,
         UNCHANGED <<code, mentor, stored>>
  PROVE  Steady
<1>1. IntegratedStay /\ Lawful(inbox')
  <2>1. CASE AddForeignPeer(conn[e].own, e, objects, Taken(e), last)
    BY <2>1, AddForeignPeerLawful
  <2>2. CASE inbox' = Send(Taken(e), e, last) /\ UNCHANGED integrated
    BY <2>2, SendNoCodes DEF IntegratedStay
  <2> QED BY <2>1, <2>2
<1>2. HoldersIntegrated'
  BY <1>1 DEF SplitInv, HoldersIntegrated, IntegratedStay
<1> QED BY <1>1, <1>2, LawfulSteady

\* VERIFY IDENTITY and WELCOME.
LEMMA HandleVerifyIdentityCovers ==
  ASSUME TypeInv, KnownInv, SplitInv, NEW e \in End, HandleVerifyIdentity(e)
  PROVE  Steady
<1> DEFINE p == conn[e].own
           f == conn[e].att
           objects == Verified(f)
           last == <<[type |-> "WELCOME"]>> \o Introduction(e)
<1>1. /\ p \in Peer /\ f \in End /\ fp \in [End -> ForeignPeer]
      /\ OwnedBy(e, p) /\ Lawful(Taken(e))
  BY ReceivesAtPeer, ReceivesOwned, TakenLawful DEF HandleVerifyIdentity, TypeInv, TypeOK
<1>2. /\ objects \in [End -> ForeignPeer]
      /\ \A x \in End : objects[x].conn = fp[x].conn
  <2> DEFINE o == [fp[f] EXCEPT !.verified = TRUE]
  <2>1. fp[f] \in ForeignPeer
    BY <1>1
  <2>2. o \in ForeignPeer /\ o.conn = fp[f].conn
    BY <2>1 DEF ForeignPeer
  <2>3. objects = [fp EXCEPT ![f] = o]
    BY <1>1 DEF Verified
  <2> HIDE DEF o, f, objects
  <2> QED BY <1>1, <2>2, <2>3
<1>3. last \in Seq(Message) /\ NoCodes(last)
  <2> DEFINE welcome == [type |-> "WELCOME"]
             hello == [type |-> "HELLO", id |-> p, kind |-> "?"]
  <2>1. /\ welcome \in Message /\ NoCode(welcome)
        /\ hello \in Message /\ NoCode(hello)
    BY <1>1, HandshakeNoCode
  <2>2. Introduction(e) = << >> \/ Introduction(e) = <<hello>>
    BY DEF Introduction
  <2> HIDE DEF welcome, hello
  <2>3. Introduction(e) \in Seq(Message) /\ NoCodes(Introduction(e))
    <3>1. << >> \in Seq(Message) /\ NoCodes(<< >>)
      BY DEF NoCodes
    <3>2. <<hello>> \in Seq(Message) /\ NoCodes(<<hello>>)
      BY <2>1 DEF NoCodes
    <3> QED BY <2>2, <3>1, <3>2
  <2>4. <<welcome>> \in Seq(Message) /\ NoCodes(<<welcome>>)
    BY <2>1 DEF NoCodes
  <2> QED BY <2>3, <2>4, NoCodesBoth DEF welcome
<1>4. /\ UNCHANGED <<code, mentor, stored>>
      /\ \/ AddForeignPeer(conn[e].own, e, objects, Taken(e), last)
         \/ inbox' = Send(Taken(e), e, last) /\ UNCHANGED integrated
  BY DEF HandleVerifyIdentity, blockVars
<1> HIDE DEF f, objects, last
<1> QED BY <1>1, <1>2, <1>3, <1>4, VerifiedCovers DEF p

LEMMA HandleWelcomeCovers ==
  ASSUME TypeInv, KnownInv, SplitInv, NEW e \in End, HandleWelcome(e)
  PROVE  Steady
<1>1. /\ conn[e].own \in Peer /\ fp \in [End -> ForeignPeer]
      /\ OwnedBy(e, conn[e].own) /\ Lawful(Taken(e))
  BY ReceivesAtPeer, ReceivesOwned, TakenLawful DEF HandleWelcome, TypeInv, TypeOK
<1>2. << >> \in Seq(Message) /\ NoCodes(<< >>)
  BY DEF NoCodes
<1>3. UNCHANGED <<code, mentor, stored>>
  BY DEF HandleWelcome, blockVars
<1>4. CASE AddForeignPeer(conn[e].own, e, fp, Taken(e), << >>)
  BY <1>1, <1>2, <1>3, <1>4, VerifiedCovers
<1>5. CASE inbox' = Taken(e) /\ UNCHANGED integrated
  BY <1>1, <1>3, <1>5, LocalsSteady DEF Lawful
<1> QED BY <1>4, <1>5 DEF HandleWelcome

-----------------------------------------------------------------------------
\* Connecting sends a HELLO at most.
LEMMA ConnectCovers ==
  ASSUME TypeInv, KnownInv, SplitInv, NEW p \in Peer, NEW q, NEW f,
         NEW kind \in {"queued", "introduce", "?"}, NEW objects,
         NEW box, Lawful(box), Connect(p, q, f, kind, objects, box),
         UNCHANGED <<code, integrated, mentor, stored>>
  PROVE  Steady
<1> DEFINE there == Other(NewPeer)
           hello == [type |-> "HELLO", id |-> p, kind |-> kind]
<1>1. Unused # {}
  BY DEF Connect, ConnectTo, HostUnknown, ConnectFails
<1>2. there \in End /\ box \in [End -> Seq(Message)]
  BY <1>1, NewPeerIsUnused, OtherEnd DEF Lawful
<1>3. hello \in Message /\ NoCode(hello)
  BY HandshakeNoCode
<1>4. inbox' = box \/ inbox' = [box EXCEPT ![there] = <<hello>>]
  BY DEF Connect, ConnectTo, HostUnknown, ConnectFails
<1> HIDE DEF there, hello
<1>5. FromCodes([box EXCEPT ![there] = <<hello>>])
  <2> DEFINE after == [box EXCEPT ![there] = <<hello>>]
  <2>1. \A x \in End : after[x] = IF x = there THEN <<hello>> ELSE box[x]
    BY <1>2
  <2>2. \A i \in DOMAIN <<hello>> : <<hello>>[i] = hello
    OBVIOUS
  <2>3. \A x : FromCode(x, hello)
    BY <1>3 DEF FromCode
  <2> HIDE DEF after
  <2>4. FromCodes(after)
    BY <2>1, <2>2, <2>3 DEF Lawful, FromCodes
  <2> QED BY <2>4 DEF after
<1>6. FromCodes(inbox')
  BY <1>4, <1>5 DEF Lawful
<1> QED BY <1>6, LocalsSteady

\* INTRODUCE PEER, of a peer that is connected or not.
LEMMA IntroduceConnectedCovers ==
  ASSUME TypeInv, SplitInv, NEW e \in End, IntroduceConnected(e)
  PROVE  Steady
<1> DEFINE m == Head(inbox[e])
           f == known[conn[e].own][m.peer]
           told == [type |-> "CONNECT IN", layer |-> m.layer]
<1>1. /\ conn[e].own \in Peer /\ m \in Message /\ m.type = "INTRODUCE PEER"
      /\ Lawful(Taken(e))
  BY ReceivesAtPeer, TakenLawful DEF IntroduceConnected
<1>2. m.peer \in Peer /\ m.layer \in Nat
  BY <1>1, MessageFields
<1>3. f # None /\ fp[f].conn # None
  BY DEF IntroduceConnected, KnownConnected, Connected
<1>4. f \in End
  <2>1. known \in [Peer -> [Peer -> End \cup {None}]]
    BY DEF TypeInv, TypeOK
  <2> QED BY <1>1, <1>2, <1>3, <2>1
<1>5. fp[f].conn \in End
  <2> HIDE DEF f
  <2> QED BY <1>3, <1>4 DEF TypeInv, TypeOK, ForeignPeer
<1>6. told \in Message /\ told.type \notin CodeType
  <2>1. "CONNECT IN" \notin CodeType
    BY DEF CodeType
  <2> QED BY <1>2, <2>1, MessagesMade
<1>7. inbox' = Send(Taken(e), fp[f].conn, <<told>>)
  BY DEF IntroduceConnected, WithOut
<1>8. UNCHANGED <<code, integrated, mentor, stored>>
  BY DEF IntroduceConnected, localVars, blockVars
<1> HIDE DEF f, m, told
<1>9. Lawful(inbox')
  BY <1>1, <1>5, <1>6, <1>7, SingleNoCode, SendNoCodes
<1> QED BY <1>8, <1>9, LocalsSteady DEF Lawful

LEMMA IntroduceNewCovers ==
  ASSUME TypeInv, KnownInv, SplitInv, NEW e \in End, IntroduceNew(e)
  PROVE  Steady
<1>1. conn[e].own \in Peer /\ Lawful(Taken(e))
  BY ReceivesAtPeer, TakenLawful DEF IntroduceNew
<1>2. \E q, f, objects :
        Connect(conn[e].own, q, f, "introduce", objects, Taken(e))
  BY DEF IntroduceNew
<1>3. UNCHANGED <<code, integrated, mentor, stored>>
  BY DEF IntroduceNew, localVars, blockVars
<1> QED BY <1>1, <1>2, <1>3, ConnectCovers

\* CONNECT PEER, by a client.
LEMMA ClientConnectCovers ==
  ASSUME TypeInv, KnownInv, SplitInv, NEW c \in Command, ClientConnect(c)
  PROVE  Steady
<1>1. /\ c.at \in Peer /\ Lawful(inbox)
      /\ UNCHANGED <<code, integrated, mentor, stored>>
  BY CommandFields, InboxLawful DEF ClientConnect, localVars, blockVars
<1>2. CASE Connect(c.at, c.to, NewPeer, "queued", fp, inbox)
  BY <1>1, <1>2, ConnectCovers
<1>3. CASE inbox' = inbox
  BY <1>1, <1>3, LocalsSteady DEF Lawful
<1> QED BY <1>2, <1>3 DEF ClientConnect

-----------------------------------------------------------------------------
\* The other messages that are not about codes.
LEMMA HandleConnectInCovers ==
  ASSUME TypeInv, SplitInv, NEW e \in End, HandleConnectIn(e)
  PROVE  Steady
<1>1. Lawful(Taken(e)) /\ inbox' = Taken(e)
  BY TakenLawful DEF HandleConnectIn
<1>2. UNCHANGED <<code, integrated, mentor, stored>>
  BY DEF HandleConnectIn, localVars, blockVars
<1> QED BY <1>1, <1>2, LocalsSteady DEF Lawful

LEMMA HandleIntegratedCovers ==
  ASSUME TypeInv, SplitInv, NEW e \in End, HandleIntegrated(e)
  PROVE  Steady
<1>1. conn[e].own \in Peer /\ Lawful(Taken(e))
  BY ReceivesAtPeer, TakenLawful DEF HandleIntegrated
<1>2. /\ RedistributeBlock(conn[e].own, stored[conn[e].own], Taken(e))
      /\ UNCHANGED <<code, integrated, mentor, stored>>
  BY DEF HandleIntegrated
<1>3. Lawful(inbox')
  BY <1>1, <1>2, RedistributeLawful
<1> QED BY <1>2, <1>3, LocalsSteady DEF Lawful

\* A block is stored, by an integrated peer.
LEMMA StoreCovers ==
  ASSUME TypeInv, KnownInv, SplitInv,
         NEW p \in Peer, NEW b \in Block, NEW v \in Version,
         NEW action \in Action, NEW box, Lawful(box),
         Store(p, b, v, action, box), UNCHANGED <<code, integrated, mentor>>
  PROVE  Steady
<1>1. Lawful(inbox') /\ HoldersIntegrated'
  BY StoreLawful DEF HoldersIntegrated
<1>2. IntegratedStay
  BY DEF IntegratedStay
<1> QED BY <1>1, <1>2, LawfulSteady

\* Nothing but messages, none of them about codes.
LEMMA SentCovers ==
  ASSUME SplitInv, Lawful(inbox'), UNCHANGED <<code, integrated, mentor, stored>>
  PROVE  Steady
BY LocalsSteady DEF Lawful

\* The messages about blocks.
LEMMA BlockMessagesCover ==
  ASSUME TypeInv, KnownInv, SplitInv, NEW e \in End,
         \/ HandleStoreBlock(e) \/ HandleStoredBlock(e)
         \/ HandleLoadBlock(e) \/ HandleDeliverBlock(e)
  PROVE  Steady
<1> DEFINE m == Head(inbox[e])
           reply == [kind |-> "reply", end |-> e]
<1>1. reply \in LoadAction /\ reply \in Action
  BY DEF Action, LoadAction, ReplyAction
<1>2. CASE HandleStoreBlock(e)
  <2>1. /\ conn[e].own \in Peer /\ m.block \in Block /\ m.version \in Version
        /\ Lawful(Taken(e))
    BY <1>2, ReceivesAtPeer, MessageFields, TakenLawful DEF HandleStoreBlock, Found
  <2>2. /\ Store(conn[e].own, m.block, m.version, reply, Taken(e))
        /\ UNCHANGED <<code, integrated, mentor>>
    BY <1>2 DEF HandleStoreBlock
  <2> HIDE DEF reply, m
  <2> QED BY <1>1, <2>1, <2>2, StoreCovers
<1>3. CASE HandleStoredBlock(e) \/ HandleDeliverBlock(e)
  <2>1. /\ inbox' = Taken(e) /\ Lawful(Taken(e))
        /\ UNCHANGED <<code, integrated, mentor, stored>>
    BY <1>3, TakenLawful DEF HandleStoredBlock, HandleDeliverBlock, localVars
  <2> QED BY <2>1, SentCovers
<1>4. CASE HandleLoadBlock(e)
  <2>1. conn[e].own \in Peer /\ m.block \in Block /\ Lawful(Taken(e))
    BY <1>4, ReceivesAtPeer, MessageFields, TakenLawful DEF HandleLoadBlock
  <2>2. /\ Load(conn[e].own, m.block, reply, Taken(e))
        /\ UNCHANGED <<code, integrated, mentor, stored>>
    BY <1>4 DEF HandleLoadBlock, localVars
  <2> HIDE DEF reply, m
  <2>3. Lawful(inbox')
    BY <1>1, <2>1, <2>2, LoadLawful
  <2> QED BY <2>2, <2>3, SentCovers
<1> QED BY <1>2, <1>3, <1>4

\* What a running handler goes on with.
LEMMA RunCovers ==
  ASSUME TypeInv, KnownInv, SplitInv, NEW p \in Peer, Run(p)
  PROVE  Steady
<1> DEFINE t == Head(todo[p])
<1>1. Lawful(inbox)
  BY InboxLawful
<1>2. CASE RunStore(p)
  <2>1. t.block \in Block /\ t.version \in Version /\ t.action \in Action
    BY <1>2, RunsTask, TaskFields DEF RunStore, Action, LoadAction
  <2>2. /\ Store(p, t.block, t.version, t.action, inbox)
        /\ UNCHANGED <<code, integrated, mentor>>
    BY <1>2 DEF RunStore
  <2> HIDE DEF t
  <2> QED BY <1>1, <2>1, <2>2, StoreCovers
<1>3. CASE RunAnswer(p)
  <2>1. t.block \in Block /\ t.success \in BOOLEAN /\ t.action \in Action
    BY <1>3, RunsTask, TaskFields DEF RunAnswer
  <2>2. Lawful(inbox')
    BY <1>1, <1>3, <2>1, OutcomesLawful DEF RunAnswer
  <2>3. UNCHANGED <<code, integrated, mentor, stored>>
    BY <1>3 DEF RunAnswer, localVars, blockVars
  <2> QED BY <2>2, <2>3, SentCovers
<1>4. CASE RunDeliver(p)
  <2>1. t.block \in Block /\ t.found \in Found /\ t.action \in LoadAction
    BY <1>4, RunsTask, TaskFields DEF RunDeliver
  <2>2. Lawful(inbox')
    BY <1>1, <1>4, <2>1, OutcomesLawful DEF RunDeliver
  <2>3. UNCHANGED <<code, integrated, mentor, stored>>
    BY <1>4 DEF RunDeliver, localVars, blockVars
  <2> QED BY <2>2, <2>3, SentCovers
<1>5. CASE RunNotRedistributed(p)
  <2>1. UNCHANGED <<code, integrated, mentor, stored, inbox>>
    BY <1>5 DEF RunNotRedistributed, localVars, blockVars
  <2> QED BY <1>1, <2>1, SentCovers
<1>6. CASE RunRedistributed(p)
  <2>1. Erased(p, t.block) \in SUBSET stored[p]
    BY DEF Erased
  <2>2. Lawful(inbox')
    BY <1>1, <1>6, <2>1, RedistributeLawful DEF RunRedistributed, RedistributeNext
  <2>3. /\ UNCHANGED <<code, integrated, mentor>>
        /\ stored' = [stored EXCEPT ![p] = Erased(p, t.block)]
    BY <1>6 DEF RunRedistributed
  <2>4. HoldersIntegrated'
    <3>1. \A q \in Peer : stored'[q] # {} => stored[q] # {}
      BY <2>1, <2>3 DEF TypeInv, TypeOK
    <3> QED BY <2>3, <3>1 DEF SplitInv, HoldersIntegrated
  <2>5. IntegratedStay
    BY <2>3 DEF IntegratedStay
  <2> QED BY <2>2, <2>3, <2>4, <2>5, LawfulSteady
<1>7. CASE RunIntroduce(p)
  <2> DEFINE peers == OutPeers(fp, known[p], t.layer)
  <2>1. t.end \in End /\ t.layer \in Nat
    BY <1>7, RunsTask, TaskFields DEF RunIntroduce
  <2>2. ASSUME NEW f \in peers
        PROVE  /\ Introduced(f, t.layer) \in Seq(Message)
               /\ NoCodes(Introduced(f, t.layer))
    <3> DEFINE m == [type |-> "INTRODUCE PEER", peer |-> fp[f].id, layer |-> t.layer]
    <3>1. fp[f].id \in Peer
      BY <2>2 DEF OutPeers, Entries, TypeInv, Identified
    <3>2. "INTRODUCE PEER" \notin CodeType
      BY DEF CodeType
    <3>3. m \in Message /\ m.type \notin CodeType
      BY <2>1, <3>1, <3>2, MessagesMade
    <3> QED BY <3>3, SingleNoCode DEF Introduced
  <2>3. inbox' = inbox \/ \E f \in peers : inbox' = Send(inbox, t.end, Introduced(f, t.layer))
    BY <1>7 DEF RunIntroduce
  <2>4. UNCHANGED <<code, integrated, mentor, stored>>
    BY <1>7 DEF RunIntroduce, localVars, blockVars
  <2> HIDE DEF peers, t
  <2>5. Lawful(inbox')
    BY <1>1, <2>1, <2>2, <2>3, SendNoCodes
  <2> QED BY <2>4, <2>5, SentCovers
<1> QED BY <1>2, <1>3, <1>4, <1>5, <1>6, <1>7 DEF Run

\* Requests that are not about connections.
LEMMA ClientCovers ==
  ASSUME TypeInv, SplitInv, NEW c \in Command, ClientStore(c) \/ ClientLoad(c)
  PROVE  Steady
<1>1. Lawful(inbox)
  BY InboxLawful
<1>2. CASE ClientStore(c)
  <2>1. UNCHANGED <<code, integrated, mentor, stored, inbox>>
    BY <1>2 DEF ClientStore, localVars, blockVars
  <2> QED BY <1>1, <2>1, SentCovers
<1>3. CASE ClientLoad(c)
  <2> DEFINE action == [kind |-> "client", file |-> c.id]
  <2>1. c.at \in Peer /\ c.block \in Block /\ action \in LoadAction
    BY <1>3, CommandFields DEF ClientLoad, LoadAction, ClientAction
  <2>2. /\ Load(c.at, c.block, action, inbox)
        /\ UNCHANGED <<code, integrated, mentor, stored>>
    BY <1>3 DEF ClientLoad, localVars
  <2> HIDE DEF action
  <2>3. Lawful(inbox')
    BY <1>1, <2>1, <2>2, LoadLawful
  <2> QED BY <2>2, <2>3, SentCovers
<1> QED BY <1>2, <1>3

-----------------------------------------------------------------------------
\* SET CODE at end e gives the peer p there the code c, and is answered.
TakingCode(e, p, c) ==
  /\ OwnedBy(e, p) /\ 1 \in DOMAIN inbox[e] /\ inbox[e][1] = Offer(c)
  /\ c # << >> /\ (~ InPlace(p) \/ code[p] = c)
  /\ code' = [code EXCEPT ![p] = c] /\ InPlace(p)'
  /\ \A q \in Peer \ {p} : InPlace(q)' <=> InPlace(q)
  /\ \A x \in End : \A i \in DOMAIN inbox'[x] :
       \/ \E j \in DOMAIN Taken(e)[x] : inbox'[x][i] = Taken(e)[x][j]
       \/ x = Other(e) /\ inbox'[x][i] = Accept(c)
       \/ NoCode(inbox'[x][i])

LEMMA HandleSetCodeTakes ==
  ASSUME TypeInv, SplitInv, OnlyFirstCodes, NEW e \in End, HandleSetCode(e)
  PROVE  /\ \E p \in Peer, c \in PeerCode : TakingCode(e, p, c)
         /\ Receives(e, "SET CODE")
         /\ UNCHANGED stored /\ MentorsRight'
         /\ \A q \in Peer : integrated[q] => integrated'[q]
<1> DEFINE f == conn[e].att
           m == Head(inbox[e])
           ready == [type |-> "INTEGRATED"]
           box == Taken(e)
<1>1. /\ conn[e].own \in Peer /\ f \in End /\ m \in Message /\ m.type = "SET CODE"
      /\ Receives(e, "SET CODE") /\ OwnedBy(e, conn[e].own)
  BY ReceivesAtPeer, ReceivesOwned DEF HandleSetCode
<1>2. PICK p \in Peer, c \in PeerCode :
        p = conn[e].own /\ c = m.code /\ m = Offer(c)
  BY <1>1, MessageFields, CodeOfType
<1> DEFINE layer == Len(c) - 1
           last == IF HasAllPeers(layer) THEN <<ready>> ELSE << >>
           answer == <<Accept(c)>> \o last
<1>3. /\ integrated \in [Peer -> BOOLEAN]
      /\ code \in [Peer -> PeerCode] /\ inbox[e] \in Seq(Message)
      /\ mentor \in [Peer -> End \cup {None}]
  BY DEF TypeInv, TypeOK
<1>4. 1 \in DOMAIN inbox[e] /\ inbox[e][1] = Offer(c) /\ box \in [End -> Seq(Message)]
  BY <1>1, <1>2, TakenFromCodes
<1>5. RightCode(e, Offer(c))
  BY <1>4 DEF SplitInv, RightCodes
<1>6. c # << >>
  BY <1>2, <1>5 DEF RightCode, RightOffer, HalfOf
<1>7. ~ InPlace(p) \/ code[p] = c
  BY <1>1, <1>2 DEF OnlyFirstCodes
<1>8. /\ code' = [code EXCEPT ![p] = c]
      /\ integrated' = [integrated EXCEPT ![p] = @ \/ HasAllPeers(layer)]
      /\ mentor' = [mentor EXCEPT ![p] = f]
      /\ inbox' = Send(box, e, answer)
      /\ UNCHANGED stored
  BY <1>2 DEF HandleSetCode, AtLayer, Accept, blockVars
<1> HIDE DEF f, m, layer, box
<1>9. InPlace(p)' /\ code'[p] = c
  BY <1>3, <1>6, <1>8 DEF InPlace
<1>10. \A q \in Peer \ {p} : InPlace(q)' <=> InPlace(q)
  BY <1>3, <1>8 DEF InPlace
<1>11. MentorsRight'
  <2>1. ASSUME NEW q \in Peer, q # p PROVE mentor'[q] = mentor[q] /\ code'[q] = code[q]
    BY <1>3, <1>8, <2>1
  <2> QED BY <1>6, <1>9, <2>1 DEF MentorsRight, SplitInv
<1>12. \A q \in Peer : integrated[q] => integrated'[q]
  BY <1>3, <1>8
<1>13. last \in Seq(Message) /\ NoCodes(last)
  <2>1. ready \in Message /\ ready.type \notin CodeType
    <3>1. "INTEGRATED" \notin CodeType
      BY DEF CodeType
    <3> QED BY <3>1, MessagesMade
  <2>2. last = <<ready>> \/ last = << >>
    OBVIOUS
  <2> HIDE DEF ready, last
  <2>3. << >> \in Seq(Message) /\ NoCodes(<< >>)
    BY DEF NoCodes
  <2> QED BY <2>1, <2>2, <2>3, SingleNoCode
<1>14. /\ answer \in Seq(Message)
       /\ \A i \in DOMAIN answer : answer[i] = Accept(c) \/ NoCode(answer[i])
  <2> DEFINE first == <<Accept(c)>>
  <2>1. first \in Seq(Message) /\ Len(first) = 1 /\ first[1] = Accept(c)
    BY <1>2, CodeMessages, Single
  <2> HIDE DEF first, last
  <2>2. answer = first \o last /\ answer \in Seq(Message)
    BY <1>13, <2>1 DEF first
  <2>3. ASSUME NEW i \in DOMAIN answer
        PROVE  answer[i] = Accept(c) \/ NoCode(answer[i])
    <3>1. CASE i = 1
      BY <1>13, <2>1, <2>2, <3>1
    <3>2. CASE i # 1
      <4>1. i - 1 \in DOMAIN last /\ answer[i] = last[i - 1]
        BY <1>13, <2>1, <2>2, <2>3, <3>2
      <4> QED BY <1>13, <4>1 DEF NoCodes
    <3> QED BY <3>1, <3>2
  <2> QED BY <2>2, <2>3
<1> HIDE DEF answer
<1>15. ASSUME NEW x \in End, NEW i \in DOMAIN inbox'[x]
       PROVE  \/ \E j \in DOMAIN box[x] : inbox'[x][i] = box[x][j]
              \/ x = Other(e) /\ inbox'[x][i] = Accept(c)
              \/ NoCode(inbox'[x][i])
  <2> DEFINE n == inbox'[x][i]
  <2>1. n = Send(box, e, answer)[x][i] /\ i \in DOMAIN Send(box, e, answer)[x]
    BY <1>8, <1>15
  <2> HIDE DEF n
  <2>2. \/ \E j \in DOMAIN box[x] : n = box[x][j]
        \/ x = Other(e) /\ \E j \in DOMAIN answer : n = answer[j]
        \/ NoCode(n)
    BY <1>4, <1>14, <2>1, SendMessages
  <2>3. \/ \E j \in DOMAIN box[x] : n = box[x][j]
        \/ x = Other(e) /\ n = Accept(c)
        \/ NoCode(n)
    BY <1>14, <2>2
  <2> QED BY <2>3 DEF n
<1>16. TakingCode(e, p, c)
  BY <1>1, <1>2, <1>4, <1>6, <1>7, <1>8, <1>9, <1>10, <1>15 DEF TakingCode, box
<1> QED BY <1>1, <1>8, <1>11, <1>12, <1>16

\* A code that is taken by a peer without one, or is the one it has.
LEMMA HandleSetCodeCovers ==
  ASSUME TypeInv, SplitInv, OwnersKept, OnlyFirstCodes, NEW e \in End, HandleSetCode(e)
  PROVE  SplitInv'
<1>1. PICK p \in Peer, c \in PeerCode : TakingCode(e, p, c)
  BY HandleSetCodeTakes
<1>2. code \in [Peer -> PeerCode]
  BY DEF TypeInv, TypeOK
<1>3. code'[p] = c /\ InPlace(p)' /\ \A q \in Peer \ {p} : code'[q] = code[q]
  BY <1>1, <1>2 DEF TakingCode
<1>4. RightCode(e, Offer(c))
  BY <1>1 DEF SplitInv, RightCodes, TakingCode
<1>5. PICK giver \in Peer : OwnedBy(Other(e), giver) /\ HalfOf(giver, c)
  BY <1>4 DEF RightCode, RightOffer
<1>6. PlacesKept
  <2> SUFFICES ASSUME NEW q \in Peer, InPlace(q)
               PROVE  InPlace(q)' /\ code'[q] = code[q]
    BY DEF PlacesKept
  <2>1. CASE q = p
    BY <1>1, <1>3, <2>1 DEF TakingCode
  <2>2. CASE q # p
    BY <1>1, <1>3, <2>2 DEF TakingCode
  <2> QED BY <2>1, <2>2
<1>7. MentorsRight' /\ HoldersIntegrated'
  BY HandleSetCodeTakes DEF SplitInv, HoldersIntegrated
<1>8. BlocksCovered'
  BY <1>6, CoveredKept DEF SplitInv
\* The answer says that the half is taken, which it is now.
<1>9. RightCode(Other(e), Accept(c))'
  <2>1. HalfTaken(c)'
    <3> SUFFICES ASSUME NEW b \in Block, Contains(c, b)
                 PROVE  \E q \in Peer : /\ InPlace(q)' /\ Contains(code'[q], b)
                                        /\ Len(c) <= Len(code'[q])
      BY DEF HalfTaken
    <3>1. Len(c) <= Len(c)
      BY DEF PeerCode
    <3> QED BY <1>3, <3>1
  <2>2. OwnedBy(Other(e), giver)'
    BY <1>5, OtherEnd DEF OwnedBy, Used, OwnersKept
  <2>3. HalfOf(giver, c)'
    BY <1>5, <1>6 DEF HalfOf, PlacesKept
  <2>4. RightAnswer(Other(e), c)'
    BY <2>1, <2>2, <2>3 DEF RightAnswer
  <2> QED BY <2>4, CodeMessages DEF RightCode
<1>10. RightCodes(inbox)'
  <2> SUFFICES ASSUME NEW x \in End, NEW i \in DOMAIN inbox'[x],
                      NEW n, n = inbox'[x][i]
               PROVE  RightCode(x, n)'
    BY DEF RightCodes
  <2>1. \/ \E j \in DOMAIN Taken(e)[x] : n = Taken(e)[x][j]
        \/ x = Other(e) /\ n = Accept(c)
        \/ NoCode(n)
    BY <1>1 DEF TakingCode
  <2>2. CASE \E j \in DOMAIN Taken(e)[x] : n = Taken(e)[x][j]
    <3>1. RightCodes(Taken(e))
      BY HandleSetCodeTakes, TakenFromCodes, FromCodesRight
    <3>2. RightCode(x, n)
      BY <2>2, <3>1 DEF RightCodes
    <3> QED BY <1>6, <3>2, CodesKept
  <2>3. CASE NoCode(n)
    BY <2>3 DEF NoCode, RightCode
  <2>4. CASE x = Other(e) /\ n = Accept(c)
    BY <1>9, <2>4
  <2> QED BY <2>1, <2>2, <2>3, <2>4
<1> QED BY <1>7, <1>8, <1>10 DEF SplitInv

-----------------------------------------------------------------------------
\* A block a code contains is in one half or the other.
LEMMA HalvesContain ==
  ASSUME NEW c \in PeerCode, NEW b \in Block, Contains(c, b)
  PROVE  Contains(Extend(c, 0), b) \/ Contains(Extend(c, 1), b)
<1>1. b \in BlockCode /\ CodeLayers \in Nat
  BY ConstantsAssumption, CodeLayersAssumption
<1>2. Len(b) = CodeLayers
  BY <1>1 DEF BlockCode
<1>3. PICK bit \in Bit : ExtLayerCode(b, Len(c)) = bit
  <2>1. Len(c) \in Nat
    BY DEF PeerCode
  <2>2. ExtLayerCode(b, Len(c)) \in Bit
    BY <1>1, <1>2, <2>1 DEF ExtLayerCode, BlockCode, Bit
  <2> QED BY <2>2
<1> DEFINE d == Extend(c, bit)
<1>4. /\ Len(d) = Len(c) + 1 /\ d[Len(c) + 1] = bit /\ Len(c) \in Nat
      /\ \A i \in 1 .. Len(c) : d[i] = c[i]
  BY DEF PeerCode, Extend
<1> HIDE DEF d
<1>5. \A i \in 0 .. Len(c) - 1 : c[i + 1] = ExtLayerCode(b, i)
  BY DEF Contains, DifferingLayers
<1>6. \A i \in 0 .. Len(d) - 1 : d[i + 1] = ExtLayerCode(b, i)
  <2> SUFFICES ASSUME NEW i \in 0 .. Len(c) PROVE d[i + 1] = ExtLayerCode(b, i)
    BY <1>4
  <2>1. CASE i = Len(c)
    BY <1>3, <1>4, <2>1
  <2>2. CASE i # Len(c)
    <3>1. i \in 0 .. Len(c) - 1 /\ i + 1 \in 1 .. Len(c)
      BY <1>4, <2>2
    <3> QED BY <1>4, <1>5, <3>1
  <2> QED BY <2>1, <2>2
<1>7. Contains(d, b)
  BY <1>6 DEF Contains, DifferingLayers
<1> QED BY <1>7 DEF d, Bit

\* GET CODE at end e has the peer p there give its upper half up, of which it
\* keeps the other one.
GivingCode(e, p) ==
  /\ OwnedBy(e, p) /\ InPlace(p) /\ HalfTaken(Extend(code[p], 1))
  /\ 1 \in DOMAIN inbox[e] /\ inbox[e][1] = Accept(Extend(code[p], 1))
  /\ code' = [code EXCEPT ![p] = Extend(code[p], 0)]
  /\ inbox' = Taken(e)

LEMMA HandleGetCodeGives ==
  ASSUME TypeInv, SplitInv, NEW e \in End, HandleGetCode(e)
  PROVE  /\ \E p \in Peer : GivingCode(e, p)
         /\ Receives(e, "GET CODE")
         /\ UNCHANGED <<integrated, mentor, stored>>
<1> DEFINE p == conn[e].own
           m == Head(inbox[e])
           c == m.code
           kept == Extend(code[p], 0)
<1>1. /\ p \in Peer /\ m \in Message /\ m.type = "GET CODE"
      /\ OwnedBy(e, p) /\ FromCodes(Taken(e)) /\ inbox[e] # << >>
  BY ReceivesAtPeer, ReceivesOwned, TakenFromCodes DEF HandleGetCode, Receives
<1>2. c \in PeerCode /\ m = Accept(c)
  BY <1>1, MessageFields, CodeOfType
<1>3. code \in [Peer -> PeerCode] /\ inbox[e] \in Seq(Message)
  BY DEF TypeInv, TypeOK
<1>4. RightCode(e, Accept(c))
  <2>1. inbox[e] \in Seq(Message) /\ inbox[e] # << >>
    BY <1>1, <1>3
  <2>2. 1 \in DOMAIN inbox[e] /\ inbox[e][1] = Head(inbox[e])
    BY <2>1
  <2> QED BY <1>2, <2>2 DEF SplitInv, RightCodes
<1>5. HalfTaken(c) /\ HalfOf(p, c)
  BY <1>1, <1>2, <1>4 DEF RightCode, RightAnswer, OwnedBy
<1>6. Len(c) = Len(code[p]) + 1
  BY DEF HandleGetCode, CodeFits
<1>7. /\ code' = [code EXCEPT ![p] = kept]
      /\ inbox' = Taken(e)
      /\ UNCHANGED <<integrated, mentor, stored>>
  BY DEF HandleGetCode, blockVars
<1> HIDE DEF p, m, c, kept
<1>8. /\ code[p] \in PeerCode /\ Len(code[p]) \in Nat
      /\ Len(kept) = Len(code[p]) + 1
      /\ \A i \in 1 .. Len(code[p]) : kept[i] = code[p][i]
  <2>1. code[p] \in Seq(Bit)
    BY <1>1, <1>3 DEF PeerCode
  <2> QED BY <2>1 DEF kept, Extend, PeerCode
\* What was accepted is the half that this peer gives up.
<1>9. c = Extend(code[p], 1)
  <2> DEFINE d == Extend(code[p], 1)
  <2>1. /\ d \in Seq(Bit) /\ Len(d) = Len(code[p]) + 1 /\ d[Len(d)] = 1
        /\ \A i \in 1 .. Len(code[p]) : d[i] = code[p][i]
    BY <1>8 DEF Extend, PeerCode, Bit
  <2>2. /\ c \in Seq(Bit) /\ c[Len(c)] = 1
        /\ \A i \in 1 .. Len(code[p]) : c[i] = code[p][i]
    BY <1>2, <1>5, <1>6, <1>8 DEF HalfOf, PeerCode
  <2> HIDE DEF d
  <2>3. Len(c) = Len(d) /\ \A i \in 1 .. Len(c) : c[i] = d[i]
    BY <1>6, <1>8, <2>1, <2>2
  <2>4. c = d
    BY <2>1, <2>2, <2>3
  <2> QED BY <2>4 DEF d
<1>10. GivingCode(e, p)
  <2>1. 1 \in DOMAIN inbox[e] /\ inbox[e][1] = Accept(c)
    BY <1>1, <1>2, TakenFromCodes DEF HandleGetCode, m
  <2> QED BY <1>1, <1>5, <1>7, <1>9, <2>1 DEF GivingCode, HalfOf, kept
<1>11. Receives(e, "GET CODE")
  BY DEF HandleGetCode
<1> QED BY <1>1, <1>7, <1>10, <1>11

\* One half of a code.
LEMMA HalfFields ==
  ASSUME NEW c \in PeerCode, NEW bit \in Bit
  PROVE  /\ Extend(c, bit) \in PeerCode /\ Len(c) \in Nat
         /\ Len(Extend(c, bit)) = Len(c) + 1 /\ Extend(c, bit)[Len(c) + 1] = bit
         /\ \A i \in 1 .. Len(c) : Extend(c, bit)[i] = c[i]
BY DEF Extend, PeerCode

\* A mentor's code becomes longer, and the half it gives up is taken.
LEMMA HandleGetCodeCovers ==
  ASSUME TypeInv, SplitInv, OwnersKept, NEW e \in End, HandleGetCode(e)
  PROVE  SplitInv'
<1>1. PICK p \in Peer : GivingCode(e, p)
  BY HandleGetCodeGives
<1> DEFINE kept == Extend(code[p], 0)
           c == Extend(code[p], 1)
<1>2. code \in [Peer -> PeerCode]
  BY DEF TypeInv, TypeOK
<1>3. /\ kept \in PeerCode /\ Len(code[p]) \in Nat /\ Len(kept) = Len(code[p]) + 1
      /\ \A i \in 1 .. Len(code[p]) : kept[i] = code[p][i]
  BY <1>2, HalfFields DEF Bit
<1>4. Len(c) = Len(code[p]) + 1
  BY <1>2, HalfFields DEF Bit
<1>5. /\ HalfTaken(c) /\ FromCodes(Taken(e)) /\ inbox' = Taken(e)
      /\ UNCHANGED <<integrated, mentor, stored>>
      /\ code' = [code EXCEPT ![p] = kept]
  BY <1>1, HandleGetCodeGives, TakenFromCodes DEF GivingCode
<1>6. ASSUME NEW b \in Block, Contains(code[p], b)
      PROVE  Contains(kept, b) \/ Contains(c, b)
  BY <1>2, <1>6, HalvesContain
<1> HIDE DEF kept, c
<1>7. /\ code'[p] = kept /\ code' \in [Peer -> PeerCode]
      /\ \A q \in Peer \ {p} : code'[q] = code[q]
  BY <1>2, <1>3, <1>5
<1>8. \A q \in Peer : InPlace(q) => InPlace(q)'
  <2>1. kept # << >>
    BY <1>3
  <2> QED BY <1>5, <1>7, <2>1 DEF InPlace
\* Whoever was responsible for a block still is, or somebody with a code that
\* is longer than this peer's was.
<1>9. ASSUME NEW q \in Peer, NEW b \in Block, InPlace(q), Contains(code[q], b)
       PROVE  \E r \in Peer : /\ InPlace(r)' /\ Contains(code'[r], b)
                              /\ Len(code[q]) <= Len(code'[r])
  <2>1. CASE q # p
    <3>1. Len(code[q]) <= Len(code[q])
      BY <1>2 DEF PeerCode
    <3> QED BY <1>7, <1>8, <1>9, <2>1, <3>1
  <2>2. CASE q = p /\ Contains(kept, b)
    BY <1>3, <1>7, <1>8, <1>9, <2>2
  <2>3. CASE q = p /\ Contains(c, b)
    <3>1. PICK r \in Peer : /\ InPlace(r) /\ Contains(code[r], b)
                            /\ Len(c) <= Len(code[r])
      BY <1>5, <2>3 DEF HalfTaken
    <3>2. Len(code[r]) \in Nat
      BY <1>2 DEF PeerCode
    <3>3. r # p /\ Len(code[q]) <= Len(code[r])
      BY <1>4, <1>3, <2>3, <3>1, <3>2
    <3> QED BY <1>7, <1>8, <3>1, <3>3
  <2> QED BY <1>6, <1>9, <2>1, <2>2, <2>3
<1>10. ASSUME NEW q \in Peer, NEW d, HalfOf(q, d) PROVE HalfOf(q, d)'
  <2>1. InPlace(q)' /\ Len(code[q]) \in Nat
    BY <1>2, <1>8, <1>10 DEF HalfOf, PeerCode
  <2>2. CASE q # p
    BY <1>7, <1>10, <2>1, <2>2 DEF HalfOf
  <2>3. CASE q = p
    <3>1. /\ Len(d) \in 1 .. Len(code'[p]) + 1
          /\ \A i \in 1 .. Len(d) - 1 : d[i] = code'[p][i]
      BY <1>3, <1>7, <1>10, <2>3 DEF HalfOf
    <3> QED BY <1>10, <2>1, <2>3, <3>1 DEF HalfOf
  <2> QED BY <2>2, <2>3
<1>11. ASSUME NEW d \in PeerCode, HalfTaken(d) PROVE HalfTaken(d)'
  <2> SUFFICES ASSUME NEW b \in Block, Contains(d, b)
               PROVE  \E r \in Peer : /\ InPlace(r)' /\ Contains(code'[r], b)
                                      /\ Len(d) <= Len(code'[r])
    BY DEF HalfTaken
  <2>1. PICK q \in Peer : /\ InPlace(q) /\ Contains(code[q], b)
                          /\ Len(d) <= Len(code[q])
    BY <1>11 DEF HalfTaken
  <2>2. PICK r \in Peer : /\ InPlace(r)' /\ Contains(code'[r], b)
                          /\ Len(code[q]) <= Len(code'[r])
    BY <1>9, <2>1
  <2>3. Len(d) \in Nat /\ Len(code[q]) \in Nat /\ Len(code'[r]) \in Nat
    BY <1>2, <1>7 DEF PeerCode
  <2> QED BY <2>1, <2>2, <2>3
<1>12. ASSUME NEW x \in End, NEW n, RightCode(x, n) PROVE RightCode(x, n)'
  <2>1. ASSUME NEW y \in End, NEW d, \E q \in Peer : OwnedBy(y, q) /\ HalfOf(q, d)
        PROVE  (\E q \in Peer : OwnedBy(y, q) /\ HalfOf(q, d))'
    <3>1. PICK q \in Peer : OwnedBy(y, q) /\ HalfOf(q, d)
      BY <2>1
    <3>2. OwnedBy(y, q)' /\ HalfOf(q, d)'
      BY <1>10, <3>1 DEF OwnedBy, Used, OwnersKept
    <3> QED BY <3>2
  <2>2. ASSUME NEW d \in PeerCode, RightOffer(x, d) PROVE RightOffer(x, d)'
    BY <2>1, <2>2, OtherEnd DEF RightOffer
  <2>3. ASSUME NEW d \in PeerCode, RightAnswer(x, d) PROVE RightAnswer(x, d)'
    BY <1>11, <2>1, <2>3 DEF RightAnswer
  <2> QED BY <1>12, <2>2, <2>3 DEF RightCode
<1>13. RightCodes(inbox)'
  <2>1. RightCodes(inbox')
    BY <1>5, FromCodesRight
  <2> QED BY <1>12, <2>1 DEF RightCodes
<1>14. BlocksCovered'
  <2> SUFFICES ASSUME NEW b \in Block
               PROVE  \E r \in Peer : InPlace(r)' /\ Contains(code'[r], b)
    BY DEF BlocksCovered
  <2>1. PICK q \in Peer : InPlace(q) /\ Contains(code[q], b)
    BY DEF SplitInv, BlocksCovered
  <2> QED BY <1>9, <2>1
<1>15. HoldersIntegrated' /\ MentorsRight'
  <2>1. \A q \in Peer : code[q] # << >> => code'[q] # << >>
    BY <1>3, <1>7
  <2> QED BY <1>5, <2>1 DEF SplitInv, HoldersIntegrated, MentorsRight
<1> QED BY <1>13, <1>14, <1>15 DEF SplitInv

\* One that does not fit is refused.
LEMMA RefuseGetCodeCovers ==
  ASSUME TypeInv, SplitInv, NEW e \in End, RefuseGetCode(e)
  PROVE  Steady
<1>1. FromCodes(inbox')
  BY TakenFromCodes DEF RefuseGetCode
<1>2. UNCHANGED <<code, integrated, mentor, stored>>
  BY DEF RefuseGetCode, localVars, blockVars
<1> QED BY <1>1, <1>2, LocalsSteady

-----------------------------------------------------------------------------
\* A step that changes no code, and one that does.
LEMMA NextSteady ==
  ASSUME TypeInv, KnownInv, SplitInv, [Next]_vars
  PROVE  Steady \/ \E e \in End : HandleSetCode(e) \/ HandleGetCode(e)
<1>1. ASSUME NEW e \in End, Receive(e)
      PROVE  Steady \/ HandleSetCode(e) \/ HandleGetCode(e)
  BY <1>1, CloseCovers, HandleHelloCovers, HandleProveIdentityCovers,
     HandleVerifyIdentityCovers, HandleWelcomeCovers, RefuseGetCodeCovers,
     IntroduceConnectedCovers, IntroduceNewCovers, HandleConnectInCovers,
     HandleIntegratedCovers, BlockMessagesCover
  DEF Receive
<1>2. ASSUME NEW e \in End, Fail(e) \/ Reset(e) PROVE Steady
  BY <1>2, CloseCovers
<1>3. ASSUME NEW p \in Peer, Run(p) PROVE Steady
  BY <1>3, RunCovers
<1>4. ASSUME NEW c \in Command,
             ClientConnect(c) \/ ClientStore(c) \/ ClientLoad(c)
      PROVE  Steady
  BY <1>4, ClientConnectCovers, ClientCovers
<1>5. ASSUME Idle \/ UNCHANGED vars PROVE Steady
  <2>1. UNCHANGED <<code, integrated, mentor, stored, inbox>>
    BY <1>5 DEF Idle, vars, localVars, blockVars
  <2>2. Lawful(inbox)
    BY InboxLawful
  <2> QED BY <2>1, <2>2, SentCovers
<1> QED BY <1>1, <1>2, <1>3, <1>4, <1>5 DEF Next

\* Every step keeps the invariant in which SET CODE, if it is handled, comes to
\* a peer without another code.
LEMMA SplitNext ==
  TypeInv /\ KnownInv /\ SplitInv /\ OnlyFirstCodes /\ [Next]_vars => SplitInv'
BY KnownNext, NextSteady, SplitKept, HandleSetCodeCovers, HandleGetCodeCovers

\* A founder starts with the code that contains every block.
LEMMA SplitInit ==
  ASSUME Founder # {}, Init
  PROVE  SplitInv
<1>1. HoldersIntegrated
  BY DEF Init, HoldersIntegrated
<1>2. RightCodes(inbox) /\ MentorsRight
  BY DEF Init, RightCodes, MentorsRight
<1>3. PICK p \in Peer : p \in Founder
  BY ConstantsAssumption
<1>4. InPlace(p) /\ code[p] = << >>
  BY <1>3 DEF Init, InPlace
<1>5. ASSUME NEW b PROVE Contains(code[p], b)
  BY <1>4 DEF Contains, DifferingLayers
<1>6. BlocksCovered
  BY <1>4, <1>5 DEF BlocksCovered
<1> QED BY <1>1, <1>2, <1>6 DEF SplitInv

\* The codes leave out no block: whatever connections, messages and processes
\* are lost and however many splits are going on, there is a peer for every
\* block as long as no peer's code is overwritten by SET CODE with another.
THEOREM CodesCoverBlocks ==
  ASSUME Founder # {}
  PROVE  Spec /\ []OnlyFirstCodes => []BlocksCovered
<1> DEFINE Inv == TypeInv /\ KnownInv /\ SplitInv
<1>1. Init => Inv
  BY TypeInvInit, KnownInit, SplitInit
<1>2. Inv /\ OnlyFirstCodes /\ [Next]_vars => Inv'
  BY TypeInvNext, KnownNext, SplitNext
<1>3. Inv => BlocksCovered
  BY DEF SplitInv
<1> QED BY <1>1, <1>2, <1>3, PTL DEF Spec

\* So if no process crashes either, the areas of the peers are what the abstract
\* specification says of them: every block is in one.
THEOREM NetworkCovered ==
  ASSUME Founder # {}
  PROVE  Spec /\ []OnlyFirstCodes /\ []NoCrash => []A!Covered
<1>1. BlocksCovered /\ NoCrash => A!Covered
  <2> SUFFICES ASSUME BlocksCovered, NoCrash, NEW b \in Block
               PROVE  \E p \in Peer : b \in { x \in Block : p \in Owners(x) }
    BY DEF A!Covered
  <2>1. PICK p \in Peer : InPlace(p) /\ Contains(code[p], b)
    BY DEF BlocksCovered
  <2>2. p \in Owners(b)
    BY <2>1 DEF Owners, HasCode, NoCrash
  <2> QED BY <2>2
<1> QED BY <1>1, CodesCoverBlocks, PTL

=============================================================================
