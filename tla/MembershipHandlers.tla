-------------------------- MODULE MembershipHandlers --------------------------
(***************************************************************************)
(* Connecting, the handshake and the assignment of codes:                  *)
(* local_peer::connect and add_foreign_peer (local_peer.cpp), peer_server, *)
(* and the messages HELLO, PROVE IDENTITY, VERIFY IDENTITY, WELCOME,       *)
(* SET CODE, GET CODE, INTRODUCE PEER, CONNECT IN and INTEGRATED           *)
(* (peer_messages.cpp).                                                    *)
(*                                                                         *)
(* The process that connects says HELLO first.  Each side is asked to      *)
(* prove who it is and welcomed when it has; a side that is welcomed and   *)
(* has verified the other adds it to its foreign peers.  A mentor over its *)
(* capacity sends SET CODE, the joiner accepts with GET CODE, the mentor   *)
(* introduces its out peers, and the joiner is integrated once it has an   *)
(* out peer for every layer.                                               *)
(***************************************************************************)
EXTENDS BlockHandlers

Unused == { c \in Conn : conn[<<c, "out">>].status = "unused" }
NextConn == CHOOSE c \in Unused : \A d \in Unused : c <= d

\* The foreign_peer object that comes with a new connection's end.
NewPeer == <<NextConn, "out">>

\* connect(): process p opens a connection to q for its object f, the
\* objects being what is given, and says HELLO.  The accepting process has
\* made an object of its own.
ConnectTo(p, q, f, kind, objects, box) ==
  LET here == NewPeer
      there == Other(here)
  IN /\ Unused # {}
     /\ up[q]
     /\ conn' = [conn EXCEPT
          ![here] = [@ EXCEPT !.own = p, !.status = "open", !.att = f,
                              !.introduced = TRUE],
          ![there] = [@ EXCEPT !.own = q, !.status = "open"]]
     /\ fp' = [objects EXCEPT ![f].conn = here, ![there].conn = there]
     /\ inbox' = [box EXCEPT ![there] =
          <<[type |-> "HELLO", id |-> p, kind |-> kind]>>]
     /\ UNCHANGED faults

\* connect() to a process that is not there or not reached: the exception is
\* caught after f has been given the connection, which stays.
ConnectFails(p, q, f, objects, box) ==
  /\ Unused # {}
  /\ \/ ~ up[q] /\ UNCHANGED faults
     \/ up[q] /\ faults > 0 /\ faults' = faults - 1
  /\ conn' = [conn EXCEPT ![NewPeer].own = p, ![NewPeer].status = "closed",
                          ![NewPeer].att = f]
  /\ fp' = [objects EXCEPT ![f].conn = NewPeer]
  /\ inbox' = box

\* connect() to a host that is not resolved: the exception comes first, and
\* an object made for this connection is gone again.
HostUnknown(objects, box) ==
  /\ Unused # {}
  /\ faults > 0
  /\ faults' = faults - 1
  /\ fp' = [objects EXCEPT ![NewPeer] = fp[NewPeer]]
  /\ inbox' = box
  /\ UNCHANGED conn

Connect(p, q, f, kind, objects, box) ==
  \/ ConnectTo(p, q, f, kind, objects, box)
  \/ HostUnknown(objects, box)
  \/ ConnectFails(p, q, f, objects, box)

-----------------------------------------------------------------------------
\* add_foreign_peer() for a verified object with an out layer: CONNECT IN,
\* and INTEGRATED to the mentor when no out peer is missing.  The mentor and
\* its connection are not checked for null.
Ready(p, objects, map) ==
  \A i \in 0 .. Len(code[p]) - 1 : OutPeers(objects, map, i) # {}

HasMentor(p, objects) == mentor[p] # None /\ Connected(objects, mentor[p])

AddOutPeer(p, f, e, objects, map, box, last) ==
  LET told == Send(box, objects[f].conn,
                   <<[type |-> "CONNECT IN", layer |-> objects[f].out]>>)
  IN /\ fp' = objects
     /\ UNCHANGED splitting
     /\ \/ /\ ~ Ready(p, objects, map)
           /\ inbox' = Send(told, e, last)
           /\ UNCHANGED <<up, integrated>>
        \/ /\ Ready(p, objects, map)
           /\ HasMentor(p, objects)
           /\ integrated' = [integrated EXCEPT ![p] = TRUE]
           /\ inbox' = Send(Send(told, objects[mentor[p]].conn,
                                 <<[type |-> "INTEGRATED"]>>), e, last)
           /\ UNCHANGED up
        \/ /\ Ready(p, objects, map)
           /\ ~ HasMentor(p, objects)
           /\ Crash(p)
           /\ inbox' = told
           /\ UNCHANGED integrated

\* add_foreign_peer() for an object without a layer: with stored_blocks_ over
\* capacity_, whether or not a split is going on, half of the code is for it.
TakesHalf(p, f, objects) ==
  /\ objects[f].out = -1
  /\ objects[f].in = -1
  /\ Cardinality(stored[p]) > Capacity[p]

AddNewPeer(p, f, e, objects, box, last) ==
  /\ UNCHANGED <<up, integrated>>
  /\ \/ /\ TakesHalf(p, f, objects)
        /\ fp' = [objects EXCEPT ![f].queued = FALSE]
        /\ splitting' = [splitting EXCEPT ![p] = TRUE]
        /\ inbox' = Send(Send(box, objects[f].conn, SetCode(p)), e, last)
     \/ /\ ~ TakesHalf(p, f, objects)
        /\ fp' = objects
        /\ inbox' = Send(box, e, last)
        /\ UNCHANGED splitting

\* add_foreign_peer() of the object attached to end e, followed by the last
\* messages the caller sends at e.
AddForeignPeer(p, e, objects, box, last) ==
  LET f == conn[e].att
      map == [known[p] EXCEPT ![objects[f].id] = f]
      out == Connected(objects, f) /\ objects[f].out # -1
  IN /\ known' = [known EXCEPT ![p] = map]
     /\ \/ out /\ AddOutPeer(p, f, e, objects, map, box, last)
        \/ ~ out /\ Connected(objects, f)
           /\ AddNewPeer(p, f, e, objects, box, last)
        \/ /\ ~ Connected(objects, f)
           /\ fp' = objects
           /\ inbox' = Send(box, e, last)
           /\ UNCHANGED <<up, integrated, splitting>>

-----------------------------------------------------------------------------
\* The peer with this id is in the map of p, and taken for connected.
KnownConnected(p, id) == known[p][id] # None /\ Connected(fp, known[p][id])

\* HELLO is refused from this very peer and from a peer it is connected to.
HelloRefused(p, id) == id = p \/ KnownConnected(p, id)

RefuseHello(e) ==
  /\ Receives(e, "HELLO")
  /\ HelloRefused(conn[e].own, Head(inbox[e]).id)
  /\ Close(e)
  /\ UNCHANGED <<up, localVars, known, blockVars, todo, clientVars, faults>>

\* The connection of the object f that HELLO at end e is about: e itself, or
\* the one it has, which is e if it is new.
GreetedAt(f, e, id) == IF known[conn[e].own][id] = None THEN fp[f].conn ELSE e

\* What HELLO leaves in the object f it is about.
Greeted(f, e, m) ==
  [fp EXCEPT ![f] =
     [@ EXCEPT !.id = m.id, !.queued = (m.kind = "queued"),
               !.conn = GreetedAt(f, e, m.id)]]

\* HELLO at end e: a peer known from before gets its object back, and is
\* asked to prove its identity.
HandleHello(e) ==
  LET p == conn[e].own
      m == Head(inbox[e])
      old == known[p][m.id]
      f == IF old = None THEN conn[e].att ELSE old
  IN /\ Receives(e, "HELLO")
     /\ ~ HelloRefused(p, m.id)
     /\ conn' = [conn EXCEPT ![e].att = f]
     /\ fp' = Greeted(f, e, m)
     /\ inbox' = Send(Taken(e), e, <<[type |-> "PROVE IDENTITY"]>>)
     /\ UNCHANGED <<up, localVars, known, blockVars, todo, clientVars, faults>>

\* PROVE IDENTITY at end e: signed and sent back.
HandleProveIdentity(e) ==
  /\ Receives(e, "PROVE IDENTITY")
  /\ inbox' = Send(Taken(e), e, <<[type |-> "VERIFY IDENTITY"]>>)
  /\ UNCHANGED <<up, localVars, known, blockVars, todo, conn, fp, clientVars,
                 faults>>

\* VERIFY IDENTITY at end e, when the signature does not fit the number the
\* other side was asked to sign (a later HELLO replaces the number).
RefuseIdentity(e) ==
  /\ Receives(e, "VERIFY IDENTITY")
  /\ faults > 0
  /\ faults' = faults - 1
  /\ Close(e)
  /\ UNCHANGED <<up, localVars, known, blockVars, todo, clientVars>>

\* VERIFY IDENTITY at end e, when it fits.
Verified(f) == [fp EXCEPT ![f].verified = TRUE]

Introduction(e) ==
  IF conn[e].introduced
  THEN << >>
  ELSE <<[type |-> "HELLO", id |-> conn[e].own, kind |-> "?"]>>

HandleVerifyIdentity(e) ==
  LET p == conn[e].own
      objects == Verified(conn[e].att)
      last == <<[type |-> "WELCOME"]>> \o Introduction(e)
  IN /\ Receives(e, "VERIFY IDENTITY")
     /\ conn' = [conn EXCEPT ![e].introduced = TRUE]
     /\ \/ /\ conn[e].gotWelcome
           /\ AddForeignPeer(p, e, objects, Taken(e), last)
        \/ /\ ~ conn[e].gotWelcome
           /\ fp' = objects
           /\ inbox' = Send(Taken(e), e, last)
           /\ UNCHANGED <<up, integrated, splitting, known>>
     /\ UNCHANGED <<code, mentor, blockVars, todo, clientVars, faults>>

\* WELCOME at end e.
HandleWelcome(e) ==
  /\ Receives(e, "WELCOME")
  /\ conn' = [conn EXCEPT ![e].gotWelcome = TRUE]
  /\ \/ /\ fp[conn[e].att].verified
        /\ AddForeignPeer(conn[e].own, e, fp, Taken(e), << >>)
     \/ /\ ~ fp[conn[e].att].verified
        /\ inbox' = Taken(e)
        /\ UNCHANGED <<up, integrated, splitting, known, fp>>
  /\ UNCHANGED <<code, mentor, blockVars, todo, clientVars, faults>>

-----------------------------------------------------------------------------
\* MUTANT of AtLayer: layers counted from one.
AtNextLayer(f, layer) == [fp EXCEPT ![f].out = layer + 1, ![f].in = layer + 1]

\* The object of a split's other peer: it holds the layer the code has grown
\* by, in both directions.
AtLayer(f, layer) == [fp EXCEPT ![f].out = layer, ![f].in = layer]

\* MUTANT of HasAllPeers: layers counted from one.
HasAllPeersAtOne(layer) == layer = 1

\* MUTANT of HasAllPeers: no waiting for introductions.
HasAllPeersAnyhow(layer) == layer >= 0

\* A peer of the first layer has all the out peers it needs, its mentor.
HasAllPeers(layer) == layer = 0

\* SET CODE at end e: the code is taken as it comes.
HandleSetCode(e) ==
  LET p == conn[e].own
      m == Head(inbox[e])
      layer == Len(m.code) - 1
      answer == <<[type |-> "GET CODE", code |-> m.code]>>
  IN /\ Receives(e, "SET CODE")
     /\ code' = [code EXCEPT ![p] = m.code]
     /\ fp' = AtLayer(conn[e].att, layer)
     /\ mentor' = [mentor EXCEPT ![p] = conn[e].att]
     /\ integrated' = [integrated EXCEPT ![p] = @ \/ HasAllPeers(layer)]
     /\ inbox' = Send(Taken(e), e,
          answer \o IF HasAllPeers(layer) THEN <<[type |-> "INTEGRATED"]>>
                                         ELSE << >>)
     /\ UNCHANGED <<up, splitting, known, blockVars, todo, conn, clientVars,
                    faults>>

\* GET CODE at end e: the number of layers is all that is checked (the loop
\* after it compares the received code with itself).
CodeFits(p, m) == Len(m.code) = Len(code[p]) + 1

\* A code that does not fit: return without an end of the message, so that
\* the next line on this connection is fed to it.
RefuseGetCode(e) ==
  /\ Receives(e, "GET CODE")
  /\ ~ CodeFits(conn[e].own, Head(inbox[e]))
  /\ conn' = [conn EXCEPT ![e].stuck = TRUE]
  /\ inbox' = Taken(e)
  /\ UNCHANGED <<up, localVars, known, blockVars, todo, fp, clientVars, faults>>

\* A code that fits: this peer keeps the other half of its code, and goes on
\* to introduce an out peer of every layer below.
HandleGetCode(e) ==
  LET p == conn[e].own
      layer == Len(code[p])
  IN /\ Receives(e, "GET CODE")
     /\ CodeFits(p, Head(inbox[e]))
     /\ fp' = AtLayer(conn[e].att, layer)
     /\ code' = [code EXCEPT ![p] = Extend(@, 0)]
     /\ todo' = [todo EXCEPT ![p] =
          [i \in 1 .. layer |->
             [op |-> "introduce", end |-> e, layer |-> i - 1]]]
     /\ inbox' = Taken(e)
     /\ UNCHANGED <<up, integrated, splitting, mentor, known, blockVars, conn,
                    clientVars, faults>>

\* MUTANT of Introduced: the layer above.
IntroducedNext(f, layer) ==
  <<[type |-> "INTRODUCE PEER", peer |-> fp[f].id, layer |-> layer + 1]>>

\* MUTANT of Introduced: the layer below, as if counting began at one.
IntroducedBefore(f, layer) ==
  <<[type |-> "INTRODUCE PEER", peer |-> fp[f].id, layer |-> layer - 1]>>

Introduced(f, layer) ==
  <<[type |-> "INTRODUCE PEER", peer |-> fp[f].id, layer |-> layer]>>

\* One round of the loop over the layers in GET CODE.
RunIntroduce(p) ==
  LET t == Head(todo[p])
      peers == OutPeers(fp, known[p], t.layer)
  IN /\ Runs(p, "introduce")
     /\ \/ peers = {} /\ inbox' = inbox
        \/ \E f \in peers :
             inbox' = Send(inbox, t.end, Introduced(f, t.layer))
     /\ todo' = Done(p)
     /\ UNCHANGED <<up, localVars, known, blockVars, conn, fp, clientVars,
                    faults>>

\* INTRODUCE PEER at end e: the peer named is to be the out peer of a layer.
WithOut(f, layer) == [fp EXCEPT ![f].out = layer]

\* It is known and connected: it is told, and nothing else happens.
IntroduceConnected(e) ==
  LET m == Head(inbox[e])
      f == known[conn[e].own][m.peer]
  IN /\ Receives(e, "INTRODUCE PEER")
     /\ KnownConnected(conn[e].own, m.peer)
     /\ fp' = WithOut(f, m.layer)
     /\ inbox' = Send(Taken(e), fp[f].conn,
                      <<[type |-> "CONNECT IN", layer |-> m.layer]>>)
     /\ UNCHANGED <<up, localVars, known, blockVars, todo, conn, clientVars,
                    faults>>

\* It is known or not, but not connected.
IntroduceNew(e) ==
  LET p == conn[e].own
      m == Head(inbox[e])
      old == known[p][m.peer]
      f == IF old = None THEN NewPeer ELSE old
  IN /\ Receives(e, "INTRODUCE PEER")
     /\ ~ KnownConnected(p, m.peer)
     /\ Connect(p, m.peer, f, "introduce", WithOut(f, m.layer), Taken(e))
     /\ UNCHANGED <<up, localVars, known, blockVars, todo, clientVars>>

\* CONNECT IN at end e.  Neither code nor layer are checked.
HandleConnectIn(e) ==
  /\ Receives(e, "CONNECT IN")
  /\ fp' = [fp EXCEPT ![conn[e].att].in = Head(inbox[e]).layer]
  /\ inbox' = Taken(e)
  /\ UNCHANGED <<up, localVars, known, blockVars, todo, conn, clientVars,
                 faults>>

\* MUTANT of HandleIntegrated: this peer's copies are deleted at once.
HandleIntegratedDeletes(e) ==
  LET p == conn[e].own
      kept == stored[p] \ Misplaced(p, stored[p])
  IN /\ Receives(e, "INTEGRATED")
     /\ fp' = [fp EXCEPT ![conn[e].att].integrated = TRUE]
     /\ RedistributeBlock(p, stored[p], Taken(e))
     /\ stored' = [stored EXCEPT ![p] = kept]
     /\ disk' = [disk EXCEPT ![p] =
          [b \in Block |-> IF b \in kept THEN disk[p][b] ELSE NoData]]
     /\ UNCHANGED <<code, integrated, mentor, known, loadActions, todo, conn,
                    clientVars>>

\* INTEGRATED at end e: the blocks of the other half are handed over.
HandleIntegrated(e) ==
  LET p == conn[e].own
  IN /\ Receives(e, "INTEGRATED")
     /\ fp' = [fp EXCEPT ![conn[e].att].integrated = TRUE]
     /\ RedistributeBlock(p, stored[p], Taken(e))
     /\ UNCHANGED <<code, integrated, mentor, known, stored, disk, loadActions,
                    todo, conn, clientVars>>

=============================================================================
