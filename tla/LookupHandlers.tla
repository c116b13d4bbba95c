--------------------------- MODULE LookupHandlers ---------------------------
(***************************************************************************)
(* Looking a block up: local_peer::load and do_load_actions                *)
(* (local_peer.cpp) and the messages LOAD BLOCK and DELIVER BLOCK          *)
(* (peer_messages.cpp).  A lookup goes the way a block to be stored goes,  *)
(* and what is found comes back the same way.                              *)
(***************************************************************************)
EXTENDS BlockHandlers

\* action_peer_load_block delivers to the peer that asks, action_api_load_block
\* tells the client.
Delivery(box, block, action, found) ==
  IF action.kind = "reply"
  THEN Send(box, action.end, <<[type |-> "DELIVER BLOCK", block |-> block,
                                found |-> found]>>)
  ELSE box

Shown(block, action, found) ==
  IF action.kind = "client"
  THEN answered \cup {[file |-> action.file, block |-> block, found |-> found]}
  ELSE answered

-----------------------------------------------------------------------------
\* load() of a block that is this peer's: the file, if there is one.  The index
\* is not looked at.
LoadHere(p, block, action, box) ==
  /\ integrated[p]
  /\ Contains(code[p], block)
  /\ answered' = Shown(block, action, disk[p][block])
  /\ inbox' = Delivery(box, block, action, disk[p][block])
  /\ UNCHANGED <<up, loadActions, faults>>

\* There is a file, and it cannot be opened.
LoadFailed(p, block, action, box) ==
  /\ integrated[p]
  /\ Contains(code[p], block)
  /\ disk[p][block] # NoData
  /\ faults > 0
  /\ faults' = faults - 1
  /\ answered' = Shown(block, action, NoData)
  /\ inbox' = Delivery(box, block, action, NoData)
  /\ UNCHANGED <<up, loadActions>>

\* load() of any other block: the out peer is asked, and not checked for null.
LoadPassedOn(p, block, action, box) ==
  LET peers == OutPeers(fp, known[p], DifferingLayer(code[p], block))
  IN /\ integrated[p]
     /\ ~ Contains(code[p], block)
     /\ \/ /\ peers = {}
           /\ Crash(p)
           /\ inbox' = box
           /\ UNCHANGED loadActions
        \/ \E f \in peers :
             /\ loadActions' =
                  [loadActions EXCEPT ![p][block] = Append(@, action)]
             /\ inbox' = Send(box, fp[f].conn,
                              <<[type |-> "LOAD BLOCK", block |-> block]>>)
             /\ UNCHANGED up
     /\ UNCHANGED <<answered, faults>>

\* load() at a peer that is not integrated: nobody is told anything.
LoadIgnored(p, box) ==
  /\ ~ integrated[p]
  /\ inbox' = box
  /\ UNCHANGED <<up, loadActions, answered, faults>>

Load(p, block, action, box) ==
  \/ LoadIgnored(p, box)
  \/ LoadHere(p, block, action, box)
  \/ LoadFailed(p, block, action, box)
  \/ LoadPassedOn(p, block, action, box)

-----------------------------------------------------------------------------
\* LOAD BLOCK at end e.
HandleLoadBlock(e) ==
  /\ Receives(e, "LOAD BLOCK")
  /\ Load(conn[e].own, Head(inbox[e]).block, [kind |-> "reply", end |-> e],
          Taken(e))
  /\ UNCHANGED <<localVars, known, stored, disk, storeActions, todo, conn, fp,
                 commands>>

\* MUTANT of Asking: only the one who has asked last.
AskingLast(p, block) ==
  IF loadActions[p][block] = << >> THEN << >>
  ELSE <<loadActions[p][block][Len(loadActions[p][block])]>>

\* Who has asked for a block: do_load_actions() takes them all out.
Asking(p, block) == loadActions[p][block]

\* DELIVER BLOCK at end e, found or not: do_load_actions() is left to run what
\* it takes out, in its order.
HandleDeliverBlock(e) ==
  LET p == conn[e].own
      m == Head(inbox[e])
      asking == Asking(p, m.block)
  IN /\ Receives(e, "DELIVER BLOCK")
     /\ loadActions' = [loadActions EXCEPT ![p][m.block] = << >>]
     /\ todo' = [todo EXCEPT ![p] =
                   [i \in 1 .. Len(asking) |->
                      [op |-> "deliver", block |-> m.block,
                       found |-> m.found, action |-> asking[i]]]]
     /\ inbox' = Taken(e)
     /\ UNCHANGED <<up, localVars, known, stored, disk, storeActions, conn, fp,
                    clientVars, faults>>

\* One action of do_load_actions().
RunDeliver(p) ==
  LET t == Head(todo[p])
  IN /\ Runs(p, "deliver")
     /\ answered' = Shown(t.block, t.action, t.found)
     /\ inbox' = Delivery(inbox, t.block, t.action, t.found)
     /\ todo' = Done(p)
     /\ UNCHANGED <<up, localVars, known, blockVars, conn, fp, commands, faults>>

=============================================================================
