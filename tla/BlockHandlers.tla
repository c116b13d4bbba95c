---------------------------- MODULE BlockHandlers ----------------------------
(***************************************************************************)
(* Storing and redistributing blocks: local_peer::store,                   *)
(* do_store_actions, redistribute_block (local_peer.cpp) and the messages  *)
(* STORE BLOCK and STORED BLOCK (peer_messages.cpp).                       *)
(*                                                                         *)
(* A peer saves the blocks its code contains.  Any other block it passes   *)
(* on to its out peer of the first layer at which the codes differ, and    *)
(* remembers what to do with the answer in storeActions.  A mentor that    *)
(* has given half of its code away redistributes the blocks of that half   *)
(* one by one, deleting its own copy when the other peer has stored it.    *)
(***************************************************************************)
EXTENDS PeerState

\* The two outcomes that are told to somebody: action_peer_store_block
\* answers the peer the block came from, action_api_store_block the client.
Reply(box, block, action, success) ==
  IF action.kind = "reply"
  THEN Send(box, action.end, <<[type |-> "STORED BLOCK", block |-> block,
                                success |-> success]>>)
  ELSE box

Told(block, action, success) ==
  IF action.kind = "client"
  THEN answered \cup {[file |-> action.file, block |-> block,
                       success |-> success]}
  ELSE answered

-----------------------------------------------------------------------------
\* MUTANT of MaySplit: whether or not a split is going on.
MaySplitAgain(p, index) == Cardinality(index) > Capacity[p]

\* stored_blocks_ is over capacity_, and nothing is being done about it yet.
MaySplit(p, index) == Cardinality(index) > Capacity[p] /\ ~ splitting[p]

\* The upper half of this peer's code, for another peer.
SetCode(p) == <<[type |-> "SET CODE", code |-> Extend(code[p], 1)]>>

\* The end of store(): a queued peer that is connected is given the half.
SplitIfFull(p, index, box) ==
  \/ /\ ~ MaySplit(p, index) \/ QueuedPeers(fp, known[p]) = {}
     /\ inbox' = box
     /\ UNCHANGED <<fp, splitting>>
  \/ /\ MaySplit(p, index)
     /\ \E f \in QueuedPeers(fp, known[p]) :
          /\ fp' = [fp EXCEPT ![f].queued = FALSE]
          /\ splitting' = [splitting EXCEPT ![p] = TRUE]
          /\ inbox' = Send(box, fp[f].conn, SetCode(p))

\* store() of a block that is this peer's: saved, answered, then indexed.
StoreSaved(p, block, version, action, box) ==
  /\ integrated[p]
  /\ Contains(code[p], block)
  /\ disk' = [disk EXCEPT ![p][block] = version]
  /\ stored' = [stored EXCEPT ![p] = @ \cup {block}]
  /\ answered' = Told(block, action, TRUE)
  /\ SplitIfFull(p, stored[p] \cup {block}, Reply(box, block, action, TRUE))
  /\ UNCHANGED <<up, storeActions, loadActions, faults>>

\* store() of a block that is this peer's, but the file cannot be opened.
StoreFailed(p, block, action, box) ==
  /\ integrated[p]
  /\ Contains(code[p], block)
  /\ faults > 0
  /\ faults' = faults - 1
  /\ answered' = Told(block, action, FALSE)
  /\ inbox' = Reply(box, block, action, FALSE)
  /\ UNCHANGED <<up, splitting, blockVars, fp>>

\* The last part of store(): the block is another peer's.  The out peer is
\* not checked for null.
PassOn(p, block, version, action, box) ==
  LET peers == OutPeers(fp, known[p], DifferingLayer(code[p], block))
  IN \/ /\ peers = {}
        /\ Crash(p)
        /\ inbox' = box
        /\ UNCHANGED storeActions
     \/ \E f \in peers :
          /\ storeActions' =
               [storeActions EXCEPT ![p][block] = Append(@, action)]
          /\ inbox' = Send(box, fp[f].conn, <<[type |-> "STORE BLOCK",
                                    block |-> block, version |-> version]>>)
          /\ UNCHANGED up

StorePassedOn(p, block, version, action, box) ==
  /\ integrated[p]
  /\ ~ Contains(code[p], block)
  /\ PassOn(p, block, version, action, box)
  /\ UNCHANGED <<splitting, stored, disk, loadActions, fp, answered, faults>>

\* store() at a peer that is not integrated: nobody is told anything.
StoreIgnored(p, box) ==
  /\ ~ integrated[p]
  /\ inbox' = box
  /\ UNCHANGED <<up, splitting, blockVars, fp, answered, faults>>

Store(p, block, version, action, box) ==
  \/ StoreIgnored(p, box)
  \/ StoreSaved(p, block, version, action, box)
  \/ StoreFailed(p, block, action, box)
  \/ StorePassedOn(p, block, version, action, box)

-----------------------------------------------------------------------------
\* The blocks of an index that this peer's code does not contain.
Misplaced(p, index) == { b \in index : ~ Contains(code[p], b) }

\* MUTANT of SplitOver: the flag is left as it is.
SplitNeverOver(p) == splitting

SplitOver(p) == [splitting EXCEPT ![p] = FALSE]

\* redistribute_block(), the index and the files being what is given: the
\* first misplaced block in the order of an unordered_set is stored where it
\* belongs; when there is none the split is over.  Whether its file could be
\* opened is not looked at: a block that is not loaded is sent all the same.
RedistributeBlock(p, index, box) ==
  \/ /\ Misplaced(p, index) = {}
     /\ splitting' = SplitOver(p)
     /\ inbox' = box
     /\ UNCHANGED <<up, storeActions, faults>>
  \/ /\ Misplaced(p, index) # {}
     /\ ~ integrated[p]
     /\ inbox' = box
     /\ UNCHANGED <<up, splitting, storeActions, faults>>
  \/ /\ integrated[p]
     /\ \E b \in Misplaced(p, index) :
          PassOn(p, b, disk[p][b], Redistribute, box)
     /\ UNCHANGED <<splitting, faults>>
  \/ /\ integrated[p]
     /\ faults > 0
     /\ faults' = faults - 1
     /\ \E b \in Misplaced(p, index) :
          PassOn(p, b, NoData, Redistribute, box)
     /\ UNCHANGED splitting

-----------------------------------------------------------------------------
\* STORE BLOCK at end e: the last feed() of peer_store_block.
HandleStoreBlock(e) ==
  LET p == conn[e].own
      m == Head(inbox[e])
  IN /\ Receives(e, "STORE BLOCK")
     /\ m.version # NoData
     /\ Store(p, m.block, m.version, [kind |-> "reply", end |-> e], Taken(e))
     /\ UNCHANGED <<code, integrated, mentor, known, todo, conn, commands>>

\* STORE BLOCK of a block that was not loaded: it comes without an owner, and
\* verify() finds it corrupted or follows the null pointer.
RefuseStoreBlock(e) ==
  /\ Receives(e, "STORE BLOCK")
  /\ Head(inbox[e]).version = NoData
  /\ \/ Close(e) /\ UNCHANGED up
     \/ /\ Crash(conn[e].own)
        /\ inbox' = Taken(e)
        /\ UNCHANGED <<conn, fp>>
  /\ UNCHANGED <<localVars, known, blockVars, todo, clientVars, faults>>

\* MUTANT of Waiting: only the action that has waited longest.
WaitingLongest(p, block) ==
  IF storeActions[p][block] = << >> THEN << >>
                                    ELSE <<Head(storeActions[p][block])>>

\* MUTANT of LeftWaiting: the actions are run and not erased.
LeftAll(p, block) == storeActions[p][block]

\* The actions do_store_actions() runs for a block, and those it leaves.
Waiting(p, block) == storeActions[p][block]
LeftWaiting(p, block) == << >>

\* STORED BLOCK at end e: do_store_actions() takes out every action that
\* waits for this block, and is left to run them in their order.
HandleStoredBlock(e) ==
  LET p == conn[e].own
      m == Head(inbox[e])
      waiting == Waiting(p, m.block)
  IN /\ Receives(e, "STORED BLOCK")
     /\ storeActions' = [storeActions EXCEPT ![p][m.block] =
                                           LeftWaiting(p, m.block)]
     /\ todo' = [todo EXCEPT ![p] =
                   [i \in 1 .. Len(waiting) |->
                      [op |-> "answer", block |-> m.block,
                       success |-> m.success, action |-> waiting[i]]]]
     /\ inbox' = Taken(e)
     /\ UNCHANGED <<up, localVars, known, stored, disk, loadActions, conn, fp,
                    clientVars, faults>>

-----------------------------------------------------------------------------
\* Process p is up and the next thing its running handler does is op.
Runs(p, op) ==
  /\ up[p]
  /\ todo[p] # << >>
  /\ Head(todo[p]).op = op

Done(p) == [todo EXCEPT ![p] = Tail(@)]

\* One occurrence of STORE FILE: a call of store() for a client.
RunStore(p) ==
  LET t == Head(todo[p])
  IN /\ Runs(p, "store")
     /\ Store(p, t.block, t.version, t.action, inbox)
     /\ todo' = Done(p)
     /\ UNCHANGED <<code, integrated, mentor, known, conn, commands>>

\* An action of do_store_actions() that passes the outcome on.
RunAnswer(p) ==
  LET t == Head(todo[p])
  IN /\ Runs(p, "answer")
     /\ t.action # Redistribute
     /\ answered' = Told(t.block, t.action, t.success)
     /\ inbox' = Reply(inbox, t.block, t.action, t.success)
     /\ todo' = Done(p)
     /\ UNCHANGED <<up, localVars, known, blockVars, conn, fp, commands,
                    faults>>

\* MUTANT of Succeeded: the outcome is not looked at.
SucceededAnyhow(t) == TRUE

\* MUTANT of Deleted: the file stays.
DeletedNothing(p, block) == disk[p]

\* action_peer_stored_block: what it looks at, and what it does.
Succeeded(t) == t.success
Erased(p, block) == stored[p] \ {block}
Deleted(p, block) == [disk[p] EXCEPT ![block] = NoData]
RedistributeNext(p, index) == RedistributeBlock(p, index, inbox)

\* Without success: nothing, the block stays.
RunNotRedistributed(p) ==
  LET t == Head(todo[p])
  IN /\ Runs(p, "answer")
     /\ t.action = Redistribute
     /\ ~ Succeeded(t)
     /\ todo' = Done(p)
     /\ UNCHANGED <<up, localVars, known, blockVars, conn, fp, inbox,
                    clientVars, faults>>

\* With success: the block is another peer's now, and the next one is
\* redistributed.
RunRedistributed(p) ==
  LET t == Head(todo[p])
  IN /\ Runs(p, "answer")
     /\ t.action = Redistribute
     /\ Succeeded(t)
     /\ disk' = [disk EXCEPT ![p] = Deleted(p, t.block)]
     /\ stored' = [stored EXCEPT ![p] = Erased(p, t.block)]
     /\ RedistributeNext(p, Erased(p, t.block))
     /\ todo' = Done(p)
     /\ UNCHANGED <<code, integrated, mentor, known, loadActions, conn, fp,
                    clientVars>>

=============================================================================
