-------------------------------- MODULE Ddsn --------------------------------
(***************************************************************************)
(* A network of ddsn peers: the handlers of every connection, run one at a *)
(* time by the io_service of their process, the clients of the peers' API  *)
(* servers, and the network and disks failing.                             *)
(***************************************************************************)
EXTENDS MembershipHandlers, LookupHandlers

\* The process at end e has closed its side, or is gone.
Gone(e) == ~ IsOpen(e) \/ ~ up[conn[e].own]

\* The io_service of e's process may run one of e's completion handlers.
Free(e) == up[conn[e].own] /\ todo[conn[e].own] = << >>

Unaffected == UNCHANGED <<up, localVars, known, blockVars, todo, clientVars>>

\* handle_read has an error or nothing to read: the other side is gone.
\* Whatever has not been read by then is gone as well.
ReadError(e) ==
  /\ IsOpen(e) /\ Free(e)
  /\ Gone(Other(e))
  /\ Close(e)
  /\ UNCHANGED faults
  /\ Unaffected

\* The network breaks the connection.
Reset(e) ==
  /\ IsOpen(e) /\ Free(e)
  /\ ~ Gone(Other(e))
  /\ faults > 0
  /\ faults' = faults - 1
  /\ Close(e)
  /\ Unaffected

\* A line that follows a refused GET CODE is an error of its feed().
StuckError(e) ==
  /\ IsOpen(e) /\ Free(e)
  /\ conn[e].stuck
  /\ inbox[e] # << >>
  /\ Close(e)
  /\ UNCHANGED faults
  /\ Unaffected

\* handle_write has an error, on a socket closed before: closed again.
WriteError(e) ==
  /\ conn[e].status = "closed" /\ Free(e)
  /\ inbox[e] # << >>
  /\ fp' = [fp EXCEPT ![conn[e].att].conn = None]
  /\ conn' = [conn EXCEPT ![e].status = "failed"]
  /\ inbox' = [inbox EXCEPT ![e] = << >>]
  /\ UNCHANGED faults
  /\ Unaffected

-----------------------------------------------------------------------------
\* Nothing is on the way and no handler has anything to do.
Quiet ==
  /\ \A p \in Peer : up[p] => todo[p] = << >>
  /\ \A e \in End :
       /\ ~ Gone(e) => inbox[e] = << >> /\ ~ Gone(Other(e))
       /\ conn[e].status = "closed" /\ up[conn[e].own] => inbox[e] = << >>

\* The peers of an open connection do not know each other yet.
Handshaking(e) ==
  /\ ~ Gone(e)
  /\ ~ (conn[e].introduced /\ conn[e].gotWelcome /\ fp[conn[e].att].verified)

\* A client's request c comes in at an API connection.
Issued(c) ==
  /\ c \in commands
  /\ up[c.at]
  /\ todo[c.at] = << >>
  /\ c.after = "quiet" => Quiet
  /\ c.after = "handshakes" => \A e \in End : ~ Handshaking(e)
  /\ commands' = commands \ {c}

\* CONNECT PEER, of which an integrated peer takes no notice.
ClientConnect(c) ==
  /\ Issued(c)
  /\ c.op = "connect"
  /\ \/ /\ ~ integrated[c.at]
        /\ Connect(c.at, c.to, NewPeer, "queued", fp, inbox)
     \/ /\ integrated[c.at]
        /\ UNCHANGED <<conn, fp, inbox, faults>>
  /\ UNCHANGED <<up, localVars, known, blockVars, todo, answered>>

\* STORE FILE: every occurrence of the file is a block of its own.
ClientStore(c) ==
  /\ Issued(c)
  /\ c.op = "store"
  /\ todo' = [todo EXCEPT ![c.at] =
       [i \in 1 .. Len(c.file) |->
          [op |-> "store", block |-> c.file[i], version |-> c.version,
           action |-> [kind |-> "client", file |-> c.id]]]]
  /\ UNCHANGED <<up, localVars, known, blockVars, conn, fp, inbox, answered,
                 faults>>

\* LOAD FILE, of one occurrence.
ClientLoad(c) ==
  /\ Issued(c)
  /\ c.op = "load"
  /\ Load(c.at, c.block, [kind |-> "client", file |-> c.id], inbox)
  /\ UNCHANGED <<localVars, known, stored, disk, storeActions, todo, conn, fp>>

-----------------------------------------------------------------------------
\* The handlers of the messages that come in at end e.
Receive(e) ==
  \/ RefuseHello(e) \/ HandleHello(e)
  \/ HandleProveIdentity(e) \/ HandleVerifyIdentity(e) \/ RefuseIdentity(e)
  \/ HandleWelcome(e)
  \/ HandleSetCode(e) \/ HandleGetCode(e) \/ RefuseGetCode(e)
  \/ IntroduceConnected(e) \/ IntroduceNew(e)
  \/ HandleConnectIn(e) \/ HandleIntegrated(e)
  \/ HandleStoreBlock(e) \/ RefuseStoreBlock(e) \/ HandleStoredBlock(e)
  \/ HandleLoadBlock(e) \/ HandleDeliverBlock(e)

\* The process p goes on with the handler it is in.
Run(p) ==
  \/ RunStore(p) \/ RunAnswer(p) \/ RunIntroduce(p)
  \/ RunRedistributed(p) \/ RunNotRedistributed(p) \/ RunDeliver(p)

\* The end e finds its connection gone, or in a state it cannot go on from.
Fail(e) == ReadError(e) \/ StuckError(e) \/ WriteError(e)

\* All requests are made or were for a process that is gone.
Idle ==
  /\ Quiet
  /\ \A c \in commands : ~ up[c.at]
  /\ UNCHANGED vars

Next ==
  \/ \E e \in End : Receive(e) \/ Fail(e) \/ Reset(e)
  \/ \E p \in Peer : Run(p)
  \/ \E c \in Command : ClientConnect(c) \/ ClientStore(c) \/ ClientLoad(c)
  \/ Idle

Spec == Init /\ [][Next]_vars

\* What the io_service of process p does.
Work(p) ==
  \/ Run(p)
  \/ \E e \in End : conn[e].own = p /\ (Receive(e) \/ Fail(e))

\* The io_service of every process runs on while it has something to do: a
\* handler that runs goes on, and one that is ready, whichever, is run.  No
\* client has to make a request.
Fairness == \A p \in Peer : WF_vars(Work(p))

FairSpec == Spec /\ Fairness

=============================================================================
