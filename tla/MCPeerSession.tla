---------------------------- MODULE MCPeerSession ----------------------------
(***************************************************************************)
(* PeerSession for TLC: any two messages, one after the other, with blocks *)
(* of no or some bytes.  What a message leaves behind can only disturb the *)
(* next one.                                                               *)
(***************************************************************************)
EXTENDS PeerSession

Kinds ==
  { [type |-> t, size |-> 0, success |-> TRUE] : t \in Type }
    \cup [type : {"STORE BLOCK", "DELIVER BLOCK"}, size : {0, 3}, success : {TRUE}]
    \cup [type : {"STORED BLOCK", "DELIVER BLOCK"}, size : {0}, success : {FALSE}]

Numbered(kind, n) ==
  [type |-> kind.type, number |-> n, size |-> kind.size, success |-> kind.success]

TwoMessages == { <<Numbered(a, 1), Numbered(b, 2)>> : a, b \in Kinds }

=============================================================================
