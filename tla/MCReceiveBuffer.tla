--------------------------- MODULE MCReceiveBuffer ---------------------------
(***************************************************************************)
(* ReceiveBuffer for TLC, a 32nd of its size: a buffer of 8 bytes, lines   *)
(* of up to 16, runs of up to 32.  A stream begins with a line, as every   *)
(* message does.                                                           *)
(***************************************************************************)
EXTENDS ReceiveBuffer

Line(n) == [kind |-> "line", length |-> n]
Bytes(n) == [kind |-> "bytes", length |-> n]

Lines == { Line(n) : n \in {1, 3, 8, 9, 16, 17} }
Items == Lines \cup { Bytes(n) : n \in {0, 5, 9, 12, 20, 33} }

ThreeItems ==
  { <<first, second, third>> : first \in Lines, second, third \in Items }

=============================================================================
