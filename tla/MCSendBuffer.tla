----------------------------- MODULE MCSendBuffer -----------------------------
(***************************************************************************)
(* SendBuffer for TLC: a buffer of four bytes that grows to sixteen.       *)
(***************************************************************************)
EXTENDS SendBuffer

SomeLengths == {1, 2, 3, 5}

=============================================================================
