----------------------------- MODULE ByteChannel -----------------------------
(***************************************************************************)
(* What send() of a connection promises: the bytes it is given reach the   *)
(* network in the order they were given, each of them once.  A byte is its *)
(* number.  The promise ends when the channel breaks.                      *)
(***************************************************************************)
EXTENDS Integers, Sequences

VARIABLES
  given,    \* how many bytes have been given
  wire,     \* the bytes the network has taken
  broken    \* nothing is promised any more

channelVars == <<given, wire, broken>>

Init ==
  /\ given = 0
  /\ wire = << >>
  /\ broken = FALSE

Put ==
  /\ given' > given
  /\ UNCHANGED wire
  /\ broken' \in {broken, TRUE}

\* The network takes the next n bytes.
Deliver(n) ==
  /\ ~ broken
  /\ Len(wire) + n <= given
  /\ wire' = wire \o [i \in 1 .. n |-> Len(wire) + i]
  /\ UNCHANGED <<given, broken>>

\* Anything may be taken from a broken channel.
Mangle ==
  /\ broken
  /\ UNCHANGED <<given, broken>>

Next ==
  \/ Put
  \/ \E n \in 1 .. given : Deliver(n)
  \/ Mangle

Spec == Init /\ [][Next]_channelVars

=============================================================================
