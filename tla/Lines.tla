-------------------------------- MODULE Lines --------------------------------
(***************************************************************************)
(* What a message of ddsn is made of, on the way from one side of a        *)
(* connection to the other: lines, and runs of bytes whose end nothing     *)
(* marks.  A line is a field "name: value", or some text without a colon.  *)
(***************************************************************************)
EXTENDS Sequences

Line(name, text, value) ==
  [kind |-> "line", name |-> name, text |-> text, value |-> value]

Field(name, value) == Line(name, "", value)
Text(text) == Line("", text, 0)
Blank == Text("")

Bytes(length, value) == [kind |-> "bytes", length |-> length, value |-> value]

=============================================================================
