-------------------------------- MODULE Codes --------------------------------
(***************************************************************************)
(* Codes (code.h, code.cpp).  A code is a sequence of bits, one per layer; *)
(* layer i of the code is element i + 1 of the sequence.  Peers hold short *)
(* codes, blocks hold codes of CodeLayers layers (256 in block.cpp), and a *)
(* peer is responsible for the blocks its code is a prefix of.             *)
(***************************************************************************)
EXTENDS Integers, Sequences

CONSTANT CodeLayers   \* layers of a block code

ASSUME CodeLayersAssumption == CodeLayers \in Nat \ {0}

Bit == {0, 1}

PeerCode == Seq(Bit)
BlockCode == [1 .. CodeLayers -> Bit]

\* The bit of a code at a layer; a layer the code does not have reads as 0.
ExtLayerCode(code, layer) ==
  IF layer < Len(code) THEN code[layer + 1] ELSE 0

\* A peer's code with one more layer, set to the given bit: resize_layers
\* followed by set_layer_code, as every caller does.
Extend(code, bit) == Append(code, bit)

\* The layers at which a peer's code and a block's code disagree.
DifferingLayers(code, block) ==
  { i \in 0 .. Len(code) - 1 : code[i + 1] # ExtLayerCode(block, i) }

Contains(code, block) == DifferingLayers(code, block) = {}

\* The first disagreement: the layer of the peer a block is passed on to.
DifferingLayer(code, block) ==
  CHOOSE i \in DifferingLayers(code, block) :
    \A j \in DifferingLayers(code, block) : i <= j

=============================================================================
