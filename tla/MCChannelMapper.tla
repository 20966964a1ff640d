-------------------------- MODULE MCChannelMapper --------------------------
(***************************************************************************)
(* A grid in small: a symbol has 4 useful samples and a prefix of 2, or 3, *)
(* and of the longer ones one more, as when the products with the sample   *)
(* rate are no whole numbers.  Buffers of one symbol, of less than a slot  *)
(* (84 samples and 4), and of more than a slot.                            *)
(***************************************************************************)
EXTENDS ChannelMapperInv

Buffers == {8, 53, 100}

AllDurations == 1 .. 3
OneSymbol == {1}
=============================================================================
