--------------------------- MODULE MCSearchSpace ---------------------------
(***************************************************************************)
(* CORESETs to check SearchSpace with: what a configuration file may say,  *)
(* rejected values included, and the candidates of the example in the      *)
(* README, of the default and of a search for every CCE.                   *)
(***************************************************************************)
EXTENDS SearchSpaceInv, TLC

Numbers(a, b, d, e, f) == (0 :> a) @@ (1 :> b) @@ (2 :> d) @@ (3 :> e) @@ (4 :> f)

SearchSpaces == {Numbers(8, 4, 2, 1, 0), Numbers(0, 0, 4, 0, 0), Numbers(4, 2, 1, 0, 0),
                 Numbers(10, 5, 0, 0, 0)}

Files ==
  [rbs : {24, 30, 60}, duration : {1, 2, 3, 4}, mapping : {"interleaved", "other"},
   bundle : {2, 3, 6}, interleaver : {2, 3}, shift : {13}, candidates : SearchSpaces]

\* The defaults of config.h, with as many blocks as the default CORESET.
DefaultFile ==
  {[rbs |-> 48, duration |-> 1, mapping |-> "non-interleaved", bundle |-> 6,
    interleaver |-> 2, shift |-> 0, candidates |-> Numbers(8, 4, 2, 1, 0)]}

SameId == {<<1, 1>>}
TwoIds == {<<1, 2>>}

\* The examples of pdcch_dmrs_test.cc: 48 blocks, interleaver of two rows.
Example(bundle, shift) ==
  cce_reg_interleaving(coreset([rbs |-> 48, duration |-> 1, mapping |-> "interleaved",
    bundle |-> bundle, interleaver |-> 2, shift |-> shift, candidates |-> Numbers(8, 4, 2, 1, 0)]))

Listed(f) == [k \in 1 .. Cardinality(DOMAIN f) |-> f[k - 1]]

ASSUME InterleaverExamples ==
  /\ Listed(Example(6, 160)) = <<0, 4, 1, 5, 2, 6, 3, 7>>
  /\ Listed(Example(6, 102)) = <<6, 2, 7, 3, 0, 4, 1, 5>>
  /\ Listed(Example(2, 102)) = <<6, 18, 7, 19, 8, 20, 9, 21, 10, 22, 11, 23,
                                 12, 0, 13, 1, 14, 2, 15, 3, 16, 4, 17, 5>>
=============================================================================
