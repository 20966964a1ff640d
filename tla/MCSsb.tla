-------------------------------- MODULE MCSsb --------------------------------
(***************************************************************************)
(* Instances of Ssb, and the sequences the repository's tests expect.      *)
(***************************************************************************)
EXTENDS SsbInv

\* Groups on both sides of the thirds of the first sequence and of the eight bits,
\* among them pairs that differ by 256.
MCCells == {<<0, 1>>, <<1, 0>>, <<79, 2>>, <<111, 2>>, <<112, 2>>, <<223, 0>>,
            <<224, 1>>, <<255, 1>>, <<256, 1>>, <<335, 2>>}

MCBlocks ==
  LET sent == [cell : MCCells, Lmax : {4, 8}, index : {0, 3, 4, 7}, half : 0 .. 1]
  IN {[nid1 |-> s.cell[1], nid2 |-> s.cell[2], Lmax |-> s.Lmax, index |-> s.index,
       half |-> s.half, quality |-> "clean"] : s \in {t \in sent : t.index < t.Lmax}}
     \cup {[nid1 |-> 0, nid2 |-> 1, Lmax |-> 4, index |-> 0, half |-> 0, quality |-> q] :
             q \in {"noisy", "cut"}}

MCFalseGroups == {0, 79, 335}

MCDrifts == {2}

\* What the proofs assume of the search: every cell here is told from every group.
ASSUME CellsApart == SssDistinguishes

\* The sequences of test/pss_test.cc, test/sss_test.cc and test/pbch_dmrs_test.cc.
ASSUME PssVectors ==
  /\ SubSeq([i \in 1 .. 127 |-> generate_pss_seq(0)[i - 1]], 1, 19)
       = <<1, -1, -1, 1, -1, -1, -1, -1, 1, 1, -1, -1, -1, 1, 1, -1, 1, -1, 1>>
  /\ SubSeq([i \in 1 .. 127 |-> generate_pss_seq(1)[i - 1]], 1, 12)
       = <<1, 1, 1, -1, -1, 1, 1, -1, 1, 1, 1, -1>>
  /\ SubSeq([i \in 1 .. 127 |-> generate_pss_seq(2)[i - 1]], 1, 14)
       = <<-1, -1, -1, -1, -1, -1, 1, 1, 1, -1, -1, -1, 1, -1>>

ASSUME SssVectors ==
  /\ SubSeq([i \in 1 .. 127 |-> generate_sss_seq(0, 0)[i - 1]], 1, 20)
       = <<1, 1, 1, 1, 1, 1, 1, 1, 1, 1, -1, 1, 1, 1, 1, 1, -1, 1, 1, 1>>
  /\ SubSeq([i \in 1 .. 127 |-> generate_sss_seq(10, 1)[i - 1]], 1, 20)
       = <<1, 1, -1, -1, -1, -1, 1, 1, -1, 1, 1, 1, 1, 1, -1, 1, 1, 1, -1, -1>>
  /\ SubSeq([i \in 1 .. 127 |-> generate_sss_seq(335, 2)[i - 1]], 1, 20)
       = <<-1, 1, -1, -1, -1, -1, 1, 1, -1, 1, 1, -1, 1, -1, -1, 1, -1, -1, -1, -1>>

ASSUME PbchVector ==
  pseudo_random_sequence(32, PbchInitBits(0, 0, 0))
    = <<0, 0, 0, 0, 1, 1, 1, 0, 1, 1, 1, 0, 0, 1, 1, 0,
        1, 1, 1, 0, 1, 1, 0, 1, 0, 1, 1, 1, 1, 0, 0, 0>>

\* No two cells, and no two of the numbers the hypotheses stand for, share a reference
\* signal of the PBCH.
ASSUME PbchReferencesApart ==
  Cardinality({PbchInit(i, 0, cell_id) : i \in 0 .. 8, cell_id \in 0 .. 1007}) = 9 * 1008

\* Nor do two scrambling identities, slots or symbols share one of the PDCCH, although
\* the code computes what it starts from in an integer that overflows.
ASSUME PdcchReferencesApart ==
  LET ids == {0, 1, 500, 1007, 65535}
  IN Cardinality({PdcchInit(n_id, slot, symbol, 14) :
                    n_id \in ids, slot \in 0 .. 79, symbol \in 0 .. 13}) = 5 * 80 * 14
=============================================================================
