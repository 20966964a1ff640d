-------------------------------- MODULE SsbInv --------------------------------
(***************************************************************************)
(* The inductive invariants of Ssb.                                        *)
(***************************************************************************)
EXTENDS Ssb

\* What is proved of the search rests on the SSS themselves: of the correlations of
\* every cell that is around, the highest is that of its own group, and exceeds the
\* average.  TLC evaluates it for the cells of an instance.
SssDistinguishes == \A c \in CleanCells : SssFound[c] = c[1]

\* A clean block is one of those that may be received.
BlockInv ==
  /\ block \in Block
  /\ block.index < block.Lmax
  /\ block.quality = "clean" => block \in Blocks

IsPhy(p) ==
  p = [nid1 |-> p.nid1, nid2 |-> p.nid2, i_ssb |-> p.i_ssb, n_hf |-> p.n_hf,
       in_synch |-> p.in_synch]

LockInv == IsPhy(phy) /\ LockedHypothesis /\ MibNamesItsCell

\* The offset measured on a clean block is all that cfo leaves of the drift, so that
\* it alternates between none and all of it.
FrequencyInv ==
  /\ {drift, new_cfo_fine} \subseteq Int
  /\ cfo \in {0, drift}
  /\ residual \in {0, -drift}
  /\ state = "find_sss" /\ block.quality = "clean" => new_cfo_fine = drift - cfo

\* A block that was searched for and not given up is still to be decoded, out of synch.
SearchInv ==
  /\ phy \in Phy /\ pss_indices \subseteq 0 .. nid_2_max
  /\ state = "find_sss" /\ block.quality = "clean" => phy.nid2 = block.nid2
  /\ state = "find_sss" /\ searched => ~phy.in_synch
  /\ searched => outcome \in {"mib", "lost", "early"}
  /\ SearchIdentifiesBlock
  /\ FirstBlocksDecode

SsbInvariant == BlockInv /\ LockInv /\ FrequencyInv /\ SearchInv
=============================================================================
