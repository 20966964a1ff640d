------------------------------ MODULE Ssb_proofs ------------------------------
(***************************************************************************)
(* Proofs about Ssb: which cell and block a MIB is accepted from, what a   *)
(* search finds, what stays locked, and what the frequency is corrected    *)
(* by, for all blocks that may be received and all widths of the group;    *)
(* and that the reference signals of all identities differ.                *)
(***************************************************************************)
EXTENDS SsbInv, FiniteSetTheorems, TLAPS

-----------------------------------------------------------------------------
(* The block in the buffer.                                                *)

LEMMA InitBlock == Init => BlockInv
  BY DEF Init, BlockInv, Block, nid_1_max, nid_2_max

LEMMA NextBlock == BlockInv /\ [Next]_vars => BlockInv'
<1> SUFFICES ASSUME BlockInv, [Next]_vars PROVE BlockInv'
  OBVIOUS
<1>1. CASE UNCHANGED block
  BY <1>1 DEF BlockInv
<1>2. ASSUME NEW b \in Blocks, find_pss(b)
      PROVE  BlockInv'
  <2>1. b \in Block /\ b.index < b.Lmax
    BY SsbAssumption
  <2>2. block' = b \/ block' = [b EXCEPT !.quality = "noisy"]
    BY <1>2 DEF find_pss
  <2>3. QED
    BY <2>1, <2>2 DEF BlockInv, Block
<1>3. QED
  BY <1>1, <1>2 DEF Next, vars, ProcessInSynch, ProcessSearching, GiveUp

LEMMA BlockInductive == Spec => []BlockInv
  BY InitBlock, NextBlock, PTL DEF Spec

-----------------------------------------------------------------------------
(* What a decoded block says about the cell.                               *)

LEMMA DecodedBlock ==
  ASSUME BlockInv, NEW p, decode(p)
  PROVE  /\ block.quality = "clean"
         /\ get_cell_id(p) = get_cell_id(block)
         /\ block.index = 0
<1>1. block.quality = "clean"
  BY DEF decode, Matching
<1>2. get_cell_id(p) = get_cell_id(block) /\ 0 % 8 = block.index % block.Lmax
  BY DEF decode, Scrambling
<1>3. block.index \in 0 .. 7 /\ block.Lmax \in {4, 8} /\ block.index < block.Lmax
  BY DEF BlockInv, Block
<1>4. QED
  BY <1>1, <1>2, <1>3

LEMMA WithHypothesis ==
  ASSUME NEW p, IsPhy(p), NEW i, NEW n
  PROVE  [p EXCEPT !.i_ssb = i, !.n_hf = n]
           = [nid1 |-> p.nid1, nid2 |-> p.nid2, i_ssb |-> i, n_hf |-> n,
              in_synch |-> p.in_synch]
<1> DEFINE q == [nid1 |-> p.nid1, nid2 |-> p.nid2, i_ssb |-> p.i_ssb, n_hf |-> p.n_hf,
                 in_synch |-> p.in_synch]
<1>1. p = q
  BY DEF IsPhy
<1>2. [q EXCEPT !.i_ssb = i, !.n_hf = n]
        = [nid1 |-> p.nid1, nid2 |-> p.nid2, i_ssb |-> i, n_hf |-> n,
           in_synch |-> p.in_synch]
  <2> DEFINE r == [q EXCEPT !.i_ssb = i, !.n_hf = n]
             fields == {"nid1", "nid2", "i_ssb", "n_hf", "in_synch"}
  <2>1. r = [f \in fields |-> IF f = "n_hf" THEN n ELSE IF f = "i_ssb" THEN i ELSE q[f]]
    OBVIOUS
  <2>2. QED
    BY <2>1
<1> HIDE DEF q
<1>3. QED
  BY ONLY <1>1, <1>2

\* The steps of pbch::process, whatever the hypotheses it tries.
LEMMA ProcessSteps ==
  ASSUME NEW p, PbchProcess(p)
  PROVE  \E h \in TriedHypotheses(p) :
           LET found == [p EXCEPT !.i_ssb = h.i_ssb, !.n_hf = h.n_hf] IN
           \/ decode(found) /\ on_mib_found(found)
           \/ ~decode(found) /\ phy' = found /\ on_sync_lost
           \/ DecodeReturnsEarly(found)
  BY DEF PbchProcess

-----------------------------------------------------------------------------
(* Nothing but GiveUp ends the lock.                                       *)

LEMMA InitLock == Init => LockInv
  BY DEF Init, LockInv, IsPhy, LockedHypothesis, MibNamesItsCell

LEMMA NextLock == BlockInv /\ LockInv /\ [Next]_vars => LockInv'
<1> SUFFICES ASSUME BlockInv, LockInv, [Next]_vars PROVE LockInv'
  OBVIOUS
<1>1. CASE UNCHANGED vars
  BY <1>1 DEF vars, LockInv, IsPhy, LockedHypothesis, MibNamesItsCell
<1>2. ASSUME NEW b \in Blocks, find_pss(b)
      PROVE  LockInv'
  <2>1. PICK nid2 \in pss_indices : phy' = [phy EXCEPT !.nid2 = nid2]
    BY <1>2 DEF find_pss
  <2>2. UNCHANGED <<pss_indices, locked>> /\ outcome' = "none"
    BY <1>2 DEF find_pss
  <2>3. IsPhy(phy)'
    BY <2>1 DEF LockInv, IsPhy
  <2>4. phy.in_synch => phy' = phy
    BY <2>1 DEF LockInv, IsPhy, LockedHypothesis
  <2>5. phy'.in_synch = phy.in_synch
    BY <2>1 DEF LockInv, IsPhy
  <2>6. QED
    BY <2>2, <2>3, <2>4, <2>5 DEF LockInv, LockedHypothesis, MibNamesItsCell
<1>3. ASSUME NEW p, IsPhy(p), p.in_synch = phy.in_synch, p.in_synch => p = phy,
             PbchProcess(p), UNCHANGED block
      PROVE  LockInv'
  <2>1. PICK h \in TriedHypotheses(p) :
          LET found == [p EXCEPT !.i_ssb = h.i_ssb, !.n_hf = h.n_hf] IN
          \/ decode(found) /\ on_mib_found(found)
          \/ ~decode(found) /\ phy' = found /\ on_sync_lost
          \/ DecodeReturnsEarly(found)
    BY <1>3, ProcessSteps
  <2> DEFINE found == [p EXCEPT !.i_ssb = h.i_ssb, !.n_hf = h.n_hf]
  <2>2. /\ IsPhy(found) /\ found.in_synch = p.in_synch
        /\ p.in_synch => found = phy
    <3>1. found = [nid1 |-> p.nid1, nid2 |-> p.nid2, i_ssb |-> h.i_ssb, n_hf |-> h.n_hf,
                   in_synch |-> p.in_synch]
      BY <1>3, WithHypothesis
    <3> HIDE DEF found
    <3>2. IsPhy(found) /\ found.in_synch = p.in_synch
      BY <3>1 DEF IsPhy
    <3>3. ASSUME p.in_synch
          PROVE  found = p
      <4>1. h = [i_ssb |-> p.i_ssb, n_hf |-> p.n_hf]
        BY <3>3 DEF TriedHypotheses
      <4>2. h.i_ssb = p.i_ssb /\ h.n_hf = p.n_hf
        BY <4>1
      <4>3. QED
        BY ONLY <3>1, <4>2, <1>3 DEF IsPhy
    <3>4. QED
      BY <1>3, <3>2, <3>3
  <2>4. CASE decode(found) /\ on_mib_found(found)
    <3> HIDE DEF found
    <3>1. phy' = [found EXCEPT !.in_synch = TRUE] /\ locked' = phy' /\ pss_indices' = {found.nid2}
      BY <2>4 DEF on_mib_found
    <3>2. IsPhy(phy)' /\ phy'.nid2 = found.nid2 /\ phy'.nid1 = found.nid1
      BY <2>2, <3>1 DEF IsPhy
    <3>3. get_cell_id(phy') = get_cell_id(found)
      BY <3>2 DEF get_cell_id
    <3>4. MibNamesItsCell'
      BY <1>3, <2>4, <3>1, <3>3, DecodedBlock DEF MibNamesItsCell, get_cell_id
    <3>5. QED
      BY <3>1, <3>2, <3>4 DEF LockInv, LockedHypothesis
  <2>5. CASE phy' = found /\ (on_sync_lost \/ DecodeReturnsEarly(found))
    <3> HIDE DEF found
    <3>1. UNCHANGED <<pss_indices, locked>> /\ outcome' \in {"lost", "early"}
      BY <2>5 DEF on_sync_lost, DecodeReturnsEarly
    <3>2. QED
      BY <1>3, <2>2, <2>5, <3>1 DEF LockInv, LockedHypothesis, MibNamesItsCell
  <2>6. QED
    BY <2>1, <2>4, <2>5 DEF DecodeReturnsEarly
<1>4. CASE ProcessInSynch
  BY <1>3, <1>4 DEF ProcessInSynch, LockInv
<1>5. CASE ProcessSearching
  <2>1. PICK nid1 \in SssResults :
          \/ nid1 # None /\ PbchProcess(on_sss_found(nid1))
          \/ nid1 = None /\ on_sync_lost /\ UNCHANGED phy
    BY <1>5 DEF ProcessSearching
  <2>2. CASE PbchProcess(on_sss_found(nid1))
    <3>1. IsPhy(on_sss_found(nid1)) /\ on_sss_found(nid1).in_synch = phy.in_synch
      BY DEF on_sss_found, LockInv, IsPhy
    <3>2. ~phy.in_synch /\ UNCHANGED block
      BY <1>5 DEF ProcessSearching
    <3>3. QED
      BY <1>3, <2>2, <3>1, <3>2
  <2>3. CASE on_sync_lost /\ UNCHANGED phy
    BY <1>5, <2>3 DEF on_sync_lost, ProcessSearching, LockInv, IsPhy, LockedHypothesis,
                      MibNamesItsCell
  <2>4. QED
    BY <2>1, <2>2, <2>3
<1>6. CASE GiveUp
  BY <1>6 DEF GiveUp, LockInv, IsPhy, LockedHypothesis, MibNamesItsCell
<1>7. QED
  BY <1>1, <1>2, <1>4, <1>5, <1>6 DEF Next

LEMMA LockInductive == Spec => []LockInv
<1>1. Init => BlockInv /\ LockInv
  BY InitBlock, InitLock
<1>2. BlockInv /\ LockInv /\ [Next]_vars => (BlockInv /\ LockInv)'
  BY NextBlock, NextLock
<1>3. QED
  BY <1>1, <1>2, PTL DEF Spec

\* While in synch nothing changes the cell and the hypothesis the MIB was decoded with,
\* whatever is received (in_synch of phy.h, pbch.cc:161).
THEOREM Locked == Spec => []LockedHypothesis
  BY LockInductive, PTL DEF LockInv

\* A MIB is accepted only under the identity of its cell, and from the first block of a
\* burst, however many bits the group has in phy (pbch.cc:146, phy.h:39).
THEOREM MibIsOfItsCell == Spec => []MibNamesItsCell
  BY LockInductive, PTL DEF LockInv

-----------------------------------------------------------------------------
(* The correction of the frequency.                                        *)

LEMMA InitFrequency == Init => FrequencyInv
<1> SUFFICES ASSUME Init PROVE FrequencyInv
  OBVIOUS
<1>1. drift \in Int
  BY SsbAssumption DEF Init
<1>2. QED
  BY <1>1 DEF Init, FrequencyInv

LEMMA NextFrequency == BlockInv /\ FrequencyInv /\ [Next]_vars => FrequencyInv'
<1> SUFFICES ASSUME BlockInv, FrequencyInv, [Next]_vars PROVE FrequencyInv'
  OBVIOUS
<1>1. CASE UNCHANGED <<state, block, frequency>>
  BY <1>1 DEF FrequencyInv, frequency
<1>2. ASSUME NEW b \in Blocks, find_pss(b)
      PROVE  FrequencyInv'
  <2>1. /\ new_cfo_fine' \in IF block'.quality = "noisy" THEN Drifts ELSE {drift - cfo}
        /\ UNCHANGED <<drift, cfo, residual>>
    BY <1>2 DEF find_pss, fine_sync
  <2>2. drift \in Int /\ cfo \in Int
    BY DEF FrequencyInv
  <2>3. new_cfo_fine' \in Int
    BY <2>1, <2>2, SsbAssumption
  <2>4. block'.quality = "clean" => new_cfo_fine' = drift - cfo
    BY <2>1
  <2>5. QED
    BY <2>1, <2>3, <2>4 DEF FrequencyInv
<1>3. ASSUME state = "find_sss", NEW p, PbchProcess(p), UNCHANGED block
      PROVE  FrequencyInv'
  <2>1. PICK h \in TriedHypotheses(p) :
          LET found == [p EXCEPT !.i_ssb = h.i_ssb, !.n_hf = h.n_hf] IN
          \/ decode(found) /\ on_mib_found(found)
          \/ ~decode(found) /\ phy' = found /\ on_sync_lost
          \/ DecodeReturnsEarly(found)
    BY <1>3, ProcessSteps
  <2> DEFINE found == [p EXCEPT !.i_ssb = h.i_ssb, !.n_hf = h.n_hf]
  <2> HIDE DEF found
  <2>2. CASE decode(found) /\ on_mib_found(found)
    <3>1. block.quality = "clean"
      BY <2>2, DecodedBlock
    <3>2. /\ cfo' = new_cfo_fine /\ residual' = drift - cfo - 2 * new_cfo_fine
          /\ UNCHANGED <<drift, new_cfo_fine>> /\ state' = "find_pss"
      BY <2>2 DEF on_mib_found, UpdateCfo
    <3>3. new_cfo_fine = drift - cfo /\ drift \in Int /\ cfo \in {0, drift}
      BY <1>3, <3>1 DEF FrequencyInv
    <3>4. cfo' \in {0, drift} /\ residual' \in {0, -drift}
      BY ONLY <3>2, <3>3
    <3>5. QED
      BY <3>2, <3>4 DEF FrequencyInv
  <2>3. CASE on_sync_lost
    BY <2>3 DEF on_sync_lost, FrequencyInv, frequency
  <2>4. CASE DecodeReturnsEarly(found)
    BY <1>3, <2>4 DEF DecodeReturnsEarly, FrequencyInv, frequency
  <2>5. QED
    BY <2>1, <2>2, <2>3, <2>4 DEF found
<1>4. CASE on_sync_lost
  BY <1>4 DEF on_sync_lost, FrequencyInv, frequency
<1>5. QED
  BY <1>1, <1>2, <1>3, <1>4 DEF Next, vars, ProcessInSynch, ProcessSearching, GiveUp

\* However often a MIB is found, the correction of new samples and that of the samples
\* relayed leave them no further off than none would (syncer.cc:376).
THEOREM CorrectionIsHarmless == Spec => []CorrectionNeverHurts
<1>1. FrequencyInv => CorrectionNeverHurts
  BY DEF FrequencyInv, CorrectionNeverHurts
<1>2. Init => BlockInv /\ FrequencyInv
  BY InitBlock, InitFrequency
<1>3. BlockInv /\ FrequencyInv /\ [Next]_vars => (BlockInv /\ FrequencyInv)'
  BY NextBlock, NextFrequency
<1>4. QED
  BY <1>1, <1>2, <1>3, PTL DEF Spec

-----------------------------------------------------------------------------
(* What a search finds.                                                    *)

\* Of one cell the references of different numbers differ.
LEMMA SameReference ==
  ASSUME NEW cell \in Nat, NEW i \in 0 .. 7, NEW j \in 0 .. 7, NEW n \in 0 .. 1, NEW m \in 0 .. 1,
         PbchInit(i, n, cell) = PbchInit(j, m, cell)
  PROVE  i + 4 * n = j + 4 * m
<1> DEFINE k == i + 4 * n
           l == j + 4 * m
           w == 2048 * (cell \div 4 + 1) + 64
<1>1. k \in Nat /\ l \in Nat /\ w \in Nat /\ w > 0
  OBVIOUS
<1>2. (k + 1) * w + (cell % 4) = (l + 1) * w + (cell % 4)
  <2>1. PbchInit(i, n, cell) = (k + 1) * w + (cell % 4)
    BY DEF PbchInit
  <2>2. PbchInit(j, m, cell) = (l + 1) * w + (cell % 4)
    BY DEF PbchInit
  <2> HIDE DEF k, l, w
  <2>3. QED
    BY <2>1, <2>2
<1>3. cell % 4 \in Nat
  OBVIOUS
<1> HIDE DEF k, l, w
<1>4. (k + 1) * w = (l + 1) * w
  BY <1>1, <1>2, <1>3
<1>5. k = l
  BY <1>1, <1>4
<1>6. QED
  BY <1>5 DEF k, l

\* Of a clean block, under its own identity, the hypothesis is found that numbers it as
\* its cell does.
LEMMA BestHypothesis ==
  ASSUME BlockInv, block.quality = "clean",
         NEW p, get_cell_id(p) = get_cell_id(block), NEW h \in BestHypotheses(p)
  PROVE  /\ h \in Matching(p)
         /\ IF block.Lmax = 4 THEN block.index = h.i_ssb /\ block.half = h.n_hf
                              ELSE block.index = h.i_ssb + 4 * h.n_hf
<1>1. /\ block.index \in 0 .. 7 /\ block.half \in 0 .. 1 /\ block.Lmax \in {4, 8}
      /\ block.index < block.Lmax /\ block.nid1 \in Nat /\ block.nid2 \in Nat
  BY DEF BlockInv, Block, nid_1_max, nid_2_max
<1> DEFINE cell == get_cell_id(block)
           half == IF block.Lmax = 4 THEN block.half ELSE 0
<1>2. cell \in Nat
  BY <1>1 DEF get_cell_id
<1>3. SentReference(block) = PbchInit(block.index, half, cell)
  BY DEF SentReference, Reference
<1> HIDE DEF cell
<1>4. \A g \in Hypotheses :
        g \in Matching(p) <=> PbchInit(g.i_ssb, g.n_hf, cell) = PbchInit(block.index, half, cell)
  BY <1>3 DEF Matching, Reference, cell
<1>5. half \in 0 .. 1
  BY <1>1
<1>6. \A g \in Matching(p) : g.i_ssb + 4 * g.n_hf = block.index + 4 * half
  <2>1. SUFFICES ASSUME NEW g \in Matching(p)
                 PROVE  g.i_ssb + 4 * g.n_hf = block.index + 4 * half
    OBVIOUS
  <2>2. g \in Hypotheses
    BY DEF Matching
  <2>3. g.i_ssb \in 0 .. 7 /\ g.n_hf \in 0 .. 1
    BY <2>2 DEF Hypotheses
  <2>4. PbchInit(g.i_ssb, g.n_hf, cell) = PbchInit(block.index, half, cell)
    BY <1>4, <2>2
  <2> HIDE DEF half
  <2>5. QED
    BY ONLY <1>1, <1>2, <1>5, <2>3, <2>4, SameReference
<1>7. CASE block.Lmax = 4
  <2> DEFINE g == [i_ssb |-> block.index, n_hf |-> block.half]
  <2>1. g \in Hypotheses
    BY <1>1, <1>7 DEF Hypotheses
  <2>2. g \in Matching(p)
    BY <1>4, <1>7, <2>1
  <2>3. h \in Matching(p) /\ (g = h \/ TriedBefore(h, g))
    BY <2>2 DEF BestHypotheses
  <2>4. h \in Hypotheses
    BY <2>3 DEF Matching
  <2>5. h.i_ssb + 4 * h.n_hf = block.index + 4 * block.half
    BY <1>6, <1>7, <2>3
  <2>6. h.i_ssb \in 0 .. 4 /\ h.n_hf \in 0 .. 1
    BY <2>4 DEF Hypotheses
  <2>7. CASE g = h
    BY <1>7, <2>3, <2>7
  <2>8. CASE TriedBefore(h, g)
    <3>1. h.i_ssb < block.index \/ (h.i_ssb = block.index /\ h.n_hf < block.half)
      BY <2>8 DEF TriedBefore
    <3>2. QED
      BY <1>1, <1>7, <2>5, <2>6, <3>1
  <2>9. QED
    BY <2>3, <2>7, <2>8
<1>8. CASE block.Lmax = 8
  <2> DEFINE g == IF block.index < 4 THEN [i_ssb |-> block.index, n_hf |-> 0]
                                     ELSE [i_ssb |-> block.index - 4, n_hf |-> 1]
  <2>1. g \in Hypotheses /\ g.i_ssb + 4 * g.n_hf = block.index
    BY <1>1 DEF Hypotheses
  <2>2. PbchInit(g.i_ssb, g.n_hf, cell) = PbchInit(block.index, half, cell)
    <3> HIDE DEF g
    <3>1. g.i_ssb + 4 * g.n_hf = block.index + 4 * half
      BY <1>1, <1>8, <2>1
    <3>2. QED
      BY <3>1 DEF PbchInit
  <2>3. g \in Matching(p)
    BY <1>4, <2>1, <2>2
  <2>4. h \in Matching(p)
    BY <2>3 DEF BestHypotheses
  <2>5. h \in Hypotheses
    BY <2>4 DEF Matching
  <2>6. h.i_ssb + 4 * h.n_hf = block.index
    BY <1>1, <1>6, <1>8, <2>4
  <2>7. QED
    BY <1>8, <2>4, <2>6
<1>9. QED
  BY <1>1, <1>7, <1>8

\* Such a block is decoded if it is the first, and its identity is not cut.
LEMMA FirstIsDecoded ==
  ASSUME BlockInv, block.quality = "clean", block.index = 0,
         NEW p, IsPhy(p), get_cell_id(p) = get_cell_id(block), NEW h \in BestHypotheses(p)
  PROVE  decode([p EXCEPT !.i_ssb = h.i_ssb, !.n_hf = h.n_hf])
<1> DEFINE found == [p EXCEPT !.i_ssb = h.i_ssb, !.n_hf = h.n_hf]
<1>1. h \in Matching(p) /\ h \in Hypotheses
  BY BestHypothesis DEF Matching
<1>2. found = [nid1 |-> p.nid1, nid2 |-> p.nid2, i_ssb |-> h.i_ssb, n_hf |-> h.n_hf,
               in_synch |-> p.in_synch]
  BY WithHypothesis
<1> HIDE DEF found
<1>3. /\ found.i_ssb = h.i_ssb /\ found.n_hf = h.n_hf
      /\ found.nid1 = p.nid1 /\ found.nid2 = p.nid2
  BY <1>2
<1>4. get_cell_id(found) = get_cell_id(p)
  BY <1>3 DEF get_cell_id
<1>5. [i_ssb |-> found.i_ssb, n_hf |-> found.n_hf] = h
  BY <1>1, <1>3 DEF Hypotheses
<1>6. Matching(found) = Matching(p)
  BY <1>4 DEF Matching
<1>7. Scrambling(get_cell_id(found), 0, 8)
        = Scrambling(get_cell_id(block), block.index, block.Lmax)
  <2>1. block.Lmax \in {4, 8}
    BY DEF BlockInv, Block
  <2>2. 0 % 8 = 0 /\ 0 % 4 = 0
    OBVIOUS
  <2>3. QED
    BY <1>4, <2>1, <2>2 DEF Scrambling
<1>8. decode(found)
  BY <1>1, <1>5, <1>6, <1>7 DEF decode
<1>9. QED
  BY <1>8 DEF found

LEMMA InitSearch == Init => SearchInv
<1> SUFFICES ASSUME Init PROVE SearchInv
  OBVIOUS
<1>1. phy \in Phy
  BY SsbAssumption DEF Init, Phy, nid_2_max
<1>2. pss_indices \subseteq 0 .. nid_2_max
  BY SsbAssumption DEF Init, nid_2_max
<1>3. QED
  BY <1>1, <1>2 DEF Init, SearchInv, SearchIdentifiesBlock, FirstBlocksDecode

LEMMA PhyIsPhy == \A p \in Phy : IsPhy(p)
  BY DEF Phy, IsPhy

\* What pbch::process makes of phy keeps its type, its group and its cell's index.
LEMMA ProcessPhy ==
  ASSUME NEW p \in Phy, NEW h \in TriedHypotheses(p)
  PROVE  LET found == [p EXCEPT !.i_ssb = h.i_ssb, !.n_hf = h.n_hf] IN
         /\ found \in Phy /\ found.nid1 = p.nid1 /\ found.nid2 = p.nid2
         /\ found.in_synch = p.in_synch
         /\ found.i_ssb = h.i_ssb /\ found.n_hf = h.n_hf
<1>1. h.i_ssb \in 0 .. 4 /\ h.n_hf \in 0 .. 1
  <2>1. CASE p.in_synch
    <3>1. h = [i_ssb |-> p.i_ssb, n_hf |-> p.n_hf]
      BY <2>1 DEF TriedHypotheses
    <3>2. QED
      BY <3>1 DEF Phy
  <2>2. CASE ~p.in_synch
    <3>1. h \in Hypotheses
      BY <2>2 DEF TriedHypotheses, BestHypotheses, Matching
    <3>2. QED
      BY <3>1 DEF Hypotheses
  <2>3. QED
    BY <2>1, <2>2
<1>2. [p EXCEPT !.i_ssb = h.i_ssb, !.n_hf = h.n_hf]
        = [nid1 |-> p.nid1, nid2 |-> p.nid2, i_ssb |-> h.i_ssb, n_hf |-> h.n_hf,
           in_synch |-> p.in_synch]
  BY PhyIsPhy, WithHypothesis
<1>3. p.nid1 \in 0 .. Nid1Width - 1 /\ p.nid2 \in 0 .. nid_2_max /\ p.in_synch \in BOOLEAN
  BY DEF Phy
<1>4. QED
  BY <1>1, <1>2, <1>3 DEF Phy

LEMMA NextSearch ==
  ASSUME SssDistinguishes, BlockInv, SearchInv, [Next]_vars
  PROVE  SearchInv'
<1> USE DEF nid_2_max
<1>1. CASE UNCHANGED vars
  BY <1>1 DEF vars, SearchInv, SearchIdentifiesBlock, FirstBlocksDecode
<1>2. ASSUME NEW b \in Blocks, find_pss(b)
      PROVE  SearchInv'
  <2>1. PICK nid2 \in pss_indices :
          IF b.nid2 \in pss_indices /\ b.quality # "noisy"
          THEN nid2 = b.nid2 /\ block' = b /\ phy' = [phy EXCEPT !.nid2 = nid2]
          ELSE block' = [b EXCEPT !.quality = "noisy"] /\ phy' = [phy EXCEPT !.nid2 = nid2]
    BY <1>2 DEF find_pss
  <2>2. nid2 \in 0 .. 2 /\ phy \in Phy
    BY DEF SearchInv
  <2>3. phy' = [phy EXCEPT !.nid2 = nid2]
    BY <2>1
  <2>4. phy' \in Phy /\ phy'.nid2 = nid2
    BY <2>2, <2>3 DEF Phy
  <2>5. b \in Block
    BY SsbAssumption
  <2>6. block'.quality = "clean" => block'.nid2 = nid2
    BY <2>1, <2>5 DEF Block
  <2>7. pss_indices' = pss_indices /\ ~searched'
    BY <1>2 DEF find_pss
  <2>8. QED
    BY <2>4, <2>6, <2>7 DEF SearchInv, SearchIdentifiesBlock, FirstBlocksDecode
<1>3. ASSUME state = "find_sss", NEW p \in Phy, p.nid2 = phy.nid2, PbchProcess(p), UNCHANGED block
      PROVE  /\ phy' \in Phy /\ pss_indices' \subseteq 0 .. 2
             /\ phy'.nid1 = p.nid1 /\ phy'.nid2 = p.nid2
             /\ state' = "find_sss" => phy'.in_synch = p.in_synch
             /\ outcome' \in {"mib", "lost", "early"}
             /\ \E h \in TriedHypotheses(p) :
                  /\ phy'.i_ssb = h.i_ssb /\ phy'.n_hf = h.n_hf
                  /\ outcome' = "lost" => ~decode([p EXCEPT !.i_ssb = h.i_ssb, !.n_hf = h.n_hf])
  <2>1. PICK h \in TriedHypotheses(p) :
          LET found == [p EXCEPT !.i_ssb = h.i_ssb, !.n_hf = h.n_hf] IN
          \/ decode(found) /\ on_mib_found(found)
          \/ ~decode(found) /\ phy' = found /\ on_sync_lost
          \/ DecodeReturnsEarly(found)
    BY <1>3, ProcessSteps
  <2> DEFINE found == [p EXCEPT !.i_ssb = h.i_ssb, !.n_hf = h.n_hf]
  <2>2. /\ found \in Phy /\ found.nid1 = p.nid1 /\ found.nid2 = p.nid2
        /\ found.in_synch = p.in_synch
        /\ found.i_ssb = h.i_ssb /\ found.n_hf = h.n_hf
    BY ProcessPhy
  <2>3. pss_indices \subseteq 0 .. 2
    BY DEF SearchInv
  <2> HIDE DEF found
  <2>4. CASE decode(found) /\ on_mib_found(found)
    <3>1. /\ phy' = [found EXCEPT !.in_synch = TRUE] /\ pss_indices' = {found.nid2}
          /\ state' = "find_pss" /\ outcome' = "mib"
      BY <2>4 DEF on_mib_found
    <3>2. /\ phy' \in Phy /\ phy'.nid1 = found.nid1 /\ phy'.nid2 = found.nid2
          /\ phy'.i_ssb = found.i_ssb /\ phy'.n_hf = found.n_hf
          /\ found.nid2 \in 0 .. 2
      BY <2>2, <3>1 DEF Phy
    <3>3. QED
      BY <2>2, <3>1, <3>2
  <2>5. CASE ~decode(found) /\ phy' = found /\ on_sync_lost
    <3>1. UNCHANGED pss_indices /\ state' = "find_pss" /\ outcome' = "lost"
      BY <2>5 DEF on_sync_lost
    <3>2. QED
      BY <2>2, <2>3, <2>5, <3>1 DEF found
  <2>6. CASE DecodeReturnsEarly(found)
    <3>1. UNCHANGED pss_indices /\ phy' = found /\ outcome' = "early"
      BY <2>6 DEF DecodeReturnsEarly
    <3>2. QED
      BY <2>2, <2>3, <3>1
  <2>7. QED
    BY <2>1, <2>4, <2>5, <2>6 DEF found
<1>4. CASE ProcessInSynch
  <2>1. state = "find_sss" /\ phy.in_synch /\ PbchProcess(phy) /\ UNCHANGED <<block, searched>>
    BY <1>4 DEF ProcessInSynch
  <2>2. ~searched /\ phy \in Phy
    BY <2>1 DEF SearchInv
  <2>3. /\ phy' \in Phy /\ pss_indices' \subseteq 0 .. 2 /\ phy'.nid2 = phy.nid2
    BY <1>3, <2>1, <2>2
  <2>4. QED
    BY <2>1, <2>2, <2>3 DEF SearchInv, SearchIdentifiesBlock, FirstBlocksDecode
<1>5. CASE ProcessSearching
  <2>1. /\ state = "find_sss" /\ ~phy.in_synch /\ searched' = TRUE /\ UNCHANGED block
        /\ phy \in Phy
    BY <1>5 DEF ProcessSearching, SearchInv
  <2>2. PICK nid1 \in SssResults :
          \/ nid1 # None /\ PbchProcess(on_sss_found(nid1))
          \/ nid1 = None /\ on_sync_lost /\ UNCHANGED phy
    BY <1>5 DEF ProcessSearching
  <2>3. /\ block.nid1 \in Nat /\ block.nid2 \in 0 .. 2
        /\ block.quality \in {"clean", "noisy", "cut"}
    BY DEF BlockInv, Block, nid_1_max
  <2>4. block.quality = "clean" => nid1 = block.nid1 /\ phy.nid2 = block.nid2
    <3>1. SUFFICES ASSUME block.quality = "clean"
                   PROVE  nid1 = block.nid1 /\ phy.nid2 = block.nid2
      OBVIOUS
    <3>2. <<block.nid1, block.nid2>> \in CleanCells
      BY <3>1 DEF BlockInv, CleanCells
    <3>3. SssFound[<<block.nid1, block.nid2>>] = block.nid1
      BY <3>2 DEF SssDistinguishes
    <3>4. nid1 = SssFound[<<block.nid1, block.nid2>>]
      BY <3>1 DEF SssResults
    <3>5. QED
      BY <2>1, <3>1, <3>3, <3>4 DEF SearchInv
  <2>5. CASE nid1 # None /\ PbchProcess(on_sss_found(nid1))
    <3> DEFINE p == on_sss_found(nid1)
    <3>1. nid1 \in Nat
      <4>1. nid1 \in FalseGroups \/ nid1 = block.nid1
        BY <2>3, <2>4, <2>5 DEF SssResults
      <4>2. FalseGroups \subseteq Nat
        BY SsbAssumption DEF nid_1_max
      <4>3. QED
        BY <2>3, <4>1, <4>2
    <3>2. nid1 % Nid1Width \in 0 .. Nid1Width - 1
      BY <3>1, SsbAssumption
    <3>3. /\ p \in Phy /\ p.nid1 = nid1 % Nid1Width /\ p.nid2 = phy.nid2
          /\ p.in_synch = phy.in_synch
      BY <2>1, <3>2 DEF on_sss_found, Phy
    <3> HIDE DEF p
    <3>4. PbchProcess(p)
      BY <2>5 DEF p
    <3>5. /\ phy' \in Phy /\ pss_indices' \subseteq 0 .. 2
          /\ phy'.nid1 = p.nid1 /\ phy'.nid2 = p.nid2
          /\ state' = "find_sss" => phy'.in_synch = p.in_synch
          /\ outcome' \in {"mib", "lost", "early"}
      BY <1>3, <2>1, <3>3, <3>4
    <3>6. PICK h \in TriedHypotheses(p) :
            /\ phy'.i_ssb = h.i_ssb /\ phy'.n_hf = h.n_hf
            /\ outcome' = "lost" => ~decode([p EXCEPT !.i_ssb = h.i_ssb, !.n_hf = h.n_hf])
      BY <1>3, <2>1, <3>3, <3>4
    <3>7. h \in BestHypotheses(p) /\ IsPhy(p)
      BY <2>1, <3>3, PhyIsPhy DEF TriedHypotheses
    <3>8. ASSUME block.quality = "clean", block.nid1 < Nid1Width
          PROVE  get_cell_id(p) = get_cell_id(block)
      <4>1. block.nid1 % Nid1Width = block.nid1
        BY <2>3, <3>8, SsbAssumption
      <4>2. QED
        BY <2>4, <3>3, <3>8, <4>1 DEF get_cell_id
    <3>9. SearchIdentifiesBlock'
      <4>1. ASSUME block.quality = "clean"
            PROVE  phy'.nid1 = block.nid1 % Nid1Width
        BY <2>4, <3>3, <3>5, <4>1
      <4>2. ASSUME block.quality = "clean", block.nid1 < Nid1Width
            PROVE  IF block.Lmax = 4
                   THEN block.index = phy'.i_ssb /\ block.half = phy'.n_hf
                   ELSE block.index = phy'.i_ssb + 4 * phy'.n_hf
        BY <3>6, <3>7, <3>8, <4>2, BestHypothesis
      <4>3. QED
        BY <2>1, <4>1, <4>2 DEF SearchIdentifiesBlock
    <3>10. FirstBlocksDecode'
      <4>1. ASSUME block.quality = "clean", block.nid1 < Nid1Width, block.index = 0
            PROVE  outcome' # "lost"
        BY <3>6, <3>7, <3>8, <4>1, FirstIsDecoded
      <4>2. QED
        BY <2>1, <3>5, <4>1 DEF FirstBlocksDecode
    <3>11. QED
      BY <2>1, <2>4, <3>3, <3>5, <3>9, <3>10 DEF SearchInv
  <2>6. CASE nid1 = None /\ on_sync_lost /\ UNCHANGED phy
    <3>1. block.quality # "clean"
      BY <2>3, <2>4, <2>6 DEF None
    <3>2. state' = "find_pss" /\ outcome' = "lost" /\ UNCHANGED pss_indices
      BY <2>6 DEF on_sync_lost
    <3>3. QED
      BY <2>1, <2>6, <3>1, <3>2 DEF SearchInv, SearchIdentifiesBlock, FirstBlocksDecode
  <2>7. QED
    BY <2>2, <2>5, <2>6
<1>6. CASE GiveUp
  <2>1. phy' \in Phy /\ phy'.nid1 = phy.nid1 /\ phy'.nid2 = phy.nid2 /\ ~phy'.in_synch
        /\ phy'.i_ssb = phy.i_ssb /\ phy'.n_hf = phy.n_hf
    BY <1>6 DEF GiveUp, SearchInv, Phy
  <2>2. UNCHANGED <<state, pss_indices, block, searched, outcome>>
    BY <1>6 DEF GiveUp
  <2>3. QED
    BY <2>1, <2>2 DEF SearchInv, SearchIdentifiesBlock, FirstBlocksDecode
<1>7. QED
  BY <1>1, <1>2, <1>4, <1>5, <1>6 DEF Next

LEMMA SearchInductive == SssDistinguishes /\ Spec => [](BlockInv /\ SearchInv)
<1> SUFFICES ASSUME SssDistinguishes PROVE Spec => [](BlockInv /\ SearchInv)
  OBVIOUS
<1>1. Init => BlockInv /\ SearchInv
  BY InitBlock, InitSearch
<1>2. BlockInv /\ SearchInv /\ [Next]_vars => (BlockInv /\ SearchInv)'
  BY NextBlock, NextSearch
<1>3. QED
  BY <1>1, <1>2, PTL DEF Spec

\* A search names the group of a clean block, what phy keeps of it, and, if that is all
\* of it, its index and half frame (ssb_mapper.cc:84, pbch.cc:168).
THEOREM SearchIdentifies ==
  ASSUME SssDistinguishes
  PROVE  Spec => []SearchIdentifiesBlock
<1>1. SearchInv => SearchIdentifiesBlock
  BY DEF SearchInv
<1>2. Spec => [](BlockInv /\ SearchInv)
  BY SearchInductive
<1>3. QED
  BY <1>1, <1>2, PTL

\* And the first block of a burst is decoded then, unless the decoder fails
\* (pbch.cc:95).
THEOREM FirstBlockDecodes ==
  ASSUME SssDistinguishes
  PROVE  Spec => []FirstBlocksDecode
<1>1. SearchInv => FirstBlocksDecode
  BY DEF SearchInv
<1>2. Spec => [](BlockInv /\ SearchInv)
  BY SearchInductive
<1>3. QED
  BY <1>1, <1>2, PTL

-----------------------------------------------------------------------------
(* Pilots and payload, for each of the four shifts of the pilots.          *)

\* The pilots of a symbol, the indices of which lie in S.
Pilots(S, v) == {4 * i + v : i \in S}

LEMMA Interval ==
  ASSUME NEW a \in Int, NEW b \in Int, a <= b, NEW n, n = b - a + 1
  PROVE  IsFiniteSet(a .. b) /\ Cardinality(a .. b) = n
<1>1. IsFiniteSet(a .. b) /\ Cardinality(a .. b) = IF a > b THEN 0 ELSE b - a + 1
  BY FS_Interval
<1>2. QED
  BY <1>1

LEMMA SubsetTaken ==
  ASSUME NEW S, IsFiniteSet(S), NEW T, T \subseteq S
  PROVE  IsFiniteSet(S \ T) /\ Cardinality(S \ T) = Cardinality(S) - Cardinality(T)
<1>1. S \cap T = T
  OBVIOUS
<1>2. QED
  BY <1>1, FS_Difference

LEMMA PilotsCounted ==
  ASSUME NEW v \in 0 .. 3, NEW S \in SUBSET (0 .. 59)
  PROVE  IsFiniteSet(Pilots(S, v)) /\ Cardinality(Pilots(S, v)) = Cardinality(S)
<1> DEFINE f == [i \in S |-> 4 * i + v]
<1>1. IsFiniteSet(S)
  <2>1. IsFiniteSet(0 .. 59)
    BY Interval, 0 \in Int, 59 \in Int, 0 <= 59, 60 = 59 - 0 + 1
  <2>2. QED
    BY ONLY <2>1, S \in SUBSET (0 .. 59), FS_Subset
<1>2. f \in [S -> Pilots(S, v)]
  BY DEF Pilots
<1>3. \A i, j \in S : f[i] = f[j] => i = j
  OBVIOUS
<1>4. \A x \in Pilots(S, v) : \E i \in S : f[i] = x
  BY DEF Pilots
<1> HIDE DEF f
<1>5. ExistsBijection(S, Pilots(S, v))
  BY <1>2, <1>3, <1>4 DEF ExistsBijection, Bijection, Injection, IsInjective, Surjection
<1>6. QED
  BY <1>1, <1>5, FS_Bijection

LEMMA IndicesOfPilots ==
  ASSUME NEW v \in 0 .. 3
  PROVE  /\ get_dmrs_indices(1, v) = Pilots(0 .. 59, v)
         /\ get_dmrs_indices(2, v) = Pilots(0 .. 11 \cup 48 .. 59, v)
         /\ get_dmrs_indices(3, v) = Pilots(0 .. 59, v)
<1>1. v % 4 = v
  OBVIOUS
<1>2. QED
  BY <1>1 DEF get_dmrs_indices, Pilots

\* There are as many resource elements for the payload as the decoder reads.
LEMMA SymbolsCounted == ASSUME NEW v \in 0 .. 3 PROVE PbchSymbols[v] = PBCH_NR_M
<1> DEFINE all == 0 .. 239
           p == Pilots(0 .. 59, v)
           q == Pilots(0 .. 11 \cup 48 .. 59, v)
           psss == 48 .. 191
<1>1. IsFiniteSet(all) /\ Cardinality(all) = 240
  BY Interval, 0 \in Int, 239 \in Int, 0 <= 239, 240 = 239 - 0 + 1
<1>2. Cardinality(p) = 60
  <2>1. Cardinality(0 .. 59) = 60
    BY Interval, 0 \in Int, 59 \in Int, 0 <= 59, 60 = 59 - 0 + 1
  <2>2. QED
    BY <2>1, PilotsCounted
<1>3. Cardinality(q) = 24
  <2>1. Cardinality(0 .. 11) = 12 /\ IsFiniteSet(0 .. 11)
    BY Interval, 0 \in Int, 11 \in Int, 0 <= 11, 12 = 11 - 0 + 1
  <2>6. Cardinality(48 .. 59) = 12 /\ IsFiniteSet(48 .. 59)
    BY Interval, 48 \in Int, 59 \in Int, 48 <= 59, 12 = 59 - 48 + 1
  <2>2. (0 .. 11) \cap (48 .. 59) = {}
    OBVIOUS
  <2>3. Cardinality((0 .. 11) \cup (48 .. 59)) = 24
    BY <2>1, <2>2, <2>6, FS_Union, FS_EmptySet
  <2>4. (0 .. 11) \cup (48 .. 59) \in SUBSET (0 .. 59)
    OBVIOUS
  <2>5. QED
    BY <2>3, <2>4, PilotsCounted
<1>4. all \cap p = p /\ all \cap q = q
  BY DEF Pilots
<1>5. (all \ q) \cap psss = psss
  BY DEF Pilots
<1>6. Cardinality(48 .. 191) = 144
  <2>1. PICK a, b : a = 48 /\ b = 191
    OBVIOUS
  <2>2. a \in Int /\ b \in Int /\ a <= b /\ 144 = b - a + 1
    BY <2>1
  <2>3. Cardinality(a .. b) = 144
    BY ONLY <2>2, Interval
  <2>4. QED
    BY ONLY <2>1, <2>3
<1>7. /\ get_data_indices(1, v) = all \ p
      /\ get_data_indices(2, v) = (all \ q) \ psss
      /\ get_data_indices(3, v) = all \ p
  BY IndicesOfPilots DEF get_data_indices, ssb_sc
<1>12. Cardinality(psss) = 144
  BY <1>6
<1> HIDE DEF all, p, q, psss
<1>8. Cardinality(all \ p) = 180
  BY <1>1, <1>2, <1>4, FS_Difference
<1>9. IsFiniteSet(all \ q) /\ Cardinality(all \ q) = 216
  BY <1>1, <1>3, <1>4, FS_Difference
<1>10. Cardinality((all \ q) \ psss) = 72
  BY <1>5, <1>12, <1>9, FS_Difference
<1>11. QED
  BY <1>7, <1>8, <1>10 DEF PbchSymbols, PBCH_NR_M

\* The channel is estimated from the first pilot to the last.
LEMMA PilotsReach ==
  ASSUME NEW v \in 0 .. 3, NEW S \in SUBSET (0 .. 59), 0 \in S, 59 \in S
  PROVE  Min(Pilots(S, v)) = v /\ Max(Pilots(S, v)) = 236 + v
<1>1. v \in Pilots(S, v) /\ 236 + v \in Pilots(S, v)
  BY DEF Pilots
<1>2. \A x \in Pilots(S, v) : x \in Int /\ v <= x /\ x <= 236 + v
  BY DEF Pilots
<1>3. Min(Pilots(S, v)) \in Pilots(S, v) /\ \A y \in Pilots(S, v) : Min(Pilots(S, v)) <= y
  BY <1>1, <1>2 DEF Min
<1>4. Max(Pilots(S, v)) \in Pilots(S, v) /\ \A y \in Pilots(S, v) : Max(Pilots(S, v)) >= y
  BY <1>1, <1>2 DEF Max
<1>5. QED
  BY <1>1, <1>2, <1>3, <1>4

LEMMA EdgesAreFew ==
  ASSUME NEW v \in 0 .. 3, NEW symbol \in 1 .. 3
  PROVE  Cardinality(Unestimated[v][symbol]) <= 3
<1> DEFINE edges == (0 .. 239) \ (v .. 236 + v)
<1>1. Estimated(symbol, v) = v .. 236 + v
  <2>1. PICK S \in SUBSET (0 .. 59) : 0 \in S /\ 59 \in S /\ get_dmrs_indices(symbol, v) = Pilots(S, v)
    <3>1. 0 .. 59 \in SUBSET (0 .. 59) /\ 0 \in 0 .. 59 /\ 59 \in 0 .. 59
      OBVIOUS
    <3>2. (0 .. 11 \cup 48 .. 59) \in SUBSET (0 .. 59) /\ 0 \in (0 .. 11 \cup 48 .. 59)
          /\ 59 \in (0 .. 11 \cup 48 .. 59)
      OBVIOUS
    <3>3. symbol = 1 \/ symbol = 2 \/ symbol = 3
      OBVIOUS
    <3>4. QED
      BY <3>1, <3>2, <3>3, IndicesOfPilots
  <2>2. Min(Pilots(S, v)) = v /\ Max(Pilots(S, v)) = 236 + v
    BY <2>1, PilotsReach
  <2>3. QED
    BY <2>1, <2>2 DEF Estimated
<1>2. IsFiniteSet(0 .. 239) /\ Cardinality(0 .. 239) = 240
  BY Interval, 0 \in Int, 239 \in Int, 0 <= 239, 240 = 239 - 0 + 1
<1>3. (0 .. 239) \cap (v .. 236 + v) = v .. 236 + v
  OBVIOUS
<1>4. Cardinality(v .. 236 + v) = 237
  BY Interval, v \in Int, 236 + v \in Int, v <= 236 + v, 237 = 236 + v - v + 1
<1>5. IsFiniteSet(edges) /\ Cardinality(edges) = 3
  <2> DEFINE all == 0 .. 239
             some == v .. 236 + v
  <2>1. IsFiniteSet(all) /\ Cardinality(all) = 240 /\ some \subseteq all /\ Cardinality(some) = 237
    BY <1>2, <1>4
  <2> HIDE DEF all, some
  <2>2. IsFiniteSet(all \ some) /\ Cardinality(all \ some) = 3
    BY <2>1, SubsetTaken
  <2>3. QED
    BY <2>2 DEF all, some
<1>6. get_data_indices(symbol, v) \subseteq 0 .. 239
  BY DEF get_data_indices, ssb_sc
<1>7. get_data_indices(symbol, v) \ Estimated(symbol, v) \subseteq edges
  BY <1>1, <1>6
<1> HIDE DEF edges
<1>8. Cardinality(get_data_indices(symbol, v) \ Estimated(symbol, v)) <= 3
  BY <1>5, <1>7, FS_Subset
<1>9. QED
  BY <1>8 DEF Unestimated

\* As many symbols are collected as the decoder reads, and all but three resource
\* elements at the edges of a symbol are equalized with a channel taken from pilots
\* (symbol.cc:155, pbch.cc:103).
THEOREM PayloadIsEstimated ==
  ASSUME SssDistinguishes
  PROVE  Spec => []PayloadRestsOnPilots
<1>1. SearchInv => PayloadRestsOnPilots
  <2>1. SUFFICES ASSUME SearchInv PROVE PayloadRestsOnPilots
    OBVIOUS
  <2>2. phy.nid1 \in Nat /\ phy.nid2 \in Nat
    BY <2>1, SsbAssumption DEF SearchInv, Phy, nid_2_max
  <2>3. get_cell_id(phy) % 4 \in 0 .. 3
    BY <2>2 DEF get_cell_id
  <2>4. QED
    BY <2>3, SymbolsCounted, EdgesAreFew DEF PayloadRestsOnPilots
<1>2. Spec => [](BlockInv /\ SearchInv)
  BY SearchInductive
<1>3. QED
  BY <1>1, <1>2, PTL

-----------------------------------------------------------------------------
(* No two identities share a reference signal.                             *)

\* The reference signals of the PBCH, of which the search takes the best and decode the
\* identity, belong to one cell and one number of a block each, whatever the identities
\* (dmrs.cc:46).
THEOREM PbchReferencesDiffer ==
  ASSUME NEW a \in Hypotheses, NEW b \in Hypotheses, NEW m \in Nat, NEW n \in Nat,
         Reference(a, m) = Reference(b, n)
  PROVE  m = n /\ a.i_ssb + 4 * a.n_hf = b.i_ssb + 4 * b.n_hf
<1>1. PICK i \in 0 .. 8, j \in 0 .. 8 : i = a.i_ssb + 4 * a.n_hf /\ j = b.i_ssb + 4 * b.n_hf
  BY DEF Hypotheses
<1>2. PICK p \in Nat, q \in Nat, r \in 0 .. 3, s \in 0 .. 3 :
        p = m \div 4 /\ r = m % 4 /\ m = 4 * p + r /\ q = n \div 4 /\ s = n % 4 /\ n = 4 * q + s
  OBVIOUS
<1>3. PICK x \in Nat, y \in Nat : x = (i + 1) * (p + 1) /\ y = (j + 1) * (q + 1)
  BY (i + 1) * (p + 1) \in Nat /\ (j + 1) * (q + 1) \in Nat
<1>4. 2048 * x + 64 * (i + 1) + r = 2048 * y + 64 * (j + 1) + s
  <2>1. /\ 2048 * (i + 1) * (p + 1) = 2048 * x
        /\ 2048 * (j + 1) * (q + 1) = 2048 * y
    BY <1>3
  <2>2. /\ 2048 * (i + 1) * (p + 1) + 64 * (i + 1) + r = Reference(a, m)
        /\ 2048 * (j + 1) * (q + 1) + 64 * (j + 1) + s = Reference(b, n)
    BY <1>1, <1>2 DEF Reference, PbchInit
  <2>3. QED
    BY <2>1, <2>2
<1>5. i = j /\ r = s /\ x = y
  BY <1>4
<1>6. p = q
  <2>1. /\ i = 0 => x = p + 1 /\ y = q + 1
        /\ i = 1 => x = 2 * (p + 1) /\ y = 2 * (q + 1)
        /\ i = 2 => x = 3 * (p + 1) /\ y = 3 * (q + 1)
        /\ i = 3 => x = 4 * (p + 1) /\ y = 4 * (q + 1)
        /\ i = 4 => x = 5 * (p + 1) /\ y = 5 * (q + 1)
        /\ i = 5 => x = 6 * (p + 1) /\ y = 6 * (q + 1)
        /\ i = 6 => x = 7 * (p + 1) /\ y = 7 * (q + 1)
        /\ i = 7 => x = 8 * (p + 1) /\ y = 8 * (q + 1)
        /\ i = 8 => x = 9 * (p + 1) /\ y = 9 * (q + 1)
    BY <1>3, <1>5
  <2>2. QED
    BY <1>5, <2>1
<1>7. QED
  BY <1>1, <1>2, <1>5, <1>6

\* The 14 low bits of a product with an odd factor.
LowBits(n, x) == (x * (2 * n + 1)) % 16384

\* They tell the other factor: 14 times what the difference is a multiple of is halved.
LEMMA LowBitsTell ==
  ASSUME NEW n \in Nat, NEW x0 \in Nat, x0 < 16384, NEW y0 \in Nat, y0 < 16384,
         LowBits(n, x0) = LowBits(n, y0)
  PROVE  x0 = y0
<1>1. PICK a \in Int, b \in Int : a = x0 * (2 * n + 1) /\ b = y0 * (2 * n + 1)
  BY x0 * (2 * n + 1) \in Int /\ y0 * (2 * n + 1) \in Int
<1>2. PICK k \in Int : a - b = 16384 * k
  <2>1. PICK p \in Int, q \in Int, r \in Int, s \in Int :
          a = 16384 * p + r /\ b = 16384 * q + s /\ r = a % 16384 /\ s = b % 16384
    OBVIOUS
  <2>2. r = s
    BY <1>1, <2>1 DEF LowBits
  <2>3. PICK w \in Int : w = p - q
    BY p - q \in Int
  <2>4. a - b = 16384 * w
    BY <2>1, <2>2, <2>3
  <2>5. QED
    BY <2>4
<1>3. PICK d \in Int : d = x0 - y0
  OBVIOUS
<1> DEFINE F(x, z) == x * (2 * n + 1) = z * k
<1>4. \A x \in Int, z \in Nat : F(x, 2 * z) => \E e \in Int : x = 2 * e /\ F(e, z)
  <2> SUFFICES ASSUME NEW x \in Int, NEW z \in Nat, F(x, 2 * z)
               PROVE  \E e \in Int : x = 2 * e /\ F(e, z)
    OBVIOUS
  <2>1. PICK j \in Int, u \in Int : j = z * k /\ u = x * n
    BY z * k \in Int /\ x * n \in Int
  <2>2. x + 2 * u = 2 * j
    BY <2>1
  <2>3. PICK e \in Int : e = j - u
    BY j - u \in Int
  <2>4. x = 2 * e
    BY <2>2, <2>3
  <2>5. e * (2 * n + 1) = j
    BY <2>1, <2>2, <2>3, <2>4
  <2>6. QED
    BY <2>1, <2>4, <2>5
<1>5. F(d, 16384)
  BY <1>1, <1>2, <1>3
<1> HIDE DEF F
<1>6. PICK e1 \in Int : d = 8 * e1 /\ F(e1, 2048)
  <2>1. PICK x \in Int : d = 2 * x /\ F(x, 8192)
    BY <1>4, <1>5, 16384 = 2 * 8192
  <2>2. PICK y \in Int : x = 2 * y /\ F(y, 4096)
    BY <1>4, <2>1, 8192 = 2 * 4096
  <2>3. PICK z \in Int : y = 2 * z /\ F(z, 2048)
    BY <1>4, <2>2, 4096 = 2 * 2048
  <2>4. QED
    BY <2>1, <2>2, <2>3
<1>7. PICK e2 \in Int : e1 = 8 * e2 /\ F(e2, 256)
  <2>1. PICK x \in Int : e1 = 2 * x /\ F(x, 1024)
    BY <1>4, <1>6, 2048 = 2 * 1024
  <2>2. PICK y \in Int : x = 2 * y /\ F(y, 512)
    BY <1>4, <2>1, 1024 = 2 * 512
  <2>3. PICK z \in Int : y = 2 * z /\ F(z, 256)
    BY <1>4, <2>2, 512 = 2 * 256
  <2>4. QED
    BY <2>1, <2>2, <2>3
<1>8. PICK e3 \in Int : e2 = 16 * e3 /\ F(e3, 16)
  <2>1. PICK x \in Int : e2 = 2 * x /\ F(x, 128)
    BY <1>4, <1>7, 256 = 2 * 128
  <2>2. PICK y \in Int : x = 2 * y /\ F(y, 64)
    BY <1>4, <2>1, 128 = 2 * 64
  <2>3. PICK z \in Int : y = 2 * z /\ F(z, 32)
    BY <1>4, <2>2, 64 = 2 * 32
  <2>4. PICK w \in Int : z = 2 * w /\ F(w, 16)
    BY <1>4, <2>3, 32 = 2 * 16
  <2>5. QED
    BY <2>1, <2>2, <2>3, <2>4
<1>9. PICK e4 \in Int : e3 = 16 * e4
  <2>1. PICK x \in Int : e3 = 2 * x /\ F(x, 8)
    BY <1>4, <1>8, 16 = 2 * 8
  <2>2. PICK y \in Int : x = 2 * y /\ F(y, 4)
    BY <1>4, <2>1, 8 = 2 * 4
  <2>3. PICK z \in Int : y = 2 * z /\ F(z, 2)
    BY <1>4, <2>2, 4 = 2 * 2
  <2>4. PICK u \in Int : u = z * n
    BY z * n \in Int
  <2>5. z + 2 * u = 2 * k
    BY <2>3, <2>4 DEF F
  <2>6. PICK w \in Int : w = k - u
    BY k - u \in Int
  <2>7. z = 2 * w
    BY <2>5, <2>6
  <2>8. e3 = 16 * w
    BY <2>1, <2>2, <2>3, <2>7
  <2>9. QED
    BY <2>8
<1>10. x0 - y0 = 16384 * e4
  BY <1>3, <1>6, <1>7, <1>8, <1>9
<1>11. QED
  BY <1>10

\* The reference signals of the PDCCH belong to one scrambling id, slot and symbol each,
\* for all ids and slots that their types hold, although of what they start from the
\* overflow leaves the low bits (dmrs.cc:89).
THEOREM PdcchReferencesDiffer ==
  ASSUME NEW symbols \in {12, 14}, NEW id1 \in Nat, NEW id2 \in Nat,
         NEW slot1 \in Nat, slot1 < 256, NEW slot2 \in Nat, slot2 < 256,
         NEW l1 \in Nat, l1 < symbols, NEW l2 \in Nat, l2 < symbols
  PROVE  PdcchInit(id1, slot1, l1, symbols) = PdcchInit(id2, slot2, l2, symbols) =>
           id1 = id2 /\ slot1 = slot2 /\ l1 = l2
<1>1. PICK x \in Nat, y \in Nat :
        /\ x = symbols * slot1 + l1 + 1 /\ x < 16384
        /\ y = symbols * slot2 + l2 + 1 /\ y < 16384
  <2>1. CASE symbols = 12
    BY <2>1
  <2>2. CASE symbols = 14
    BY <2>2
  <2>3. QED
    BY <2>1, <2>2
<1>2. 2 ^ 14 = 16384
  OBVIOUS
<1>3. ASSUME PdcchInit(id1, slot1, l1, symbols) = PdcchInit(id2, slot2, l2, symbols)
      PROVE  id1 = id2 /\ slot1 = slot2 /\ l1 = l2
  <2>1. id1 = id2 /\ LowBits(id1, x) = LowBits(id1, y)
    BY <1>1, <1>2, <1>3 DEF PdcchInit, LowBits
  <2>2. x = y
    BY <1>1, <2>1, LowBitsTell
  <2>3. CASE symbols = 12
    BY <1>1, <2>1, <2>2, <2>3
  <2>4. CASE symbols = 14
    BY <1>1, <2>1, <2>2, <2>4
  <2>5. QED
    BY <2>3, <2>4
<1>4. QED
  BY <1>3
=============================================================================
