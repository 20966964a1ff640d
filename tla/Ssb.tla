--------------------------------- MODULE Ssb ---------------------------------
(***************************************************************************)
(* How a synchronization signal block is identified and decoded: the SSB   *)
(* mapper (src/ssb_mapper.cc) searches the secondary synchronization       *)
(* signal (SSS) for the group of the cell, the broadcast channel           *)
(* (src/pbch.cc, src/symbol.cc) tries what the index of the block and its  *)
(* half frame may be, equalizes the symbols and decodes them, and the      *)
(* synchronizer's callbacks (src/syncer.cc) keep the result in the         *)
(* physical-layer state (include/phy.h), and correct the frequency.        *)
(*                                                                         *)
(* Syncer models when blocks are looked for and where; here each step of   *)
(* the environment hands over one block, whole or spoiled.                 *)
(***************************************************************************)
EXTENDS ReferenceSequences, FiniteSets, FiniteSetsExt

CONSTANTS
  Blocks,      \* the blocks that may be received
  FalseGroups, \* what the SSS search may report for a block that is spoiled
  Nid1Width,   \* phy::nid1 holds values modulo this (uint8_t)
  ConfigNid2,  \* nid_2 of the configuration: 3 and above look for all three
  Drifts       \* frequencies the receiver may be off by, within half a subcarrier

\* A block of a cell with Lmax blocks per half frame.  A clean one is received as it
\* was sent, a noisy one unrecognizably, and of a cut one the SSS is all zero.
Block == [nid1 : 0 .. nid_1_max, nid2 : 0 .. nid_2_max, Lmax : {4, 8},
          index : 0 .. 7, half : 0 .. 1, quality : {"clean", "noisy", "cut"}]

ASSUME SsbAssumption ==
  /\ Blocks \subseteq Block
  /\ \A b \in Blocks : b.index < b.Lmax
  /\ FalseGroups \subseteq 0 .. nid_1_max
  /\ Nid1Width \in Nat \ {0}
  /\ ConfigNid2 \in Nat
  /\ Drifts \subseteq Int

None == -1
ssb_sc == 240
PBCH_NR_M == 432

VARIABLES
  state,       \* syncer::state, of which only "find_pss" and "find_sss" matter here
  phy,         \* nid1, nid2, i_ssb, n_hf, in_synch
  pss_indices, \* pss_start .. pss_end
  block,       \* the block in downsampled_samples
  drift,       \* environment: the frequency the receiver is off by
  cfo,         \* what new samples are corrected by
  new_cfo_fine,
  searched,    \* history: the group of the block was searched for
  outcome,     \* history: "none", "mib", "lost" or "early" for the last block
  locked,      \* history: what the last MIB was decoded with
  residual     \* history: what the samples relayed after the last MIB were still off by

frequency == <<drift, cfo, new_cfo_fine, residual>>
vars == <<state, phy, pss_indices, block, frequency, searched, outcome, locked>>

\* phy::get_cell_id
get_cell_id(p) == 3 * p.nid1 + p.nid2

\* syncer::on_sss_found
on_sss_found(nid1) == [phy EXCEPT !.nid1 = nid1 % Nid1Width]

-----------------------------------------------------------------------------
(* The search for the SSS: every group is correlated with the symbol, and  *)
(* the first of the best ones counts if it is better than the average.     *)

CleanCells == {<<b.nid1, b.nid2>> : b \in {c \in Blocks : c.quality = "clean"}}

\* The sum of f over first .. last.
Total(f, first, last) ==
  LET sum[lo \in first .. last, hi \in first .. last] ==
        IF lo = hi THEN f[lo]
        ELSE LET mid == (lo + hi) \div 2 IN sum[lo, mid] + sum[mid + 1, hi]
  IN sum[first, last]

correlate_magnitude(a, b) ==
  LET sum == Total([i \in 0 .. sss_length - 1 |-> a[i] * b[i]], 0, sss_length - 1)
  IN IF sum < 0 THEN -sum ELSE sum

\* Every SSS of every group, correlated with those of the cells that are around.
SssCorrelations ==
  [c \in CleanCells |->
     LET sss_res == generate_sss_seq(c[1], c[2])
     IN [nid1 \in 0 .. nid_1_max |->
           correlate_magnitude(generate_sss_seq(nid1, c[2]), sss_res)]]

FirstMaximum(corr) ==
  CHOOSE n \in DOMAIN corr :
    \A m \in DOMAIN corr : corr[m] < corr[n] \/ (corr[m] = corr[n] /\ n <= m)

\* max_nid if it passes the threshold: the average is taken over 355 values.
SssFound ==
  [c \in CleanCells |->
     LET corr == SssCorrelations[c]
         max_nid == FirstMaximum(corr)
     IN IF 355 * corr[max_nid] > Total(corr, 0, nid_1_max) THEN max_nid ELSE None]

\* What the search may report.  Anything but silence exceeds the threshold.
SssResults ==
  CASE block.quality = "clean" -> {SssFound[<<block.nid1, block.nid2>>]}
    [] block.quality = "noisy" -> FalseGroups
    [] block.quality = "cut"   -> {None}

-----------------------------------------------------------------------------
(* The resource elements of the symbols 1 to 3 of the block.               *)

\* Mutant of get_dmrs_indices: the last pilot of a symbol is left out.
get_dmrs_indicesShort(symbol, cell_id) ==
  {4 * i + (cell_id % 4) :
     i \in IF symbol = 2 THEN 0 .. 11 \cup 48 .. 58 ELSE 0 .. 58}

get_dmrs_indices(symbol, cell_id) ==
  {4 * i + (cell_id % 4) :
     i \in IF symbol = 2 THEN 0 .. 11 \cup 48 .. 59 ELSE 0 .. 59}

get_data_indices(symbol, cell_id) ==
  ((0 .. ssb_sc - 1) \ get_dmrs_indices(symbol, cell_id))
    \ (IF symbol = 2 THEN 48 .. 191 ELSE {})

\* How many symbols process collects for the decoder, which depends on the cell's
\* identity modulo 4 alone.
PbchSymbols ==
  [v \in 0 .. 3 |-> LET in(symbol) == Cardinality(get_data_indices(symbol, v))
                    IN in(1) + in(2) + in(3)]

\* symbol::channel_estimate: the subcarriers whose channel is taken from pilots alone.
\* Before the first it leans on the initial value of the filter, after the last it is
\* that value.
Estimated(symbol, cell_id) ==
  LET pilots == get_dmrs_indices(symbol, cell_id) IN Min(pilots) .. Max(pilots)

\* The payload of a symbol that does not rest on pilots.
Unestimated ==
  [v \in 0 .. 3 |-> [symbol \in 1 .. 3 |-> get_data_indices(symbol, v) \ Estimated(symbol, v)]]

-----------------------------------------------------------------------------
(* The broadcast channel.                                                  *)

\* What initialize_dmrs_seq has references for, and process tries.
Hypotheses == [i_ssb : 0 .. 4, n_hf : 0 .. 1]

\* The loops try the half frames of an index before the next index.
TriedBefore(h, g) == h.i_ssb < g.i_ssb \/ (h.i_ssb = g.i_ssb /\ h.n_hf < g.n_hf)

\* What the references of a hypothesis are generated from.
Reference(h, cell_id) == PbchInit(h.i_ssb, h.n_hf, cell_id)

\* The references the block was sent with: cells with four blocks count half frames.
SentReference(b) ==
  Reference([i_ssb |-> b.index, n_hf |-> IF b.Lmax = 4 THEN b.half ELSE 0], get_cell_id(b))

Matching(p) ==
  {h \in Hypotheses : block.quality = "clean" /\ Reference(h, get_cell_id(p)) = SentReference(block)}

\* Mutant of BestHypotheses: of hypotheses with the same references the last is kept.
BestHypothesesLast(p) ==
  IF Matching(p) = {} THEN Hypotheses
  ELSE {h \in Matching(p) : \A g \in Matching(p) : g = h \/ TriedBefore(g, h)}

\* get_ibar_ssb_snr is the highest for the references that were sent.  When none of
\* them was, it can be the highest for any.
BestHypotheses(p) ==
  IF Matching(p) = {} THEN Hypotheses
  ELSE {h \in Matching(p) : \A g \in Matching(p) : g = h \/ TriedBefore(h, g)}

\* The scrambling of a block on the channel depends on the cell and the low bits of
\* the index.
Scrambling(cell_id, ssb_idx, Lmax) == <<cell_id, ssb_idx % Lmax>>

\* Mutant of decode: descrambles with the index that was found.
decodeFoundIndex(p) ==
  /\ [i_ssb |-> p.i_ssb, n_hf |-> p.n_hf] \in Matching(p)
  /\ Scrambling(get_cell_id(p), p.i_ssb, 8) = Scrambling(get_cell_id(block), block.index, block.Lmax)

\* Mutant of decode: descrambles with the number its references count the block by.
decodeFoundNumber(p) ==
  /\ [i_ssb |-> p.i_ssb, n_hf |-> p.n_hf] \in Matching(p)
  /\ Scrambling(get_cell_id(p), p.i_ssb + 4 * p.n_hf, 8)
       = Scrambling(get_cell_id(block), block.index, block.Lmax)

\* pbch::decode, whether the CRC matches: the symbols were equalized with the
\* references of the block, and ssb_idx is 0 and Lmax 8 whatever was found.
decode(p) ==
  /\ [i_ssb |-> p.i_ssb, n_hf |-> p.n_hf] \in Matching(p)
  /\ Scrambling(get_cell_id(p), 0, 8) = Scrambling(get_cell_id(block), block.index, block.Lmax)

-----------------------------------------------------------------------------
Init ==
  /\ state = "find_pss"
  /\ phy = [nid1 |-> 0, nid2 |-> 0, i_ssb |-> 0, n_hf |-> 0, in_synch |-> FALSE]
  /\ pss_indices = IF ConfigNid2 < 3 THEN {ConfigNid2} ELSE 0 .. nid_2_max
  /\ block = [nid1 |-> 0, nid2 |-> 0, Lmax |-> 4, index |-> 0, half |-> 0, quality |-> "noisy"]
  /\ drift \in Drifts
  /\ cfo = 0
  /\ new_cfo_fine = 0
  /\ searched = FALSE
  /\ outcome = "none"
  /\ locked = phy
  /\ residual = 0

\* syncer::fine_sync measures what is left of the offset after the samples have been
\* corrected by cfo; of noise, anything.
fine_sync(b) ==
  /\ new_cfo_fine' \in IF b.quality = "noisy" THEN Drifts ELSE {drift - cfo}
  /\ UNCHANGED <<drift, cfo, residual>>

\* syncer::find_pss and fine_sync: of a block whose PSS is not looked for nothing is
\* recognized.
find_pss(b) ==
  /\ state = "find_pss"
  /\ state' = "find_sss"
  /\ \E nid2 \in pss_indices :
       IF b.nid2 \in pss_indices /\ b.quality # "noisy"
       THEN nid2 = b.nid2 /\ block' = b /\ phy' = [phy EXCEPT !.nid2 = nid2]
       ELSE block' = [b EXCEPT !.quality = "noisy"] /\ phy' = [phy EXCEPT !.nid2 = nid2]
  /\ fine_sync(block')
  /\ outcome' = "none"
  /\ searched' = FALSE
  /\ UNCHANGED <<pss_indices, locked>>

on_sync_lost ==
  /\ state' = "find_pss"
  /\ outcome' = "lost"
  /\ UNCHANGED <<pss_indices, locked, frequency>>

\* Mutant of UpdateCfo: the wrong sign.
UpdateCfoOpposite ==
  /\ cfo' = -new_cfo_fine
  /\ residual' = drift - cfo - 2 * new_cfo_fine
  /\ UNCHANGED <<drift, new_cfo_fine>>

\* What was measured replaces the correction it was measured on top of.  The samples
\* of this chunk have been corrected by it in fine_sync already, and are once more.
UpdateCfo ==
  /\ cfo' = new_cfo_fine
  /\ residual' = drift - cfo - 2 * new_cfo_fine
  /\ UNCHANGED <<drift, new_cfo_fine>>

\* syncer::on_mib_found when the CRC matched, up to the wait for the next block.
on_mib_found(p) ==
  /\ phy' = [p EXCEPT !.in_synch = TRUE]
  /\ pss_indices' = {p.nid2}
  /\ locked' = phy'
  /\ UpdateCfo
  /\ state' = "find_pss"
  /\ outcome' = "mib"

\* The decoder gives up before it knows (pbch.cc:86, 112, 120): nobody is called.
DecodeReturnsEarly(p) ==
  /\ phy' = p
  /\ outcome' = "early"
  /\ UNCHANGED <<state, pss_indices, locked, frequency>>

\* Mutant of TriedHypotheses: searches again although in synch.
TriedHypothesesAgain(p) == BestHypotheses(p)

TriedHypotheses(p) ==
  IF p.in_synch THEN {[i_ssb |-> p.i_ssb, n_hf |-> p.n_hf]} ELSE BestHypotheses(p)

\* pbch::process, with the physical-layer state the block was searched with.
PbchProcess(p) ==
  \E h \in TriedHypotheses(p) :
    LET found == [p EXCEPT !.i_ssb = h.i_ssb, !.n_hf = h.n_hf]
    IN \/ decode(found) /\ on_mib_found(found)
       \/ ~decode(found) /\ phy' = found /\ on_sync_lost
       \/ DecodeReturnsEarly(found)

\* ssb_mapper::process in synch: the SSS is not searched.
ProcessInSynch ==
  /\ state = "find_sss" /\ phy.in_synch
  /\ PbchProcess(phy)
  /\ UNCHANGED <<block, searched>>

\* ssb_mapper::process otherwise.
ProcessSearching ==
  /\ state = "find_sss" /\ ~phy.in_synch
  /\ \E nid1 \in SssResults :
       \/ nid1 # None /\ PbchProcess(on_sss_found(nid1))
       \/ nid1 = None /\ on_sync_lost /\ UNCHANGED phy
  /\ searched' = TRUE
  /\ UNCHANGED block

\* syncer::process when it has missed the block for a period: the PSS index stays.
GiveUp ==
  /\ phy.in_synch
  /\ phy' = [phy EXCEPT !.in_synch = FALSE]
  /\ UNCHANGED <<state, pss_indices, block, frequency, searched, outcome, locked>>

Next ==
  \/ \E b \in Blocks : find_pss(b)
  \/ ProcessInSynch
  \/ ProcessSearching
  \/ GiveUp

Spec == Init /\ [][Next]_vars

-----------------------------------------------------------------------------
(* Properties.                                                             *)

Phy == [nid1 : 0 .. Nid1Width - 1, nid2 : 0 .. nid_2_max,
        i_ssb : 0 .. 4, n_hf : 0 .. 1, in_synch : BOOLEAN]

\* Every variable keeps to its range, the group of the cell to the eight bits it has.
TypeOK ==
  /\ state \in {"find_pss", "find_sss"}
  /\ phy \in Phy /\ locked \in Phy
  /\ pss_indices \in {0 .. nid_2_max} \cup {{n} : n \in 0 .. nid_2_max}
  /\ block \in Block
  /\ searched \in BOOLEAN
  /\ outcome \in {"none", "mib", "lost", "early"}
  /\ {drift, cfo, new_cfo_fine, residual} \subseteq Int

\* A search identifies a clean block: the group it reports is the one the SSS was sent
\* with, although groups share one of the two sequences, and of it the physical-layer
\* state keeps the remainder; if that is all of it, index and half frame are those of
\* the block, counted as its cell counts them, although two hypotheses have the same
\* references.
SearchIdentifiesBlock ==
  searched /\ block.quality = "clean" /\ outcome # "none" =>
    /\ phy.nid1 = block.nid1 % Nid1Width
    /\ block.nid1 < Nid1Width =>
         IF block.Lmax = 4
         THEN block.index = phy.i_ssb /\ block.half = phy.n_hf
         ELSE block.index = phy.i_ssb + 4 * phy.n_hf

\* A MIB is accepted only under the identity of the cell that sent it, and only from
\* the first block of a burst, which is where on_mib_found believes to be when it
\* places the slot: not from a neighbour with the same PSS while tracking, and not
\* from a cell whose group was cut to eight bits.
MibNamesItsCell ==
  outcome = "mib"
    => /\ block.quality = "clean"
       /\ get_cell_id(locked) = get_cell_id(block)
       /\ block.index = 0

\* Every clean first block of a cell whose group fits is decoded once it is searched,
\* in either half frame, unless the decoder itself fails.
FirstBlocksDecode ==
  searched /\ block.quality = "clean" /\ block.nid1 < Nid1Width /\ block.index = 0
    => outcome \in {"mib", "early"}

\* While in synch nothing that is received, noise and the blocks of neighbours
\* included, changes the cell and the hypothesis the MIB was decoded with.
LockedHypothesis ==
  phy.in_synch => phy = locked /\ pss_indices = {locked.nid2}

\* Whatever the cell, exactly as many symbols are collected as the decoder reads, and
\* the channel they are equalized with rests on pilots for all of the payload of a MIB
\* but three resource elements of a symbol, those at its edges.
PayloadRestsOnPilots ==
  LET v == get_cell_id(phy) % 4
  IN /\ outcome \in {"mib", "lost", "early"} => PbchSymbols[v] = PBCH_NR_M
     /\ outcome = "mib" =>
          \A symbol \in 1 .. 3 : Cardinality(Unestimated[v][symbol]) <= 3

\* However many MIBs are found, and whatever is received between them, neither the
\* correction of new samples nor that of the samples relayed after a MIB, which is
\* applied twice, leaves them further off than no correction would.
CorrectionNeverHurts ==
  {drift - cfo, residual} \subseteq {-drift, 0, drift}

\* "Update the total CFO so it is applied next time" (syncer.cc:375): what new
\* samples are corrected by after a MIB is all of the offset.
CfoIsTotal == outcome = "mib" => cfo = drift
=============================================================================
