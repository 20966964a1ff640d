------------------------- MODULE ReferenceSequences -------------------------
(***************************************************************************)
(* The sequences a cell is recognized by: the primary and secondary        *)
(* synchronization signals (src/pss.cc, src/sss.cc), and what the          *)
(* demodulation reference signals are generated from (src/pn_sequences.cc, *)
(* src/dmrs.cc).                                                           *)
(***************************************************************************)
EXTENDS Integers, Sequences

pss_length == 127
sss_length == 127
nid_1_max == 335
nid_2_max == 2
Nc == 1600
gold_sequence_length == 31

\* A bit as a modulated value.
Modulated(bit) == 1 - 2 * bit

-----------------------------------------------------------------------------
(* The m-sequences of PSS and SSS: every bit is the sum of the one seven   *)
(* before it and of the one tap positions after that.                      *)

MSequence(initial, tap) ==
  LET bits[n \in 7 .. pss_length] ==
        IF n = 7 THEN initial
        ELSE LET x == bits[n - 1]
             IN Append(x, (x[n - 7 + tap] + x[n - 7]) % 2)
  IN bits[pss_length]

PssBits == MSequence(<<0, 1, 1, 0, 1, 1, 1>>, 4)

generate_pss_seq(nid_2) ==
  [i \in 0 .. pss_length - 1 |-> Modulated(PssBits[((i + 43 * nid_2) % pss_length) + 1])]

aux_array_0 == MSequence(<<1, 0, 0, 0, 0, 0, 0>>, 4)
aux_array_1 == MSequence(<<1, 0, 0, 0, 0, 0, 0>>, 1)

m_0_idx(nid_1, nid_2) == 15 * (nid_1 \div 112) + 5 * nid_2
m_1_idx(nid_1) == nid_1 % 112

generate_sss_seq(nid_1, nid_2) ==
  [i \in 0 .. sss_length - 1 |->
     Modulated(aux_array_0[((i + m_0_idx(nid_1, nid_2)) % sss_length) + 1])
       * Modulated(aux_array_1[((i + m_1_idx(nid_1)) % sss_length) + 1])]

-----------------------------------------------------------------------------
(* Gold sequences.  A state is the pair of registers after so many steps,  *)
(* the oldest bit of each first; forty times forty steps pass before the   *)
(* first bit that is used.                                                 *)

GoldStep(x) ==
  [x1 |-> Append(Tail(x.x1), (x.x1[4] + x.x1[1]) % 2),
   x2 |-> Append(Tail(x.x2), (x.x2[4] + x.x2[3] + x.x2[2] + x.x2[1]) % 2)]

Registers == [x1 : Seq({0, 1}), x2 : Seq({0, 1})]

GoldSteps[n \in Nat, x \in Registers] ==
  IF n = 0 THEN x ELSE GoldSteps[n - 1, GoldStep(x)]

FortySteps[n \in Nat, x \in Registers] ==
  IF n = 0 THEN x ELSE FortySteps[n - 1, GoldSteps[40, x]]

\* c_init is given by the 31 low bits of it, the only ones that are looked at.
pseudo_random_sequence(seq_length, c_init) ==
  LET x1 == <<1>> \o [k \in 1 .. gold_sequence_length - 1 |-> 0]
      x == FortySteps[Nc \div 40, [x1 |-> x1, x2 |-> c_init]]
  IN [n \in 1 .. seq_length |->
        LET y == GoldSteps[n - 1, x] IN (y.x1[1] + y.x2[1]) % 2]

Bit(value, n) == (value \div 2 ^ n) % 2

\* PBCH: the index counts blocks and, with four blocks in a half frame, half frames.
PbchInit(i_ssb, n_hf, nid_cell) ==
  LET i == i_ssb + 4 * n_hf
  IN 2048 * (i + 1) * (nid_cell \div 4 + 1) + 64 * (i + 1) + (nid_cell % 4)

PbchInitBits(i_ssb, n_hf, nid_cell) ==
  [k \in 1 .. 31 |-> Bit(PbchInit(i_ssb, n_hf, nid_cell), k - 1)]

\* PDCCH: the seventeen low bits hold 2 * n_id, the others the product with the
\* symbol's number.  The code computes it in an int, where it overflows; the bits
\* that are left are these.
PdcchInit(n_id, n_slot, n_ofdm, num_symbols_per_slot) ==
  [low  |-> 2 * n_id,
   high |-> ((num_symbols_per_slot * n_slot + n_ofdm + 1) * (2 * n_id + 1)) % 2 ^ 14]

PdcchInitBits(init) ==
  [k \in 1 .. 31 |-> IF k <= 17 THEN Bit(init.low, k - 1) ELSE Bit(init.high, k - 18)]
=============================================================================
