---------------------------- MODULE BandwidthPart ----------------------------
(***************************************************************************)
(* The time grid of a bandwidth part (src/bandwidth_part.cc): how many     *)
(* samples each OFDM symbol of a subframe and its cyclic prefix take.  The *)
(* code keeps durations; the product of each with the sample rate is       *)
(* rounded down on its own, a prefix and the symbol it belongs to apart.   *)
(***************************************************************************)
EXTENDS Naturals

CONSTANTS
  numerology,        \* 0, 1 or 2
  extended_prefix,
  fft_size,          \* samples of the useful part of a symbol
  NormalCp, LongCp,  \* samples of a normal cyclic prefix, and of the longer ones
  ExtendedCp,
  NormalSymbol, LongSymbol,    \* samples of the symbols with these prefixes
  ExtendedSymbol

ASSUME GridAssumption ==
  /\ numerology \in 0 .. 2
  /\ extended_prefix \in BOOLEAN
  /\ {fft_size, NormalCp, LongCp, ExtendedCp} \subseteq Nat \ {0}
  /\ NormalCp <= LongCp /\ NormalSymbol <= LongSymbol
  /\ NormalSymbol \in NormalCp + fft_size .. NormalCp + fft_size + 1
  /\ LongSymbol \in LongCp + fft_size .. LongCp + fft_size + 1
  /\ ExtendedSymbol \in ExtendedCp + fft_size .. ExtendedCp + fft_size + 1

symbols_per_slot == IF extended_prefix THEN 12 ELSE 14
slots_per_subframe == 2 ^ numerology
slots_per_frame == 10 * slots_per_subframe
symbols_per_subframe == slots_per_subframe * symbols_per_slot

\* "At indices l = 0 and l = 7*2^u in the subframe we have a longer cyclic prefix".
long_prefix(l) == l \in {0, 7 * 2 ^ numerology}

samples_per_cp(l) ==
  IF extended_prefix THEN ExtendedCp ELSE IF long_prefix(l) THEN LongCp ELSE NormalCp

samples_per_symbol(l) ==
  IF extended_prefix THEN ExtendedSymbol ELSE IF long_prefix(l) THEN LongSymbol ELSE NormalSymbol

\* Where the k-th symbol after the start of a subframe starts.
GridStart[k \in Nat] ==
  IF k = 0 THEN 0 ELSE GridStart[k - 1] + samples_per_symbol((k - 1) % symbols_per_subframe)
=============================================================================
