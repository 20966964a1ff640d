----------------------------- MODULE Candidate -----------------------------
(***************************************************************************)
(* The candidates of a CORESET (src/pdcch.cc): the resource blocks of each *)
(* and its reference symbols, as initialize_dmrs_seq computes them.        *)
(*                                                                         *)
(* Of a reference symbol are kept the resource block it is received in and *)
(* what generates it: the symbol, and the place in the sequence, in        *)
(* resource blocks too (each has three).                                   *)
(***************************************************************************)
EXTENDS Coreset, Integers, Sequences, FiniteSets, SequencesExt

Candidates(c) == {cd \in Levels \X (0 .. 255) : cd[2] < c.candidates[cd[1]]}

\* std::sort: a number has its place after those that are less.
Sorted(s) ==
  LET before == [i \in DOMAIN s |->
                   Cardinality({j \in DOMAIN s : s[j] < s[i] \/ (s[j] = s[i] /\ j < i)})]
  IN [k \in DOMAIN s |-> s[CHOOSE i \in DOMAIN s : before[i] = k - 1]]

\* get_rb_candidates, sorted.
get_rb_candidates(c, level, idx) ==
  LET rb   == get_rb_interleaved(c)
      cces == get_candidates(c, level, idx, c.candidates[level])
      regs == CCE_REG * 2 ^ level
      from == CCE_REG * Min(cces)
  IN Sorted([k \in 1 .. regs |-> rb[from + k - 1]])

\* The sequence of every symbol of the CORESET is taken at the places of the
\* first share of the resource blocks, as many as there are in one symbol.
Pattern(c, level, idx) ==
  LET rbs   == get_rb_candidates(c, level, idx)
      share == Len(rbs) \div c.duration
  IN [received  |-> rbs,
      generated |-> [k \in 1 .. share * c.duration |->
                       [symbol |-> (k - 1) \div share, rb |-> rbs[((k - 1) % share) + 1]]]]

\* Mutant of GoldBlocks: half as many bits.
GoldBlocksHalf == 48

\* The sequence is generated for 2 * AL_16 * 18 bits: 288 symbols, 96 blocks.
GoldBlocks == 96

\* The making of the tables stops at a candidate that has no place, whose blocks are
\* not all in the list, or whose sequence is not long enough.
Throws(c) ==
  \E cd \in Candidates(c) :
    \/ ~Fits(c, cd[1])
    \/ ~InList(c, get_candidates(c, cd[1], cd[2], c.candidates[cd[1]]))
    \/ \E symbol \in Range(Pattern(c, cd[1], cd[2]).generated) : symbol.rb >= GoldBlocks
=============================================================================
