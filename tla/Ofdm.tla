-------------------------------- MODULE Ofdm --------------------------------
(***************************************************************************)
(* The OFDM demodulator (src/ofdm.cc): cuts the buffers a flow receives    *)
(* into symbols and keeps what is left of a buffer for the next one.       *)
(*                                                                         *)
(* Samples are identified by their position in the stream of the flow,     *)
(* which starts at the start of a slot; of the symbols, the model keeps    *)
(* where they were cut.                                                    *)
(***************************************************************************)
EXTENDS BandwidthPart, Integers, Sequences

CONSTANTS
  BufferSizes,   \* sizes of the buffers the flow receives
  MaxSamples     \* bound: length of the stream

ASSUME OfdmAssumption ==
  /\ BufferSizes \subseteq Nat
  /\ MaxSamples \in Nat

VARIABLES
  pc,                  \* "idle" between two calls of process, or "loop"
  base, size,          \* stream position and size of the buffer
  symbol_ctr,          \* where the next symbol starts in the buffer
  leftover,            \* leftover_samples: [from, len]
  symbol_index,
  slot_index,
  samples_processed,
  produced_symbols,
  count                \* history: how many symbols have been produced in all

buffer == <<base, size>>
vars == <<pc, buffer, symbol_ctr, leftover, symbol_index, slot_index, samples_processed,
          produced_symbols, count>>

Symbols == [start : Int, shifted : Nat, sample_index : Nat, symbol_index : Nat, slot_index : Nat]

TypeOK ==
  /\ pc \in {"idle", "loop"}
  /\ base \in 0 .. MaxSamples
  /\ size \in BufferSizes \cup {0}
  /\ symbol_ctr \in Int
  /\ leftover \in [from : Int, len : 0 .. samples_per_symbol(0)]
  /\ symbol_index \in 0 .. symbols_per_slot - 1
  /\ slot_index \in 0 .. slots_per_frame - 1
  /\ samples_processed \in Nat
  /\ produced_symbols \in Seq(Symbols)
  /\ count \in Nat

Init ==
  /\ pc = "idle"
  /\ base = 0
  /\ size = 0
  /\ symbol_ctr = 0
  /\ leftover = [from |-> 0, len |-> 0]
  /\ symbol_index = 0
  /\ slot_index = 0
  /\ samples_processed = 0
  /\ produced_symbols = <<>>
  /\ count = 0

process(n) ==
  /\ pc = "idle"
  /\ base + size + n <= MaxSamples
  /\ pc' = "loop"
  /\ base' = base + size
  /\ size' = n
  /\ symbol_ctr' = 0
  /\ produced_symbols' = <<>>
  /\ UNCHANGED <<leftover, symbol_index, slot_index, samples_processed, count>>

SymbolFits == size - symbol_ctr >= samples_per_symbol(symbol_index)

\* The symbol the loop cuts: from the buffer, or, when there are leftover
\* samples, from these and the head of the buffer.  It is shifted by as many of
\* its useful samples as come from one position too early.
CutSymbol ==
  [start        |-> base + symbol_ctr - leftover.len,
   shifted      |-> IF leftover.len > samples_per_cp(symbol_index)
                      /\ leftover.from # base - leftover.len
                    THEN leftover.len - samples_per_cp(symbol_index) ELSE 0,
   sample_index |-> samples_processed,
   symbol_index |-> symbol_index,
   slot_index   |-> slot_index]

next_symbol == (symbol_index + 1) % symbols_per_slot

\* Mutant of next_slot: the slot changes one symbol early.
next_slotEarly ==
  IF next_symbol = symbols_per_slot - 1 THEN (slot_index + 1) % slots_per_frame ELSE slot_index

next_slot == IF next_symbol = 0 THEN (slot_index + 1) % slots_per_frame ELSE slot_index

\* Mutant of next_ctr: the symbol after one with leftover samples starts too late.
next_ctrForgetsLeftover == symbol_ctr + samples_per_symbol(symbol_index)

next_ctr == symbol_ctr - leftover.len + samples_per_symbol(symbol_index)

\* The length added is that of the next symbol.
next_processed == samples_processed + samples_per_symbol(next_symbol)

\* One turn of the loop.
Demodulate ==
  /\ pc = "loop"
  /\ SymbolFits
  /\ produced_symbols' = Append(produced_symbols, CutSymbol)
  /\ symbol_ctr' = next_ctr
  /\ leftover' = [leftover EXCEPT !.len = 0]
  /\ symbol_index' = next_symbol
  /\ slot_index' = next_slot
  /\ samples_processed' = next_processed
  /\ count' = count + 1
  /\ UNCHANGED <<pc, buffer>>

\* The copy starts one sample before the next symbol and is cut to size.  What
\* was left over from the buffer before is behind it, and cut off.
KeepLeftover ==
  /\ pc = "loop"
  /\ ~SymbolFits
  /\ leftover' = [from |-> base + symbol_ctr - 1, len |-> size - symbol_ctr]
  /\ pc' = "idle"
  /\ UNCHANGED <<buffer, symbol_ctr, symbol_index, slot_index, samples_processed,
                 produced_symbols, count>>

Next == (\E n \in BufferSizes : process(n)) \/ Demodulate \/ KeepLeftover

Spec == Init /\ [][Next]_vars

-----------------------------------------------------------------------------
(* Properties.                                                             *)

Last == produced_symbols[Len(produced_symbols)]

\* However the stream is divided into buffers, every symbol is cut where the
\* grid has it: what is left of a buffer neither loses nor adds a position.
SymbolsOnGrid == produced_symbols # <<>> => Last.start = GridStart[count - 1]

\* The symbol and slot numbers of a symbol are those of its place in the grid, so
\* that the DMRS tables are looked up for the right one.
NumbersOnGrid ==
  produced_symbols # <<>> =>
    /\ Last.symbol_index = (count - 1) % symbols_per_slot
    /\ Last.slot_index = ((count - 1) \div symbols_per_slot) % slots_per_frame

\* Between two calls less than a symbol is left, and nothing is left out.
LessThanSymbolLeft ==
  pc = "idle" /\ base + size > 0 =>
    /\ leftover.len < samples_per_symbol(symbol_index)
    /\ base + size - leftover.len = GridStart[count]

\* "Keeping leftover samples for next input" (ofdm.cc:118): the useful part of a
\* symbol that straddles two buffers is that of the stream.
LeftoverIsExact == produced_symbols # <<>> => Last.shifted = 0
=============================================================================
