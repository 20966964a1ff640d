-------------------------- MODULE ChannelMapperInv --------------------------
(***************************************************************************)
(* The inductive invariant of Ofdm and ChannelMapper: where the stream has *)
(* been cut, what the numbers of the symbols are and which CORESETs have   *)
(* been passed on, between any two steps.                                  *)
(***************************************************************************)
EXTENDS ChannelMapper

\* The lengths of the symbols of a slot are those of the grid.  With numerology 1
\* or 2 and a normal prefix they are not: the index that bandwidth_part takes is
\* one within the subframe.
SlotIsSubframe == numerology = 0 \/ extended_prefix

\* A buffer that continues a symbol begun in the one before holds the samples of a
\* symbol.  What is left over before a shorter one is lost.
LeftoverContinued ==
  pc = "loop" /\ leftover.len > 0 => samples_per_symbol(symbol_index) <= size

\* Everything before this position of the stream has been cut into symbols.
Cut == base + (IF pc = "idle" THEN size ELSE symbol_ctr) - leftover.len

SamplesInv ==
  /\ pc = "loop" => size \in BufferSizes /\ symbol_ctr \in 0 .. size
  /\ pc = "loop" /\ leftover.len > 0 => symbol_ctr = 0
  /\ leftover.len < samples_per_symbol(symbol_index)
  /\ Cut = GridStart[count]
  /\ SymbolsOnGrid

\* The k-th symbol of the stream, counted from 0, has the numbers of its place.
IsNumbered(s, k) ==
  /\ s.symbol_index = k % symbols_per_slot
  /\ s.slot_index = (k \div symbols_per_slot) % slots_per_frame

\* The batch holds the last symbols produced.
NumbersInv ==
  /\ symbol_index = count % symbols_per_slot
  /\ slot_index = (count \div symbols_per_slot) % slots_per_frame
  /\ Batch <= count
  /\ \A j \in 1 .. Batch : IsNumbered(produced_symbols[j], count - Batch + j - 1)

\* While the loop runs, what it has cut of the buffer is at most what it produced.
FirstInv ==
  pc = "loop" =>
    /\ Batch = 0 => symbol_ctr <= 0
    /\ Batch = 1 => symbol_ctr <= samples_per_symbol(0)

\* The CORESET of the slot lies within the symbols from..to of the stream.
Within(slot, from, to) ==
  from <= CoresetStart(slot) /\ CoresetStart(slot) + coreset_duration <= to

PassedInv ==
  mapper = "ok" =>
    /\ \A j, k \in DOMAIN passed : j < k => passed[j] < passed[k]
    /\ pc = "idle" =>
         /\ \A k \in DOMAIN passed : Within(passed[k], count - Batch, count)
         /\ \A slot \in 0 .. count :
              Within(slot, count - Batch, count) => \E k \in DOMAIN passed : passed[k] = slot
    /\ pc = "loop" => \A k \in DOMAIN passed : Within(passed[k], 0, count - Batch)
    /\ latest >= 0 => Within(latest, 0, count - Batch)

MapperInv ==
  /\ MapperTypeOK
  /\ pc = "loop" => symbol_ctr <= size
  /\ NumbersInv
  /\ FirstInv
  /\ PassedInv
  /\ ThrowsOnlyOnTinyBuffer
=============================================================================
