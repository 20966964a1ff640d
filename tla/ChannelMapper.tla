--------------------------- MODULE ChannelMapper ---------------------------
(***************************************************************************)
(* The channel mapper (src/channel_mapper.cc) behind the demodulator: of   *)
(* every batch of symbols ofdm::process sends it, it passes the control    *)
(* resource sets (CORESETs) on to the PDCCH.                               *)
(***************************************************************************)
EXTENDS Ofdm, FiniteSets

CONSTANTS
  Durations,                   \* how many symbols a CORESET may have: 1, 2 or 3
  coreset_ofdm_symbol_start    \* its first symbol within the slot

ASSUME CoresetAssumption ==
  /\ Durations \subseteq 1 .. 3
  /\ coreset_ofdm_symbol_start \in 0 .. symbols_per_slot - 3

VARIABLES
  coreset_duration,
  mapper,     \* "ok", or "exception" when an index was out of range
  passed,     \* the slots, counted from the start, whose CORESETs were passed on last
  latest      \* history: the last one of those passed on before, or -1

mapperVars == <<vars, coreset_duration, mapper, passed, latest>>

MapperTypeOK ==
  /\ TypeOK
  /\ coreset_duration \in Durations
  /\ mapper \in {"ok", "exception"}
  /\ passed \in Seq(Nat)
  /\ latest \in -1 .. count

MapperInit ==
  /\ Init
  /\ coreset_duration \in Durations
  /\ mapper = "ok"
  /\ passed = <<>>
  /\ latest = -1

Batch == Len(produced_symbols)

\* Mutant of BoundUnderflows: one symbol more is needed.
BoundUnderflowsSoon == Batch < coreset_duration

\* The loop runs up to Batch - (coreset_duration - 1), computed in size_t: with
\* fewer symbols it runs on until at() throws.
BoundUnderflows == Batch < coreset_duration - 1

\* Mutant of CoresetStarts: the loop ends one symbol early.
CoresetStartsShort ==
  {idx \in 1 .. Batch - coreset_duration :
     produced_symbols[idx].symbol_index = coreset_ofdm_symbol_start}

\* The positions in the batch where a whole CORESET starts.
CoresetStarts ==
  {idx \in 1 .. Batch - (coreset_duration - 1) :
     produced_symbols[idx].symbol_index = coreset_ofdm_symbol_start}

\* The slots of these positions; two CORESETs are a slot apart.
Slots == {(count - Batch + idx - 1) \div symbols_per_slot : idx \in CoresetStarts}

Ascending(S) ==
  CHOOSE s \in [1 .. Cardinality(S) -> S] : \A j, k \in DOMAIN s : j < k => s[j] < s[k]

\* The end of ofdm::process, and channel_mapper::process on a batch that is not
\* empty.
Map ==
  /\ mapper = "ok"
  /\ KeepLeftover
  /\ IF Batch > 0 /\ BoundUnderflows
     THEN mapper' = "exception" /\ passed' = <<>>
     ELSE passed' = Ascending(Slots) /\ UNCHANGED mapper
  /\ latest' = IF passed = <<>> THEN latest ELSE passed[Len(passed)]
  /\ UNCHANGED coreset_duration

Demodulation ==
  /\ mapper = "ok"
  /\ (\E n \in BufferSizes : process(n)) \/ Demodulate
  /\ UNCHANGED <<coreset_duration, mapper, passed, latest>>

MapperNext == Demodulation \/ Map

MapperSpec == MapperInit /\ [][MapperNext]_mapperVars

-----------------------------------------------------------------------------
(* Properties.                                                             *)

CoresetStart(slot) == slot * symbols_per_slot + coreset_ofdm_symbol_start

\* "Get symbols that belong to PDCCH according to search space set and CORESET
\* config, e.g. duration" (channel_mapper.cc:84): of the CORESETs of a buffer, those
\* whose symbols are all in the batch are passed on, once and in order, none of them
\* again with a later buffer.  (One whose symbols come in two batches is not.)
EveryCoresetPassed ==
  pc = "idle" /\ mapper = "ok" =>
    /\ \A slot \in 0 .. count \div symbols_per_slot :
         (\E k \in DOMAIN passed : passed[k] = slot)
           <=> /\ count - Batch <= CoresetStart(slot)
               /\ CoresetStart(slot) + coreset_duration <= count
    /\ \A j, k \in DOMAIN passed : j < k => passed[j] < passed[k]
    /\ \A k \in DOMAIN passed : latest < passed[k]

\* The unsigned bound of the loop underflows only for a buffer that is shorter than
\* the CORESET less one symbol, whatever is left over from the buffer before: of
\* the chunks the syncer sends, one that it cuts, or the last of a file.
ThrowsOnlyOnTinyBuffer ==
  mapper = "exception" => size < (coreset_duration - 1) * samples_per_symbol(0)
=============================================================================
