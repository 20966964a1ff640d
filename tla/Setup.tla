-------------------------------- MODULE Setup --------------------------------
(***************************************************************************)
(* From the configuration file to the bandwidth parts and channel mappers: *)
(* the values read from each [[pdcch]] table (include/config.h), what a    *)
(* MIB and the search for system information override (src/syncer.cc), the *)
(* tables of CORESET 0 and the bandwidth part (src/bandwidth_part.cc), and *)
(* what the channel mapper makes of it (src/channel_mapper.cc).            *)
(***************************************************************************)
EXTENDS Coreset, Sequences

-----------------------------------------------------------------------------
(* Configuration.  A table is a function from the keys it has.             *)

Value(table, key, default) == IF key \in DOMAIN table THEN table[key] ELSE default

\* The numbers are kept in 8 or 16 bits.
Byte(n) == n % 256
Short(n) == n % 65536

LoadPdcch(table) ==
  [si_dci_only         |-> Value(table, "si_dci_only", FALSE),
   use_config_from_mib |-> Value(table, "use_config_from_mib", FALSE),
   subcarrier_offset   |-> Value(table, "subcarrier_offset", 0),
   numerology          |-> Byte(Value(table, "numerology", 0)),
   num_prbs            |-> Short(Value(table, "num_prbs", 52)),
   extended_prefix     |-> Value(table, "extended_prefix", FALSE),
   rntis               |-> <<Short(Value(table, "rnti_start", 0)),
                             Short(Value(table, "rnti_end", 65535))>>,
   scrambling_ids      |-> <<Short(Value(table, "scrambling_id_start", 0)),
                             Short(Value(table, "scrambling_id_end", 65535))>>,
   candidates          |-> Value(table, "num_candidates_per_AL", <<8, 4, 2, 1, 0>>),
   mapping             |-> Value(table, "coreset_interleaving_pattern", "non-interleaved"),
   duration            |-> Byte(Value(table, "coreset_duration", 1)),
   shift               |-> Short(Value(table, "coreset_nshift", 0)),
   bundle              |-> Byte(Value(table, "coreset_reg_bundle_size", 6)),
   interleaver         |-> Byte(Value(table, "coreset_interleaver_size", 2))]

load(tables) == [i \in DOMAIN tables |-> LoadPdcch(tables[i])]

-----------------------------------------------------------------------------
(* CORESET 0: <<resource blocks, symbols>> by index, from 0; the columns   *)
(* for the multiplexing pattern and the offset are read by nobody.         *)

TABLE_13_1 == <<<<24, 2>>, <<24, 2>>, <<24, 2>>, <<24, 3>>, <<24, 3>>, <<24, 3>>,
                <<48, 1>>, <<48, 1>>, <<48, 2>>, <<48, 2>>, <<48, 3>>, <<48, 3>>,
                <<96, 1>>, <<96, 2>>, <<96, 3>>>>
TABLE_13_2 == <<<<24, 2>>, <<24, 2>>, <<24, 2>>, <<24, 2>>, <<24, 3>>, <<24, 3>>,
                <<24, 3>>, <<24, 3>>, <<48, 1>>, <<48, 1>>, <<48, 2>>, <<48, 2>>,
                <<48, 3>>, <<48, 3>>>>
TABLE_13_3 == <<<<48, 1>>, <<48, 1>>, <<48, 2>>, <<48, 2>>, <<48, 3>>, <<48, 3>>,
                <<96, 1>>, <<96, 2>>, <<96, 3>>>>
TABLE_13_4 == <<<<24, 2>>, <<24, 2>>, <<24, 2>>, <<24, 2>>, <<24, 2>>, <<24, 3>>,
                <<24, 3>>, <<24, 3>>, <<24, 3>>, <<24, 3>>, <<48, 1>>, <<48, 1>>,
                <<48, 1>>, <<48, 2>>, <<48, 2>>, <<48, 2>>>>

\* The table for a pair of numerologies; its only caller asks for 5 MHz.
CoresetTable(ssb_numerology, numerology) ==
  CASE ssb_numerology = 0 /\ numerology = 0 -> TABLE_13_1
    [] ssb_numerology = 0 /\ numerology = 1 -> TABLE_13_2
    [] ssb_numerology = 1 /\ numerology = 0 -> TABLE_13_3
    [] ssb_numerology = 1 /\ numerology = 1 -> TABLE_13_4
    [] OTHER -> <<>>

HasTable(ssb_numerology, numerology) == ssb_numerology \in 0 .. 1 /\ numerology \in 0 .. 1

\* at() throws for an index the table reserves.
Reserved(ssb_numerology, mib) ==
  /\ HasTable(ssb_numerology, mib.scs_common)
  /\ mib.coreset0_idx >= Len(CoresetTable(ssb_numerology, mib.scs_common))

\* Mutant of get_pdcch_coreset0: the index counts from 1.
get_pdcch_coreset0FromOne(ssb_numerology, mib) ==
  IF HasTable(ssb_numerology, mib.scs_common)
  THEN CoresetTable(ssb_numerology, mib.scs_common)[IF mib.coreset0_idx = 0 THEN 1 ELSE mib.coreset0_idx]
  ELSE <<0, 0>>

\* For a pair without a table an error is logged, and zeros are returned.
get_pdcch_coreset0(ssb_numerology, mib) ==
  IF HasTable(ssb_numerology, mib.scs_common)
  THEN CoresetTable(ssb_numerology, mib.scs_common)[mib.coreset0_idx + 1]
  ELSE <<0, 0>>

-----------------------------------------------------------------------------
(* What syncer::on_mib_found makes of a configuration.                     *)

\* Mutant of OverriddenByMib: the columns of the table are mixed up.
OverriddenBySwapped(cfg, ssb_numerology, mib) ==
  LET coreset0 == get_pdcch_coreset0(ssb_numerology, mib)
  IN [cfg EXCEPT !.numerology = mib.scs_common,
                 !.num_prbs   = coreset0[2],
                 !.duration   = coreset0[1]]

OverriddenByMib(cfg, ssb_numerology, mib) ==
  LET coreset0 == get_pdcch_coreset0(ssb_numerology, mib)
  IN [cfg EXCEPT !.numerology        = mib.scs_common,
                 !.num_prbs          = coreset0[1],
                 !.duration          = coreset0[2],
                 !.subcarrier_offset = mib.ssb_offset + coreset0[1] \div 2,
                 !.extended_prefix   = FALSE]

\* System information is scrambled with the cell's identity and sent to one RNTI.
SimplifiedForSi(cfg, cell_id) ==
  [cfg EXCEPT !.scrambling_ids = <<cell_id, cell_id>>,
              !.rntis          = <<65535, 65535>>,
              !.mapping        = "interleaved",
              !.bundle         = 6,
              !.interleaver    = 2,
              !.shift          = cell_id]

Effective(cfg, ssb_numerology, mib, cell_id) ==
  LET c == IF cfg.use_config_from_mib THEN OverriddenByMib(cfg, ssb_numerology, mib) ELSE cfg
  IN IF cfg.si_dci_only THEN SimplifiedForSi(c, cell_id) ELSE c

\* bandwidth_part::bandwidth_part, and what it asserts; sample rates are in kHz.
max_numerology == 5

BandwidthPartOf(cfg, sample_rate) ==
  [numerology      |-> cfg.numerology,
   num_prbs        |-> cfg.num_prbs,
   extended_prefix |-> cfg.extended_prefix,
   slots_per_frame |-> 10 * 2 ^ cfg.numerology,
   fft_size        |-> sample_rate \div (15 * 2 ^ cfg.numerology)]

BandwidthPartAsserts(cfg, sample_rate) ==
  /\ cfg.numerology <= max_numerology
  /\ BandwidthPartOf(cfg, sample_rate).fft_size >= cfg.num_prbs * 12

ByLevel(n) == [level \in Levels |-> n[level + 1]]

\* channel_mapper::channel_mapper: the slots are those of the initial bandwidth part,
\* and a slot has 14 symbols.
MapperOf(cfg, initial_bwp, cell_id) ==
  [coreset |-> coreset([rbs         |-> cfg.num_prbs,
                        duration    |-> cfg.duration,
                        mapping     |-> cfg.mapping,
                        bundle      |-> cfg.bundle,
                        interleaver |-> cfg.interleaver,
                        shift       |-> cfg.shift,
                        candidates  |-> ByLevel(cfg.candidates)]),
   num_slots_per_frame  |-> Byte(initial_bwp.slots_per_frame),
   num_symbols_per_slot |-> 14,
   scrambling_ids       |-> cfg.scrambling_ids,
   rntis                |-> cfg.rntis,
   subcarrier_offset    |-> cfg.subcarrier_offset,
   cell_id              |-> cell_id]

\* A list shorter than the levels makes at() throw.
EnoughCandidates(cfg) == Len(cfg.candidates) >= 5
=============================================================================
