------------------------------ MODULE MCSniffer ------------------------------
(***************************************************************************)
(* Instances of Sniffer.                                                   *)
(***************************************************************************)
EXTENDS SnifferInv

FromMib == [use_config_from_mib |-> TRUE, si_dci_only |-> TRUE]
MibNoSi == [use_config_from_mib |-> TRUE]
MibOdd == [use_config_from_mib |-> TRUE, coreset_interleaver_size |-> 3,
           coreset_interleaving_pattern |-> "interleaved"]
Default == [num_prbs |-> 48]
Wide == [num_prbs |-> 24, numerology |-> 1, extended_prefix |-> TRUE, coreset_duration |-> 2]
Long == [num_prbs |-> 24, coreset_duration |-> 3]
TooWide == [num_prbs |-> 200]
FewLevels == [num_candidates_per_AL |-> <<4, 2>>]

Plain == [source |-> "file", config |-> "ok", tables |-> <<FromMib>>, size |-> 5, read_error |-> FALSE,
          ssb_numerology |-> 0, sample_rate |-> 23040, cell_id |-> 500, early |-> FALSE,
          mib |-> [scs_common |-> 0, coreset0_idx |-> 6, ssb_offset |-> 0]]

\* Lists of tables, one of them longer than the pool, and the ends of a file.
Lists ==
  {[Plain EXCEPT !.tables = t, !.size = n] :
     t \in {<<FromMib>>, <<FromMib, Default>>, <<Wide, FromMib>>, <<MibOdd>>, <<Default, Default, Default>>},
     n \in {0, 4, 5, 7}}

\* Every CORESET 0 there is an index for, with every pair of numerologies.
Coresets ==
  {[Plain EXCEPT !.tables = <<t>>, !.ssb_numerology = n, !.cell_id = id, !.size = 2,
                 !.mib = [scs_common |-> m, coreset0_idx |-> i, ssb_offset |-> 4]] :
     t \in {FromMib, MibNoSi}, n \in 0 .. 2, m \in 0 .. 1, i \in 0 .. 15, id \in {0, 1007}}

Failures ==
  {[Plain EXCEPT !.source = "missing"], [Plain EXCEPT !.source = "sdr"],
   [Plain EXCEPT !.source = "sdr", !.early = TRUE],
   [Plain EXCEPT !.config = "syntax"], [Plain EXCEPT !.config = "no array"],
   [Plain EXCEPT !.ssb_numerology = 6],
   [Plain EXCEPT !.tables = <<TooWide>>], [Plain EXCEPT !.tables = <<FewLevels>>],
   [Plain EXCEPT !.sample_rate = 7680], [Plain EXCEPT !.read_error = TRUE],
   [Plain EXCEPT !.early = TRUE]}

\* CORESETs of three symbols, in files of whole chunks and not, and with a block of much
\* shorter symbols.
LongCoresets ==
  {[Plain EXCEPT !.tables = t, !.size = n] :
     t \in {<<Long>>, <<Long, Default>>, <<Default, Long>>, <<Long, Long>>}, n \in {3, 4, 5}}
  \cup {[Plain EXCEPT !.tables = <<Default, Long>>, !.size = 4, !.ssb_numerology = n] : n \in {2, 3}}
  \cup {[Plain EXCEPT !.mib.coreset0_idx = 10, !.size = 5]}

MCEnvironments == Lists \cup Coresets \cup LongCoresets \cup Failures

\* What the theorem of MibCoresetServes asks of the configurations.
ASSUME CandidatesAreAskedFor == AsksForCandidates
=============================================================================
