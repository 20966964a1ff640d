--------------------------- MODULE Sniffer_proofs ---------------------------
(***************************************************************************)
(* The program from its configuration to its exit, for every configuration *)
(* file, every cell and every length of the samples: what the set-up makes *)
(* of a MIB, what ends the program, and that nothing is left behind.       *)
(***************************************************************************)
EXTENDS SnifferInv, Candidate_proofs, SequenceTheorems

-----------------------------------------------------------------------------
(* Sequences.                                                              *)

LEMMA SequenceDomain ==
  ASSUME NEW s, IsSequence(s)
  PROVE  /\ Len(s) \in Nat
         /\ DOMAIN s = 1 .. Len(s)
BY LenProperties DEF IsSequence

LEMMA ListIsSequence ==
  ASSUME NEW n \in Nat, NEW S, NEW s \in [1 .. n -> S]
  PROVE  IsSequence(s) /\ Len(s) = n
<1>1. s \in [1 .. n -> Range(s)]
  <2>1. DOMAIN s = 1 .. n /\ s = [i \in 1 .. n |-> s[i]] /\ \A i \in 1 .. n : s[i] \in Range(s)
    BY DEF Range
  <2>2. QED
    BY <2>1
<1>2. PICK R : R = Range(s)
  OBVIOUS
<1>3. s \in [1 .. n -> R]
  BY <1>1, <1>2
<1>4. s \in Seq(R) /\ Len(s) = n
  BY <1>3
<1>5. QED
  BY <1>2, <1>4 DEF IsSequence

LEMMA EmptyIsSequence == IsSequence(<<>>) /\ Len(<<>>) = 0 /\ DOMAIN <<>> = {}
BY DEF IsSequence

LEMMA AppendIsSequence ==
  ASSUME NEW s, IsSequence(s), NEW e
  PROVE  /\ IsSequence(Append(s, e))
         /\ Len(Append(s, e)) = Len(s) + 1
         /\ \A i \in 1 .. Len(s) : Append(s, e)[i] = s[i]
         /\ Append(s, e)[Len(s) + 1] = e
<1>1. PICK S : S = Range(s) \cup {e}
  OBVIOUS
<1>2. s \in Seq(S) /\ e \in S
  <2>1. s \in Seq(Range(s))
    BY DEF IsSequence
  <2>2. \A i \in 1 .. Len(s) : s[i] \in S
    BY <1>1, <2>1, ElementOfSeq
  <2>3. Len(s) \in Nat /\ s \in [1 .. Len(s) -> Range(s)]
    BY <2>1, LenProperties
  <2>4. s \in [1 .. Len(s) -> S]
    BY <2>2, <2>3
  <2>5. \A n \in Nat : [1 .. n -> S] \subseteq Seq(S)
    OBVIOUS
  <2>6. QED
    BY <1>1, <2>3, <2>4, <2>5
<1>3. PICK t : t = Append(s, e)
  OBVIOUS
<1>4. t \in Seq(S) /\ Len(t) = Len(s) + 1 /\ (\A i \in 1 .. Len(s) : t[i] = s[i]) /\ t[Len(s) + 1] = e
  BY <1>2, <1>3, AppendProperties
<1>5. Len(t) \in Nat /\ t \in [1 .. Len(t) -> S]
  BY <1>4, LenProperties
<1>6. IsSequence(t)
  BY <1>5, ListIsSequence
<1>7. QED
  BY <1>3, <1>4, <1>6

-----------------------------------------------------------------------------
(* The configurations.                                                     *)

\* The configurations are as many as the tables, in their order.
LEMMA Loaded ==
  ASSUME NEW e \in Environments
  PROVE  /\ Len(load(e.tables)) \in Nat
         /\ DOMAIN load(e.tables) = 1 .. Len(load(e.tables))
         /\ \A i \in DOMAIN load(e.tables) :
              load(e.tables)[i] = LoadPdcch(e.tables[i]) /\ IsTable(e.tables[i])
<1>1. IsSequence(e.tables) /\ \A i \in DOMAIN e.tables : IsTable(e.tables[i])
  BY InputAssumption
<1>2. PICK n \in Nat : DOMAIN e.tables = 1 .. n
  BY <1>1, SequenceDomain
<1>3. load(e.tables) = [i \in 1 .. n |-> LoadPdcch(e.tables[i])]
  BY <1>2 DEF load
<1>4. DOMAIN load(e.tables) = 1 .. n
  BY <1>3
<1>5. Len(load(e.tables)) = n
  BY <1>4, SequenceOfLength
<1>6. QED
  BY <1>1, <1>2, <1>3, <1>4, <1>5

\* What is kept of a [[pdcch]] table, and what its keys say.
LEMMA TableValues ==
  ASSUME NEW table, IsTable(table), NEW cfg, cfg = LoadPdcch(table)
  PROVE  /\ cfg = [si_dci_only |-> cfg.si_dci_only, use_config_from_mib |-> cfg.use_config_from_mib,
                   subcarrier_offset |-> cfg.subcarrier_offset, numerology |-> cfg.numerology,
                   num_prbs |-> cfg.num_prbs, extended_prefix |-> cfg.extended_prefix,
                   rntis |-> cfg.rntis, scrambling_ids |-> cfg.scrambling_ids,
                   candidates |-> cfg.candidates, mapping |-> cfg.mapping, duration |-> cfg.duration,
                   shift |-> cfg.shift, bundle |-> cfg.bundle, interleaver |-> cfg.interleaver]
         /\ cfg.si_dci_only \in BOOLEAN /\ cfg.use_config_from_mib \in BOOLEAN
         /\ cfg.num_prbs \in Nat /\ cfg.duration \in Nat /\ cfg.shift \in Nat
         /\ cfg.bundle \in Nat /\ cfg.interleaver \in Nat
         /\ cfg.candidates \in Seq(0 .. 255)
<1>1. \A n \in Int : Byte(n) \in Nat /\ Short(n) \in Nat
  BY DEF Byte, Short
<1>2. ASSUME NEW key \in NumberKeys, NEW default \in Int
      PROVE  Value(table, key, default) \in Int
  BY DEF Value, IsTable
<1>3. ASSUME NEW key \in {"si_dci_only", "use_config_from_mib"}
      PROVE  Value(table, key, FALSE) \in BOOLEAN
  BY DEF Value, IsTable
<1>4. Value(table, "num_candidates_per_AL", <<8, 4, 2, 1, 0>>) \in Seq(0 .. 255)
  <2>1. <<8, 4, 2, 1, 0>> \in Seq(0 .. 255)
    OBVIOUS
  <2>2. QED
    BY <2>1 DEF Value, IsTable
<1>5. /\ cfg.si_dci_only = Value(table, "si_dci_only", FALSE)
      /\ cfg.use_config_from_mib = Value(table, "use_config_from_mib", FALSE)
      /\ cfg.num_prbs = Short(Value(table, "num_prbs", 52))
      /\ cfg.duration = Byte(Value(table, "coreset_duration", 1))
      /\ cfg.shift = Short(Value(table, "coreset_nshift", 0))
      /\ cfg.bundle = Byte(Value(table, "coreset_reg_bundle_size", 6))
      /\ cfg.interleaver = Byte(Value(table, "coreset_interleaver_size", 2))
      /\ cfg.candidates = Value(table, "num_candidates_per_AL", <<8, 4, 2, 1, 0>>)
  BY DEF LoadPdcch
<1>6. /\ Value(table, "num_prbs", 52) \in Int
      /\ Value(table, "coreset_duration", 1) \in Int
      /\ Value(table, "coreset_nshift", 0) \in Int
      /\ Value(table, "coreset_reg_bundle_size", 6) \in Int
      /\ Value(table, "coreset_interleaver_size", 2) \in Int
  <2>1. /\ "num_prbs" \in NumberKeys /\ "coreset_duration" \in NumberKeys
        /\ "coreset_nshift" \in NumberKeys /\ "coreset_reg_bundle_size" \in NumberKeys
        /\ "coreset_interleaver_size" \in NumberKeys
    BY Zenon DEF NumberKeys
  <2>2. 52 \in Int /\ 1 \in Int /\ 0 \in Int /\ 6 \in Int /\ 2 \in Int
    OBVIOUS
  <2>3. QED
    BY ONLY <1>2, <2>1, <2>2, Zenon
<1>7. cfg = [si_dci_only |-> cfg.si_dci_only, use_config_from_mib |-> cfg.use_config_from_mib,
             subcarrier_offset |-> cfg.subcarrier_offset, numerology |-> cfg.numerology,
             num_prbs |-> cfg.num_prbs, extended_prefix |-> cfg.extended_prefix,
             rntis |-> cfg.rntis, scrambling_ids |-> cfg.scrambling_ids,
             candidates |-> cfg.candidates, mapping |-> cfg.mapping, duration |-> cfg.duration,
             shift |-> cfg.shift, bundle |-> cfg.bundle, interleaver |-> cfg.interleaver]
  BY DEF LoadPdcch
<1>8. QED
  BY <1>1, <1>3, <1>4, <1>5, <1>6, <1>7

Rows == {<<24, 2>>, <<24, 3>>, <<48, 1>>, <<48, 2>>, <<48, 3>>, <<96, 1>>, <<96, 2>>, <<96, 3>>}

\* A row the tables of CORESET 0 do not reserve.
LEMMA RowsOfTables ==
  ASSUME NEW e \in Environments,
         HasTable(e.ssb_numerology, e.mib.scs_common),
         ~Reserved(e.ssb_numerology, e.mib)
  PROVE  /\ get_pdcch_coreset0(e.ssb_numerology, e.mib) \in Rows
         /\ get_pdcch_coreset0(e.ssb_numerology, e.mib)
              = CoresetTable(e.ssb_numerology, e.mib.scs_common)[e.mib.coreset0_idx + 1]
<1>0. PICK idx \in 0 .. 15 : idx = e.mib.coreset0_idx
  BY SnifferAssumption
<1>1. PICK i \in 1 .. 16 : i = e.mib.coreset0_idx + 1
  BY <1>0
<1>2. PICK T \in {TABLE_13_1, TABLE_13_2, TABLE_13_3, TABLE_13_4} :
        T = CoresetTable(e.ssb_numerology, e.mib.scs_common)
  <2>1. e.ssb_numerology \in {0, 1} /\ e.mib.scs_common \in {0, 1}
    BY DEF HasTable
  <2>2. QED
    BY <2>1 DEF CoresetTable
<1>3. i <= Len(T)
  <2>1. PICK k \in 0 .. 15 : k = e.mib.coreset0_idx /\ i = k + 1
    BY <1>1, SnifferAssumption
  <2>2. ~(k >= Len(T))
    BY <1>2, <2>1 DEF Reserved
  <2>3. Len(T) \in Nat
    BY DEF TABLE_13_1, TABLE_13_2, TABLE_13_3, TABLE_13_4
  <2>4. QED
    BY <2>1, <2>2, <2>3
<1>4. T[i] \in Rows
  <2>1. CASE T = TABLE_13_1
    BY <1>3, <2>1 DEF TABLE_13_1, Rows
  <2>2. CASE T = TABLE_13_2
    BY <1>3, <2>2 DEF TABLE_13_2, Rows
  <2>3. CASE T = TABLE_13_3
    BY <1>3, <2>3 DEF TABLE_13_3, Rows
  <2>4. CASE T = TABLE_13_4
    BY <1>3, <2>4 DEF TABLE_13_4, Rows
  <2>5. QED
    BY <2>1, <2>2, <2>3, <2>4
<1>5. QED
  BY <1>1, <1>2, <1>4 DEF get_pdcch_coreset0

\* The configuration the MIB and the search for system information leave.
LEMMA FoundFields ==
  ASSUME NEW e \in Environments, NEW table, IsTable(table), NEW cfg, cfg = LoadPdcch(table),
         NEW found, found = Found(e, cfg)
  PROVE  /\ found.candidates = cfg.candidates
         /\ found.bundle \in Nat /\ found.interleaver \in Nat /\ found.shift \in Nat
         /\ cfg.use_config_from_mib
              => /\ found.num_prbs = get_pdcch_coreset0(e.ssb_numerology, e.mib)[1]
                 /\ found.duration = get_pdcch_coreset0(e.ssb_numerology, e.mib)[2]
                 /\ found.numerology = e.mib.scs_common
         /\ ~cfg.use_config_from_mib => found.num_prbs = cfg.num_prbs /\ found.duration = cfg.duration
         /\ cfg.si_dci_only
              => /\ found.mapping = "interleaved" /\ found.bundle = 6 /\ found.interleaver = 2
                 /\ found.shift = e.cell_id /\ found.scrambling_ids = <<e.cell_id, e.cell_id>>
<1> DEFINE A == get_pdcch_coreset0(e.ssb_numerology, e.mib)[1]
           B == get_pdcch_coreset0(e.ssb_numerology, e.mib)[2]
           O == e.mib.ssb_offset + get_pdcch_coreset0(e.ssb_numerology, e.mib)[1] \div 2
           mid == IF cfg.use_config_from_mib THEN OverriddenByMib(cfg, e.ssb_numerology, e.mib) ELSE cfg
<1>1. /\ cfg = [si_dci_only |-> cfg.si_dci_only, use_config_from_mib |-> cfg.use_config_from_mib,
                subcarrier_offset |-> cfg.subcarrier_offset, numerology |-> cfg.numerology,
                num_prbs |-> cfg.num_prbs, extended_prefix |-> cfg.extended_prefix,
                rntis |-> cfg.rntis, scrambling_ids |-> cfg.scrambling_ids,
                candidates |-> cfg.candidates, mapping |-> cfg.mapping, duration |-> cfg.duration,
                shift |-> cfg.shift, bundle |-> cfg.bundle, interleaver |-> cfg.interleaver]
      /\ cfg.bundle \in Nat /\ cfg.interleaver \in Nat /\ cfg.shift \in Nat
      /\ cfg.si_dci_only \in BOOLEAN /\ cfg.use_config_from_mib \in BOOLEAN
  BY TableValues
<1>2. OverriddenByMib(cfg, e.ssb_numerology, e.mib)
        = [si_dci_only |-> cfg.si_dci_only, use_config_from_mib |-> cfg.use_config_from_mib,
           subcarrier_offset |-> O, numerology |-> e.mib.scs_common,
           num_prbs |-> A, extended_prefix |-> FALSE,
           rntis |-> cfg.rntis, scrambling_ids |-> cfg.scrambling_ids,
           candidates |-> cfg.candidates, mapping |-> cfg.mapping, duration |-> B,
           shift |-> cfg.shift, bundle |-> cfg.bundle, interleaver |-> cfg.interleaver]
  <2>1. OverriddenByMib(cfg, e.ssb_numerology, e.mib)
          = [cfg EXCEPT !.numerology = e.mib.scs_common, !.num_prbs = A, !.duration = B,
                        !.subcarrier_offset = O, !.extended_prefix = FALSE]
    BY DEF OverriddenByMib
  <2> HIDE DEF A, B, O
  <2>2. QED
    BY ONLY <1>1, <2>1
<1> HIDE DEF A, B, O
<1> DEFINE o == IF cfg.use_config_from_mib THEN O ELSE cfg.subcarrier_offset
           m == IF cfg.use_config_from_mib THEN e.mib.scs_common ELSE cfg.numerology
           p == IF cfg.use_config_from_mib THEN A ELSE cfg.num_prbs
           x == IF cfg.use_config_from_mib THEN FALSE ELSE cfg.extended_prefix
           d == IF cfg.use_config_from_mib THEN B ELSE cfg.duration
<1>3. mid = [si_dci_only |-> cfg.si_dci_only, use_config_from_mib |-> cfg.use_config_from_mib,
             subcarrier_offset |-> o, numerology |-> m, num_prbs |-> p, extended_prefix |-> x,
             rntis |-> cfg.rntis, scrambling_ids |-> cfg.scrambling_ids,
             candidates |-> cfg.candidates, mapping |-> cfg.mapping, duration |-> d,
             shift |-> cfg.shift, bundle |-> cfg.bundle, interleaver |-> cfg.interleaver]
  <2>1. CASE cfg.use_config_from_mib
    <3>1. mid = OverriddenByMib(cfg, e.ssb_numerology, e.mib)
      BY <2>1
    <3>2. o = O /\ m = e.mib.scs_common /\ p = A /\ x = FALSE /\ d = B
      BY <2>1
    <3> HIDE DEF mid, o, m, p, x, d
    <3>3. QED
      BY ONLY <1>2, <3>1, <3>2
  <2>2. CASE ~cfg.use_config_from_mib
    <3>1. mid = cfg
      BY <2>2
    <3>2. /\ o = cfg.subcarrier_offset /\ m = cfg.numerology /\ p = cfg.num_prbs
          /\ x = cfg.extended_prefix /\ d = cfg.duration
      BY <2>2
    <3> HIDE DEF mid, o, m, p, x, d
    <3>3. QED
      BY ONLY <1>1, <3>1, <3>2
  <2>3. QED
    BY <2>1, <2>2
<1> HIDE DEF mid, o, m, p, x, d
<1>4. found = IF cfg.si_dci_only THEN SimplifiedForSi(mid, e.cell_id) ELSE mid
  BY DEF Found, Effective, mid
<1>5. CASE cfg.si_dci_only
  <2> DEFINE ids == <<e.cell_id, e.cell_id>>
             one == <<65535, 65535>>
             id  == e.cell_id
  <2>2. found = [mid EXCEPT !.scrambling_ids = ids, !.rntis = one, !.mapping = "interleaved",
                            !.bundle = 6, !.interleaver = 2, !.shift = id]
    BY <1>4, <1>5 DEF SimplifiedForSi
  <2> HIDE DEF ids, one, id
  <2>3. found = [si_dci_only |-> cfg.si_dci_only, use_config_from_mib |-> cfg.use_config_from_mib,
                 subcarrier_offset |-> o, numerology |-> m, num_prbs |-> p, extended_prefix |-> x,
                 rntis |-> one, scrambling_ids |-> ids,
                 candidates |-> cfg.candidates, mapping |-> "interleaved", duration |-> d,
                 shift |-> id, bundle |-> 6, interleaver |-> 2]
    BY ONLY <1>3, <2>2
  <2>4. id \in Nat
    <3>1. \A n \in 0 .. nid_max : n \in Nat
      OBVIOUS
    <3>2. e.cell_id \in 0 .. nid_max
      BY SnifferAssumption
    <3>3. QED
      BY <3>1, <3>2 DEF id
  <2>5. QED
    BY ONLY <1>5, <2>3, <2>4 DEF A, B, ids, id, p, d, m
<1>6. CASE ~cfg.si_dci_only
  <2>1. found = mid
    BY <1>4, <1>6
  <2>2. QED
    BY ONLY <1>1, <1>3, <1>6, <2>1 DEF A, B, p, d, m
<1>7. QED
  BY <1>5, <1>6

\* The CORESET of a configuration that names a row, or its own sizes.
LEMMA CoresetOfFound ==
  ASSUME NEW e \in Environments, NEW table, IsTable(table), NEW cfg, cfg = LoadPdcch(table),
         NEW found, found = Found(e, cfg),
         cfg.use_config_from_mib => ~Reserved(e.ssb_numerology, e.mib)
  PROVE  /\ found.num_prbs \in Nat /\ found.duration \in Nat
         /\ WellFormed(CoresetOf(e, found))
         /\ CoresetOf(e, found).rbs = found.num_prbs
         /\ CoresetOf(e, found).duration = ValidOr(found.duration, {1, 2, 3}, 1)
         /\ CoresetOf(e, found).candidates = ByLevel(cfg.candidates)
         /\ cfg.si_dci_only
              => /\ CoresetOf(e, found).mapping = "interleaved"
                 /\ CoresetOf(e, found).shift = e.cell_id
                 /\ CoresetOf(e, found).interleaver = 2
                 /\ CoresetOf(e, found).bundle = 6
<1> DEFINE r == [rbs |-> found.num_prbs, duration |-> found.duration, mapping |-> found.mapping,
                 bundle |-> found.bundle, interleaver |-> found.interleaver, shift |-> found.shift,
                 candidates |-> ByLevel(found.candidates)]
<1>1. found.num_prbs \in Nat /\ found.duration \in Nat
  <2>1. CASE cfg.use_config_from_mib
    <3>1. PICK row : row = get_pdcch_coreset0(e.ssb_numerology, e.mib)
      OBVIOUS
    <3>2. row \in Rows \/ row = <<0, 0>>
      <4>1. CASE HasTable(e.ssb_numerology, e.mib.scs_common)
        BY <2>1, <3>1, <4>1, RowsOfTables
      <4>2. CASE ~HasTable(e.ssb_numerology, e.mib.scs_common)
        BY <3>1, <4>2 DEF get_pdcch_coreset0
      <4>3. QED
        BY <4>1, <4>2
    <3>3. row[1] \in Nat /\ row[2] \in Nat
      BY ONLY <3>2 DEF Rows
    <3>4. found.num_prbs = row[1] /\ found.duration = row[2]
      BY <2>1, <3>1, FoundFields
    <3>5. QED
      BY <3>3, <3>4
  <2>2. CASE ~cfg.use_config_from_mib
    BY <2>2, FoundFields, TableValues
  <2>3. QED
    BY <2>1, <2>2
<1>2. CoresetOf(e, found) = coreset(r)
  BY DEF CoresetOf, MapperOf
<1>3. /\ r.rbs = found.num_prbs /\ r.duration = found.duration /\ r.mapping = found.mapping
      /\ r.bundle = found.bundle /\ r.interleaver = found.interleaver /\ r.shift = found.shift
      /\ r.candidates = ByLevel(cfg.candidates)
  BY FoundFields
<1>4. r \in ConfigRecords({found.mapping}, {ByLevel(found.candidates)})
  <2>1. found.bundle \in Nat /\ found.interleaver \in Nat /\ found.shift \in Nat
    BY FoundFields
  <2>2. QED
    BY <1>1, <2>1 DEF ConfigRecords
<1>5. /\ WellFormed(coreset(r)) /\ coreset(r).rbs = r.rbs
      /\ coreset(r).candidates = r.candidates
  BY <1>4, SettersMakeWellFormed
<1>6. PICK q : q = r
  OBVIOUS
<1>7. /\ q = [rbs |-> q.rbs, duration |-> q.duration, mapping |-> q.mapping,
              bundle |-> q.bundle, interleaver |-> q.interleaver, shift |-> q.shift,
              candidates |-> q.candidates]
  BY <1>6
<1>8. /\ coreset(q).duration = ValidOr(q.duration, {1, 2, 3}, 1)
      /\ /\ q.mapping = "interleaved" /\ q.bundle = 6 /\ q.interleaver = 2 /\ q.shift \in 0 .. nid_max
         => /\ coreset(q).mapping = "interleaved" /\ coreset(q).bundle = 6
            /\ coreset(q).interleaver = 2 /\ coreset(q).shift = q.shift
  <2> DEFINE duration == ValidOr(q.duration, {1, 2, 3}, 1)
             mapping  == ValidOr(q.mapping, {"interleaved", "non-interleaved"}, "non-interleaved")
             bundle   == IF isvalid_coreset_reg_bundlesize(q.bundle, mapping, duration) THEN q.bundle ELSE 6
             interleaver == ValidOr(q.interleaver, {2, 3, 6}, 2)
             shift == ValidOr(q.shift, 0 .. nid_max, 0)
  <2>1. coreset(q) = [q EXCEPT !.duration = duration, !.mapping = mapping, !.bundle = bundle,
                               !.interleaver = interleaver, !.shift = shift]
    BY DEF coreset
  <2>2. q.mapping = "interleaved" => mapping = "interleaved"
    BY DEF ValidOr
  <2>3. q.bundle = 6 => bundle = 6
    BY DEF isvalid_coreset_reg_bundlesize
  <2>4. q.interleaver = 2 => interleaver = 2
    BY DEF ValidOr
  <2>5. q.shift \in 0 .. nid_max => shift = q.shift
    BY Zenon DEF ValidOr
  <2>6. PICK D : D = duration
    OBVIOUS
  <2> HIDE DEF duration, mapping, bundle, interleaver, shift
  <2>7. coreset(q) = [rbs |-> q.rbs, duration |-> duration, mapping |-> mapping, bundle |-> bundle,
                      interleaver |-> interleaver, shift |-> shift, candidates |-> q.candidates]
    BY ONLY <1>7, <2>1
  <2>8. /\ coreset(q).duration = duration /\ coreset(q).mapping = mapping /\ coreset(q).bundle = bundle
        /\ coreset(q).interleaver = interleaver /\ coreset(q).shift = shift
    BY ONLY <2>7
  <2>9. coreset(q).duration = ValidOr(q.duration, {1, 2, 3}, 1)
    BY <2>8 DEF duration
  <2>10. QED
    BY <2>2, <2>3, <2>4, <2>5, <2>8, <2>9
<1>9. cfg.si_dci_only
        => /\ q.mapping = "interleaved" /\ q.bundle = 6 /\ q.interleaver = 2
           /\ q.shift = e.cell_id /\ q.shift \in 0 .. nid_max
  <2>1. e.cell_id \in 0 .. nid_max
    BY SnifferAssumption
  <2>2. cfg.si_dci_only
          => /\ found.mapping = "interleaved" /\ found.bundle = 6 /\ found.interleaver = 2
             /\ found.shift = e.cell_id
    BY FoundFields
  <2>3. /\ q.mapping = found.mapping /\ q.bundle = found.bundle
        /\ q.interleaver = found.interleaver /\ q.shift = found.shift
    BY ONLY <1>3, <1>6
  <2>4. QED
    BY ONLY <2>1, <2>2, <2>3, Zenon
<1> HIDE DEF r
<1>10. QED
  BY <1>1, <1>2, <1>3, <1>5, <1>6, <1>8, <1>9

\* A CORESET 0 that the interleaver fills can be searched with the default candidates.
LEMMA MibCoresetIsMade ==
  ASSUME NEW e \in Environments, NEW table, IsTable(table), NEW cfg, cfg = LoadPdcch(table),
         NEW found, found = Found(e, cfg),
         cfg.use_config_from_mib,
         HasTable(e.ssb_numerology, e.mib.scs_common),
         ~Reserved(e.ssb_numerology, e.mib),
         cfg.candidates = <<8, 4, 2, 1, 0>>,
         cfg.si_dci_only \/ Filled(CoresetOf(e, found))
  PROVE  ~Throws(CoresetOf(e, found))
<1> DEFINE k == CoresetOf(e, found)
<1>1. PICK row \in Rows : row = get_pdcch_coreset0(e.ssb_numerology, e.mib)
  BY RowsOfTables
<1>2. k.rbs = row[1] /\ k.duration = row[2]
  <2>1. found.num_prbs = row[1] /\ found.duration = row[2]
    BY <1>1, FoundFields
  <2>2. row[2] \in {1, 2, 3}
    BY DEF Rows
  <2>3. QED
    BY <2>1, <2>2, CoresetOfFound DEF ValidOr
<1>3. WellFormed(k) /\ k.candidates = ByLevel(<<8, 4, 2, 1, 0>>)
  BY CoresetOfFound
<1>4. N_CORESET_REG(k) % 12 = 0 /\ num_CCE(k) \in Nat /\ num_CCE(k) >= 8 /\ k.rbs <= 96
  BY <1>2 DEF Rows, N_CORESET_REG, num_CCE, CCE_REG
<1>5. N_CORESET_REG(k) % (k.interleaver * k.bundle) = 0
  <2>1. CASE cfg.si_dci_only
    <3>1. k.interleaver = 2 /\ k.bundle = 6
      BY <2>1, CoresetOfFound
    <3>2. k.interleaver * k.bundle = 12
      BY <3>1
    <3>3. QED
      BY <1>4, <3>2
  <2>2. CASE Filled(k)
    BY <2>2 DEF Filled
  <2>3. QED
    BY <2>1, <2>2
<1>6. k.candidates \in [Levels -> 0 .. 255]
  BY <1>3 DEF ByLevel, Levels
<1>7. ASSUME NEW level \in Levels
      PROVE  k.candidates[level] * 2 ^ level <= num_CCE(k)
  <2>1. /\ 2 ^ 0 = 1 /\ 2 ^ 1 = 2 /\ 2 ^ 2 = 4 /\ 2 ^ 3 = 8 /\ 2 ^ 4 = 16
    OBVIOUS
  <2>2. level \in {0, 1, 2, 3, 4}
    BY DEF Levels
  <2>3. /\ k.candidates[0] = 8 /\ k.candidates[1] = 4 /\ k.candidates[2] = 2
        /\ k.candidates[3] = 1 /\ k.candidates[4] = 0
    BY <1>3 DEF ByLevel, Levels
  <2> HIDE DEF k
  <2>4. PICK n \in Nat : n = num_CCE(k) /\ n >= 8
    BY <1>4
  <2>5. CASE level = 0
    BY <2>1, <2>3, <2>4, <2>5
  <2>6. CASE level = 1
    BY <2>1, <2>3, <2>4, <2>6
  <2>7. CASE level = 2
    BY <2>1, <2>3, <2>4, <2>7
  <2>8. CASE level = 3
    BY <2>1, <2>3, <2>4, <2>8
  <2>9. CASE level = 4
    BY <2>1, <2>3, <2>4, <2>9
  <2>10. QED
    BY <2>2, <2>5, <2>6, <2>7, <2>8, <2>9
<1> HIDE DEF k
<1>8. ~Throws(k)
  BY <1>3, <1>4, <1>5, <1>6, <1>7, WholeCoresetsAreMade
<1>9. QED
  BY <1>8 DEF k

-----------------------------------------------------------------------------
(* The invariant.                                                          *)

LEMMA Basics ==
  /\ Chunk \in Nat \ {0} /\ QueueCap \in Nat \ {0} /\ Repeat \in BOOLEAN
  /\ \A e \in Environments : e.size \in Nat
BY SnifferAssumption

LEMMA InitInvariant == Init => SnifferInvariant
<1> SUFFICES ASSUME Init PROVE SnifferInvariant
  OBVIOUS
<1>1. env.size \in Nat /\ Chunk \in Nat \ {0} /\ QueueCap \in Nat \ {0}
  BY Basics DEF Init
<1>2. IsSequence(<<>>) /\ Len(<<>>) = 0 /\ DOMAIN <<>> = {}
  BY EmptyIsSequence
<1>3. TypeInv
  <2>0. result \in -1 .. 1
    BY DEF Init
  <2>1. /\ env \in Environments /\ pc \in Places /\ running \in BOOLEAN
        /\ emptied \in BOOLEAN /\ renewed \in BOOLEAN /\ stopped \subseteq Flows
    BY DEF Init, Places
  <2>2. chunk \in 0 .. Chunk /\ passed \in 0 .. env.size
    BY <1>1 DEF Init
  <2>3. stream \in Streams(env.size)
    BY <1>1 DEF Init, Streams
  <2>4. /\ status \in [Flows -> {"free", "busy", "finishing"}] /\ pending \in [Flows -> 0 .. QueueCap]
        /\ serves \in [Flows -> Nat] /\ fatal \in [Flows -> 0 .. QueueCap]
    BY <1>1 DEF Init, Service!Init
  <2>5. QED
    BY <2>0, <2>1, <2>2, <2>3, <2>4 DEF TypeInv
<1>4. SetUpInv
  BY <1>2 DEF Init, SetUpInv
<1>5. StreamInv /\ PoolInv
  BY DEF Init, StreamInv, PoolInv, InLoop, Service!Init
<1>6. result # 0
  BY DEF Init
<1>7. ChunkInv
  <2>1. 0 % Chunk = 0
    BY <1>1
  <2>2. QED
    BY <2>1 DEF Init, ChunkInv
<1>8. ChainInv
  <2>1. \A f \in Flows : serves[f] = 0 /\ fatal[f] = 0 /\ pending[f] = 0 /\ status[f] # "busy"
    BY DEF Init, Service!Init
  <2>2. Len(channel_mappers) = 0 /\ pc = "load"
    BY <1>2 DEF Init
  <2>3. QED
    BY <2>1, <2>2 DEF ChainInv, NobodyServes
<1>9. QED
  BY <1>3, <1>4, <1>5, <1>6, <1>7, <1>8 DEF SnifferInvariant

\* The changes reading makes to the flags.
LEMMA StreamChanges ==
  ASSUME NEW size \in Nat, NEW s \in Streams(size), NEW p \in 0 .. size
  PROVE  /\ [s EXCEPT !.failbit = TRUE] \in Streams(size)
         /\ [s EXCEPT !.failbit = TRUE].eofbit = s.eofbit
         /\ [s EXCEPT !.badbit = TRUE] \in Streams(size)
         /\ [s EXCEPT !.badbit = TRUE].eofbit = s.eofbit
         /\ [s EXCEPT !.pos = p] \in Streams(size)
         /\ [s EXCEPT !.pos = p].eofbit = s.eofbit
         /\ [s EXCEPT !.eofbit = FALSE, !.pos = p] \in Streams(size)
         /\ [s EXCEPT !.eofbit = FALSE, !.pos = p].eofbit = FALSE
BY DEF Streams

\* What is read of the file, and the flags it leaves.
LEMMA Reading ==
  ASSUME TypeInv, StreamInv, running
  PROVE  \E got \in 0 .. Chunk, s \in Streams(env.size) :
           /\ Read(Chunk) = [got |-> got, stream |-> s]
           /\ s.eofbit => s.pos = env.size
<1>1. PICK size \in Nat, n \in Nat : size = env.size /\ n = Chunk
  BY Basics DEF TypeInv
<1>2. stream \in Streams(size)
  BY <1>1 DEF TypeInv
<1>3. ~stream.eofbit /\ stream.pos \in 0 .. size
  BY <1>2 DEF StreamInv, Streams
<1>4. 0 \in 0 .. n /\ n \in 0 .. n
  OBVIOUS
<1>5. CASE ~Good(stream)
  <2>1. PICK s : s = [stream EXCEPT !.failbit = TRUE]
    OBVIOUS
  <2>2. Read(Chunk) = [got |-> 0, stream |-> s]
    BY <1>5, <2>1 DEF Read
  <2>3. s \in Streams(size) /\ ~s.eofbit
    BY <1>2, <1>3, <2>1, StreamChanges
  <2>4. QED
    BY <1>1, <1>4, <2>2, <2>3
<1>6. CASE Good(stream) /\ env.read_error
  <2>1. PICK s : s = [stream EXCEPT !.badbit = TRUE]
    OBVIOUS
  <2>2. Read(Chunk) = [got |-> 0, stream |-> s]
    BY <1>6, <2>1 DEF Read
  <2>3. s \in Streams(size) /\ ~s.eofbit
    BY <1>2, <1>3, <2>1, StreamChanges
  <2>4. QED
    BY <1>1, <1>4, <2>2, <2>3
<1>7. CASE Good(stream) /\ ~env.read_error /\ env.size - stream.pos < Chunk
  <2>1. PICK s : s = [pos |-> env.size, eofbit |-> TRUE, failbit |-> TRUE, badbit |-> FALSE]
    OBVIOUS
  <2>2. PICK left \in 0 .. n : left = env.size - stream.pos
    BY <1>1, <1>3, <1>7
  <2>3. Read(Chunk) = [got |-> left, stream |-> s]
    BY <1>7, <2>1, <2>2 DEF Read
  <2>4. s \in Streams(size) /\ s.pos = size
    BY <1>1, <2>1 DEF Streams
  <2>5. QED
    BY <1>1, <2>3, <2>4
<1>8. CASE Good(stream) /\ ~env.read_error /\ ~(env.size - stream.pos < Chunk)
  <2>1. PICK q \in 0 .. size : q = stream.pos + Chunk
    BY <1>1, <1>3, <1>8
  <2>2. PICK s : s = [stream EXCEPT !.pos = q]
    OBVIOUS
  <2>3. Read(Chunk) = [got |-> Chunk, stream |-> [stream EXCEPT !.pos = stream.pos + Chunk]]
    BY <1>8 DEF Read
  <2>4. Read(Chunk) = [got |-> n, stream |-> s]
    BY ONLY <1>1, <2>1, <2>2, <2>3
  <2>5. s \in Streams(size) /\ ~s.eofbit
    BY <1>2, <1>3, <2>2, StreamChanges
  <2>6. QED
    BY <1>1, <1>4, <2>4, <2>5
<1>9. QED
  BY <1>5, <1>6, <1>7, <1>8

\* A turn of the loop takes what the source gives.
LEMMA Working ==
  ASSUME TypeInv, StreamInv, Work
  PROVE  /\ stream' \in Streams(env.size)
         /\ chunk' \in 0 .. Chunk
         /\ running' \in BOOLEAN
         /\ running' => ~stream'.eofbit
         /\ ~running' => stream'.pos = env.size
<1>1. running /\ Chunk \in Nat /\ Repeat \in BOOLEAN /\ env.size \in Nat
  BY Basics DEF Work, TypeInv
<1>2. CASE env.source = "file"
  <2>1. PICK got \in 0 .. Chunk, s \in Streams(env.size) :
          /\ Read(Chunk) = [got |-> got, stream |-> s]
          /\ s.eofbit => s.pos = env.size
    BY <1>1, Reading
  <2>2. Read(Chunk).stream = s /\ Read(Chunk).got = got
    BY <2>1
  <2>3. /\ stream' = IF s.eofbit /\ Repeat THEN Rewind(s) ELSE s
        /\ chunk' = IF s.eofbit THEN got ELSE Chunk
        /\ running' = (running /\ (s.eofbit => Repeat))
    BY <1>2, <2>2 DEF Work, produce_samples
  <2>4. s.eofbit \in BOOLEAN /\ s.pos \in 0 .. env.size
    BY DEF Streams
  <2>5. chunk' \in 0 .. Chunk /\ running' \in BOOLEAN
    BY <1>1, <2>3, <2>4
  <2>6. CASE s.eofbit /\ Repeat
    <3>1. stream' = [s EXCEPT !.eofbit = FALSE, !.pos = IF s.failbit \/ s.badbit THEN s.pos ELSE 0]
      BY <2>3, <2>6 DEF Rewind
    <3>2. PICK q \in 0 .. env.size : q = IF s.failbit \/ s.badbit THEN s.pos ELSE 0
      BY <1>1, <2>4
    <3>3. stream' = [s EXCEPT !.eofbit = FALSE, !.pos = q]
      BY ONLY <3>1, <3>2
    <3>4. stream' \in Streams(env.size) /\ stream'.eofbit = FALSE
      <4>1. PICK size \in Nat : size = env.size
        BY <1>1
      <4>2. s \in Streams(size) /\ q \in 0 .. size
        BY <4>1
      <4>3. PICK t : t = [s EXCEPT !.eofbit = FALSE, !.pos = q]
        OBVIOUS
      <4>4. t \in Streams(size) /\ t.eofbit = FALSE
        BY ONLY size \in Nat, <4>2, <4>3 DEF Streams
      <4>5. QED
        BY <3>3, <4>1, <4>3, <4>4
    <3>5. running'
      BY <1>1, <2>3, <2>6
    <3>6. QED
      BY <2>5, <3>4, <3>5
  <2>7. CASE ~(s.eofbit /\ Repeat)
    <3>1. stream' = s
      BY <2>3, <2>7
    <3>2. running' <=> ~s.eofbit
      BY <1>1, <2>3, <2>7
    <3>3. QED
      BY <2>1, <2>5, <3>1, <3>2
  <2>8. QED
    BY <2>6, <2>7
<1>3. CASE env.source # "file"
  <2>1. chunk' = Chunk /\ stream' = stream /\ running' = running
    BY <1>3 DEF Work
  <2>2. QED
    BY <1>1, <2>1 DEF TypeInv, StreamInv
<1>4. QED
  BY <1>2, <1>3

LEMMA FirstOfRest ==
  ASSUME NEW n \in Nat, NEW m \in Nat, n + 1 .. m # {}
  PROVE  /\ (CHOOSE i \in n + 1 .. m : \A j \in n + 1 .. m : i <= j) = n + 1
         /\ (n + 1 .. m) \ {n + 1} = n + 2 .. m
         /\ n + 1 \in 1 .. m
<1>1. n + 1 <= m
  OBVIOUS
<1>2. PICK S : S = n + 1 .. m
  OBVIOUS
<1>3. n + 1 \in S /\ \A j \in S : n + 1 <= j
  BY <1>1, <1>2
<1>4. \A i \in S : (\A j \in S : i <= j) => i = n + 1
  BY <1>2, <1>3
<1>5. (CHOOSE i \in S : \A j \in S : i <= j) = n + 1
  BY ONLY <1>3, <1>4
<1>6. QED
  BY <1>1, <1>2, <1>5

\* A flow is acquired for each bandwidth part in their order.
LEMMA AcquireTurn ==
  ASSUME SnifferInvariant, pc = "acquire", todo # {}
  PROVE  \E n \in Nat : /\ Current = n + 1 /\ Current <= Len(bandwidth_parts)
                       /\ todo = n + 1 .. Len(bandwidth_parts)
                       /\ todo \ {Current} = n + 2 .. Len(bandwidth_parts)
                       /\ n + 1 \in 0 .. Len(bandwidth_parts)
<1>1. PICK m \in Nat : m = Len(bandwidth_parts)
  BY SequenceDomain DEF SnifferInvariant, SetUpInv
<1>2. PICK n \in 0 .. m : todo = n + 1 .. m
  BY <1>1 DEF SnifferInvariant, ChainInv
<1>3. n \in Nat /\ n + 1 .. m # {}
  BY <1>2
<1>4. /\ (CHOOSE i \in n + 1 .. m : \A j \in n + 1 .. m : i <= j) = n + 1
      /\ (n + 1 .. m) \ {n + 1} = n + 2 .. m
      /\ n + 1 \in 1 .. m
  BY ONLY <1>3, m \in Nat, FirstOfRest
<1>5. Current = n + 1
  BY ONLY <1>2, <1>4 DEF Current
<1>6. n + 1 <= m /\ n + 1 \in 0 .. m
  BY ONLY <1>3, <1>4, m \in Nat
<1>7. QED
  BY ONLY <1>1, <1>2, <1>3, <1>4, <1>5, <1>6, Zenon

\* What passing a chunk on does to a flow.
SubmittedTo(f) ==
  /\ pending[f] < QueueCap
  /\ status[f] = "busy"
  /\ \/ /\ chunk > 0 /\ Service!Submit(f)
        /\ \/ fatal' = fatal
           \/ MayThrow(serves[f]) /\ fatal' = [fatal EXCEPT ![f] = pending[f] + 1]
        /\ UNCHANGED <<stopped, emptied>>
     \/ /\ Service!Release(f)
        /\ stopped' = stopped \cup {f}
        /\ emptied' = TRUE
        /\ fatal' = fatal

LEMMA SubmitTurn ==
  ASSUME PoolInv, SubmitChunk
  PROVE  \E f \in Flows : f \in todo /\ todo' = todo \ {f} /\ SubmittedTo(f)
<1>1. todo \subseteq Flows
  BY DEF PoolInv, SubmitChunk
<1>2. PICK f \in todo :
         /\ pending[f] < QueueCap
         /\ todo' = todo \ {f}
         /\ \/ /\ chunk > 0
               /\ Service!Submit(f)
               /\ \/ UNCHANGED fatal
                  \/ /\ fatal[f] = 0 /\ MayThrow(serves[f])
                     /\ fatal' = [fatal EXCEPT ![f] = pending[f] + 1]
               /\ UNCHANGED <<stopped, emptied>>
            \/ /\ chunk = 0
               /\ Service!Release(f)
               /\ stopped' = stopped \cup {f}
               /\ emptied' = TRUE
               /\ UNCHANGED fatal
  BY DEF SubmitChunk
<1>3. status[f] = "busy"
  BY <1>2 DEF Service!Submit, Service!Release
<1>4. SubmittedTo(f)
  BY <1>2, <1>3 DEF SubmittedTo
<1>5. QED
  BY <1>1, <1>2, <1>4

LEMMA TypeKept ==
  ASSUME SnifferInvariant, [Next]_vars
  PROVE  TypeInv'
<1> TypeInv /\ StreamInv /\ PoolInv
  BY DEF SnifferInvariant
<1>0. Chunk \in Nat \ {0} /\ QueueCap \in Nat \ {0} /\ env.size \in Nat /\ 0 \in 0 .. Chunk
      /\ 0 \in -1 .. 1 /\ 1 \in -1 .. 1
  BY Basics DEF TypeInv
<1>1. ASSUME NEW p \in Places, pc' = p, renewed' \in BOOLEAN,
             UNCHANGED <<env, result, stream, running, chunk, status, pending, stopped, serves, fatal,
                         passed, emptied>>
      PROVE  TypeInv'
  BY <1>1 DEF TypeInv
<1>2. CASE LoadFails \/ OpenFails
  <2>1. pc' = "returned" /\ result' = 1
        /\ UNCHANGED <<env, stream, running, chunk, status, pending, stopped, serves, fatal, passed, emptied, renewed>>
    BY <1>2 DEF LoadFails, OpenFails, Return, pool, past
  <2>2. pc' \in Places
    BY <2>1 DEF Places
  <2>3. QED
    BY <1>0, <2>1, <2>2 DEF TypeInv
<1>3. CASE LoadConfig \/ StartDies \/ BatchThrows \/ SharedListThrows \/ NoMib \/ MibAgain \/ FirstMib \/ SetUpDies \/ SetUp \/ SetUpDone
           \/ RemainderDone \/ ReleaseDone \/ AcquireDone \/ Stop
  <2>1. pc' \in Places
    BY <1>3 DEF LoadConfig, StartDies, BatchThrows, SharedListThrows, NoMib, MibAgain, FirstMib,
                SetUpDies, SetUp, SetUpDone, RemainderDone, ReleaseDone, AcquireDone, Stop, Dies,
                FineTimeSync, Places, TypeInv
  <2>2. /\ UNCHANGED <<env, result, stream, running, chunk, status, pending, stopped, serves, fatal,
                       passed, emptied>>
        /\ renewed' = renewed \/ renewed' = TRUE
    BY <1>3 DEF LoadConfig, StartDies, BatchThrows, SharedListThrows, NoMib, MibAgain, FirstMib, SetUpDies, SetUp, SetUpDone, RemainderDone,
                ReleaseDone, AcquireDone, Stop, Dies, pool, past
  <2>3. QED
    BY <1>1, <2>1, <2>2 DEF TypeInv
<1>4. CASE Start
  <2>1. pc' \in Places
        /\ UNCHANGED <<env, result, stream, chunk, status, pending, stopped, serves, fatal, passed, emptied, renewed>>
    BY <1>4 DEF Start, Places, pool, past
  <2>2. running' \in BOOLEAN
    BY <1>4, Zenon DEF Start
  <2>3. QED
    BY <2>1, <2>2 DEF TypeInv
<1>5. CASE Work
  <2>1. /\ stream' \in Streams(env.size) /\ chunk' \in 0 .. Chunk /\ running' \in BOOLEAN
    BY <1>5, Working
  <2>2. pc' \in Places /\ UNCHANGED <<env, result, status, pending, stopped, serves, fatal, passed, emptied, renewed>>
    BY <1>5 DEF Work, Places, pool, past
  <2>3. QED
    BY <2>1, <2>2 DEF TypeInv
<1>6. CASE ReleaseFlow
  <2>1. PICK f \in todo : Service!Release(f)
    BY <1>6 DEF ReleaseFlow
  <2>2. status' \in [Flows -> {"free", "busy", "finishing"}] /\ pending' = pending
    BY <2>1 DEF Service!Release, TypeInv
  <2>3. UNCHANGED <<env, pc, result, stream, running, chunk, stopped, serves, fatal, passed, emptied, renewed>>
    BY <1>6 DEF ReleaseFlow, past
  <2>4. QED
    BY <2>2, <2>3 DEF TypeInv
<1>7. CASE AcquireFlow
  <2>1. PICK f \in Flows : Service!Acquire(f) /\ serves' = [serves EXCEPT ![f] = Current]
    BY <1>7 DEF AcquireFlow
  <2>2. status' \in [Flows -> {"free", "busy", "finishing"}] /\ pending' = pending
    BY <2>1 DEF Service!Acquire, TypeInv
  <2>3. UNCHANGED <<env, pc, result, stream, running, chunk, stopped, fatal, passed, emptied, renewed>>
    BY <1>7 DEF AcquireFlow, past
  <2>4. Current \in Nat
    BY <1>7, AcquireTurn DEF AcquireFlow
  <2>5. serves' \in [Flows -> Nat]
    BY <2>1, <2>4 DEF TypeInv
  <2>6. QED
    BY <2>2, <2>3, <2>5 DEF TypeInv
<1>8. CASE SubmitChunk
  <2>1. PICK f \in Flows : SubmittedTo(f)
    BY <1>8, SubmitTurn
  <2>2. UNCHANGED <<env, pc, result, stream, running, chunk, serves, passed, renewed>>
    BY <1>8 DEF SubmitChunk
  <2>3. status' \in [Flows -> {"free", "busy", "finishing"}] /\ pending' \in [Flows -> 0 .. QueueCap]
    BY <1>0, <2>1 DEF SubmittedTo, Service!Submit, Service!Release, TypeInv
  <2>4. fatal' \in [Flows -> 0 .. QueueCap]
    BY <1>0, <2>1 DEF SubmittedTo, TypeInv
  <2>5. stopped' \subseteq Flows /\ emptied' \in BOOLEAN
    BY <2>1 DEF SubmittedTo, TypeInv
  <2>6. QED
    BY <2>2, <2>3, <2>4, <2>5 DEF TypeInv
<1>9. CASE WorkDone
  <2>1. stream.pos \in 0 .. env.size
    BY DEF TypeInv, Streams
  <2>2. passed' = stream.pos /\ pc' = "loop" /\ chunk' = 0
        /\ UNCHANGED <<env, result, stream, running, status, pending, stopped, serves, fatal, emptied, renewed>>
    BY <1>9 DEF WorkDone, pool
  <2>3. QED
    BY <1>0, <2>1, <2>2 DEF TypeInv, Places
<1>10. CASE Destroyed
  <2>1. pc' = "returned" /\ result' = 0
        /\ UNCHANGED <<env, stream, running, chunk, status, pending, stopped, serves, fatal, passed, emptied, renewed>>
    BY <1>10 DEF Destroyed, Return, pool, past
  <2>2. pc' \in Places
    BY <2>1 DEF Places
  <2>3. QED
    BY <1>0, <2>1, <2>2 DEF TypeInv
<1>11. CASE CompleteChunk
  <2>1. PICK f \in Flows : Service!Complete(f) /\ fatal' = [fatal EXCEPT ![f] = IF fatal[f] = 0 THEN 0 ELSE fatal[f] - 1]
    BY <1>11 DEF CompleteChunk
  <2>2. pending' \in [Flows -> 0 .. QueueCap] /\ status' = status
    BY <1>0, <2>1 DEF Service!Complete, TypeInv
  <2>3. fatal' \in [Flows -> 0 .. QueueCap]
    BY <1>0, <2>1 DEF TypeInv
  <2>4. UNCHANGED <<env, pc, result, stream, running, chunk, stopped, serves, passed, emptied, renewed>>
    BY <1>11 DEF CompleteChunk, past
  <2>5. QED
    BY <2>2, <2>3, <2>4 DEF TypeInv
<1>12. CASE FlowFinishes
  <2>1. PICK f \in Flows : Service!BecomeFree(f) /\ serves' = [serves EXCEPT ![f] = 0]
    BY <1>12 DEF FlowFinishes
  <2>2. status' \in [Flows -> {"free", "busy", "finishing"}] /\ pending' = pending /\ serves' \in [Flows -> Nat]
    BY <2>1 DEF Service!BecomeFree, TypeInv
  <2>3. UNCHANGED <<env, pc, result, stream, running, chunk, stopped, fatal, passed, emptied, renewed>>
    BY <1>12 DEF FlowFinishes, past
  <2>4. QED
    BY <2>2, <2>3 DEF TypeInv
<1>13. CASE UNCHANGED vars
  <2>1. UNCHANGED <<env, pc, result, stream, running, chunk, status, pending, stopped, serves, fatal, passed, emptied, renewed>>
    BY <1>13 DEF vars, pool, past
  <2>2. QED
    BY <2>1 DEF TypeInv
<1>14. QED
  <2>1. CASE Next
    <3>1. Main \/ CompleteChunk \/ BatchThrows \/ SharedListThrows \/ FlowFinishes
      BY <2>1 DEF Next
    <3>2. CASE Main
      BY <3>2, <1>2, <1>3, <1>4, <1>5, <1>6, <1>7, <1>8, <1>9, <1>10 DEF Main
    <3>3. QED
      BY <1>3, <1>11, <1>12, <3>1, <3>2
  <2>2. QED
    BY <1>13, <2>1

\* The configurations are taken in their order.
LEMMA SetUpTurn ==
  ASSUME SnifferInvariant, pc \in {"set up", "set-up died"}, todo # {}
  PROVE  \E n \in Nat : /\ Len(bandwidth_parts) = n /\ DOMAIN bandwidth_parts = 1 .. n
                       /\ Len(channel_mappers) = n /\ DOMAIN channel_mappers = 1 .. n
                       /\ Current = n + 1
                       /\ Current \in DOMAIN configs
                       /\ todo \ {Current} = n + 2 .. Len(configs)
<1>1. SetUpInv /\ env \in Environments
  BY DEF SnifferInvariant, TypeInv
<1>2. PICK n \in Nat : /\ n = Len(bandwidth_parts) /\ n = Len(channel_mappers)
                      /\ DOMAIN bandwidth_parts = 1 .. n /\ DOMAIN channel_mappers = 1 .. n
  BY <1>1, SequenceDomain DEF SetUpInv
<1>3. PICK m \in Nat : m = Len(configs) /\ DOMAIN configs = 1 .. m
  <2>1. configs = load(env.tables)
    BY <1>1 DEF SetUpInv
  <2>2. QED
    BY <1>1, <2>1, Loaded
<1>4. todo = n + 1 .. m
  BY <1>1, <1>2, <1>3 DEF SetUpInv
<1>5. n \in Nat /\ m \in Nat /\ n + 1 .. m # {}
  BY <1>4
<1>6. /\ (CHOOSE i \in n + 1 .. m : \A j \in n + 1 .. m : i <= j) = n + 1
      /\ (n + 1 .. m) \ {n + 1} = n + 2 .. m
      /\ n + 1 \in 1 .. m
  BY ONLY <1>5, FirstOfRest
<1>7. Current = n + 1
  BY ONLY <1>4, <1>6 DEF Current
<1>8. QED
  BY ONLY <1>2, <1>3, <1>4, <1>6, <1>7, n \in Nat, Zenon

LEMMA SetUpUnchanged ==
  ASSUME SetUpInv, UNCHANGED <<env, configs, bandwidth_parts, channel_mappers>>,
         pc' \notin {"load", "returned", "flow died"} => pc \notin {"load", "returned", "flow died"},
         pc' \in {"load", "open"} => pc \in {"load", "open"},
         pc' = "set-up died" => todo # {} /\ ~Usable /\ todo' = todo,
         pc' \in {"set up", "set-up died"} => todo' = Len(bandwidth_parts) + 1 .. Len(configs)
  PROVE  SetUpInv'
<1>1. /\ pc' \notin {"load", "returned", "flow died"} => configs' = load(env'.tables)
      /\ channel_mappers' # <<>> => configs' = load(env'.tables)
      /\ pc' \in {"load", "open"} => bandwidth_parts' = <<>>
      /\ IsSequence(bandwidth_parts') /\ IsSequence(channel_mappers')
      /\ Len(channel_mappers') = Len(bandwidth_parts')
      /\ Len(bandwidth_parts') <= Len(configs')
      /\ pc' \in {"set up", "set-up died"} => todo' = Len(bandwidth_parts') + 1 .. Len(configs')
  BY DEF SetUpInv
<1>2. ASSUME NEW i \in DOMAIN channel_mappers'
      PROVE  MadeOf(i)'
  <2>1. MadeOf(i)
    BY DEF SetUpInv
  <2>2. QED
    BY <2>1 DEF MadeOf, Searchable
<1>3. pc' = "set-up died" => todo' # {} /\ ~Usable'
  BY DEF Usable, CurrentConfig, Current, Searchable
<1>4. QED
  BY <1>1, <1>2, <1>3 DEF SetUpInv

LEMMA SetUpKept ==
  ASSUME SnifferInvariant, [Next]_vars
  PROVE  SetUpInv'
<1>0. TypeInv /\ SetUpInv /\ env \in Environments
  BY DEF SnifferInvariant, TypeInv
<1>1. CASE LoadFails
  BY <1>0, <1>1, SetUpUnchanged DEF LoadFails, Return, phy
<1>2. CASE LoadConfig
  <2>1. /\ pc' = "open" /\ configs' = load(env.tables) /\ bandwidth_parts = <<>>
        /\ UNCHANGED <<env, bandwidth_parts, channel_mappers>>
    BY <1>0, <1>2 DEF LoadConfig, SetUpInv, phy
  <2>2. Len(bandwidth_parts) = 0 /\ Len(channel_mappers) = 0 /\ DOMAIN channel_mappers = {}
    BY <1>0, <2>1, EmptyIsSequence, SequenceDomain DEF SetUpInv
  <2>3. Len(configs') \in Nat
    BY <1>0, <2>1, Loaded
  <2>4. /\ IsSequence(bandwidth_parts') /\ IsSequence(channel_mappers')
        /\ Len(channel_mappers') = Len(bandwidth_parts')
        /\ DOMAIN channel_mappers' = {}
    BY <1>0, <2>1, <2>2 DEF SetUpInv
  <2>5. Len(bandwidth_parts') <= Len(configs')
    <3>1. PICK m \in Nat : m = Len(configs')
      BY <2>3
    <3>2. Len(bandwidth_parts') = 0
      BY <2>1, <2>2
    <3>3. QED
      BY ONLY <3>1, <3>2, m \in Nat
  <2>6. pc' = "open" /\ configs' = load(env'.tables) /\ bandwidth_parts' = <<>>
    BY <2>1
  <2>7. QED
    BY ONLY <2>4, <2>5, <2>6 DEF SetUpInv
<1>3. CASE OpenFails
  BY <1>0, <1>3, SetUpUnchanged DEF OpenFails, Return, phy
<1>4. CASE FirstMib
  <2>1. /\ pc = "search" /\ pc' = "set up" /\ todo' = DOMAIN configs /\ bandwidth_parts = <<>>
        /\ UNCHANGED <<env, configs, bandwidth_parts, channel_mappers>>
    BY <1>4 DEF FirstMib, phy
  <2>2. configs = load(env.tables)
    BY <1>0, <2>1 DEF SetUpInv
  <2>3. todo' = 1 .. Len(configs) /\ Len(bandwidth_parts) = 0
    BY <1>0, <2>1, <2>2, Loaded, EmptyIsSequence
  <2>4. todo' = Len(bandwidth_parts) + 1 .. Len(configs)
    BY <2>3
  <2>5. QED
    BY <1>0, <2>1, <2>4, SetUpUnchanged
<1>5. CASE SetUpDies
  <2>1. /\ pc = "set up" /\ pc' = "set-up died" /\ todo # {} /\ ~Usable /\ todo' = todo
        /\ UNCHANGED <<env, configs, bandwidth_parts, channel_mappers>>
    BY <1>5 DEF SetUpDies, Dies, phy
  <2>2. todo = Len(bandwidth_parts) + 1 .. Len(configs)
    BY <1>0, <2>1 DEF SetUpInv
  <2>3. QED
    BY <1>0, <2>1, <2>2, SetUpUnchanged
<1>6. CASE SetUp
  <2> DEFINE found == Found(env, configs[Current])
             bwp   == BandwidthPartOf(found, env.sample_rate)
  <2>1. /\ pc = "set up" /\ pc' = pc /\ todo # {} /\ Usable /\ todo' = todo \ {Current}
        /\ UNCHANGED <<env, configs>>
        /\ bandwidth_parts' = Append(bandwidth_parts, bwp)
        /\ channel_mappers' = Append(channel_mappers, MapperOf(found, bandwidth_parts'[1], env.cell_id))
    BY <1>6 DEF SetUp, CurrentConfig, InitialBwp
  <2>2. PICK n \in Nat : /\ Len(bandwidth_parts) = n /\ DOMAIN bandwidth_parts = 1 .. n
                        /\ Len(channel_mappers) = n /\ DOMAIN channel_mappers = 1 .. n
                        /\ Current = n + 1
                        /\ Current \in DOMAIN configs
                        /\ todo \ {Current} = n + 2 .. Len(configs)
    BY <2>1, SetUpTurn
  <2>3. PICK b, mapper : b = bwp /\ mapper = MapperOf(found, bandwidth_parts'[1], env.cell_id)
    OBVIOUS
  <2>4. IsSequence(bandwidth_parts) /\ IsSequence(channel_mappers)
    BY <1>0 DEF SetUpInv
  <2> HIDE DEF bwp, found
  <2>5. /\ IsSequence(bandwidth_parts') /\ Len(bandwidth_parts') = n + 1
        /\ \A i \in 1 .. n : bandwidth_parts'[i] = bandwidth_parts[i]
        /\ bandwidth_parts'[n + 1] = b
    <3>1. PICK s, t : s = bandwidth_parts /\ t = Append(s, b) /\ Len(s) = n /\ IsSequence(s)
      BY ONLY <2>2, <2>4
    <3>2. /\ IsSequence(t) /\ Len(t) = n + 1
          /\ \A i \in 1 .. n : t[i] = s[i]
          /\ t[n + 1] = b
      BY ONLY <3>1, AppendIsSequence
    <3>3. QED
      BY ONLY <2>1, <2>3, <3>1, <3>2, Zenon
  <2>6. /\ IsSequence(channel_mappers') /\ Len(channel_mappers') = n + 1
        /\ \A i \in 1 .. n : channel_mappers'[i] = channel_mappers[i]
        /\ channel_mappers'[n + 1] = mapper
        /\ DOMAIN channel_mappers' = 1 .. n + 1
    <3>1. PICK s, t : s = channel_mappers /\ t = Append(s, mapper) /\ Len(s) = n /\ IsSequence(s)
      BY ONLY <2>2, <2>4
    <3>2. /\ IsSequence(t) /\ Len(t) = n + 1
          /\ \A i \in 1 .. n : t[i] = s[i]
          /\ t[n + 1] = mapper
      BY ONLY <3>1, AppendIsSequence
    <3>3. DOMAIN t = 1 .. n + 1
      BY ONLY <3>2, SequenceDomain, Zenon
    <3>4. QED
      BY ONLY <2>1, <2>3, <3>1, <3>2, <3>3, Zenon
  <2>7. PICK m \in Nat : m = Len(configs) /\ n + 1 <= m
    <3>1. configs = load(env.tables)
      BY <1>0, <2>1 DEF SetUpInv
    <3>2. PICK m \in Nat : m = Len(configs) /\ DOMAIN configs = 1 .. m
      BY <1>0, <3>1, Loaded
    <3>3. n + 1 \in 1 .. m
      BY ONLY <2>2, <3>2
    <3>4. n + 1 <= m
      BY ONLY n \in Nat, m \in Nat, <3>3
    <3>5. QED
      BY <3>2, <3>4
  <2>8. todo' = Len(bandwidth_parts') + 1 .. Len(configs')
    <3>1. todo' = n + 2 .. Len(configs)
      BY ONLY <2>1, <2>2, Zenon
    <3>2. \A k \in Nat : (k + 1) + 1 = k + 2
      OBVIOUS
    <3>3. Len(bandwidth_parts') + 1 = n + 2
      BY ONLY n \in Nat, <2>5, <3>2, Zenon
    <3>4. QED
      BY ONLY <2>1, <3>1, <3>3
  <2>9. ASSUME NEW i \in 1 .. n
        PROVE  MadeOf(i)'
    <3>1. MadeOf(i)
      BY <1>0, <2>2 DEF SetUpInv
    <3>2. /\ bandwidth_parts'[i] = bandwidth_parts[i] /\ channel_mappers'[i] = channel_mappers[i]
          /\ bandwidth_parts'[1] = bandwidth_parts[1]
      BY <2>5, <2>6
    <3>3. QED
      BY <2>1, <3>1, <3>2 DEF MadeOf, Searchable
  <2>10. MadeOf(n + 1)'
    <3>1. ~OutOfRange(env, configs[n + 1]) /\ BandwidthPartAsserts(found, env.sample_rate) /\ Searchable(found)
      BY <2>1, <2>2 DEF Usable, CurrentConfig, found
    <3>2. found = Found(env', configs'[n + 1]) /\ bwp = BandwidthPartOf(found, env.sample_rate)
      BY <2>1, <2>2 DEF found, bwp
    <3>3. QED
      BY <2>1, <2>3, <2>5, <2>6, <3>1, <3>2 DEF MadeOf, Searchable
  <2>11. \A i \in DOMAIN channel_mappers' : MadeOf(i)'
    BY <2>6, <2>9, <2>10
  <2>12. /\ pc' = "set up" /\ configs' = load(env'.tables)
         /\ Len(channel_mappers') = Len(bandwidth_parts') /\ Len(bandwidth_parts') <= Len(configs')
    BY <1>0, <2>1, <2>5, <2>6, <2>7 DEF SetUpInv
  <2>13. QED
    BY <2>5, <2>6, <2>8, <2>11, <2>12 DEF SetUpInv
<1>7. CASE StartDies \/ Start \/ Work \/ NoMib \/ MibAgain \/ SetUpDone \/ RemainderDone \/ ReleaseDone
           \/ AcquireDone \/ WorkDone \/ Stop
  <2>1. UNCHANGED <<env, configs, bandwidth_parts, channel_mappers>>
    BY <1>7 DEF StartDies, Start, Work, NoMib, MibAgain, SetUpDone, RemainderDone, ReleaseDone,
                AcquireDone, WorkDone, Stop, Dies, phy
  <2>2. /\ pc \notin {"load", "returned", "flow died"}
        /\ pc' \notin {"load", "open", "set up", "set-up died"}
    BY <1>7 DEF StartDies, Start, Work, NoMib, MibAgain, SetUpDone, RemainderDone, ReleaseDone,
                AcquireDone, WorkDone, Stop, Dies, FineTimeSync
  <2>3. QED
    BY <1>0, <2>1, <2>2, SetUpUnchanged
<1>8. CASE ReleaseFlow \/ AcquireFlow \/ SubmitChunk
  <2>1. UNCHANGED <<env, pc, configs, bandwidth_parts, channel_mappers>>
    BY <1>8 DEF ReleaseFlow, AcquireFlow, SubmitChunk, phy
  <2>2. pc \in {"release", "destroy", "acquire", "relay", "submit", "remainder"}
    BY <1>8 DEF ReleaseFlow, AcquireFlow, SubmitChunk
  <2>3. QED
    BY <1>0, <2>1, <2>2, SetUpUnchanged
<1>9. CASE Destroyed
  BY <1>0, <1>9, SetUpUnchanged DEF Destroyed, Return, phy
<1>10. CASE CompleteChunk \/ FlowFinishes
  <2>1. /\ UNCHANGED <<env, pc, configs, bandwidth_parts, channel_mappers, todo>>
        /\ pc # "set-up died"
    BY <1>10 DEF CompleteChunk, FlowFinishes, Ended, phy
  <2>2. pc' \in {"set up", "set-up died"} => todo' = Len(bandwidth_parts) + 1 .. Len(configs)
    BY <1>0, <2>1 DEF SetUpInv
  <2>3. QED
    BY <1>0, <2>1, <2>2, SetUpUnchanged
<1>11. CASE UNCHANGED vars
  <2>1. UNCHANGED <<env, pc, configs, bandwidth_parts, channel_mappers, todo>>
    BY <1>11 DEF vars, phy
  <2>2. /\ pc' \in {"set up", "set-up died"} => todo' = Len(bandwidth_parts) + 1 .. Len(configs)
        /\ pc' = "set-up died" => todo # {} /\ ~Usable
    BY <1>0, <2>1 DEF SetUpInv
  <2>3. QED
    BY <1>0, <2>1, <2>2, SetUpUnchanged
<1>12. CASE BatchThrows \/ SharedListThrows
  <2>1. pc' = "flow died" /\ UNCHANGED <<env, configs, bandwidth_parts, channel_mappers>>
    BY <1>12 DEF BatchThrows, SharedListThrows, Dies, phy
  <2>2. QED
    BY <1>0, <2>1, SetUpUnchanged
<1>13. QED
  <2>1. CASE Next
    BY <2>1, <1>1, <1>2, <1>3, <1>4, <1>5, <1>6, <1>7, <1>8, <1>9, <1>10, <1>12 DEF Next, Main
  <2>2. QED
    BY <1>11, <2>1

LEMMA StreamKept ==
  ASSUME SnifferInvariant, [Next]_vars
  PROVE  StreamInv'
<1>0. TypeInv /\ StreamInv
  BY DEF SnifferInvariant
<1>1. CASE Start
  <2>1. pc = "open" /\ pc' = "loop" /\ running' /\ UNCHANGED <<env, stream, passed>>
    BY <1>1 DEF Start, past
  <2>2. QED
    BY <1>0, <2>1 DEF StreamInv, InLoop
<1>2. CASE Work
  <2>1. (running' => ~stream'.eofbit) /\ (~running' => stream'.pos = env.size)
    BY <1>0, <1>2, Working
  <2>2. pc' = "search" /\ UNCHANGED env
    BY <1>2 DEF Work
  <2>3. QED
    BY <2>1, <2>2 DEF StreamInv, InLoop
<1>3. CASE WorkDone
  <2>1. pc \in {"relay", "submit"} /\ pc' = "loop" /\ passed' = stream.pos /\ UNCHANGED <<env, stream, running>>
    BY <1>3 DEF WorkDone
  <2>2. QED
    BY <1>0, <2>1 DEF StreamInv, InLoop
<1>4. CASE Stop
  <2>1. pc = "loop" /\ ~running /\ pc' = "destroy" /\ UNCHANGED <<env, stream, running, passed>>
    BY <1>4 DEF Stop, past
  <2>2. QED
    BY <1>0, <2>1 DEF StreamInv, InLoop
<1>5. CASE \/ LoadFails \/ LoadConfig \/ OpenFails \/ StartDies \/ SetUpDies \/ Destroyed
           \/ BatchThrows \/ SharedListThrows
  <2>1. UNCHANGED <<env, stream, running, passed>>
    BY <1>5 DEF LoadFails, LoadConfig, OpenFails, StartDies, SetUpDies, Destroyed, BatchThrows,
                SharedListThrows, Dies, past
  <2>2. /\ pc' \in {"open", "returned", "start died", "set-up died", "flow died"}
        /\ pc' = "open" => pc = "load"
    BY <1>5 DEF LoadFails, LoadConfig, OpenFails, StartDies, SetUpDies, Destroyed, BatchThrows,
                SharedListThrows, Dies, Return
  <2>3. QED
    BY <1>0, <2>1, <2>2 DEF StreamInv, InLoop
<1>6. CASE NoMib \/ MibAgain \/ FirstMib \/ SetUpDone \/ RemainderDone \/ ReleaseDone \/ AcquireDone
  <2>1. UNCHANGED <<env, stream, running, passed>>
    BY <1>6 DEF NoMib, MibAgain, FirstMib, SetUpDone, RemainderDone, ReleaseDone, AcquireDone, past
  <2>2. /\ pc \in {"search", "set up", "remainder", "release", "acquire"}
        /\ pc' \in {"relay", "submit", "set up", "remainder", "release", "acquire"}
    BY <1>6 DEF NoMib, MibAgain, FirstMib, SetUpDone, RemainderDone, ReleaseDone, AcquireDone, FineTimeSync
  <2>3. QED
    BY <1>0, <2>1, <2>2 DEF StreamInv, InLoop
<1>7. CASE SetUp \/ ReleaseFlow \/ AcquireFlow \/ SubmitChunk \/ CompleteChunk \/ FlowFinishes
  <2>1. UNCHANGED <<env, pc, stream, running, passed>>
    BY <1>7 DEF SetUp, ReleaseFlow, AcquireFlow, SubmitChunk, CompleteChunk, FlowFinishes, past
  <2>2. QED
    BY <1>0, <2>1 DEF StreamInv, InLoop
<1>8. CASE UNCHANGED vars
  <2>1. UNCHANGED <<env, pc, stream, running, passed>>
    BY <1>8 DEF vars, past
  <2>2. QED
    BY <1>0, <2>1 DEF StreamInv, InLoop
<1>9. QED
  <2>1. CASE Next
    BY <2>1, <1>1, <1>2, <1>3, <1>4, <1>5, <1>6, <1>7 DEF Next, Main
  <2>2. QED
    BY <1>8, <2>1

LEMMA PoolKept ==
  ASSUME SnifferInvariant, [Next]_vars
  PROVE  PoolInv'
<1>0. PoolInv /\ status \in [Flows -> {"free", "busy", "finishing"}]
      /\ pending \in [Flows -> 0 .. QueueCap]
  BY DEF SnifferInvariant, TypeInv
<1>1. CASE NoMib \/ MibAgain \/ SetUpDone \/ RemainderDone \/ AcquireDone \/ Stop
  <2>1. UNCHANGED <<status, pending, stopped, emptied>>
    BY <1>1 DEF NoMib, MibAgain, SetUpDone, RemainderDone, AcquireDone, Stop, pool, past
  <2>2. todo' \in {Busy, {}} \/ pc' = "acquire"
    BY <1>1 DEF NoMib, MibAgain, SetUpDone, RemainderDone, AcquireDone, Stop, FineTimeSync
  <2>3. Busy \subseteq Flows
    BY DEF Busy
  <2>4. QED
    BY <1>0, <2>1, <2>2, <2>3 DEF PoolInv
<1>2. CASE \/ LoadFails \/ LoadConfig \/ OpenFails \/ StartDies \/ Start \/ Work \/ FirstMib \/ SetUpDies
           \/ ReleaseDone \/ WorkDone \/ Destroyed \/ BatchThrows \/ SharedListThrows
  <2>1. UNCHANGED <<status, pending, stopped, emptied>>
    BY <1>2 DEF LoadFails, LoadConfig, OpenFails, StartDies, Start, Work, FirstMib, SetUpDies,
                ReleaseDone, WorkDone, Destroyed, BatchThrows, SharedListThrows, Dies, pool, past
  <2>2. pc' \in {"returned", "open", "loop", "search", "set up", "acquire", "start died",
                 "set-up died", "flow died"}
    BY <1>2 DEF LoadFails, LoadConfig, OpenFails, StartDies, Start, Work, FirstMib, SetUpDies,
                ReleaseDone, WorkDone, Destroyed, BatchThrows, SharedListThrows, Dies, Return
  <2>3. QED
    BY <1>0, <2>1, <2>2 DEF PoolInv
<1>3. CASE SetUp
  <2>1. pc = "set up" /\ pc' = pc /\ UNCHANGED <<status, pending, stopped, emptied>>
    BY <1>3 DEF SetUp, pool, past
  <2>2. QED
    BY <1>0, <2>1 DEF PoolInv
<1>4. CASE ReleaseFlow
  <2>1. PICK f \in todo : Service!Release(f) /\ todo' = todo \ {f}
    BY <1>4 DEF ReleaseFlow
  <2>2. pc \in {"release", "destroy"} /\ UNCHANGED <<pc, stopped, emptied>>
    BY <1>4 DEF ReleaseFlow, past
  <2>3. f \in Flows /\ todo' \subseteq Flows
    BY <1>0, <2>1, <2>2 DEF PoolInv
  <2>4. pending' = pending /\ \A g \in Flows : status'[g] = "free" => status[g] = "free"
    BY <1>0, <2>1, <2>3 DEF Service!Release
  <2>5. QED
    BY <1>0, <2>2, <2>3, <2>4 DEF PoolInv
<1>5. CASE AcquireFlow
  <2>1. PICK f \in Flows : Service!Acquire(f)
    BY <1>5 DEF AcquireFlow
  <2>2. pc = "acquire" /\ UNCHANGED <<pc, stopped, emptied>>
    BY <1>5 DEF AcquireFlow, past
  <2>3. pending' = pending /\ \A g \in Flows : status'[g] = "free" => status[g] = "free"
    BY <1>0, <2>1 DEF Service!Acquire
  <2>4. QED
    BY <1>0, <2>2, <2>3 DEF PoolInv
<1>6. CASE SubmitChunk
  <2>1. PICK f \in Flows : todo' = todo \ {f} /\ SubmittedTo(f)
    BY <1>0, <1>6, SubmitTurn
  <2>2. pc \in {"relay", "submit", "remainder"} /\ UNCHANGED pc
    BY <1>6 DEF SubmitChunk
  <2>3. f \in Flows /\ todo' \subseteq Flows
    BY <1>0, <2>1, <2>2 DEF PoolInv
  <2>4. CASE Service!Submit(f) /\ UNCHANGED <<stopped, emptied>>
    <3>1. status[f] = "busy" /\ status' = status
          /\ \A g \in Flows : status[g] = "free" => pending'[g] = pending[g]
      BY <1>0, <2>3, <2>4 DEF Service!Submit
    <3>2. QED
      BY <1>0, <2>2, <2>3, <2>4, <3>1 DEF PoolInv
  <2>5. CASE Service!Release(f) /\ emptied' = TRUE
    <3>1. pending' = pending /\ \A g \in Flows : status'[g] = "free" => status[g] = "free"
      BY <1>0, <2>3, <2>5 DEF Service!Release
    <3>2. emptied'
      BY <2>5
    <3>3. QED
      BY <1>0, <2>2, <2>3, <3>1, <3>2 DEF PoolInv
  <2>6. QED
    BY <2>1, <2>4, <2>5 DEF SubmittedTo
<1>7. CASE CompleteChunk
  <2>1. PICK f \in Flows : Service!Complete(f)
    BY <1>7 DEF CompleteChunk
  <2>2. UNCHANGED <<pc, todo, stopped, emptied>>
    BY <1>7 DEF CompleteChunk, past
  <2>3. status' = status /\ \A g \in Flows : status[g] = "free" => pending'[g] = pending[g]
    BY <1>0, <2>1 DEF Service!Complete
  <2>4. QED
    BY <1>0, <2>2, <2>3 DEF PoolInv
<1>8. CASE FlowFinishes
  <2>1. PICK f \in Flows : Service!BecomeFree(f)
    BY <1>8 DEF FlowFinishes
  <2>2. UNCHANGED <<pc, todo, stopped, emptied>>
    BY <1>8 DEF FlowFinishes, past
  <2>3. pending' = pending /\ \A g \in Flows : status'[g] = "free" => status[g] = "free" \/ pending[g] = 0
    BY <1>0, <2>1 DEF Service!BecomeFree
  <2>4. QED
    BY <1>0, <2>2, <2>3 DEF PoolInv
<1>9. CASE UNCHANGED vars
  <2>1. UNCHANGED <<pc, todo, status, pending, stopped, emptied>>
    BY <1>9 DEF vars, pool, past
  <2>2. QED
    BY <1>0, <2>1 DEF PoolInv
<1>10. QED
  <2>1. CASE Next
    BY <2>1, <1>1, <1>2, <1>3, <1>4, <1>5, <1>6, <1>7, <1>8 DEF Next, Main
  <2>2. QED
    BY <1>9, <2>1

\* Whole chunks keep the position a multiple, and what is left of one chunk is not.
LEMMA Multiples ==
  ASSUME NEW c \in Nat \ {0}, NEW x \in Nat, x % c = 0, NEW size \in Nat, x <= size
  PROVE  /\ (x + c) % c = 0
         /\ size - x < c /\ size - x > 0 => size % c # 0
<1>1. \A k \in Int : (k * c) % c = 0
  OBVIOUS
<1>2. PICK k \in Int : x = k * c
  <2>1. x \div c \in Int /\ x = c * (x \div c) + (x % c)
    OBVIOUS
  <2>2. x = (x \div c) * c
    BY <2>1
  <2>3. QED
    BY <2>1, <2>2
<1>3. x + c = (k + 1) * c /\ k + 1 \in Int
  BY <1>2
<1>4. (x + c) % c = 0
  BY ONLY <1>1, <1>3
<1>5. ASSUME size - x < c, size - x > 0, size % c = 0
      PROVE  FALSE
  <2>1. size \div c \in Int /\ size = c * (size \div c) + (size % c)
    OBVIOUS
  <2>2. PICK q \in Int : size = c * q
    <3>1. size = c * (size \div c)
      BY <1>5, <2>1
    <3>2. QED
      BY ONLY <2>1, <3>1
  <2>3. c * q - c * k < c /\ c * q - c * k > 0
    BY <1>2, <1>5, <2>2
  <2>4. CASE q <= k
    <3>1. c * q <= c * k
      BY <2>4
    <3>2. QED
      BY <2>3, <3>1
  <2>5. CASE q >= k + 1
    <3>1. c * q >= c * (k + 1)
      BY <2>5
    <3>2. c * (k + 1) = c * k + c
      OBVIOUS
    <3>3. QED
      BY <2>3, <3>1, <3>2
  <2>6. QED
    BY <2>4, <2>5
<1>6. QED
  BY <1>4, <1>5

\* What one reading leaves: whole chunks behind, and the last one cut.
LEMMA WorkKeepsChunks ==
  ASSUME TypeInv, StreamInv, ChunkInv, Work
  PROVE  ChunkInv'
<1>1. /\ running /\ UNCHANGED env /\ Chunk \in Nat \ {0}
      /\ env.size \in Nat /\ stream \in Streams(env.size)
  BY Basics DEF Work, TypeInv
<1>2. CASE env.source # "file"
  <2>1. chunk' = Chunk /\ stream' = stream
    BY <1>2 DEF Work
  <2>2. QED
    BY <1>1, <2>1 DEF ChunkInv, Good
<1>3. CASE env.source = "file"
  <2>1. PICK got, s : got = Read(Chunk).got /\ s = Read(Chunk).stream
    OBVIOUS
  <2>2. /\ stream' = IF s.eofbit /\ Repeat THEN Rewind(s) ELSE s
        /\ chunk' = IF s.eofbit THEN got ELSE Chunk
    BY <1>3, <2>1 DEF Work, produce_samples
  <2>3. ~stream.eofbit /\ stream.pos \in 0 .. env.size
    BY <1>1 DEF StreamInv, Streams
  <2>4. CASE ~Good(stream) \/ env.read_error
    <3>1. s = [stream EXCEPT !.failbit = TRUE] \/ s = [stream EXCEPT !.badbit = TRUE]
      BY <2>1, <2>4 DEF Read
    <3>2. ~s.eofbit /\ (s.failbit \/ s.badbit)
      BY <1>1, <2>3, <3>1 DEF Streams
    <3>3. chunk' = Chunk /\ stream' = s
      BY <2>2, <3>2
    <3>4. QED
      BY <1>1, <3>2, <3>3 DEF ChunkInv, Good
  <2>5. CASE Good(stream) /\ ~env.read_error /\ env.size - stream.pos < Chunk
    <3>1. /\ s = [pos |-> env.size, eofbit |-> TRUE, failbit |-> TRUE, badbit |-> FALSE]
          /\ got = env.size - stream.pos
      BY <2>1, <2>5 DEF Read
    <3>2. stream'.failbit /\ chunk' = got
      BY <2>2, <3>1 DEF Rewind
    <3>3. stream.pos % Chunk = 0 /\ stream.pos \in Nat /\ stream.pos <= env.size
      BY <1>1, <2>3, <2>5 DEF ChunkInv
    <3>4. 0 < got /\ got < Chunk => env.size % Chunk # 0
      BY <1>1, <2>5, <3>1, <3>3, Multiples
    <3>5. QED
      BY <1>1, <1>3, <3>2, <3>4 DEF ChunkInv, Good
  <2>6. CASE Good(stream) /\ ~env.read_error /\ ~(env.size - stream.pos < Chunk)
    <3>1. s = [stream EXCEPT !.pos = stream.pos + Chunk]
      BY <2>1, <2>6 DEF Read
    <3>2. s.pos = stream.pos + Chunk /\ ~s.eofbit
      BY <1>1, <2>3, <3>1 DEF Streams
    <3>3. chunk' = Chunk /\ stream' = s
      BY <2>2, <3>2
    <3>4. stream.pos % Chunk = 0 /\ stream.pos \in Nat /\ stream.pos <= env.size
      BY <1>1, <2>3, <2>6 DEF ChunkInv
    <3>5. (stream.pos + Chunk) % Chunk = 0
      BY <1>1, <3>4, Multiples
    <3>6. QED
      BY <1>1, <3>2, <3>3, <3>5 DEF ChunkInv
  <2>7. QED
    BY <2>4, <2>5, <2>6
<1>4. QED
  BY <1>2, <1>3

LEMMA ChunkKept ==
  ASSUME SnifferInvariant, [Next]_vars
  PROVE  ChunkInv'
<1>0. TypeInv /\ StreamInv /\ ChunkInv /\ Chunk \in Nat \ {0}
  BY Basics DEF SnifferInvariant
<1>1. CASE Work
  BY <1>0, <1>1, WorkKeepsChunks
<1>2. CASE WorkDone
  <2>1. chunk' = 0 /\ UNCHANGED <<env, stream>>
    BY <1>2 DEF WorkDone
  <2>2. QED
    BY <1>0, <2>1 DEF ChunkInv, Good
<1>3. CASE ~Work /\ ~WorkDone
  <2>1. UNCHANGED <<env, stream, chunk>>
    BY <1>3 DEF Next, Main, LoadFails, LoadConfig, OpenFails, StartDies, Start, NoMib, MibAgain,
                FirstMib, SetUpDies, SetUp, SetUpDone, RemainderDone, ReleaseFlow, ReleaseDone,
                AcquireFlow, AcquireDone, SubmitChunk, Stop, Destroyed, CompleteChunk, BatchThrows,
                SharedListThrows, FlowFinishes, Dies, vars
  <2>2. QED
    BY <1>0, <2>1 DEF ChunkInv, Good
<1>4. QED
  BY <1>1, <1>2, <1>3

-----------------------------------------------------------------------------
(* The flows and their mappers.                                            *)

\* A step that leaves the flows alone.
LEMMA ChainUnchanged ==
  ASSUME ChainInv,
         UNCHANGED <<env, bandwidth_parts, channel_mappers, status, pending, serves, fatal>>,
         renewed => renewed',
         pc' = "acquire" => \E n \in 0 .. Len(bandwidth_parts) : todo' = n + 1 .. Len(bandwidth_parts),
         pc' = "acquire" /\ ~renewed' => \A f \in Flows : serves[f] \notin todo',
         pc' \in {"set up", "remainder", "release"} /\ ~renewed' => NobodyServes,
         pc' = "flow died" /\ ~renewed' => SomeEndsShort
  PROVE  ChainInv'
<1>1. /\ \A f \in Flows : serves'[f] <= Len(channel_mappers')
      /\ \A f \in Flows : status'[f] = "busy" \/ pending'[f] > 0 => serves'[f] > 0
      /\ \A f \in Flows : fatal'[f] <= pending'[f]
      /\ pc' = "acquire" => \E n \in 0 .. Len(bandwidth_parts') : todo' = n + 1 .. Len(bandwidth_parts')
  BY DEF ChainInv
<1>2. NobodyServes' <=> NobodyServes
  BY DEF NobodyServes
<1>3. SomeEndsShort' <=> SomeEndsShort
  BY DEF SomeEndsShort, EndsShort
<1>4. ~renewed' =>
        /\ bandwidth_parts' = <<>> \/ pc' \in {"set up", "remainder", "release"} => NobodyServes'
        /\ pc' = "acquire" => \A f \in Flows : serves'[f] \notin todo'
        /\ \A f, g \in Flows : serves'[f] = serves'[g] /\ serves'[f] > 0 => f = g
        /\ (\E f \in Flows : fatal'[f] > 0) \/ pc' = "flow died" => SomeEndsShort'
  BY <1>2, <1>3 DEF ChainInv
<1>5. QED
  BY <1>1, <1>4 DEF ChainInv

\* A new flow for the bandwidth part whose turn it is.
LEMMA ChainAcquired ==
  ASSUME SnifferInvariant, AcquireFlow
  PROVE  ChainInv'
<1>0. TypeInv /\ ChainInv /\ Len(channel_mappers) = Len(bandwidth_parts)
  BY DEF SnifferInvariant, SetUpInv
<1>1. /\ pc = "acquire" /\ todo # {} /\ todo' = todo \ {Current}
      /\ UNCHANGED <<env, pc, bandwidth_parts, channel_mappers, fatal, renewed>>
  BY DEF AcquireFlow, phy, past
<1>2. PICK f \in Flows : Service!Acquire(f) /\ serves' = [serves EXCEPT ![f] = Current]
  BY DEF AcquireFlow
<1>3. PICK m \in Nat : m = Len(bandwidth_parts)
  BY SequenceDomain DEF SnifferInvariant, SetUpInv
<1>4. PICK n \in Nat : /\ Current = n + 1 /\ n + 1 <= m
                      /\ todo = n + 1 .. m
                      /\ todo' = n + 2 .. m
                      /\ n + 1 \in 0 .. m
  BY <1>1, <1>3, AcquireTurn
<1>5. /\ serves \in [Flows -> Nat] /\ status \in [Flows -> {"free", "busy", "finishing"}]
      /\ pending' = pending
      /\ \A g \in Flows : serves'[g] = IF g = f THEN n + 1 ELSE serves[g]
      /\ \A g \in Flows \ {f} : status'[g] = status[g]
  BY <1>0, <1>2, <1>4 DEF TypeInv, Service!Acquire
<1>6. /\ \A g \in Flows : serves'[g] <= Len(channel_mappers')
      /\ \A g \in Flows : status'[g] = "busy" \/ pending'[g] > 0 => serves'[g] > 0
      /\ \A g \in Flows : fatal'[g] <= pending'[g]
  <2>1. \A g \in Flows : serves[g] <= m
    BY <1>0, <1>3 DEF ChainInv
  <2>2. \A g \in Flows : serves'[g] <= m
    BY <1>4, <1>5, <2>1
  <2>3. \A g \in Flows : status'[g] = "busy" \/ pending'[g] > 0 => serves'[g] > 0
    <3>1. \A g \in Flows : status[g] = "busy" \/ pending[g] > 0 => serves[g] > 0
      BY <1>0 DEF ChainInv
    <3>2. n + 1 > 0
      OBVIOUS
    <3>3. QED
      BY ONLY <1>5, <3>1, <3>2
  <2>4. QED
    BY <1>0, <1>1, <1>3, <1>5, <2>2, <2>3 DEF ChainInv
<1>7. \E k \in 0 .. Len(bandwidth_parts') : todo' = k + 1 .. Len(bandwidth_parts')
  <2>1. PICK k \in 0 .. m : k = n + 1
    BY <1>4
  <2>2. todo' = k + 1 .. m
    BY <1>4, <2>1
  <2>3. QED
    BY <1>1, <1>3, <2>2
<1>8. bandwidth_parts' # <<>>
  BY <1>1, <1>3, <1>4, EmptyIsSequence
<1>9. ASSUME ~renewed'
      PROVE  /\ \A g \in Flows : serves'[g] \notin todo'
             /\ \A g, h \in Flows : serves'[g] = serves'[h] /\ serves'[g] > 0 => g = h
             /\ (\E g \in Flows : fatal'[g] > 0) \/ pc' = "flow died" => SomeEndsShort'
  <2>1. /\ \A g \in Flows : serves[g] \notin todo
        /\ \A g, h \in Flows : serves[g] = serves[h] /\ serves[g] > 0 => g = h
        /\ (\E g \in Flows : fatal[g] > 0) => SomeEndsShort
    BY <1>0, <1>1, <1>9 DEF ChainInv
  <2>2. n + 1 \in todo /\ todo' \subseteq todo /\ n + 1 \notin todo'
    BY <1>4
  <2>3. SomeEndsShort' <=> SomeEndsShort
    BY <1>1 DEF SomeEndsShort, EndsShort
  <2>4. \A g \in Flows : serves'[g] \notin todo'
    BY <1>5, <2>1, <2>2
  <2>5. \A g \in Flows \ {f} : serves[g] # n + 1
    BY <2>1, <2>2
  <2>6. \A g, h \in Flows : serves'[g] = serves'[h] /\ serves'[g] > 0 => g = h
    BY <1>5, <2>1, <2>5
  <2>7. QED
    BY <1>1, <2>1, <2>3, <2>4, <2>6
<1>10. QED
  BY <1>1, <1>6, <1>7, <1>8, <1>9 DEF ChainInv

\* A chunk for a flow: one its mapper throws at is one that may end short.
LEMMA ChainSubmitted ==
  ASSUME SnifferInvariant, SubmitChunk
  PROVE  ChainInv'
<1>0. TypeInv /\ PoolInv /\ ChunkInv /\ ChainInv /\ QueueCap \in Nat \ {0}
  BY Basics DEF SnifferInvariant
<1>1. /\ pc \in {"relay", "submit", "remainder"}
      /\ UNCHANGED <<env, pc, bandwidth_parts, channel_mappers, serves, renewed>>
  BY DEF SubmitChunk, phy
<1>2. PICK f \in Flows : SubmittedTo(f)
  BY <1>0, SubmitTurn
<1>3. /\ pending \in [Flows -> 0 .. QueueCap] /\ fatal \in [Flows -> 0 .. QueueCap]
      /\ status \in [Flows -> {"free", "busy", "finishing"}] /\ serves \in [Flows -> Nat]
  BY <1>0 DEF TypeInv
<1>4. /\ status[f] = "busy" /\ serves[f] > 0
      /\ \A g \in Flows : status'[g] = "busy" => status[g] = "busy"
      /\ \A g \in Flows \ {f} : pending'[g] = pending[g] /\ fatal'[g] = fatal[g]
  BY <1>0, <1>2, <1>3 DEF SubmittedTo, Service!Submit, Service!Release, ChainInv
<1>5. /\ pending'[f] = pending[f] \/ pending'[f] = pending[f] + 1
      /\ \/ fatal'[f] = fatal[f]
         \/ /\ fatal'[f] = pending[f] + 1 /\ pending'[f] = pending[f] + 1
            /\ MayThrow(serves[f]) /\ chunk > 0
  BY <1>2, <1>3 DEF SubmittedTo, Service!Submit, Service!Release
<1>6. /\ \A g \in Flows : serves[g] <= Len(channel_mappers)
      /\ \A g \in Flows : status[g] = "busy" \/ pending[g] > 0 => serves[g] > 0
      /\ \A g \in Flows : fatal[g] <= pending[g]
      /\ QueueCap \in Nat
  BY <1>0 DEF ChainInv
<1>7. /\ \A g \in Flows : serves'[g] <= Len(channel_mappers')
      /\ \A g \in Flows : status'[g] = "busy" \/ pending'[g] > 0 => serves'[g] > 0
      /\ \A g \in Flows : fatal'[g] <= pending'[g]
  <2>1. \A g \in Flows : status'[g] = "busy" \/ pending'[g] > 0 => serves'[g] > 0
    <3>1. \A g \in Flows \ {f} : status'[g] = "busy" \/ pending'[g] > 0 => serves[g] > 0
      BY ONLY <1>4, <1>6
    <3>2. serves' = serves
      BY <1>1
    <3>3. QED
      BY ONLY <1>4, <3>1, <3>2
  <2>2. fatal'[f] <= pending'[f]
    <3>1. PICK a \in 0 .. QueueCap, b \in 0 .. QueueCap : a = fatal[f] /\ b = pending[f] /\ a <= b
      BY ONLY <1>3, <1>6, f \in Flows
    <3>2. QED
      BY ONLY <1>5, <1>6, <3>1
  <2>3. QED
    BY ONLY <1>1, <1>4, <1>6, <2>1, <2>2
<1>8. ASSUME ~renewed'
      PROVE  /\ bandwidth_parts' = <<>> \/ pc' \in {"set up", "remainder", "release"} => NobodyServes'
             /\ \A g, h \in Flows : serves'[g] = serves'[h] /\ serves'[g] > 0 => g = h
             /\ (\E g \in Flows : fatal'[g] > 0) => SomeEndsShort'
  <2>1. pc # "remainder"
    <3> SUFFICES ASSUME pc = "remainder" PROVE FALSE
      OBVIOUS
    <3>1. NobodyServes
      BY <1>0, <1>1, <1>8 DEF ChainInv
    <3>2. serves[f] = 0
      BY <3>1 DEF NobodyServes
    <3>3. QED
      BY <1>4, <3>2
  <2>2. SomeEndsShort' <=> SomeEndsShort
    BY <1>1 DEF SomeEndsShort, EndsShort
  <2>3. ASSUME MayThrow(serves[f]), chunk > 0
        PROVE  SomeEndsShort
    <3>1. serves[f] \in DOMAIN channel_mappers
      <4>1. PICK m \in Nat : m = Len(channel_mappers) /\ DOMAIN channel_mappers = 1 .. m
        BY SequenceDomain DEF SnifferInvariant, SetUpInv
      <4>2. serves[f] \in Nat /\ serves[f] <= m
        BY <1>0, <1>3, <4>1 DEF ChainInv
      <4>3. QED
        BY <1>4, <4>1, <4>2
    <3>2. EndsShort(serves[f])
      BY <1>0, <1>1, <2>1, <2>3 DEF MayThrow, CutShort, EndsShort, ChunkInv
    <3>3. QED
      BY <2>3, <3>1, <3>2 DEF MayThrow, SomeEndsShort
  <2>4. (\E g \in Flows : fatal'[g] > 0) => SomeEndsShort
    <3> SUFFICES ASSUME NEW g \in Flows, fatal'[g] > 0 PROVE SomeEndsShort
      OBVIOUS
    <3>1. CASE fatal[g] > 0
      BY <1>0, <1>1, <1>8, <3>1 DEF ChainInv
    <3>2. CASE ~(fatal[g] > 0)
      BY <1>4, <1>5, <2>3, <3>2
    <3>3. QED
      BY <3>1, <3>2
  <2>5. NobodyServes' <=> NobodyServes
    BY <1>1 DEF NobodyServes
  <2>6. QED
    BY <1>0, <1>1, <1>8, <2>2, <2>4, <2>5 DEF ChainInv
<1>9. QED
  BY <1>1, <1>7, <1>8 DEF ChainInv

LEMMA ChainKept ==
  ASSUME SnifferInvariant, [Next]_vars
  PROVE  ChainInv'
<1>0. /\ TypeInv /\ ChainInv /\ PoolInv /\ QueueCap \in Nat \ {0}
      /\ pending \in [Flows -> 0 .. QueueCap] /\ fatal \in [Flows -> 0 .. QueueCap]
      /\ status \in [Flows -> {"free", "busy", "finishing"}] /\ serves \in [Flows -> Nat]
  BY Basics DEF SnifferInvariant, TypeInv
<1>1. /\ \A g \in Flows : serves[g] <= Len(channel_mappers)
      /\ \A g \in Flows : status[g] = "busy" \/ pending[g] > 0 => serves[g] > 0
      /\ \A g \in Flows : fatal[g] <= pending[g]
      /\ QueueCap \in Nat
  BY <1>0 DEF ChainInv
<1>2. PICK m \in Nat : /\ m = Len(bandwidth_parts) /\ DOMAIN bandwidth_parts = 1 .. m
                      /\ m = Len(channel_mappers) /\ DOMAIN channel_mappers = 1 .. m
  BY SequenceDomain DEF SnifferInvariant, SetUpInv
<1>3. ASSUME todo' = DOMAIN bandwidth_parts
      PROVE  /\ \E n \in 0 .. Len(bandwidth_parts) : todo' = n + 1 .. Len(bandwidth_parts)
             /\ NobodyServes => \A f \in Flows : serves[f] \notin todo'
  <2>1. todo' = 0 + 1 .. m /\ 0 \in 0 .. m
    BY <1>2, <1>3
  <2>2. 0 \notin todo'
    BY <2>1
  <2>3. QED
    BY <1>2, <2>1, <2>2 DEF NobodyServes
<1>4. CASE \/ LoadFails \/ LoadConfig \/ OpenFails \/ StartDies \/ Start \/ Work \/ NoMib \/ SetUpDies
           \/ AcquireDone \/ WorkDone \/ Stop \/ Destroyed
  <2>1. UNCHANGED <<env, bandwidth_parts, channel_mappers, status, pending, serves, fatal, renewed>>
    BY <1>4 DEF LoadFails, LoadConfig, OpenFails, StartDies, Start, Work, NoMib, SetUpDies, AcquireDone,
                WorkDone, Stop, Destroyed, Dies, phy, pool, past
  <2>2. pc' \notin {"acquire", "set up", "remainder", "release", "flow died"}
    BY <1>4 DEF LoadFails, LoadConfig, OpenFails, StartDies, Start, Work, NoMib, SetUpDies, AcquireDone,
                WorkDone, Stop, Destroyed, Dies, Return
  <2>3. QED
    BY <1>0, <2>1, <2>2, ChainUnchanged
<1>5. CASE FirstMib
  <2>1. /\ pc' = "set up" /\ bandwidth_parts = <<>>
        /\ UNCHANGED <<env, bandwidth_parts, channel_mappers, status, pending, serves, fatal, renewed>>
    BY <1>5 DEF FirstMib, phy, pool, past
  <2>2. ~renewed' => NobodyServes
    BY <1>0, <2>1 DEF ChainInv
  <2>3. QED
    BY <1>0, <2>1, <2>2, ChainUnchanged
<1>6. CASE MibAgain \/ SetUpDone \/ RemainderDone \/ ReleaseDone
  <2>1. /\ UNCHANGED <<env, bandwidth_parts, channel_mappers, status, pending, serves, fatal>>
        /\ pc' \in {"remainder", "release", "acquire"}
        /\ pc' = "acquire" => todo' = DOMAIN bandwidth_parts
        /\ renewed' = TRUE \/ renewed' = renewed
    BY <1>6 DEF MibAgain, SetUpDone, RemainderDone, ReleaseDone, FineTimeSync, phy, pool, past
  <2>2. ~renewed' => NobodyServes
    <3>1. CASE MibAgain
      BY <3>1 DEF MibAgain
    <3>2. CASE ~MibAgain
      <4>1. pc \in {"set up", "remainder", "release"} /\ renewed' = renewed
        BY <1>6, <3>2 DEF SetUpDone, RemainderDone, ReleaseDone, past
      <4>2. QED
        BY <1>0, <4>1 DEF ChainInv
    <3>3. QED
      BY <3>1, <3>2
  <2>3. renewed => renewed'
    BY <2>1
  <2>4. QED
    BY <1>0, <1>3, <2>1, <2>2, <2>3, ChainUnchanged
<1>7. CASE SetUp
  <2>1. /\ pc = "set up" /\ pc' = "set up"
        /\ UNCHANGED <<status, pending, serves, fatal, renewed>>
    BY <1>7 DEF SetUp, pool, past
  <2>2. \A f \in Flows : serves'[f] <= Len(channel_mappers')
    <3>1. PICK e : channel_mappers' = Append(channel_mappers, e)
      BY <1>7 DEF SetUp
    <3>2. Len(channel_mappers') = m + 1
      BY <1>2, <3>1, AppendIsSequence DEF SnifferInvariant, SetUpInv
    <3>3. \A f \in Flows : serves[f] <= m /\ serves[f] \in Nat
      BY ONLY <1>0, <1>1, <1>2
    <3>4. serves' = serves
      BY <2>1
    <3>5. \A k \in Nat : k <= m => k <= m + 1
      OBVIOUS
    <3>6. QED
      BY ONLY <3>2, <3>3, <3>4, <3>5
  <2>3. /\ \A f \in Flows : status'[f] = "busy" \/ pending'[f] > 0 => serves'[f] > 0
        /\ \A f \in Flows : fatal'[f] <= pending'[f]
    BY <1>0, <2>1 DEF ChainInv
  <2>4. ASSUME ~renewed'
        PROVE  \A f \in Flows : serves'[f] = 0 /\ ~(fatal'[f] > 0)
    <3>1. \A f \in Flows : serves[f] = 0
      BY <1>0, <2>1, <2>4 DEF ChainInv, NobodyServes
    <3>2. \A f \in Flows : ~(pending[f] > 0)
      BY ONLY <1>1, <3>1
    <3>3. \A f \in Flows : ~(fatal[f] > 0)
      <4> SUFFICES ASSUME NEW f \in Flows PROVE ~(fatal[f] > 0)
        OBVIOUS
      <4>1. PICK a \in 0 .. QueueCap, b \in 0 .. QueueCap : a = fatal[f] /\ b = pending[f] /\ a <= b
        BY ONLY <1>0, <1>1, f \in Flows
      <4>2. ~(b > 0)
        BY <3>2, <4>1
      <4>3. QED
        BY ONLY <1>1, <4>1, <4>2
    <3>4. QED
      BY <2>1, <3>1, <3>3
  <2>5. pc' # "acquire" /\ pc' # "flow died" /\ ~(0 > 0)
    <3>1. pc' = "set up"
      BY <2>1
    <3>2. ~(0 > 0)
      OBVIOUS
    <3>3. QED
      BY ONLY <3>1, <3>2
  <2>6. ~renewed' => /\ NobodyServes'
                     /\ \A f, g \in Flows : serves'[f] = serves'[g] /\ serves'[f] > 0 => f = g
                     /\ ~\E f \in Flows : fatal'[f] > 0
    BY ONLY <2>4, <2>5 DEF NobodyServes
  <2>7. QED
    BY ONLY <2>2, <2>3, <2>5, <2>6 DEF ChainInv
<1>8. CASE ReleaseFlow
  <2>1. /\ pc \in {"release", "destroy"} /\ UNCHANGED <<env, pc, bandwidth_parts, channel_mappers, serves, fatal, renewed>>
    BY <1>8 DEF ReleaseFlow, phy, past
  <2>2. PICK f \in todo : Service!Release(f)
    BY <1>8 DEF ReleaseFlow
  <2>3. pending' = pending /\ \A g \in Flows : status'[g] = "busy" => status[g] = "busy"
    BY <1>0, <2>2 DEF Service!Release
  <2>4. NobodyServes' = NobodyServes /\ SomeEndsShort' = SomeEndsShort
    BY <2>1 DEF NobodyServes, SomeEndsShort, EndsShort
  <2>5. /\ \A g \in Flows : serves'[g] <= Len(channel_mappers')
        /\ \A g \in Flows : status'[g] = "busy" \/ pending'[g] > 0 => serves'[g] > 0
        /\ \A g \in Flows : fatal'[g] <= pending'[g]
    BY ONLY <1>1, <2>1, <2>3, Zenon
  <2>6. ASSUME ~renewed'
        PROVE  /\ bandwidth_parts' = <<>> \/ pc' \in {"set up", "remainder", "release"} => NobodyServes'
               /\ \A g, h \in Flows : serves'[g] = serves'[h] /\ serves'[g] > 0 => g = h
               /\ (\E g \in Flows : fatal'[g] > 0) => SomeEndsShort'
    BY <1>0, <2>1, <2>4, <2>6 DEF ChainInv
  <2>7. pc' # "acquire" /\ pc' # "flow died"
    BY <2>1
  <2>8. QED
    BY ONLY <2>5, <2>6, <2>7 DEF ChainInv
<1>9. CASE AcquireFlow
  BY <1>9, ChainAcquired
<1>10. CASE SubmitChunk
  BY <1>10, ChainSubmitted
<1>11. CASE CompleteChunk
  <2>1. /\ UNCHANGED <<env, pc, todo, bandwidth_parts, channel_mappers, serves, renewed>>
    BY <1>11 DEF CompleteChunk, phy, past
  <2>2. PICK f \in Flows : /\ fatal[f] # 1 /\ Service!Complete(f)
                          /\ fatal' = [fatal EXCEPT ![f] = IF fatal[f] = 0 THEN 0 ELSE fatal[f] - 1]
    BY <1>11 DEF CompleteChunk
  <2>3. /\ status' = status /\ pending[f] > 0
        /\ \A g \in Flows : pending'[g] = IF g = f THEN pending[f] - 1 ELSE pending[g]
        /\ \A g \in Flows : fatal'[g] = IF g = f THEN (IF fatal[f] = 0 THEN 0 ELSE fatal[f] - 1) ELSE fatal[g]
    BY <1>0, <2>2 DEF Service!Complete
  <2>4. \A g \in Flows : /\ pending'[g] > 0 => pending[g] > 0
                         /\ fatal'[g] > 0 => fatal[g] > 0
    BY <1>0, <2>3
  <2>5. \A g \in Flows : fatal'[g] <= pending'[g]
    <3>1. PICK a \in 0 .. QueueCap, b \in 0 .. QueueCap : a = fatal[f] /\ b = pending[f] /\ a <= b
      BY ONLY <1>0, <1>1, f \in Flows
    <3>2. (IF a = 0 THEN 0 ELSE a - 1) <= b - 1
      BY ONLY <1>1, <2>2, <2>3, <3>1
    <3>3. QED
      BY ONLY <1>1, <2>3, <3>1, <3>2
  <2>6. QED
    BY <1>0, <2>1, <2>3, <2>4, <2>5 DEF ChainInv, NobodyServes, SomeEndsShort, EndsShort
<1>12. CASE FlowFinishes
  <2>1. /\ UNCHANGED <<env, pc, todo, bandwidth_parts, channel_mappers, fatal, renewed>>
    BY <1>12 DEF FlowFinishes, phy, past
  <2>2. PICK f \in Flows : Service!BecomeFree(f) /\ serves' = [serves EXCEPT ![f] = 0]
    BY <1>12 DEF FlowFinishes
  <2>3. /\ pending' = pending /\ pending[f] = 0 /\ status'[f] # "busy"
        /\ \A g \in Flows \ {f} : status'[g] = status[g]
        /\ \A g \in Flows : serves'[g] = IF g = f THEN 0 ELSE serves[g]
    BY <1>0, <2>2 DEF Service!BecomeFree
  <2>4. /\ \A g \in Flows : serves'[g] <= Len(channel_mappers')
        /\ \A g \in Flows : status'[g] = "busy" \/ pending'[g] > 0 => serves'[g] > 0
        /\ \A g \in Flows : fatal'[g] <= pending'[g]
    <3>1. \A g \in Flows : serves[g] <= m
      BY <1>0, <1>2 DEF ChainInv
    <3>2. \A g \in Flows : serves'[g] <= m
      BY <1>0, <2>3, <3>1
    <3>3. QED
      BY <1>0, <1>2, <2>1, <2>3, <3>2 DEF ChainInv
  <2>5. pc' = "acquire" /\ ~renewed' => \A g \in Flows : serves'[g] \notin todo'
    <3> SUFFICES ASSUME pc = "acquire", ~renewed
                 PROVE  \A g \in Flows : serves'[g] \notin todo
      BY <2>1
    <3>1. PICK n \in 0 .. m : todo = n + 1 .. m
      BY <1>0, <1>2 DEF ChainInv
    <3>2. 0 \notin todo
      BY <3>1
    <3>3. QED
      BY <1>0, <2>3, <3>2 DEF ChainInv
  <2>6. ~renewed' => /\ NobodyServes => NobodyServes'
                     /\ \A g, h \in Flows : serves'[g] = serves'[h] /\ serves'[g] > 0 => g = h
    <3> SUFFICES ASSUME ~renewed
                 PROVE  /\ NobodyServes => NobodyServes'
                        /\ \A g, h \in Flows : serves'[g] = serves'[h] /\ serves'[g] > 0 => g = h
      BY <2>1
    <3>1. \A g, h \in Flows : serves[g] = serves[h] /\ serves[g] > 0 => g = h
      BY <1>0 DEF ChainInv
    <3>2. ~(0 > 0)
      OBVIOUS
    <3>3. \A g, h \in Flows : serves'[g] = serves'[h] /\ serves'[g] > 0 => g = h
      BY ONLY <2>3, <3>1, <3>2
    <3>4. QED
      BY <2>3, <3>3 DEF NobodyServes
  <2>7. SomeEndsShort' <=> SomeEndsShort
    BY <2>1 DEF SomeEndsShort, EndsShort
  <2>8. QED
    BY <1>0, <2>1, <2>4, <2>5, <2>6, <2>7 DEF ChainInv
<1>13. CASE BatchThrows \/ SharedListThrows
  <2>1. /\ pc' = "flow died"
        /\ UNCHANGED <<env, bandwidth_parts, channel_mappers, status, pending, serves, fatal, renewed>>
    BY <1>13 DEF BatchThrows, SharedListThrows, Dies, phy, pool, past
  <2>2. ~renewed' => SomeEndsShort
    <3> SUFFICES ASSUME ~renewed PROVE SomeEndsShort
      BY <2>1
    <3>1. CASE BatchThrows
      <4>1. PICK f \in Flows : fatal[f] = 1
        BY <3>1 DEF BatchThrows
      <4>2. fatal[f] > 0
        BY ONLY <4>1
      <4>3. QED
        BY <1>0, <4>2 DEF ChainInv
    <3>2. CASE SharedListThrows
      <4>1. PICK f \in Flows, g \in Flows : f # g /\ serves[f] = serves[g] /\ pending[f] > 0
        BY <3>2 DEF SharedListThrows
      <4>2. serves[f] > 0
        BY <1>0, <4>1 DEF ChainInv
      <4>3. f = g
        BY <1>0, <2>1, <4>1, <4>2 DEF ChainInv
      <4>4. QED
        BY <4>1, <4>3
    <3>3. QED
      BY <1>13, <3>1, <3>2
  <2>3. QED
    BY <1>0, <2>1, <2>2, ChainUnchanged
<1>14. CASE UNCHANGED vars
  <2>1. UNCHANGED <<env, pc, todo, bandwidth_parts, channel_mappers, status, pending, serves, fatal, renewed>>
    BY <1>14 DEF vars, phy, pool, past
  <2>2. QED
    BY <1>0, <2>1 DEF ChainInv, NobodyServes, SomeEndsShort, EndsShort
<1>15. QED
  <2>1. CASE Next
    BY <2>1, <1>4, <1>5, <1>6, <1>7, <1>8, <1>9, <1>10, <1>11, <1>12, <1>13 DEF Next, Main
  <2>2. QED
    BY <1>14, <2>1

\* ~flow_pool has waited for every flow, if none was counted twice.
LEMMA WaitedForAll ==
  ASSUME SnifferInvariant, AllReturned, ~emptied
  PROVE  \A f \in Flows : pending[f] = 0 /\ status[f] = "free"
<1>1. PICK free : free = {f \in Flows : status[f] = "free"}
  OBVIOUS
<1>2. stopped = {} /\ \A f \in Flows : status[f] = "free" => pending[f] = 0
  BY DEF SnifferInvariant, PoolInv
<1>3. Cardinality(free) + 0 >= Cardinality(Flows)
  <2>1. free \cap stopped = {}
    BY <1>2
  <2>2. Cardinality(free \cap stopped) = 0
    BY <2>1, FS_EmptySet
  <2>3. Cardinality(free) + Cardinality(free \cap stopped) >= Cardinality(Flows)
    BY <1>1 DEF AllReturned
  <2>4. QED
    BY ONLY <2>2, <2>3
<1>4. IsFiniteSet(Flows) /\ free \subseteq Flows
  BY <1>1, InputAssumption
<1>5. /\ IsFiniteSet(free) /\ Cardinality(free) <= Cardinality(Flows)
      /\ Cardinality(Flows) = Cardinality(free) => Flows = free
  BY <1>4, FS_Subset
<1>6. Cardinality(free) \in Nat /\ Cardinality(Flows) \in Nat
  BY <1>4, <1>5, FS_CardinalityType
<1>7. Flows = free
  BY <1>3, <1>5, <1>6
<1>8. QED
  BY <1>1, <1>2, <1>7

LEMMA ResultKept ==
  ASSUME SnifferInvariant, [Next]_vars, result' = 0
  PROVE  pc' = "returned" /\ NothingLeftBehind'
<1>1. CASE result = 0
  <2>1. pc = "returned" /\ NothingLeftBehind
    BY <1>1 DEF SnifferInvariant
  <2>2. UNCHANGED vars
    BY <2>1 DEF Next, Main, LoadFails, LoadConfig, OpenFails, StartDies, Start, Work, NoMib, MibAgain,
                FirstMib, SetUpDies, SetUp, SetUpDone, RemainderDone, ReleaseFlow, ReleaseDone,
                AcquireFlow, AcquireDone, SubmitChunk, WorkDone, Stop, Destroyed, CompleteChunk,
                BatchThrows, SharedListThrows, FlowFinishes, Ended
  <2>3. QED
    BY <2>1, <2>2 DEF vars, pool, past, NothingLeftBehind
<1>2. CASE result # 0
  <2>1. Destroyed
    <3>1. result' # result
      BY <1>2
    <3>2. ~(UNCHANGED vars)
      BY <3>1 DEF vars
    <3>3. ~(\/ LoadConfig \/ StartDies \/ BatchThrows \/ SharedListThrows \/ Start \/ Work \/ NoMib \/ MibAgain \/ FirstMib \/ SetUpDies \/ SetUp
            \/ SetUpDone \/ RemainderDone \/ ReleaseFlow \/ ReleaseDone \/ AcquireFlow \/ AcquireDone
            \/ SubmitChunk \/ WorkDone \/ Stop \/ CompleteChunk \/ FlowFinishes)
      BY <3>1 DEF LoadConfig, StartDies, BatchThrows, SharedListThrows, Start, Work, NoMib, MibAgain, FirstMib, SetUpDies, SetUp, SetUpDone,
                  RemainderDone, ReleaseFlow, ReleaseDone, AcquireFlow, AcquireDone, SubmitChunk,
                  WorkDone, Stop, CompleteChunk, FlowFinishes, Dies
    <3>4. ~LoadFails /\ ~OpenFails
      BY DEF LoadFails, OpenFails, Return
    <3>5. QED
      BY <3>2, <3>3, <3>4 DEF Next, Main
  <2>2. pc = "destroy" /\ pc' = "returned" /\ AllReturned
        /\ UNCHANGED <<env, status, pending, passed, emptied>>
    BY <2>1 DEF Destroyed, Return, pool, past
  <2>3. passed = env.size
    BY <2>2 DEF SnifferInvariant, StreamInv
  <2>4. ~emptied => \A f \in Flows : pending[f] = 0 /\ status[f] = "free"
    BY <2>2, WaitedForAll
  <2>5. QED
    BY <2>2, <2>3, <2>4 DEF NothingLeftBehind
<1>3. QED
  BY <1>1, <1>2

\* The invariant holds in every state (main.cc, sniffer.cc, file_source.cc, syncer.cc).
THEOREM ProgramInductive == Spec => []SnifferInvariant
<1>1. Init => SnifferInvariant
  BY InitInvariant
<1>2. SnifferInvariant /\ [Next]_vars => SnifferInvariant'
  <2> SUFFICES ASSUME SnifferInvariant, [Next]_vars
               PROVE  SnifferInvariant'
    OBVIOUS
  <2>1. TypeInv' /\ SetUpInv' /\ StreamInv' /\ PoolInv' /\ ChunkInv' /\ ChainInv'
    BY TypeKept, SetUpKept, StreamKept, PoolKept, ChunkKept, ChainKept
  <2>2. result' = 0 => pc' = "returned" /\ NothingLeftBehind'
    BY ResultKept
  <2>3. QED
    BY <2>1, <2>2 DEF SnifferInvariant
<1>3. QED
  BY <1>1, <1>2, PTL DEF Spec

\* Every variable of the program, its source and its flows keeps to its range (main.cc,
\* file_source.cc, flow_pool.cc).
THEOREM TypeCorrect == Spec => []TypeOK
<1>1. SnifferInvariant => TypeOK
  <2> SUFFICES ASSUME SnifferInvariant PROVE TypeOK
    OBVIOUS
  <2>1. TypeInv /\ Len(bandwidth_parts) <= Len(configs)
    BY DEF SnifferInvariant, SetUpInv
  <2>2. stream.pos \in 0 .. env.size
    BY <2>1 DEF TypeInv, Streams
  <2>3. serves \in [Flows -> 0 .. Len(channel_mappers)]
    <3>1. PICK m \in Nat : m = Len(channel_mappers)
      BY SequenceDomain DEF SnifferInvariant, SetUpInv
    <3>2. serves \in [Flows -> Nat] /\ \A f \in Flows : serves[f] <= m
      BY <2>1, <3>1 DEF SnifferInvariant, TypeInv, ChainInv
    <3>3. \A f \in Flows : serves[f] \in 0 .. m
      BY <3>2
    <3>4. QED
      BY <3>1, <3>2, <3>3
  <2>4. QED
    BY <2>1, <2>2, <2>3 DEF TypeInv, TypeOK, Places, Ended
<1>2. QED
  BY <1>1, ProgramInductive, PTL

\* Main returns 0 only when the whole file has been passed on and the flows have no work
\* left (sniffer.cc, flow_pool.cc's destructor).
THEOREM LeavesNothingBehind == Spec => []NothingLeftBehind
<1>1. SnifferInvariant => NothingLeftBehind
  BY DEF SnifferInvariant, NothingLeftBehind
<1>2. QED
  BY <1>1, ProgramInductive, PTL

\* A configuration of the environment, and its CORESET among those that can be searched.
LEMMA ConfigAt ==
  ASSUME SnifferInvariant, configs = load(env.tables), NEW i \in DOMAIN configs
  PROVE  /\ env \in Environments
         /\ IsTable(env.tables[i]) /\ configs[i] = LoadPdcch(env.tables[i])
         /\ Searchable(Found(env, configs[i])) => ~Throws(CoresetOf(env, Found(env, configs[i])))
         /\ ~OutOfRange(env, configs[i]) /\ ~Throws(CoresetOf(env, Found(env, configs[i])))
              => Searchable(Found(env, configs[i]))
<1>1. env \in Environments /\ configs = load(env.tables)
  BY DEF SnifferInvariant, TypeInv
<1>2. IsTable(env.tables[i]) /\ configs[i] = LoadPdcch(env.tables[i])
  BY <1>1, Loaded
<1>3. configs[i] \in Range(load(env.tables))
  BY <1>1 DEF Range
<1>4. ASSUME Searchable(Found(env, configs[i]))
      PROVE  ~Throws(CoresetOf(env, Found(env, configs[i])))
  BY <1>4 DEF Searchable, SearchableCoresets
<1>5. ASSUME ~OutOfRange(env, configs[i]), ~Throws(CoresetOf(env, Found(env, configs[i])))
      PROVE  Searchable(Found(env, configs[i]))
  BY <1>1, <1>3, <1>5 DEF Searchable, SearchableCoresets
<1>6. QED
  BY <1>1, <1>2, <1>4, <1>5

LEMMA FiveCounts == Len(<<8, 4, 2, 1, 0>>) = 5
OBVIOUS

\* A configuration that leaves its CORESET to the MIB makes the program die only for the
\* reasons named (on_mib_found in syncer.cc).
THEOREM DiesForAReason == Spec => []SetUpDiesOnlyOfBadMib
<1>1. SnifferInvariant => SetUpDiesOnlyOfBadMib
  <2> SUFFICES ASSUME SnifferInvariant, pc = "set-up died", configs[Current].use_config_from_mib
               PROVE  SetUpDiesOnlyOfBadMib
    BY DEF SetUpDiesOnlyOfBadMib
  <2>1. todo # {} /\ ~Usable /\ configs = load(env.tables)
    BY DEF SnifferInvariant, SetUpInv
  <2>2. Current \in DOMAIN configs
    BY <2>1, SetUpTurn
  <2>3. PICK cfg, found, table : cfg = configs[Current] /\ found = Found(env, cfg) /\ table = env.tables[Current]
    OBVIOUS
  <2>4. /\ env \in Environments /\ IsTable(table) /\ cfg = LoadPdcch(table)
        /\ ~OutOfRange(env, cfg) /\ ~Throws(CoresetOf(env, found)) => Searchable(found)
    BY <2>1, <2>2, <2>3, ConfigAt
  <2>5. OutOfRange(env, cfg) \/ ~BandwidthPartAsserts(found, env.sample_rate) \/ ~Searchable(found)
    BY <2>1, <2>3 DEF Usable, CurrentConfig
  <2>6. cfg.use_config_from_mib
    BY <2>3
  <2>7. SUFFICES ASSUME HasTable(env.ssb_numerology, env.mib.scs_common),
                        ~Reserved(env.ssb_numerology, env.mib),
                        BandwidthPartAsserts(found, env.sample_rate),
                        cfg.candidates = <<8, 4, 2, 1, 0>>,
                        cfg.si_dci_only \/ Filled(CoresetOf(env, found))
                 PROVE  FALSE
    BY <2>3 DEF SetUpDiesOnlyOfBadMib
  <2>8. ~Throws(CoresetOf(env, found))
    BY <2>3, <2>4, <2>6, <2>7, MibCoresetIsMade
  <2>9. EnoughCandidates(cfg)
    <3>1. Len(cfg.candidates) = 5
      BY ONLY <2>7, FiveCounts
    <3>2. QED
      BY ONLY <3>1 DEF EnoughCandidates
  <2>10. QED
    BY <2>4, <2>5, <2>7, <2>8, <2>9 DEF OutOfRange
<1>2. QED
  BY <1>1, ProgramInductive, PTL

\* Until a later block renews the flows, a thread throws only over a batch that is shorter
\* than the CORESET it is searched for (on_mib_found in syncer.cc, channel_mapper.cc,
\* flow.cc).
THEOREM FlowsThrowOnlyAtCut == Spec => []ThrowsOnlyAtCut
<1>1. SnifferInvariant => ThrowsOnlyAtCut
  BY DEF SnifferInvariant, ChainInv, SomeEndsShort, ThrowsOnlyAtCut
<1>2. QED
  BY <1>1, ProgramInductive, PTL

\* Without a table there are no resource blocks, and a candidate has no place.
LEMMA NoBlocksThrow ==
  ASSUME NEW k, k.rbs = 0, k.duration \in {1, 2, 3},
         NEW level \in Levels, k.candidates[level] \in 0 .. 255, k.candidates[level] > 0
  PROVE  Throws(k)
<1>1. N_CORESET_REG(k) = 0
  BY DEF N_CORESET_REG
<1>2. num_CCE(k) = 0
  BY <1>1 DEF num_CCE, CCE_REG
<1>3. PICK AL \in {1, 2, 4, 8, 16} : AL = 2 ^ level
  BY CceCount
<1>4. ~Fits(k, level)
  BY <1>2, <1>3 DEF Fits
<1>5. <<level, 0>> \in Candidates(k)
  BY DEF Candidates
<1>6. QED
  BY <1>4, <1>5 DEF Throws

\* What the MIB and the search for system information ask for is what the mapper got
\* (on_mib_found in syncer.cc, channel_mapper.cc).
THEOREM MibIsServed ==
  ASSUME AsksForCandidates
  PROVE  Spec => []MibCoresetServes
<1>1. SnifferInvariant => MibCoresetServes
  <2> SUFFICES ASSUME SnifferInvariant,
                      NEW i \in DOMAIN channel_mappers,
                      configs[i].use_config_from_mib, configs[i].si_dci_only
               PROVE  LET mapper == channel_mappers[i]
                          k == mapper.coreset
                          row == CoresetTable(env.ssb_numerology, env.mib.scs_common)[env.mib.coreset0_idx + 1]
                      IN /\ <<k.rbs, k.duration>> = row
                         /\ k.mapping = "interleaved" /\ k.shift = env.cell_id
                         /\ Mapped(k) * k.bundle = N_CORESET_REG(k)
                         /\ mapper.scrambling_ids = <<env.cell_id, env.cell_id>>
                         /\ bandwidth_parts[i].num_prbs = k.rbs
                         /\ bandwidth_parts[1].numerology = bandwidth_parts[i].numerology
                              => mapper.num_slots_per_frame = bandwidth_parts[i].slots_per_frame
    BY DEF MibCoresetServes
  <2>1. SetUpInv /\ env \in Environments
    BY DEF SnifferInvariant, TypeInv
  <2>2. MadeOf(i)
    BY <2>1 DEF SetUpInv
  <2>3. PICK n \in Nat : n = Len(bandwidth_parts) /\ DOMAIN bandwidth_parts = 1 .. n /\ DOMAIN channel_mappers = 1 .. n
    BY <2>1, SequenceDomain DEF SetUpInv
  <2>4. i \in DOMAIN configs /\ configs = load(env.tables)
    <3>1. channel_mappers # <<>>
      BY EmptyIsSequence
    <3>2. configs = load(env.tables)
      BY <2>1, <3>1 DEF SetUpInv
    <3>3. PICK m \in Nat : m = Len(configs) /\ DOMAIN configs = 1 .. m
      BY <2>1, <3>2, Loaded
    <3>4. n <= m
      BY <2>1, <2>3, <3>3 DEF SetUpInv
    <3>5. i \in 1 .. m
      BY <2>3, <3>4
    <3>6. QED
      BY <3>2, <3>3, <3>5
  <2>5. PICK cfg, found, table : cfg = configs[i] /\ found = Found(env, cfg) /\ table = env.tables[i]
    OBVIOUS
  <2>6. /\ IsTable(table) /\ cfg = LoadPdcch(table)
        /\ Searchable(found) => ~Throws(CoresetOf(env, found))
    BY <2>4, <2>5, ConfigAt
  <2>7. /\ ~Reserved(env.ssb_numerology, env.mib) /\ Len(cfg.candidates) >= 5
        /\ ~Throws(CoresetOf(env, found))
    BY <2>2, <2>5, <2>6 DEF MadeOf, OutOfRange, EnoughCandidates
  <2>8. PICK k : k = CoresetOf(env, found)
    OBVIOUS
  <2>9. /\ channel_mappers[i].coreset = k
        /\ channel_mappers[i].scrambling_ids = found.scrambling_ids
        /\ channel_mappers[i].num_slots_per_frame = Byte(bandwidth_parts[1].slots_per_frame)
        /\ bandwidth_parts[i].num_prbs = found.num_prbs
        /\ bandwidth_parts[i].numerology = found.numerology
        /\ bandwidth_parts[i].slots_per_frame = 10 * 2 ^ found.numerology
    BY <2>2, <2>5, <2>8 DEF MadeOf, MapperOf, CoresetOf, BandwidthPartOf
  <2>10. /\ WellFormed(k) /\ k.rbs = found.num_prbs /\ k.duration = ValidOr(found.duration, {1, 2, 3}, 1)
         /\ k.candidates = ByLevel(cfg.candidates)
         /\ k.mapping = "interleaved" /\ k.shift = env.cell_id /\ k.interleaver = 2 /\ k.bundle = 6
    <3>1. /\ env \in Environments /\ IsTable(table) /\ cfg = LoadPdcch(table) /\ found = Found(env, cfg)
          /\ cfg.use_config_from_mib => ~Reserved(env.ssb_numerology, env.mib)
          /\ cfg.si_dci_only
      BY <2>1, <2>5, <2>6, <2>7
    <3>2. QED
      BY ONLY <2>8, <3>1, CoresetOfFound
  <2>11. /\ found.num_prbs = get_pdcch_coreset0(env.ssb_numerology, env.mib)[1]
         /\ found.duration = get_pdcch_coreset0(env.ssb_numerology, env.mib)[2]
         /\ found.numerology = env.mib.scs_common
         /\ found.scrambling_ids = <<env.cell_id, env.cell_id>>
    BY <2>1, <2>5, <2>6, FoundFields
  <2>12. HasTable(env.ssb_numerology, env.mib.scs_common)
    <3> SUFFICES ASSUME ~HasTable(env.ssb_numerology, env.mib.scs_common)
                 PROVE  FALSE
      OBVIOUS
    <3>1. k.rbs = 0
      BY <2>10, <2>11 DEF get_pdcch_coreset0
    <3>2. PICK level \in Levels : cfg.candidates[level + 1] > 0
      BY <2>1, <2>4, <2>5, <2>6 DEF AsksForCandidates, load
    <3>3. k.candidates[level] = cfg.candidates[level + 1]
      BY <2>10 DEF ByLevel
    <3>4. cfg.candidates[level + 1] \in 0 .. 255
      <4>1. cfg.candidates \in Seq(0 .. 255)
        BY <2>6, TableValues
      <4>2. PICK m \in Nat : m = Len(cfg.candidates) /\ m >= 5
        BY <2>7, <4>1, LenProperties
      <4>3. level + 1 \in 1 .. m
        BY <4>2 DEF Levels
      <4>4. QED
        BY <4>1, <4>2, <4>3, ElementOfSeq
    <3>5. k.duration \in {1, 2, 3}
      BY <2>10 DEF WellFormed
    <3>6. QED
      BY <2>7, <2>8, <3>1, <3>2, <3>3, <3>4, <3>5, NoBlocksThrow
  <2>13. PICK row \in Rows : /\ row = get_pdcch_coreset0(env.ssb_numerology, env.mib)
                            /\ row = CoresetTable(env.ssb_numerology, env.mib.scs_common)[env.mib.coreset0_idx + 1]
    BY <2>1, <2>7, <2>12, RowsOfTables
  <2>14. <<k.rbs, k.duration>> = row
    BY <2>10, <2>11, <2>13 DEF Rows, ValidOr
  <2>15. Mapped(k) * k.bundle = N_CORESET_REG(k)
    BY <2>10, <2>14 DEF Rows, Mapped, Columns, N_CORESET_REG
  <2>16. bandwidth_parts[1].numerology = bandwidth_parts[i].numerology
           => channel_mappers[i].num_slots_per_frame = bandwidth_parts[i].slots_per_frame
    <3> SUFFICES ASSUME bandwidth_parts[1].numerology = bandwidth_parts[i].numerology
                 PROVE  channel_mappers[i].num_slots_per_frame = bandwidth_parts[i].slots_per_frame
      OBVIOUS
    <3>0. 1 \in DOMAIN channel_mappers
      <4>1. i \in 1 .. n
        BY <2>3
      <4>2. QED
        BY <2>3, <4>1
    <3>1. MadeOf(1)
      BY <2>1, <3>0 DEF SetUpInv
    <3>2. bandwidth_parts[1].slots_per_frame = 10 * 2 ^ bandwidth_parts[1].numerology
      BY <3>1 DEF MadeOf, BandwidthPartOf
    <3>3. PICK m \in {0, 1} : m = found.numerology
      BY <2>11, <2>12 DEF HasTable
    <3>4. 10 * 2 ^ m \in {10, 20}
      <4>1. CASE m = 0
        BY <4>1
      <4>2. CASE m = 1
        BY <4>2
      <4>3. QED
        BY <4>1, <4>2
    <3>5. \A x \in {10, 20} : Byte(x) = x
      BY DEF Byte
    <3>6. QED
      BY <2>9, <3>2, <3>3, <3>4, <3>5
  <2>17. QED
    BY <2>9, <2>10, <2>11, <2>13, <2>14, <2>15, <2>16
<1>2. QED
  BY <1>1, ProgramInductive, PTL
=============================================================================
