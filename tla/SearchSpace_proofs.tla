------------------------- MODULE SearchSpace_proofs -------------------------
(***************************************************************************)
(* What correlate_DMRS looks up is what initialize_dmrs_seq made, for every *)
(* configuration: the tables hold patterns of candidates only, and what     *)
(* stops the search is a CORESET whose candidates have no place.            *)
(***************************************************************************)
EXTENDS SearchSpaceInv, Candidate_proofs, SequenceTheorems

-----------------------------------------------------------------------------
(* The CORESET and the order of its candidates.                            *)

LEMMA CoresetOfConfig ==
  ASSUME TypeInv
  PROVE  WellFormed(c) /\ c.candidates \in [Levels -> 0 .. 255]
<1>1. PICK cfg \in Configs : c = coreset(cfg)
  BY DEF TypeInv
<1>2. cfg \in ConfigRecords(STRING, [Levels -> 0 .. 255])
  BY ConfigAssumption DEF ConfigRecords
<1>3. WellFormed(coreset(cfg)) /\ coreset(cfg).candidates = cfg.candidates
  BY <1>2, SettersMakeWellFormed
<1>4. cfg.candidates \in [Levels -> 0 .. 255]
  BY <1>2 DEF ConfigRecords
<1>5. QED
  BY <1>1, <1>3, <1>4

LEMMA ConcatOfFive ==
  ASSUME NEW S, NEW s1 \in Seq(S), NEW s2 \in Seq(S), NEW s3 \in Seq(S), NEW s4 \in Seq(S),
         NEW s5 \in Seq(S)
  PROVE  /\ s1 \o s2 \o s3 \o s4 \o s5 \in Seq(S)
         /\ Range(s1 \o s2 \o s3 \o s4 \o s5)
              = Range(s1) \cup Range(s2) \cup Range(s3) \cup Range(s4) \cup Range(s5)
<1>1. s1 \o s2 \in Seq(S) /\ Range(s1 \o s2) = Range(s1) \cup Range(s2)
  BY ConcatProperties, RangeConcatenation
<1>2. PICK t2 \in Seq(S) : t2 = s1 \o s2
  BY <1>1
<1>3. t2 \o s3 \in Seq(S) /\ Range(t2 \o s3) = Range(t2) \cup Range(s3)
  BY ConcatProperties, RangeConcatenation
<1>4. PICK t3 \in Seq(S) : t3 = t2 \o s3
  BY <1>3
<1>5. t3 \o s4 \in Seq(S) /\ Range(t3 \o s4) = Range(t3) \cup Range(s4)
  BY ConcatProperties, RangeConcatenation
<1>6. PICK t4 \in Seq(S) : t4 = t3 \o s4
  BY <1>5
<1>7. t4 \o s5 \in Seq(S) /\ Range(t4 \o s5) = Range(t4) \cup Range(s5)
  BY ConcatProperties, RangeConcatenation
<1>8. QED
  BY <1>1, <1>2, <1>3, <1>4, <1>5, <1>6, <1>7

\* The loops visit the candidates and nothing else.
LEMMA LoopOverCandidates ==
  ASSUME c.candidates \in [Levels -> 0 .. 255]
  PROVE  /\ CandidateLoop \in Seq(Candidates(c))
         /\ Range(CandidateLoop) = Candidates(c)
<1> DEFINE of(l) == [i \in 1 .. c.candidates[l] |-> <<l, i - 1>>]
<1>1. ASSUME NEW l \in Levels
      PROVE  /\ of(l) \in Seq(Candidates(c))
             /\ \A i \in 0 .. c.candidates[l] - 1 : <<l, i>> \in Range(of(l))
  <2>1. PICK n \in 0 .. 255 : n = c.candidates[l]
    OBVIOUS
  <2>2. of(l) \in [1 .. n -> Candidates(c)]
    BY <2>1 DEF Candidates
  <2>3. of(l) \in Seq(Candidates(c))
    <3>1. ASSUME NEW S, NEW m \in Nat, NEW f \in [1 .. m -> S]
          PROVE  f \in Seq(S)
      BY <3>1
    <3>2. n \in Nat
      OBVIOUS
    <3> HIDE DEF of
    <3>3. QED
      BY <2>2, <3>1, <3>2
  <2>4. ASSUME NEW i \in 0 .. n - 1
        PROVE  <<l, i>> \in Range(of(l))
    <3>1. i + 1 \in DOMAIN of(l) /\ of(l)[i + 1] = <<l, i>>
      BY <2>1, <2>4
    <3>2. QED
      BY <3>1 DEF Range
  <2>5. QED
    BY <2>1, <2>3, <2>4
<1>2. CandidateLoop = of(0) \o of(1) \o of(2) \o of(3) \o of(4)
  BY DEF CandidateLoop
<1> HIDE DEF of
<1>3. \A l \in {0, 1, 2, 3, 4} : of(l) \in Seq(Candidates(c))
  BY <1>1 DEF Levels
<1>7. /\ CandidateLoop \in Seq(Candidates(c))
      /\ Range(CandidateLoop)
           = Range(of(0)) \cup Range(of(1)) \cup Range(of(2)) \cup Range(of(3)) \cup Range(of(4))
  BY <1>2, <1>3, ConcatOfFive
<1>8. ASSUME NEW cd \in Candidates(c)
      PROVE  cd \in Range(CandidateLoop)
  <2>1. PICK l \in Levels : \E i \in 0 .. c.candidates[l] - 1 : cd = <<l, i>>
    <3>1. PICK l \in Levels, i \in 0 .. 255 : cd = <<l, i>> /\ i < c.candidates[l]
      BY DEF Candidates
    <3>2. c.candidates[l] \in Nat
      OBVIOUS
    <3>3. i \in 0 .. c.candidates[l] - 1
      BY <3>1, <3>2
    <3>4. QED
      BY <3>1, <3>3
  <2>2. cd \in Range(of(l)) /\ l \in {0, 1, 2, 3, 4}
    BY <1>1, <2>1 DEF Levels
  <2>3. QED
    BY <1>7, <2>2
<1>9. Range(CandidateLoop) \subseteq Candidates(c)
  <2>1. DOMAIN CandidateLoop = 1 .. Len(CandidateLoop)
    BY <1>7, LenProperties
  <2>2. QED
    BY <1>7, <2>1, ElementOfSeq DEF Range
<1>10. QED
  BY <1>7, <1>8, <1>9

\* The loops over the slots and the candidates take every pair of them.
LEMMA LoopTakesAll ==
  ASSUME NEW S, NEW cands \in Seq(S)
  PROVE  /\ DOMAIN Loop(cands) = 1 .. num_slots_per_frame * Len(cands)
         /\ \A i \in DOMAIN Loop(cands) :
              Loop(cands)[i].slot \in 0 .. num_slots_per_frame - 1 /\ Loop(cands)[i].cand \in Range(cands)
         /\ \A slot \in 0 .. num_slots_per_frame - 1 : \A cd \in Range(cands) :
              \E i \in DOMAIN Loop(cands) : Loop(cands)[i].slot = slot /\ Loop(cands)[i].cand = cd
<1>1. PICK n \in Nat : n = Len(cands) /\ DOMAIN cands = 1 .. n
  BY LenProperties
<1>2. PICK s \in 1 .. 255 : s = num_slots_per_frame
  BY SearchSpaceAssumption
<1>3. Loop(cands) = [i \in 1 .. s * n |-> [slot |-> (i - 1) \div n, cand |-> cands[((i - 1) % n) + 1]]]
  BY <1>1, <1>2 DEF Loop
<1>4. ASSUME NEW i \in 1 .. s * n
      PROVE  (i - 1) \div n \in 0 .. s - 1 /\ ((i - 1) % n) + 1 \in 1 .. n
  <2>1. n # 0
    BY <1>4
  <2>2. PICK P \in Nat : P = s * n
    OBVIOUS
  <2>3. PICK m \in Nat : m = i - 1 /\ m < P
    BY <2>2
  <2>4. n \in Nat \ {0} /\ m \in Nat
    BY <2>1
  <2>5. m \div n \in Nat /\ (m % n) \in 0 .. n - 1 /\ (\A d \in Nat : m < d * n => m \div n < d)
    BY ONLY <2>4, Quotient
  <2>6. s \in Nat /\ m < s * n
    BY <2>2, <2>3
  <2>7. m \div n < s
    BY ONLY <2>5, <2>6, Zenon
  <2>8. QED
    BY ONLY <2>3, <2>5, <2>7, <1>2, <1>1, SMT
<1>5. ASSUME NEW slot \in 0 .. s - 1, NEW k \in 1 .. n
      PROVE  \E i \in 1 .. s * n : (i - 1) \div n = slot /\ ((i - 1) % n) + 1 = k
  <2>1. n \in Nat \ {0} /\ k - 1 \in 0 .. n - 1
    OBVIOUS
  <2>2. PICK q \in Nat, t \in Nat : q = slot * n /\ t = (s - 1 - slot) * n
    <3>1. slot \in Nat /\ s - 1 - slot \in Nat
      OBVIOUS
    <3>2. QED
      BY <3>1
  <2>3. s * n = q + t + n
    <3>1. \A x \in Nat : (slot + x + 1) * n = slot * n + x * n + n
      OBVIOUS
    <3>2. PICK x \in Nat : x = s - 1 - slot
      OBVIOUS
    <3>3. s = slot + x + 1
      BY <3>2
    <3>4. (slot + x + 1) * n = slot * n + x * n + n
      BY <3>1
    <3>5. QED
      BY <2>2, <3>2, <3>3, <3>4
  <2>4. PICK m \in Nat : m = slot * n + (k - 1) /\ m < s * n /\ m + 1 \in 1 .. s * n
    BY <2>1, <2>2, <2>3
  <2>5. m \div n = slot /\ m % n = k - 1
    <3>1. PICK r \in 0 .. n - 1 : r = k - 1
      BY <2>1
    <3>2. slot \in Nat /\ n \in Nat \ {0} /\ m \in Nat /\ r \in 0 .. n - 1 /\ m = slot * n + r
      BY <2>1, <2>4, <3>1
    <3>3. \A q1 \in Nat : \A r1 \in 0 .. n - 1 : m = q1 * n + r1 => m \div n = q1 /\ m % n = r1
      <4>1. n \in Nat \ {0} /\ m \in Nat
        BY <3>2
      <4>2. QED
        BY ONLY <4>1, Quotient, Zenon
    <3>4. m \div n = slot /\ m % n = r
      BY ONLY <3>2, <3>3, Zenon
    <3>5. QED
      BY <3>1, <3>4
  <2>6. (m + 1) - 1 = m /\ (k - 1) + 1 = k
    OBVIOUS
  <2>7. PICK i \in 1 .. s * n : i = m + 1
    BY <2>4
  <2>8. (i - 1) \div n = slot /\ ((i - 1) % n) + 1 = k
    <3>1. i - 1 = m
      BY ONLY <2>6, <2>7
    <3>2. QED
      BY ONLY <2>5, <2>6, <3>1
  <2>9. QED
    BY ONLY <2>8, Zenon
<1>6. \A i \in 1 .. s * n : Loop(cands)[i].slot \in 0 .. s - 1 /\ Loop(cands)[i].cand \in Range(cands)
  <2> TAKE i \in 1 .. s * n
  <2>1. Loop(cands)[i].slot = (i - 1) \div n /\ Loop(cands)[i].cand = cands[((i - 1) % n) + 1]
    BY <1>3
  <2>2. QED
    BY <1>1, <1>4, <2>1 DEF Range
<1>7. ASSUME NEW slot \in 0 .. s - 1, NEW cd \in Range(cands)
      PROVE  \E i \in 1 .. s * n : Loop(cands)[i].slot = slot /\ Loop(cands)[i].cand = cd
  <2>1. PICK k \in 1 .. n : cands[k] = cd
    BY <1>1 DEF Range
  <2>2. PICK i \in 1 .. s * n : (i - 1) \div n = slot /\ ((i - 1) % n) + 1 = k
    BY <1>5
  <2>3. Loop(cands)[i] = [slot |-> (i - 1) \div n, cand |-> cands[((i - 1) % n) + 1]]
    BY ONLY <1>3, Zenon
  <2>4. Loop(cands)[i].slot = slot /\ Loop(cands)[i].cand = cd
    BY ONLY <2>1, <2>2, <2>3
  <2>5. QED
    BY ONLY <2>4, Zenon
<1>8. DOMAIN Loop(cands) = 1 .. s * n
  BY <1>3
<1>9. \A slot \in 0 .. s - 1 : \A cd \in Range(cands) :
        \E i \in DOMAIN Loop(cands) : Loop(cands)[i].slot = slot /\ Loop(cands)[i].cand = cd
  <2> TAKE slot \in 0 .. s - 1
  <2> TAKE cd \in Range(cands)
  <2>1. \E i \in 1 .. s * n : Loop(cands)[i].slot = slot /\ Loop(cands)[i].cand = cd
    BY <1>7
  <2>2. QED
    BY ONLY <2>1, <1>8, Zenon
<1>10. \A i \in DOMAIN Loop(cands) : Loop(cands)[i].slot \in 0 .. s - 1 /\ Loop(cands)[i].cand \in Range(cands)
  BY <1>6, <1>8
<1>11. s = num_slots_per_frame /\ n = Len(cands)
  BY <1>1, <1>2
<1>12. QED
  BY ONLY <1>8, <1>9, <1>10, <1>11

\* An entry has the slot and the candidate of a turn with its key, and every turn
\* has an entry.
LEMMA TablesHoldTurns ==
  ASSUME TypeInv
  PROVE  /\ \A k \in DOMAIN Tables :
              \E slot \in 0 .. num_slots_per_frame - 1 : \E cd \in Candidates(c) :
                /\ k = key(start_id, cd[1], slot, cd[2])
                /\ Tables[k] = Entry(slot, Pattern(c, cd[1], cd[2]))
         /\ \A slot \in 0 .. num_slots_per_frame - 1 : \A cd \in Candidates(c) :
              key(start_id, cd[1], slot, cd[2]) \in DOMAIN Tables
<1> DEFINE turns   == Loop(CandidateLoop)
           keys    == [i \in DOMAIN turns |->
                         key(start_id, turns[i].cand[1], turns[i].slot, turns[i].cand[2])]
           pattern == [cd \in Candidates(c) |-> Pattern(c, cd[1], cd[2])]
           first(k) == CHOOSE i \in DOMAIN keys : keys[i] = k /\ \A j \in 1 .. i - 1 : keys[j] # k
<1>1. Tables = [k \in Range(keys) |-> Entry(turns[first(k)].slot, pattern[turns[first(k)].cand])]
  BY DEF Tables
<1>2. CandidateLoop \in Seq(Candidates(c)) /\ Range(CandidateLoop) = Candidates(c)
  BY CoresetOfConfig, LoopOverCandidates
<1>3. PICK n \in Nat : n = num_slots_per_frame * Len(CandidateLoop)
  BY <1>2, LenProperties, SearchSpaceAssumption
<1>4. /\ DOMAIN turns = 1 .. n
      /\ \A i \in 1 .. n : turns[i].slot \in 0 .. num_slots_per_frame - 1 /\ turns[i].cand \in Candidates(c)
      /\ \A slot \in 0 .. num_slots_per_frame - 1 : \A cd \in Candidates(c) :
           \E i \in 1 .. n : turns[i].slot = slot /\ turns[i].cand = cd
  <2> HIDE DEF turns
  <2>1. /\ DOMAIN turns = 1 .. num_slots_per_frame * Len(CandidateLoop)
        /\ \A i \in DOMAIN turns :
              turns[i].slot \in 0 .. num_slots_per_frame - 1 /\ turns[i].cand \in Range(CandidateLoop)
        /\ \A slot \in 0 .. num_slots_per_frame - 1 : \A cd \in Range(CandidateLoop) :
              \E i \in DOMAIN turns : turns[i].slot = slot /\ turns[i].cand = cd
    BY <1>2, LoopTakesAll DEF turns
  <2>2. QED
    BY <1>2, <1>3, <2>1
<1> HIDE DEF turns
<1>5. /\ DOMAIN keys = 1 .. n
      /\ \A i \in 1 .. n : keys[i] = key(start_id, turns[i].cand[1], turns[i].slot, turns[i].cand[2])
  BY <1>4
<1> HIDE DEF keys
<1>6. ASSUME NEW k \in Range(keys)
      PROVE  first(k) \in 1 .. n /\ keys[first(k)] = k
  <2> DEFINE K == {i \in 1 .. n : keys[i] = k}
  <2>1. K \in SUBSET Nat /\ K # {}
    BY <1>5 DEF Range
  <2> HIDE DEF K
  <2>2. PICK i \in K : \A j \in K : i <= j
    BY <2>1, LeastNumber
  <2>3. i \in 1 .. n /\ keys[i] = k /\ \A j \in 1 .. i - 1 : keys[j] # k
    BY <2>2 DEF K
  <2>4. QED
    BY <1>5, <2>3
<1> HIDE DEF first
<1>7. ASSUME NEW k \in DOMAIN Tables
      PROVE  \E slot \in 0 .. num_slots_per_frame - 1 : \E cd \in Candidates(c) :
                /\ k = key(start_id, cd[1], slot, cd[2])
                /\ Tables[k] = Entry(slot, Pattern(c, cd[1], cd[2]))
  <2>1. k \in Range(keys)
    BY <1>1
  <2>2. PICK i \in 1 .. n : i = first(k) /\ keys[i] = k
    BY <1>6, <2>1
  <2>3. PICK slot \in 0 .. num_slots_per_frame - 1, cd \in Candidates(c) :
          slot = turns[i].slot /\ cd = turns[i].cand
    BY <1>4
  <2>4. k = key(start_id, cd[1], slot, cd[2])
    BY <1>5, <2>2, <2>3
  <2>5. Tables[k] = Entry(slot, pattern[cd])
    BY <1>1, <2>1, <2>2, <2>3
  <2>6. pattern[cd] = Pattern(c, cd[1], cd[2])
    OBVIOUS
  <2>7. QED
    BY <2>4, <2>5, <2>6
<1>8. ASSUME NEW slot \in 0 .. num_slots_per_frame - 1, NEW cd \in Candidates(c)
      PROVE  key(start_id, cd[1], slot, cd[2]) \in DOMAIN Tables
  <2>1. PICK i \in 1 .. n : turns[i].slot = slot /\ turns[i].cand = cd
    BY <1>4
  <2>2. keys[i] = key(start_id, cd[1], slot, cd[2])
    BY <1>5, <2>1
  <2>3. keys[i] \in Range(keys)
    BY <1>5 DEF Range
  <2>4. QED
    BY <1>1, <2>2, <2>3
<1>9. QED
  BY <1>7, <1>8

\* A candidate of a CORESET whose tables could be made has its place.
LEMMA MadeIsPlaced ==
  ASSUME TypeInv, ~Throws(c), NEW cd \in Candidates(c)
  PROVE  Placed(c, cd[1], cd[2])
<1>1. WellFormed(c) /\ c.candidates \in [Levels -> 0 .. 255]
  BY CoresetOfConfig
<1>2. PICK level \in Levels, idx \in 0 .. 255 : cd = <<level, idx>> /\ idx < c.candidates[level]
  BY DEF Candidates
<1>3. cd[1] = level /\ cd[2] = idx
  BY <1>2
<1>4. c.candidates[level] \in Nat \ {0}
  BY <1>1, <1>2
<1>5. Fits(c, level) /\ InList(c, get_candidates(c, level, idx, c.candidates[level]))
  BY <1>3 DEF Throws
<1>6. QED
  BY <1>1, <1>3, <1>4, <1>5 DEF Placed

-----------------------------------------------------------------------------
(* The invariant.                                                          *)

LEMMA InitInvariant ==
  ASSUME Init
  PROVE  SearchInvariant
BY DEF Init, SearchInvariant, TypeInv, TableInv, LookupInv, StopInv

LEMMA MakingKeepsInvariant ==
  ASSUME SearchInvariant, initialize_dmrs_seq
  PROVE  SearchInvariant'
<1>1. TypeInv /\ TableInv /\ LookupInv /\ StopInv
  BY DEF SearchInvariant
<1>2. c' = c /\ ids' = ids /\ looked_up' = looked_up /\ pc = "new"
  BY DEF initialize_dmrs_seq
<1>3. Patterns' = Patterns
  BY <1>2 DEF Patterns
<1>4. CASE Throws(c)
  <2>1. pc' = "exception" /\ dmrs_table' = dmrs_table
    BY <1>4 DEF initialize_dmrs_seq
  <2>2. QED
    BY <1>1, <1>2, <1>3, <1>4, <2>1 DEF SearchInvariant, TypeInv, TableInv, LookupInv, StopInv
<1>5. CASE ~Throws(c)
  <2>1. pc' = "ready" /\ dmrs_table' = Tables
    BY <1>5 DEF initialize_dmrs_seq
  <2>2. ASSUME NEW k \in DOMAIN Tables
        PROVE  Tables[k].slot \in -1 .. num_slots_per_frame - 1 /\ Tables[k].pattern \in Patterns
    <3>1. PICK slot \in 0 .. num_slots_per_frame - 1, cd \in Candidates(c) :
            Tables[k] = Entry(slot, Pattern(c, cd[1], cd[2]))
      BY <1>1, TablesHoldTurns
    <3>2. Tables[k].slot = slot /\ Tables[k].pattern = Pattern(c, cd[1], cd[2])
      BY <3>1 DEF Entry
    <3>3. slot \in -1 .. num_slots_per_frame - 1
      BY SearchSpaceAssumption
    <3>4. QED
      BY <3>2, <3>3 DEF Patterns
  <2>3. TableInv'
    BY <1>2, <1>3, <1>5, <2>1, <2>2 DEF TableInv
  <2>4. QED
    BY <1>1, <1>2, <1>3, <2>1, <2>3 DEF SearchInvariant, TypeInv, LookupInv, StopInv
<1>6. QED
  BY <1>4, <1>5

LEMMA LookingUpKeepsInvariant ==
  ASSUME SearchInvariant, NEW slot \in 0 .. num_slots_per_frame - 1, correlate_DMRS(slot)
  PROVE  SearchInvariant'
<1> DEFINE wanted == (start_id .. end_id) \X Candidates(c)
           keyOf(w) == key(w[1], w[2][1], slot, w[2][2])
           missing == {keyOf(w) : w \in wanted} \ DOMAIN dmrs_table
<1>1. TypeInv /\ TableInv /\ LookupInv /\ StopInv
  BY DEF SearchInvariant
<1>2. c' = c /\ ids' = ids /\ pc = "ready" /\ ~Throws(c)
  BY <1>1 DEF correlate_DMRS, TableInv
<1>3. Patterns' = Patterns
  BY <1>2 DEF Patterns
<1>4. CASE \E cd \in Candidates(c) : cd[2] >= N_CORESET_REG(c) \div 6
  <2>1. pc' = "exception" /\ dmrs_table' = dmrs_table /\ looked_up' = looked_up
    BY <1>4 DEF correlate_DMRS
  <2>2. QED
    BY <1>1, <1>2, <1>3, <1>4, <2>1 DEF SearchInvariant, TypeInv, TableInv, LookupInv, StopInv
<1>5. CASE ~\E cd \in Candidates(c) : cd[2] >= N_CORESET_REG(c) \div 6
  <2>1. /\ pc' = "ready"
        /\ dmrs_table' = IF missing = {} THEN dmrs_table ELSE Inserted(missing)
        /\ looked_up' = {[id |-> w[1], slot |-> slot, cand |-> w[2],
                          got |-> dmrs_table'[keyOf(w)]] : w \in wanted}
    BY <1>2, <1>5 DEF correlate_DMRS
  <2> HIDE DEF missing
  <2>2. /\ DOMAIN dmrs_table' = DOMAIN dmrs_table \cup missing
        /\ \A k \in DOMAIN dmrs_table' : dmrs_table'[k] \in {NoEntry, dmrs_table[k]}
        /\ \A k \in DOMAIN dmrs_table' : k \in missing => dmrs_table'[k] = NoEntry
    <3>1. CASE missing = {}
      BY <2>1, <3>1
    <3>2. CASE missing # {}
      BY <2>1, <3>2 DEF Inserted
    <3>3. QED
      BY <3>1, <3>2
  <2>3. missing \cap DOMAIN dmrs_table = {}
    BY DEF missing
  <2>4. ASSUME NEW k \in DOMAIN dmrs_table'
        PROVE  dmrs_table'[k].slot \in -1 .. num_slots_per_frame - 1 /\ dmrs_table'[k].pattern \in Patterns
    <3>1. CASE dmrs_table'[k] = NoEntry
      <4>1. -1 \in -1 .. num_slots_per_frame - 1
        BY SearchSpaceAssumption
      <4>2. NoEntry.slot = -1
        BY DEF NoEntry
      <4>3. QED
        BY <3>1, <4>1, <4>2 DEF Patterns
    <3>2. CASE k \in DOMAIN dmrs_table /\ dmrs_table'[k] = dmrs_table[k]
      BY <1>1, <3>2 DEF TableInv
    <3>3. QED
      BY <2>2, <3>1, <3>2
  <2>5. TableInv'
    BY <1>2, <1>3, <2>1, <2>4 DEF TableInv
  <2>6. ASSUME NEW r \in looked_up'
        PROVE  r.cand \in Candidates(c) /\ r.got.pattern \in Patterns
    <3>1. PICK w \in wanted : r = [id |-> w[1], slot |-> slot, cand |-> w[2], got |-> dmrs_table'[keyOf(w)]]
      BY <2>1
    <3>2. w[2] \in Candidates(c)
      OBVIOUS
    <3>3. keyOf(w) \in DOMAIN dmrs_table'
      BY <2>2 DEF missing
    <3>4. r.cand = w[2] /\ r.got = dmrs_table'[keyOf(w)]
      BY <3>1
    <3>5. QED
      BY <2>4, <3>2, <3>3, <3>4
  <2>7. LookupInv'
    BY <1>2, <1>3, <2>6 DEF LookupInv
  <2>8. QED
    BY <1>1, <1>2, <2>1, <2>5, <2>7 DEF SearchInvariant, TypeInv, StopInv
<1>6. QED
  BY <1>4, <1>5

\* Every state of SearchSpace satisfies its inductive invariant (pdcch.cc:
\* initialize_dmrs_seq and correlate_DMRS).
THEOREM SearchInductive ==
  Spec => []SearchInvariant
<1>1. Init => SearchInvariant
  BY InitInvariant
<1>2. SearchInvariant /\ [Next]_vars => SearchInvariant'
  <2> SUFFICES ASSUME SearchInvariant, [Next]_vars
               PROVE  SearchInvariant'
    OBVIOUS
  <2>1. CASE initialize_dmrs_seq
    BY <2>1, MakingKeepsInvariant
  <2>2. CASE \E slot \in 0 .. num_slots_per_frame - 1 : correlate_DMRS(slot)
    BY <2>2, LookingUpKeepsInvariant
  <2>3. CASE UNCHANGED vars
    <3>1. c' = c /\ ids' = ids /\ pc' = pc /\ dmrs_table' = dmrs_table /\ looked_up' = looked_up
      BY <2>3 DEF vars
    <3>2. Patterns' = Patterns
      BY <3>1 DEF Patterns
    <3>3. QED
      BY <3>1, <3>2 DEF SearchInvariant, TypeInv, TableInv, LookupInv, StopInv
  <2>4. QED
    BY <2>1, <2>2, <2>3 DEF Next
<1>3. QED
  BY <1>1, <1>2, PTL DEF Spec

\* Every reference symbol correlate_DMRS uses is compared with the one generated
\* for its OFDM symbol and its resource block.
THEOREM ReceivedGenerated ==
  Spec => []ReceivedIsGenerated
<1>1. SearchInvariant => ReceivedIsGenerated
  <2> SUFFICES ASSUME SearchInvariant, NEW r \in looked_up, NEW p, p = r.got.pattern
               PROVE  /\ Len(p.received) = Len(p.generated)
                      /\ \A k \in DOMAIN p.received :
                           p.received[k] = p.generated[k].rb + p.generated[k].symbol * c.rbs
    BY DEF ReceivedIsGenerated
  <2>1. TypeInv /\ ~Throws(c) /\ p \in Patterns
    BY DEF SearchInvariant, LookupInv
  <2>2. CASE p = NoEntry.pattern
    BY <2>2 DEF NoEntry
  <2>3. CASE \E cd \in Candidates(c) : p = Pattern(c, cd[1], cd[2])
    <3>1. PICK cd \in Candidates(c) : p = Pattern(c, cd[1], cd[2])
      BY <2>3
    <3>2. Placed(c, cd[1], cd[2])
      BY <2>1, MadeIsPlaced
    <3>3. QED
      BY <3>1, <3>2, PatternAgrees
  <2>4. QED
    BY <2>1, <2>2, <2>3 DEF Patterns
<1>2. QED
  BY <1>1, SearchInductive, PTL

\* The candidates of a level that fit side by side share no resource block
\* (get_candidates and get_rb_candidates, pdcch.cc:578).
THEOREM CandidatesShareNothing ==
  Spec => []CandidatesApart
<1>1. SearchInvariant => CandidatesApart
  <2> SUFFICES ASSUME SearchInvariant, pc = "ready", NEW a \in Candidates(c), NEW b \in Candidates(c),
                      a[1] = b[1], a[2] < b[2], c.candidates[a[1]] * 2 ^ a[1] <= num_CCE(c)
               PROVE  Range(get_rb_candidates(c, a[1], a[2])) \cap Range(get_rb_candidates(c, b[1], b[2])) = {}
    BY DEF CandidatesApart
  <2>1. TypeInv /\ ~Throws(c)
    BY DEF SearchInvariant, TableInv
  <2>2. Placed(c, a[1], a[2]) /\ Placed(c, b[1], b[2])
    BY <2>1, MadeIsPlaced
  <2>3. b[2] < c.candidates[b[1]]
    BY DEF Candidates
  <2>4. QED
    BY <2>2, <2>3, CandidatesDisjoint
<1>2. QED
  BY <1>1, SearchInductive, PTL

\* A CORESET the interleaver fills, of at most 96 blocks, with candidates that fit
\* side by side, is searched without an exception (initialize_dmrs_seq, pdcch.cc:94,
\* and correlate_DMRS, pdcch.cc:504).
THEOREM WholeCoresetsSearched ==
  Spec => []WholeCoresetsAreSearched
<1>1. SearchInvariant => WholeCoresetsAreSearched
  <2> SUFFICES ASSUME SearchInvariant, pc = "exception",
                      N_CORESET_REG(c) % (c.interleaver * c.bundle) = 0,
                      c.rbs <= 96,
                      \A level \in Levels : c.candidates[level] * 2 ^ level <= num_CCE(c)
               PROVE  FALSE
    BY DEF WholeCoresetsAreSearched
  <2>1. TypeInv /\ StopInv
    BY DEF SearchInvariant
  <2>2. WellFormed(c) /\ c.candidates \in [Levels -> 0 .. 255]
    BY <2>1, CoresetOfConfig
  <2>3. ~Throws(c) /\ \A cd \in Candidates(c) : cd[2] < N_CORESET_REG(c) \div 6
    BY <2>2, WholeCoresetsAreMade
  <2>4. PICK cd \in Candidates(c) : cd[2] >= N_CORESET_REG(c) \div 6
    BY <2>1, <2>3 DEF StopInv
  <2>5. cd[2] \in Nat /\ N_CORESET_REG(c) \div 6 \in Int
    BY <2>2, Bundles DEF Candidates
  <2>6. cd[2] < N_CORESET_REG(c) \div 6
    BY <2>3
  <2>7. QED
    BY <2>4, <2>5, <2>6
<1>2. QED
  BY <1>1, SearchInductive, PTL

-----------------------------------------------------------------------------
(* The keys.                                                               *)

\* A number has at most five digits.
LEMMA DigitsAreSequence ==
  ASSUME NEW n \in Nat
  PROVE  /\ Digits(n) \in Seq(Nat)
         /\ n < 10 => Digits(n) = <<n>>
         /\ 10 <= n /\ n < 100 => Digits(n) = <<(n \div 10) % 10, n % 10>>
         /\ 100 <= n /\ n < 1000 => Digits(n) = <<(n \div 100) % 10, (n \div 10) % 10, n % 10>>
<1> DEFINE P == {p \in {10, 100, 1000, 10000} : p <= n}
           len == 1 + Cardinality(P)
<1>1. Digits(n) = [i \in 1 .. len |-> (n \div 10 ^ (len - i)) % 10]
  BY DEF Digits
<1>2. /\ IsFiniteSet({}) /\ Cardinality({}) = 0
      /\ IsFiniteSet({10}) /\ Cardinality({10}) = 1
      /\ IsFiniteSet({10, 100}) /\ Cardinality({10, 100}) = 2
      /\ IsFiniteSet({10, 100, 1000}) /\ Cardinality({10, 100, 1000}) = 3
      /\ IsFiniteSet({10, 100, 1000, 10000}) /\ Cardinality({10, 100, 1000, 10000}) = 4
  <2>1. IsFiniteSet({}) /\ Cardinality({}) = 0
    BY FS_EmptySet
  <2>2. IsFiniteSet({10}) /\ Cardinality({10}) = 1
    BY FS_Singleton
  <2>3. IsFiniteSet({10} \cup {100}) /\ Cardinality({10} \cup {100}) = 2
    BY <2>2, FS_AddElement
  <2>4. {10} \cup {100} = {10, 100}
    OBVIOUS
  <2>5. IsFiniteSet({10, 100} \cup {1000}) /\ Cardinality({10, 100} \cup {1000}) = 3
    BY <2>3, <2>4, FS_AddElement
  <2>6. {10, 100} \cup {1000} = {10, 100, 1000}
    OBVIOUS
  <2>7. IsFiniteSet({10, 100, 1000} \cup {10000}) /\ Cardinality({10, 100, 1000} \cup {10000}) = 4
    BY <2>5, <2>6, FS_AddElement
  <2>8. {10, 100, 1000} \cup {10000} = {10, 100, 1000, 10000}
    OBVIOUS
  <2>9. QED
    BY <2>1, <2>2, <2>3, <2>4, <2>5, <2>6, <2>7, <2>8
<1>3. 10 ^ 0 = 1 /\ 10 ^ 1 = 10 /\ 10 ^ 2 = 100 /\ 10 ^ 3 = 1000 /\ 10 ^ 4 = 10000
  OBVIOUS
<1>4. len \in 1 .. 5
  <2>1. P \in {{}, {10}, {10, 100}, {10, 100, 1000}, {10, 100, 1000, 10000}}
    <3>1. CASE n < 10
      <4>1. P = {}
        BY <3>1
      <4>2. QED
        BY <4>1
    <3>2. CASE 10 <= n /\ n < 100
      <4>1. P = {10}
        BY <3>2
      <4>2. QED
        BY <4>1
    <3>3. CASE 100 <= n /\ n < 1000
      <4>1. P = {10, 100}
        BY <3>3
      <4>2. QED
        BY <4>1
    <3>4. CASE 1000 <= n /\ n < 10000
      <4>1. P = {10, 100, 1000}
        BY <3>4
      <4>2. QED
        BY <4>1
    <3>5. CASE 10000 <= n
      <4>1. P = {10, 100, 1000, 10000}
        BY <3>5
      <4>2. QED
        BY <4>1
    <3>6. QED
      BY <3>1, <3>2, <3>3, <3>4, <3>5
  <2> HIDE DEF P
  <2>2. Cardinality(P) \in {0, 1, 2, 3, 4}
    BY <1>2, <2>1
  <2>3. QED
    BY <2>2
<1>5. Digits(n) \in Seq(Nat)
  <2> HIDE DEF P, len
  <2>1. ASSUME NEW i \in 1 .. len
        PROVE  (n \div 10 ^ (len - i)) % 10 \in Nat
    <3>1. len - i \in {0, 1, 2, 3, 4}
      BY <1>4
    <3>2. PICK t \in {1, 10, 100, 1000, 10000} : t = 10 ^ (len - i)
      <4>1. PICK m \in {0, 1, 2, 3, 4} : m = len - i
        BY <3>1
      <4>2. 10 ^ m \in {1, 10, 100, 1000, 10000}
        <5>1. m = 0 \/ m = 1 \/ m = 2 \/ m = 3 \/ m = 4
          OBVIOUS
        <5>2. CASE m = 0
          BY <1>3, <5>2
        <5>3. CASE m = 1
          BY <1>3, <5>3
        <5>4. CASE m = 2
          BY <1>3, <5>4
        <5>5. CASE m = 3
          BY <1>3, <5>5
        <5>6. CASE m = 4
          BY <1>3, <5>6
        <5>7. QED
          BY <5>1, <5>2, <5>3, <5>4, <5>5, <5>6
      <4>3. QED
        BY <4>1, <4>2
    <3>3. (n \div t) % 10 \in Nat
      OBVIOUS
    <3>4. QED
      BY <3>2, <3>3
  <2>2. [i \in 1 .. len |-> (n \div 10 ^ (len - i)) % 10] \in [1 .. len -> Nat]
    BY <2>1
  <2>3. \A m \in Nat : [1 .. m -> Nat] \subseteq Seq(Nat)
    OBVIOUS
  <2>4. QED
    BY <1>1, <1>4, <2>2, <2>3
<1>6. n < 10 => Digits(n) = <<n>>
  <2> SUFFICES ASSUME n < 10
               PROVE  Digits(n) = <<n>>
    OBVIOUS
  <2>1. P = {}
    OBVIOUS
  <2>2. len = 1
    BY <1>2, <2>1
  <2> HIDE DEF P, len
  <2>3. (n \div 1) % 10 = n
    OBVIOUS
  <2>4. Digits(n) = [i \in 1 .. 1 |-> (n \div 10 ^ (1 - i)) % 10]
    BY <1>1, <2>2
  <2>5. QED
    BY <1>3, <2>3, <2>4
<1>7. 10 <= n /\ n < 100 => Digits(n) = <<(n \div 10) % 10, n % 10>>
  <2> SUFFICES ASSUME 10 <= n, n < 100
               PROVE  Digits(n) = <<(n \div 10) % 10, n % 10>>
    OBVIOUS
  <2>1. P = {10}
    OBVIOUS
  <2>2. len = 2
    BY <1>2, <2>1
  <2> HIDE DEF P, len
  <2>3. n \div 1 = n
    OBVIOUS
  <2>4. Digits(n) = [i \in 1 .. 2 |-> (n \div 10 ^ (2 - i)) % 10]
    BY <1>1, <2>2
  <2>5. 2 - 1 = 1 /\ 2 - 2 = 0 /\ 1 .. 2 = {1, 2}
    OBVIOUS
  <2>6. QED
    BY <1>3, <2>3, <2>4, <2>5
<1>8. 100 <= n /\ n < 1000 => Digits(n) = <<(n \div 100) % 10, (n \div 10) % 10, n % 10>>
  <2> SUFFICES ASSUME 100 <= n, n < 1000
               PROVE  Digits(n) = <<(n \div 100) % 10, (n \div 10) % 10, n % 10>>
    OBVIOUS
  <2>1. P = {10, 100}
    OBVIOUS
  <2>2. len = 3
    BY <1>2, <2>1
  <2> HIDE DEF P, len
  <2>3. n \div 1 = n
    OBVIOUS
  <2>4. Digits(n) = [i \in 1 .. 3 |-> (n \div 10 ^ (3 - i)) % 10]
    BY <1>1, <2>2
  <2>5. 3 - 1 = 2 /\ 3 - 2 = 1 /\ 3 - 3 = 0 /\ 1 .. 3 = {1, 2, 3}
    OBVIOUS
  <2>6. QED
    BY <1>3, <2>3, <2>4, <2>5
<1>9. QED
  BY <1>5, <1>6, <1>7, <1>8

\* The digits of a slot tell which it is.
LEMMA DigitsAreInjective ==
  ASSUME NEW x \in Nat, NEW y \in Nat, x < 1000, y < 1000, Digits(x) = Digits(y)
  PROVE  x = y
<1> DEFINE In(n, k) == \/ k = 1 /\ n < 10 /\ Digits(n) = <<n>>
                       \/ k = 2 /\ 10 <= n /\ n < 100 /\ Digits(n) = <<(n \div 10) % 10, n % 10>>
                       \/ k = 3 /\ 100 <= n /\ n < 1000
                            /\ Digits(n) = <<(n \div 100) % 10, (n \div 10) % 10, n % 10>>
<1>1. ASSUME NEW n \in Nat, n < 1000
      PROVE  \E k \in 1 .. 3 : In(n, k) /\ Len(Digits(n)) = k
  <2>0. n \in Nat
    OBVIOUS
  <2>1. /\ n < 10 => Digits(n) = <<n>>
        /\ 10 <= n /\ n < 100 => Digits(n) = <<(n \div 10) % 10, n % 10>>
        /\ 100 <= n /\ n < 1000 => Digits(n) = <<(n \div 100) % 10, (n \div 10) % 10, n % 10>>
    BY ONLY <2>0, DigitsAreSequence
  <2>2. CASE n < 10
    BY <2>1, <2>2
  <2>3. CASE 10 <= n /\ n < 100
    BY <2>1, <2>3
  <2>4. CASE 100 <= n /\ n < 1000
    BY <2>1, <2>4
  <2>5. n < 10 \/ (10 <= n /\ n < 100) \/ (100 <= n /\ n < 1000)
    BY <1>1
  <2> HIDE DEF In
  <2>6. QED
    BY ONLY <2>2, <2>3, <2>4, <2>5
<1>2. PICK k \in 1 .. 3 : In(x, k) /\ In(y, k)
  <2> HIDE DEF In
  <2>1. PICK k \in 1 .. 3 : In(x, k) /\ Len(Digits(x)) = k
    BY <1>1
  <2>2. PICK m \in 1 .. 3 : In(y, m) /\ Len(Digits(y)) = m
    BY <1>1
  <2>3. QED
    BY <2>1, <2>2
<1>3. CASE k = 1
  BY <1>2, <1>3
<1>4. CASE k = 2
  <2>1. (x \div 10) % 10 = (y \div 10) % 10 /\ x % 10 = y % 10 /\ x < 100 /\ y < 100
    BY <1>2, <1>4
  <2>2. QED
    BY <2>1
<1>5. CASE k = 3
  <2>1. /\ (x \div 100) % 10 = (y \div 100) % 10
        /\ (x \div 10) % 10 = (y \div 10) % 10
        /\ x % 10 = y % 10
    BY <1>2, <1>5
  <2>2. ASSUME NEW n \in Nat, n < 1000
        PROVE  n = 100 * ((n \div 100) % 10) + 10 * ((n \div 10) % 10) + (n % 10)
    <3>1. PICK q \in 0 .. 99, r \in 0 .. 9 : n = 10 * q + r /\ q = n \div 10 /\ r = n % 10
      BY <2>2
    <3>2. PICK h \in 0 .. 9, e \in 0 .. 9 : q = 10 * h + e /\ h = q \div 10 /\ e = q % 10
      OBVIOUS
    <3>3. n \div 100 = h
      <4>0. 10 * q = 100 * h + 10 * e
        BY <3>2
      <4>1. n = 100 * h + 10 * e + r
        BY <3>1, <4>0
      <4>2. QED
        BY <4>1
    <3>4. h % 10 = h /\ n = 100 * h + 10 * e + r
      <4>1. 10 * q = 100 * h + 10 * e
        BY <3>2
      <4>2. QED
        BY <3>1, <4>1
    <3>5. QED
      BY ONLY <3>1, <3>2, <3>3, <3>4
  <2>3. x = 100 * ((x \div 100) % 10) + 10 * ((x \div 10) % 10) + (x % 10)
    BY <2>2
  <2>4. y = 100 * ((y \div 100) % 10) + 10 * ((y \div 10) % 10) + (y % 10)
    BY <2>2
  <2>5. QED
    BY ONLY <2>1, <2>3, <2>4, Zenon
<1>6. QED
  BY <1>3, <1>4, <1>5

\* What is between a prefix, a separator of one digit and a last digit is told apart.
Word(p, a, s, d) == p \o <<a>> \o s \o <<d>>

LEMMA Unambiguous ==
  ASSUME NEW S, NEW p \in Seq(S), NEW s \in Seq(S), NEW t \in Seq(S),
         NEW a \in S, NEW b \in S, NEW d \in S, NEW e \in S,
         Word(p, a, s, d) = Word(p, b, t, e)
  PROVE  a = b /\ s = t /\ d = e
<1> DEFINE n == Len(p)
<1>1. \A q \in Seq(S) : \A x, y \in S :
        /\ Len(Word(p, x, q, y)) = n + Len(q) + 2
        /\ Word(p, x, q, y)[n + 1] = x
        /\ \A k \in 1 .. Len(q) : Word(p, x, q, y)[n + 1 + k] = q[k]
        /\ Word(p, x, q, y)[n + Len(q) + 2] = y
  <2> SUFFICES ASSUME NEW q \in Seq(S), NEW x \in S, NEW y \in S
               PROVE  /\ Len(Word(p, x, q, y)) = n + Len(q) + 2
                      /\ Word(p, x, q, y)[n + 1] = x
                      /\ \A k \in 1 .. Len(q) : Word(p, x, q, y)[n + 1 + k] = q[k]
                      /\ Word(p, x, q, y)[n + Len(q) + 2] = y
    OBVIOUS
  <2> DEFINE u == p \o <<x>>
             v == u \o q
  <2>1. u \in Seq(S) /\ Len(u) = n + 1 /\ u[n + 1] = x
    OBVIOUS
  <2> HIDE DEF u
  <2>2. /\ v \in Seq(S) /\ Len(v) = n + 1 + Len(q) /\ v[n + 1] = x
        /\ \A k \in 1 .. Len(q) : v[n + 1 + k] = q[k]
    <3>1. v \in Seq(S) /\ Len(v) = Len(u) + Len(q)
      <4>1. u \in Seq(S)
        BY <2>1
      <4>2. QED
        BY <4>1, ConcatProperties
    <3>2. \A k \in 1 .. Len(u) : v[k] = u[k]
      BY <2>1
    <3>3. \A k \in 1 .. Len(q) : v[Len(u) + k] = q[k]
      BY <2>1
    <3>4. n \in Nat
      OBVIOUS
    <3>5. QED
      BY <2>1, <3>1, <3>2, <3>3, <3>4
  <2> HIDE DEF v
  <2> DEFINE w == v \o <<y>>
  <2>3. /\ Len(w) = n + Len(q) + 2 /\ w[n + 1] = x
        /\ \A k \in 1 .. Len(q) : w[n + 1 + k] = q[k]
        /\ w[n + Len(q) + 2] = y
    BY <2>2
  <2>4. QED
    BY <2>3 DEF Word, v, u
<1>2. n \in Nat /\ Len(s) \in Nat /\ Len(t) \in Nat
  OBVIOUS
<1> HIDE DEF n
<1> DEFINE u == Word(p, a, s, d)
           v == Word(p, b, t, e)
<1>a. /\ Len(u) = n + Len(s) + 2 /\ u[n + 1] = a /\ u[n + Len(s) + 2] = d
      /\ \A k \in 1 .. Len(s) : u[n + 1 + k] = s[k]
  BY <1>1
<1>b. /\ Len(v) = n + Len(t) + 2 /\ v[n + 1] = b /\ v[n + Len(t) + 2] = e
      /\ \A k \in 1 .. Len(t) : v[n + 1 + k] = t[k]
  BY <1>1
<1>c. u = v
  OBVIOUS
<1> HIDE DEF u, v
<1>3. Len(s) = Len(t)
  BY <1>a, <1>b, <1>c, <1>2
<1>4. a = b /\ d = e
  BY <1>a, <1>b, <1>c, <1>3
<1>5. \A k \in 1 .. Len(s) : s[k] = t[k]
  BY <1>a, <1>b, <1>c, <1>3
<1>6. s = t
  BY <1>3, <1>5, SeqEqual
<1>7. QED
  BY <1>4, <1>6

OneDigitKey(level, slot, idx) == level \in 0 .. 4 /\ slot \in 0 .. 254 /\ idx \in 0 .. 9

\* With one scrambling id and indices of one digit, a key has one meaning.
LEMMA KeysAreApart ==
  ASSUME NEW id \in Nat
  PROVE  \A level1, slot1, idx1, level2, slot2, idx2 :
           /\ OneDigitKey(level1, slot1, idx1) /\ OneDigitKey(level2, slot2, idx2)
           /\ key(id, level1, slot1, idx1) = key(id, level2, slot2, idx2)
           => level1 = level2 /\ slot1 = slot2 /\ idx1 = idx2
<1> SUFFICES ASSUME NEW level1, NEW slot1, NEW idx1, NEW level2, NEW slot2, NEW idx2,
                    OneDigitKey(level1, slot1, idx1), OneDigitKey(level2, slot2, idx2),
                    key(id, level1, slot1, idx1) = key(id, level2, slot2, idx2)
             PROVE  level1 = level2 /\ slot1 = slot2 /\ idx1 = idx2
  OBVIOUS
<1>0. /\ level1 \in 0 .. 4 /\ slot1 \in 0 .. 254 /\ idx1 \in 0 .. 9
      /\ level2 \in 0 .. 4 /\ slot2 \in 0 .. 254 /\ idx2 \in 0 .. 9
  BY DEF OneDigitKey
<1>1. ASSUME NEW n \in 0 .. 9
      PROVE  Digits(n) = <<n>>
  <2>1. n \in Nat /\ n < 10
    OBVIOUS
  <2>2. QED
    BY ONLY <2>1, DigitsAreSequence
<1>2. \A n \in Nat : Digits(n) \in Seq(Nat)
  BY DigitsAreSequence
<1>3. id \in Nat /\ slot1 \in Nat /\ slot2 \in Nat
  BY <1>0
<1>4. Digits(id) \in Seq(Nat) /\ Digits(slot1) \in Seq(Nat) /\ Digits(slot2) \in Seq(Nat)
  BY ONLY <1>2, <1>3, Zenon
<1>5. level1 \in 0 .. 9 /\ level2 \in 0 .. 9 /\ idx1 \in 0 .. 9 /\ idx2 \in 0 .. 9
  BY <1>0
<1>6. Digits(level1) = <<level1>> /\ Digits(level2) = <<level2>> /\ Digits(idx1) = <<idx1>> /\ Digits(idx2) = <<idx2>>
  BY ONLY <1>1, <1>5, Zenon
<1>7. PICK p \in Seq(Nat) : p = Digits(id)
  BY ONLY <1>4, Zenon
<1>8. PICK s \in Seq(Nat) : s = Digits(slot1)
  BY ONLY <1>4, Zenon
<1>9. PICK t \in Seq(Nat) : t = Digits(slot2)
  BY ONLY <1>4, Zenon
<1>10. p \o <<level1>> \o s \o <<idx1>> = p \o <<level2>> \o t \o <<idx2>>
  BY <1>6, <1>7, <1>8, <1>9 DEF key
<1>12. level1 = level2 /\ s = t /\ idx1 = idx2
  <2>1. PICK a \in Nat, b \in Nat, d \in Nat, e \in Nat : a = level1 /\ b = level2 /\ d = idx1 /\ e = idx2
    BY <1>0
  <2>2. Word(p, a, s, d) = Word(p, b, t, e)
    BY <1>10, <2>1 DEF Word
  <2>3. a = b /\ s = t /\ d = e
    <3>1. \A p1, s1, t1 \in Seq(Nat) : \A a1, b1, d1, e1 \in Nat :
            Word(p1, a1, s1, d1) = Word(p1, b1, t1, e1) => a1 = b1 /\ s1 = t1 /\ d1 = e1
      BY ONLY Unambiguous, Zenon
    <3>2. p \in Seq(Nat) /\ s \in Seq(Nat) /\ t \in Seq(Nat) /\ a \in Nat /\ b \in Nat /\ d \in Nat /\ e \in Nat
      OBVIOUS
    <3>3. QED
      BY ONLY <2>2, <3>1, <3>2, SMT
  <2>4. QED
    BY <2>1, <2>3
<1>13. slot1 = slot2
  <2>1. Digits(slot1) = Digits(slot2)
    BY <1>8, <1>9, <1>12
  <2>2. PICK x \in Nat : x = slot1 /\ x < 1000
    BY <1>0
  <2>3. PICK y \in Nat : y = slot2 /\ y < 1000
    BY <1>0
  <2>4. Digits(x) = Digits(y)
    BY <2>1, <2>2, <2>3
  <2>5. x = y
    BY <2>2, <2>3, <2>4, DigitsAreInjective
  <2>6. QED
    BY <2>2, <2>3, <2>5
<1>14. QED
  BY <1>12, <1>13

LEMMA OneIdOneDigit ==
  ASSUME TypeInv, OneId, OneDigit
  PROVE  /\ start_id = end_id /\ start_id \in Nat
         /\ \A cd \in Candidates(c) : cd[1] \in 0 .. 4 /\ cd[2] \in 0 .. 9
<1>1. start_id = end_id /\ start_id \in Nat
  <2>1. ids \in ScramblingIds /\ ids \in Ids \X Ids
    BY SearchSpaceAssumption DEF TypeInv
  <2>2. \A id \in Ids : id \in Nat
    BY DEF Ids
  <2>3. QED
    BY <2>1, <2>2 DEF OneId, start_id, end_id
<1>2. ASSUME NEW cd \in Candidates(c)
      PROVE  cd[1] \in 0 .. 4 /\ cd[2] \in 0 .. 9
  <2>1. PICK cfg \in Configs : c = coreset(cfg)
    BY DEF TypeInv
  <2>2. cfg \in ConfigRecords(STRING, [Levels -> 0 .. 255])
    BY ConfigAssumption DEF ConfigRecords
  <2>3. c.candidates = cfg.candidates /\ cfg.candidates \in [Levels -> 0 .. 255]
    <3>1. coreset(cfg).candidates = cfg.candidates
      BY <2>2, SettersMakeWellFormed
    <3>2. QED
      BY <2>1, <2>2, <3>1 DEF ConfigRecords
  <2>4. cd[1] \in Levels /\ cd[2] \in 0 .. 255 /\ cd[2] < cfg.candidates[cd[1]]
    BY <2>3 DEF Candidates
  <2>5. cfg.candidates[cd[1]] \in Nat /\ cfg.candidates[cd[1]] <= 10
    BY <2>3, <2>4 DEF OneDigit
  <2>6. QED
    BY <2>4, <2>5 DEF Levels
<1>3. QED
  BY <1>1, <1>2

\* What correlate_DMRS looks up under its textual keys are the reference symbols of
\* the id, slot and candidate it asks for, if one id is searched for and no level has
\* more than ten candidates (pdcch.cc:111, 500).
THEOREM LookupFinds ==
  ASSUME OneId, OneDigit
  PROVE  Spec => []LookupFindsOwn
<1> DEFINE Inv == OwnEntryInv /\ LookupFindsOwn
<1>1. Init => Inv
  BY DEF Init, OwnEntryInv, LookupFindsOwn
<1>2. SearchInvariant /\ Inv /\ [Next]_vars => Inv'
  <2> SUFFICES ASSUME SearchInvariant, OwnEntryInv, LookupFindsOwn, [Next]_vars
               PROVE  OwnEntryInv' /\ LookupFindsOwn'
    OBVIOUS
  <2>1. /\ TypeInv
        /\ start_id = end_id /\ start_id \in Nat
        /\ \A cd \in Candidates(c) : cd[1] \in 0 .. 4 /\ cd[2] \in 0 .. 9
    BY OneIdOneDigit DEF SearchInvariant
  <2>2. \A slot \in 0 .. num_slots_per_frame - 1 : slot \in 0 .. 254
    BY SearchSpaceAssumption
  <2>3. c' = c /\ ids' = ids
    BY DEF Next, initialize_dmrs_seq, correlate_DMRS, vars
  <2>4. CASE initialize_dmrs_seq
    <3>1. LookupFindsOwn'
      BY <2>3, <2>4 DEF initialize_dmrs_seq, LookupFindsOwn
    <3>2. CASE pc' = "ready"
      <4>1. dmrs_table' = Tables
        BY <2>4, <3>2 DEF initialize_dmrs_seq
      <4>2. ASSUME NEW slot \in 0 .. num_slots_per_frame - 1, NEW cd \in Candidates(c)
            PROVE  OwnEntry(slot, cd)'
        <5>1. PICK k : k = key(start_id, cd[1], slot, cd[2])
          OBVIOUS
        <5>2. k \in DOMAIN Tables
          BY <2>1, <5>1, TablesHoldTurns
        <5>3. PICK slot2 \in 0 .. num_slots_per_frame - 1, cd2 \in Candidates(c) :
                /\ k = key(start_id, cd2[1], slot2, cd2[2])
                /\ Tables[k] = Entry(slot2, Pattern(c, cd2[1], cd2[2]))
          BY <2>1, <5>2, TablesHoldTurns
        <5>4. cd[1] = cd2[1] /\ slot = slot2 /\ cd[2] = cd2[2]
          <6>1. OneDigitKey(cd[1], slot, cd[2]) /\ OneDigitKey(cd2[1], slot2, cd2[2])
            BY <2>1, <2>2 DEF OneDigitKey
          <6>2. key(start_id, cd[1], slot, cd[2]) = key(start_id, cd2[1], slot2, cd2[2])
            BY <5>1, <5>3
          <6>3. start_id \in Nat
            BY <2>1
          <6>4. \A level1, slot1, idx1, level3, slot3, idx3 :
                  /\ OneDigitKey(level1, slot1, idx1) /\ OneDigitKey(level3, slot3, idx3)
                  /\ key(start_id, level1, slot1, idx1) = key(start_id, level3, slot3, idx3)
                  => level1 = level3 /\ slot1 = slot3 /\ idx1 = idx3
            BY ONLY <6>3, KeysAreApart
          <6>5. QED
            BY ONLY <6>1, <6>2, <6>4
        <5>5. QED
          BY <2>3, <4>1, <5>1, <5>2, <5>3, <5>4 DEF OwnEntry, Entry, start_id
      <4>3. QED
        BY <2>3, <3>1, <4>2 DEF OwnEntryInv
    <3>3. QED
      BY <3>1, <3>2 DEF OwnEntryInv
  <2>5. CASE \E slot \in 0 .. num_slots_per_frame - 1 : correlate_DMRS(slot)
    <3>1. PICK slot \in 0 .. num_slots_per_frame - 1 : correlate_DMRS(slot)
      BY <2>5
    <3> DEFINE wanted == (start_id .. end_id) \X Candidates(c)
               keyOf(w) == key(w[1], w[2][1], slot, w[2][2])
               missing == {keyOf(w) : w \in wanted} \ DOMAIN dmrs_table
    <3>2. CASE \E cd \in Candidates(c) : cd[2] >= N_CORESET_REG(c) \div 6
      <4>1. pc' = "exception" /\ looked_up' = looked_up
        BY <3>1, <3>2 DEF correlate_DMRS
      <4>2. QED
        BY <2>3, <4>1 DEF OwnEntryInv, LookupFindsOwn
    <3>3. CASE ~\E cd \in Candidates(c) : cd[2] >= N_CORESET_REG(c) \div 6
      <4>1. /\ pc = "ready" /\ pc' = pc
            /\ dmrs_table' = IF missing = {} THEN dmrs_table ELSE Inserted(missing)
            /\ looked_up' = {[id |-> w[1], slot |-> slot, cand |-> w[2],
                              got |-> dmrs_table'[keyOf(w)]] : w \in wanted}
        BY <3>1, <3>3 DEF correlate_DMRS
      <4>2. \A s \in 0 .. num_slots_per_frame - 1 : \A cd \in Candidates(c) : OwnEntry(s, cd)
        BY <4>1 DEF OwnEntryInv
      <4>3. ASSUME NEW w \in wanted
            PROVE  w[1] = start_id /\ w[2] \in Candidates(c) /\ keyOf(w) \in DOMAIN dmrs_table
                   /\ dmrs_table[keyOf(w)] = Entry(slot, Pattern(c, w[2][1], w[2][2]))
        <5>1. w[1] = start_id /\ w[2] \in Candidates(c)
          BY <2>1
        <5>2. OwnEntry(slot, w[2])
          BY <4>2, <5>1
        <5>3. QED
          BY <5>1, <5>2 DEF OwnEntry
      <4>4. missing = {}
        BY <4>3
      <4>5. dmrs_table' = dmrs_table
        BY <4>1, <4>4
      <4>6. OwnEntryInv'
        BY <2>3, <4>2, <4>5 DEF OwnEntryInv, OwnEntry, Entry, start_id
      <4>7. LookupFindsOwn'
        <5> SUFFICES ASSUME NEW r \in looked_up'
                     PROVE  r.got = [id |-> r.id, slot |-> r.slot, pattern |-> Pattern(c, r.cand[1], r.cand[2])]
          BY <2>3 DEF LookupFindsOwn
        <5>1. PICK w \in wanted : r = [id |-> w[1], slot |-> slot, cand |-> w[2], got |-> dmrs_table'[keyOf(w)]]
          BY <4>1
        <5>2. r.got = Entry(slot, Pattern(c, w[2][1], w[2][2])) /\ r.id = start_id /\ r.slot = slot /\ r.cand = w[2]
          BY <4>3, <4>5, <5>1
        <5>3. QED
          BY <5>2 DEF Entry
      <4>8. QED
        BY <4>6, <4>7
    <3>4. QED
      BY <3>2, <3>3
  <2>6. CASE UNCHANGED vars
    BY <2>6 DEF vars, OwnEntryInv, OwnEntry, Entry, start_id, LookupFindsOwn
  <2>7. QED
    BY <2>4, <2>5, <2>6 DEF Next
<1>3. QED
  BY <1>1, <1>2, SearchInductive, PTL DEF Spec
=============================================================================
