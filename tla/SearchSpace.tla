---------------------------- MODULE SearchSpace ----------------------------
(***************************************************************************)
(* The tables of DMRS the PDCCH correlates with (src/pdcch.cc): made by    *)
(* initialize_dmrs_seq when a channel mapper is constructed, one entry per *)
(* slot and candidate, and looked up by correlate_DMRS for every CORESET   *)
(* that is received.                                                       *)
(* An entry has the scrambling id and the slot its sequence is generated   *)
(* for, and the pattern of its candidate (Candidate).                      *)
(***************************************************************************)
EXTENDS Candidate

CONSTANTS
  Configs,             \* the CORESETs of the configuration file
  ScramblingIds,       \* the ranges <<scrambling_id_start, scrambling_id_end>>
  num_slots_per_frame

\* A uint16_t.
Ids == 0 .. 65535

ASSUME SearchSpaceAssumption ==
  /\ ScramblingIds \subseteq Ids \X Ids
  /\ num_slots_per_frame \in 1 .. 255

VARIABLES
  c,           \* coreset_info
  ids,         \* the range of scrambling ids
  pc,          \* "new", "ready" or "exception"
  dmrs_table,  \* dmrs_seq_table, dmrs_sc_indices_table: entries by key
  looked_up    \* history: what the last correlate_DMRS asked for and got

vars == <<c, ids, pc, dmrs_table, looked_up>>

start_id == ids[1]
end_id == ids[2]

Init ==
  /\ c \in {coreset(cfg) : cfg \in Configs}
  /\ ids \in ScramblingIds
  /\ pc = "new"
  /\ dmrs_table = <<>>
  /\ looked_up = {}

-----------------------------------------------------------------------------
(* The keys and the entries.                                               *)

\* std::to_string of a number of at most five digits.
Digits(n) ==
  LET len == 1 + Cardinality({p \in {10, 100, 1000, 10000} : p <= n})
  IN [i \in 1 .. len |-> (n \div 10 ^ (len - i)) % 10]

\* Mutant of key: the slot is left out.
keyWithoutSlot(id, level, slot, idx) == Digits(id) \o Digits(level) \o Digits(idx)

key(id, level, slot, idx) == Digits(id) \o Digits(level) \o Digits(slot) \o Digits(idx)

\* The candidates in the order of the loops, and the loops with that over the slots.
CandidateLoop ==
  LET of(l) == [i \in 1 .. c.candidates[l] |-> <<l, i - 1>>]
  IN of(0) \o of(1) \o of(2) \o of(3) \o of(4)

Loop(cands) ==
  LET n == Len(cands)
  IN [i \in 1 .. num_slots_per_frame * n |->
        [slot |-> (i - 1) \div n, cand |-> cands[((i - 1) % n) + 1]]]

Entry(slot, pattern) == [id |-> start_id, slot |-> slot, pattern |-> pattern]

\* emplace does not replace the entry a key has: the first turn with a key makes it.
Tables ==
  LET turns   == Loop(CandidateLoop)
      keys    == [i \in DOMAIN turns |->
                    key(start_id, turns[i].cand[1], turns[i].slot, turns[i].cand[2])]
      pattern == [cd \in Candidates(c) |-> Pattern(c, cd[1], cd[2])]
      first(k) == CHOOSE i \in DOMAIN keys : keys[i] = k /\ \A j \in 1 .. i - 1 : keys[j] # k
  IN [k \in Range(keys) |-> Entry(turns[first(k)].slot, pattern[turns[first(k)].cand])]

-----------------------------------------------------------------------------
(* The two operations.                                                     *)

\* The tables hold one scrambling id, scrambling_id_start.
initialize_dmrs_seq ==
  /\ pc = "new"
  /\ IF Throws(c)
     THEN pc' = "exception" /\ UNCHANGED dmrs_table
     ELSE pc' = "ready" /\ dmrs_table' = Tables
  /\ UNCHANGED <<c, ids, looked_up>>

NoEntry == [id |-> -1, slot |-> -1, pattern |-> [received |-> <<>>, generated |-> <<>>]]

Inserted(missing) ==
  [k \in DOMAIN dmrs_table \cup missing |-> IF k \in missing THEN NoEntry ELSE dmrs_table[k]]

\* What correlate_DMRS looks up for a symbol of the slot, for every scrambling id;
\* operator[] inserts an empty entry for a key that is missing.  The results of
\* a level are kept in a vector with as many places as there are CCEs.
correlate_DMRS(slot) ==
  LET wanted == (start_id .. end_id) \X Candidates(c)
      keyOf(w) == key(w[1], w[2][1], slot, w[2][2])
      missing == {keyOf(w) : w \in wanted} \ DOMAIN dmrs_table
  IN
  /\ pc = "ready"
  /\ IF \E cd \in Candidates(c) : cd[2] >= N_CORESET_REG(c) \div 6
     THEN pc' = "exception" /\ UNCHANGED <<dmrs_table, looked_up>>
     ELSE /\ dmrs_table' = IF missing = {} THEN dmrs_table ELSE Inserted(missing)
          /\ looked_up' = {[id |-> w[1], slot |-> slot, cand |-> w[2],
                            got |-> dmrs_table'[keyOf(w)]] : w \in wanted}
          /\ UNCHANGED pc
  /\ UNCHANGED <<c, ids>>

Next == initialize_dmrs_seq \/ \E slot \in 0 .. num_slots_per_frame - 1 : correlate_DMRS(slot)

Spec == Init /\ [][Next]_vars

-----------------------------------------------------------------------------
(* Properties.                                                             *)

TypeOK ==
  /\ c \in {coreset(cfg) : cfg \in Configs}
  /\ ids \in ScramblingIds
  /\ pc \in {"new", "ready", "exception"}
  /\ \A k \in DOMAIN dmrs_table :
       dmrs_table[k].slot \in -1 .. num_slots_per_frame - 1
  /\ \A r \in looked_up : r.cand \in Candidates(c)

\* What correlate_DMRS looks up under its textual keys are the reference symbols
\* of the scrambling id, slot and candidate it asks for, although the digits of
\* the four numbers follow each other without a separator; "these values specify
\* the range of scrambling IDs [...] that we want to sniff over" (README.md:178).
LookupFindsOwn ==
  \A r \in looked_up : r.got = [id      |-> r.id,
                               slot    |-> r.slot,
                               pattern |-> Pattern(c, r.cand[1], r.cand[2])]

\* Every reference symbol is compared with the one generated for its OFDM symbol
\* and its resource block, although the sequence is taken for the first share of
\* the sorted list of blocks and repeated ("the indices are just the ones in the
\* first OFDM symbol", pdcch.cc:600).
ReceivedIsGenerated ==
  \A r \in looked_up :
    LET p == r.got.pattern IN
    /\ Len(p.received) = Len(p.generated)
    /\ \A k \in DOMAIN p.received :
         p.received[k] = p.generated[k].rb + p.generated[k].symbol * c.rbs

\* The candidates of a level that fit side by side share no resource block: no
\* DCI is found at two of them.
CandidatesApart ==
  pc = "ready" =>
    \A a, b \in Candidates(c) :
      /\ a[1] = b[1] /\ a[2] < b[2]
      /\ c.candidates[a[1]] * 2 ^ a[1] <= num_CCE(c)
      => Range(get_rb_candidates(c, a[1], a[2])) \cap Range(get_rb_candidates(c, b[1], b[2])) = {}

\* A CORESET that the interleaver fills, of at most 96 blocks, with candidates
\* that fit side by side, is searched without an exception.
WholeCoresetsAreSearched ==
  /\ N_CORESET_REG(c) % (c.interleaver * c.bundle) = 0
  /\ c.rbs <= 96
  /\ \A level \in Levels : c.candidates[level] * 2 ^ level <= num_CCE(c)
  => pc # "exception"
=============================================================================
