--------------------------- MODULE SearchSpaceInv ---------------------------
(***************************************************************************)
(* The inductive invariant of SearchSpace.                                 *)
(***************************************************************************)
EXTENDS SearchSpace

\* The numbers of a configuration are not negative; those of candidates have 8 bits.
ASSUME ConfigAssumption ==
  \A cfg \in Configs :
    cfg \in [rbs : Nat, duration : Nat, mapping : STRING, bundle : Nat,
             interleaver : Nat, shift : Nat, candidates : [Levels -> 0 .. 255]]

TypeInv ==
  /\ c \in {coreset(cfg) : cfg \in Configs}
  /\ ids \in ScramblingIds
  /\ pc \in {"new", "ready", "exception"}

\* A pattern is that of a candidate, or none.
Patterns == {Pattern(c, cd[1], cd[2]) : cd \in Candidates(c)} \cup {NoEntry.pattern}

\* There are tables only if all of them could be made.
TableInv ==
  /\ pc = "new" => dmrs_table = <<>>
  /\ dmrs_table # <<>> \/ pc = "ready" => ~Throws(c)
  /\ \A k \in DOMAIN dmrs_table : dmrs_table[k].slot \in -1 .. num_slots_per_frame - 1
                                  /\ dmrs_table[k].pattern \in Patterns

LookupInv ==
  /\ looked_up # {} => ~Throws(c)
  /\ \A r \in looked_up : r.cand \in Candidates(c) /\ r.got.pattern \in Patterns

\* What stops the search: tables that cannot be made, or a candidate beyond the
\* places for the results of its level.
StopInv ==
  pc = "exception" => Throws(c) \/ \E cd \in Candidates(c) : cd[2] >= N_CORESET_REG(c) \div 6

\* While one id is searched for and an index has one digit, every key has an entry,
\* of the slot and the candidate it is made of.
OneId == \A range \in ScramblingIds : range[1] = range[2]
OneDigit == \A cfg \in Configs : \A level \in Levels : cfg.candidates[level] <= 10

OwnEntry(slot, cd) ==
  LET k == key(start_id, cd[1], slot, cd[2])
  IN k \in DOMAIN dmrs_table /\ dmrs_table[k] = Entry(slot, Pattern(c, cd[1], cd[2]))

OwnEntryInv ==
  pc = "ready" =>
    \A slot \in 0 .. num_slots_per_frame - 1 : \A cd \in Candidates(c) : OwnEntry(slot, cd)

SearchInvariant ==
  /\ TypeInv
  /\ TableInv
  /\ LookupInv
  /\ StopInv
=============================================================================
