------------------------------ MODULE Coreset ------------------------------
(***************************************************************************)
(* The control resource set: what the setters of src/coreset.cc accept,    *)
(* and how src/pdcch.cc maps a candidate to control channel elements       *)
(* (CCEs), these to resource element groups (REGs) and these to resource   *)
(* blocks.                                                                 *)
(*                                                                         *)
(* A CORESET is a record                                                   *)
(*   rbs          frequency_domain_resources: resource blocks per symbol   *)
(*   duration     symbols                                                  *)
(*   mapping      cce_reg_mapping_type                                     *)
(*   bundle       reg_bundlesize                                           *)
(*   interleaver  interleaver_size                                         *)
(*   shift        shift_index                                              *)
(*   candidates   per level 0 to 4, the number of candidates of 2^level    *)
(*                CCEs                                                     *)
(* A resource block of the j-th symbol of the CORESET has the number it    *)
(* has in its symbol plus j * rbs.                                         *)
(***************************************************************************)
EXTENDS Naturals

CCE_REG == 6
Levels == 0 .. 4
nid_max == 1007

\* Mutant of isvalid_coreset_reg_bundlesize: any bundle may be interleaved.
isvalid_bundlesizeAnyDuration(size, mapping, duration) ==
  \/ size = 6
  \/ mapping = "interleaved" /\ size \in {2, 3}

isvalid_coreset_reg_bundlesize(size, mapping, duration) ==
  \/ size = 6
  \/ mapping = "interleaved" /\ duration \in {1, 2} /\ size = 2
  \/ mapping = "interleaved" /\ duration = 3 /\ size = 3

ValidOr(value, valid, default) == IF value \in valid THEN value ELSE default

\* The constructor: a value its setter rejects is replaced.
coreset(cfg) ==
  LET duration == ValidOr(cfg.duration, {1, 2, 3}, 1)
      mapping  == ValidOr(cfg.mapping, {"interleaved", "non-interleaved"}, "non-interleaved")
  IN [cfg EXCEPT !.duration    = duration,
                 !.mapping     = mapping,
                 !.bundle      = IF isvalid_coreset_reg_bundlesize(@, mapping, duration) THEN @ ELSE 6,
                 !.interleaver = ValidOr(@, {2, 3, 6}, 2),
                 !.shift       = ValidOr(@, 0 .. nid_max, 0)]

N_CORESET_REG(c) == c.rbs * c.duration
num_CCE(c) == (N_CORESET_REG(c) \div CCE_REG) % 256

\* The interleaver has as many rows as its size, and columns as fit; what does
\* not fit is in no bundle of its output, interleaved or not.
Columns(c) == N_CORESET_REG(c) \div (c.interleaver * c.bundle)
Mapped(c) == Columns(c) * c.interleaver

cce_reg_interleaving(c) ==
  [j \in 0 .. Mapped(c) - 1 |->
     IF c.mapping = "interleaved"
     THEN ((j % c.interleaver) * Columns(c) + j \div c.interleaver + c.shift)
            % (N_CORESET_REG(c) \div c.bundle)
     ELSE j]

\* REGs are numbered in time first.
rb_complete_list(c, reg) == reg \div c.duration + (reg % c.duration) * c.rbs

get_rb_interleaved(c) ==
  LET f == cce_reg_interleaving(c)
  IN [k \in 0 .. Mapped(c) * c.bundle - 1 |->
        rb_complete_list(c, c.bundle * f[k \div c.bundle] + (k % c.bundle))]

\* A level whose candidates do not fit at all is a division by zero.
Fits(c, level) == num_CCE(c) \div 2 ^ level > 0

\* Mutant of get_candidates: the position is not scaled to the level.
get_candidates_unscaled(c, level, idx, n) ==
  LET AL    == 2 ^ level
      start == AL * (((idx * num_CCE(c)) \div n) % (num_CCE(c) \div AL))
  IN start .. start + AL - 1

\* The CCEs of the idx-th of n candidates.  Every caller asks for the common
\* search space, where compute_Yp is 0.
get_candidates(c, level, idx, n) ==
  LET AL    == 2 ^ level
      start == AL * (((idx * num_CCE(c)) \div (AL * n)) % (num_CCE(c) \div AL))
  IN start .. start + AL - 1

\* rb_interleaved.at() throws when the REGs of a CCE are not in the list.
InList(c, cces) == \A cce \in cces : CCE_REG * (cce + 1) <= Mapped(c) * c.bundle
=============================================================================
