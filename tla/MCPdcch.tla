------------------------------ MODULE MCPdcch ------------------------------
(***************************************************************************)
(* A CORESET of eight CCEs, and up to two DCIs in it, to RNTIs in the list *)
(* or not in it.                                                           *)
(***************************************************************************)
EXTENDS PdcchInv

Numbers(a, b, d, e, f) == (0 :> a) @@ (1 :> b) @@ (2 :> d) @@ (3 :> e) @@ (4 :> f)

With(numbers) ==
  coreset([rbs |-> 48, duration |-> 1, mapping |-> "non-interleaved", bundle |-> 6,
           interleaver |-> 2, shift |-> 0, candidates |-> numbers])

\* As many candidates of level 0 as of levels 1 and 2, or none.
SameNumbers == {With(Numbers(2, 2, 2, 1, 0)), With(Numbers(0, 0, 2, 1, 0))}

\* The numbers of candidates the code takes by default (coreset.cc:38).
DefaultNumbers == {With(Numbers(8, 4, 2, 1, 0))}

TwoRntis == <<1, 2>>
TwoSizes == <<39, 41>>

DCI(l, i, r, s) == [level |-> l, idx |-> i, rnti |-> r, size |-> s]

\* One large DCI; one of four CCEs and one of a single one, found last.
Mixed == {{DCI(3, 0, 2, 39)}, {DCI(2, 1, 1, 39), DCI(0, 0, 2, 41)}, {DCI(1, 0, 3, 39)}}

Traffic(x) == {S \in Mixed : \A d \in S : d.idx < x.candidates[d.level]}
=============================================================================
