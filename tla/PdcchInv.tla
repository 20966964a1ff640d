------------------------------ MODULE PdcchInv ------------------------------
(***************************************************************************)
(* The inductive invariants of Pdcch: about found_RNTI_list and the        *)
(* semaphore that its updates hold (UpdateInv), about the candidates a     *)
(* thread has before it (JobInv), and about what a thread that has the     *)
(* pdcch for itself has reported (WalkInv); and what is assumed of the     *)
(* CORESETs and of what is sent.                                           *)
(***************************************************************************)
EXTENDS Pdcch

-----------------------------------------------------------------------------
(* Hypotheses.                                                             *)

\* The number of candidates of level 0, with which delete_lower_AL_dcis computes all
\* places, gives those of every candidate, or is 0 and nothing is deleted.
PlacesAgree ==
  \A k \in Coresets : k.candidates[0] > 0 =>
    \A x \in Candidates(k) : CCEsToDelete(k, x) = CCEs(k, x)

\* A DCI is sent on a candidate, with a size that is tried and an RNTI that is one,
\* and no DCI on top of another.
SentApart ==
  \A k \in Coresets : \A S \in Transmissions(k) :
    /\ \A d \in S : d.idx < k.candidates[d.level] /\ d.rnti # 0 /\ d.size \in Range(Sizes)
    /\ \A d, e \in S : d # e => ~(CCEs(k, d) \subseteq CCEs(k, e))

SizesDiffer == IsInjective(Sizes)

-----------------------------------------------------------------------------
(* The list of RNTIs.                                                      *)

\* The steps of update_RNTI_list between its acquire() and its release().
Updating(t) == pc[t] \in {"erase", "insert", "release"}

\* The list is the initial one in some order, without the RNTIs that are out: that
\* of a thread that has taken it out and not put it in front yet.
AllBut(list, out) ==
  /\ IsInjective(list)
  /\ Range(list) = Range(Rntis) \ out
  /\ Len(list) = Len(Rntis) - Cardinality(out)

UpdateInv ==
  /\ pc \in [Threads -> PCs]
  /\ DOMAIN job = Threads
  /\ found_RNTI_list \in Seq(Nat)
  /\ rnti_list_mutex \in {0, 1}
  /\ rnti_list_mutex = 1 => \A t \in Threads : ~Updating(t)
  /\ \A t, u \in Threads : Updating(t) /\ Updating(u) => t = u
  /\ \A t \in Threads : pc[t] \in {"erase", "insert"} => job[t].rnti \in Range(Rntis)
  /\ (\A t \in Threads : pc[t] # "insert") => AllBut(found_RNTI_list, {})
  /\ \A t \in Threads : pc[t] = "insert" => AllBut(found_RNTI_list, {job[t].rnti})

-----------------------------------------------------------------------------
(* The candidates a thread has before it.                                  *)

DCIs == [level : Levels, idx : Nat, rnti : Nat, size : Nat]

Jobs ==
  [sent : {{}} \cup Transmissions(c), found : SUBSET Candidates(c), todo : SUBSET Candidates(c),
   AL : 0 .. 6, dci_idx : 0 .. Len(Sizes), rnti_i : 0 .. Len(Rntis), rnti : Nat, outp : {0, 1}]

JobOK(p, j) ==
  /\ j \in Jobs
  /\ j.todo \subseteq {x \in j.found : x.level = j.AL - 1}
  /\ j.todo = {} => j.dci_idx = 0
  /\ p = "idle" => j.AL = 0 /\ j.todo = {}
  /\ p # "idle" => j.AL > 0
  /\ p \notin {"idle", "next"} => j.todo # {} /\ j.dci_idx > 0
  /\ p \notin {"idle", "next", "bound"} => j.rnti_i < Len(Rntis)

JobsInv ==
  /\ c \in Coresets /\ active \subseteq Threads
  /\ pc \in [Threads -> PCs] /\ DOMAIN job = Threads
  /\ \A t \in Threads : JobOK(pc[t], job[t]) /\ (t \notin active => pc[t] = "idle")
  /\ reported \in [Threads -> Seq(DCIs)]

-----------------------------------------------------------------------------
(* What a thread that is alone has reported.                               *)

Alone(t) ==
  active = {t} /\ RepetitionOnly /\ Len(Rntis) > 1 /\ rnti_list_length >= Len(Rntis)

Wanted(t) == {d \in job[t].sent : d.rnti \in Range(Rntis)}
Reported(t) == Range(reported[t])
place(d) == [level |-> d.level, idx |-> d.idx]

\* The DCI that decode_pdcch has found.
dci(t) ==
  [level |-> level(t), idx |-> cand(t).idx, rnti |-> job[t].rnti, size |-> Sizes[job[t].dci_idx]]

\* An RNTI has been tried with the size the thread is at.
RntiTried(t, r) ==
  \/ pc[t] \in {"acquire", "erase", "insert", "release"}
  \/ pc[t] = "decoded" /\ Single(t)
  \/ \E i \in 1 .. job[t].rnti_i + (IF pc[t] = "decoded" THEN 1 ELSE 0) : found_RNTI_list[i] = r

\* A size and an RNTI have been tried at the candidate the thread is at.
Behind(t, d) ==
  LET k == job[t].dci_idx IN
  \/ \E i \in 1 .. (IF pc[t] = "next" THEN k ELSE k - 1) : Sizes[i] = d.size
  \/ pc[t] # "next" /\ Sizes[k] = d.size /\ RntiTried(t, d.rnti)

Here(t, d) == job[t].todo # {} /\ place(d) = cand(t)
Done(t, d) ==
  IF Here(t, d) THEN Behind(t, d) ELSE d.level >= level(t) /\ place(d) \notin job[t].todo

\* Where the walk through the RNTIs is.
PositionInv(t) ==
  /\ pc[t] \in {"bound", "at"} => ~Single(t) /\ ~Found(t)
  /\ pc[t] \notin {"idle", "next"} /\ Single(t) => job[t].rnti_i = 0
  /\ pc[t] = "decode" => job[t].rnti = IF Single(t) THEN 0 ELSE found_RNTI_list[job[t].rnti_i + 1]
  /\ pc[t] \in {"acquire", "erase", "insert", "release"} \/ (pc[t] = "decoded" /\ job[t].outp = 1) =>
       job[t].outp = 1 /\ dci(t) \in Reported(t)
  /\ pc[t] = "release" \/ (pc[t] = "decoded" /\ job[t].outp = 1) => found_RNTI_list[1] = job[t].rnti
  /\ pc[t] # "exception"

WalkInv(t) ==
  /\ IsInjective(reported[t])
  /\ Reported(t) \subseteq Wanted(t)
  /\ \A d \in Wanted(t) : d.level < level(t) => place(d) \in job[t].found
  /\ \A d \in Wanted(t) : d \in Reported(t) <=> Done(t, d)
  /\ PositionInv(t)

AloneInv == \A t \in Threads : Alone(t) => WalkInv(t)
=============================================================================
