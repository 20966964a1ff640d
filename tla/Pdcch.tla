------------------------------- MODULE Pdcch -------------------------------
(***************************************************************************)
(* Blind decoding of the PDCCH (src/pdcch.cc): for every CORESET received, *)
(* pdcch::process decodes the candidates whose DMRS correlated, from the   *)
(* highest aggregation level down, trying the RNTIs of found_RNTI_list,    *)
(* and moves the RNTI of a DCI it finds to the head of that list.          *)
(*                                                                         *)
(* The channel mapper, and with it the pdcch and its list, is shared by    *)
(* all flows of a bandwidth part: a flow that was released goes on with    *)
(* the chunks in its queue while the flow acquired after it starts.  Only  *)
(* update_RNTI_list holds the semaphore rnti_list_mutex.                   *)
(***************************************************************************)
EXTENDS Coreset, Integers, FiniteSets, Sequences, SequencesExt

CONSTANTS
  Threads,           \* threads of the flows of a bandwidth part
  Coresets,          \* values of coreset_info
  Rntis,             \* found_RNTI_list as initialize_RNTI_list makes it
  Sizes,             \* dci_sizes_list
  rnti_list_length,
  RepetitionOnly,    \* rnti_start < 65520 & rnti_end > 100
  Transmissions(_)   \* sets of DCIs a CORESET may carry: [level, idx, rnti, size]

ASSUME PdcchAssumption ==
  /\ Rntis \in Seq(Nat \ {0}) /\ Len(Rntis) > 0 /\ IsInjective(Rntis)
  /\ Sizes \in Seq(Nat) /\ Len(Sizes) > 0
  /\ rnti_list_length \in Nat
  /\ RepetitionOnly \in BOOLEAN
  /\ \A k \in Coresets :
       /\ k.candidates \in [Levels -> 0 .. 255]
       /\ Transmissions(k) \subseteq SUBSET [level : Levels, idx : Nat, rnti : Nat, size : Nat]

VARIABLES
  c,                 \* coreset_info
  active,            \* the threads there are
  found_RNTI_list,
  rnti_list_mutex,
  pc,
  job,               \* the local variables of process, per thread
  reported           \* history: the DCIs found in the CORESET a thread is at

vars == <<c, active, found_RNTI_list, rnti_list_mutex, pc, job, reported>>
shared == <<found_RNTI_list, rnti_list_mutex>>
fixed == <<c, active>>

NoJob == [sent |-> {}, found |-> {}, todo |-> {}, AL |-> 0, dci_idx |-> 0, rnti_i |-> 0,
          rnti |-> 0, outp |-> 0]

PCs == {"idle", "next", "bound", "at", "decode", "acquire", "erase", "insert", "release", "decoded",
        "exception"}

TypeOK ==
  /\ c \in Coresets
  /\ active \subseteq Threads
  /\ found_RNTI_list \in Seq(Nat)
  /\ rnti_list_mutex \in {0, 1}
  /\ pc \in [Threads -> PCs]
  /\ \A t \in Threads :
       /\ job[t].AL \in 0 .. 6
       /\ job[t].dci_idx \in 0 .. Len(Sizes)
       /\ job[t].rnti_i \in 0 .. Len(Rntis)
       /\ job[t].outp \in {0, 1}
  /\ reported \in [Threads -> Seq([level : Levels, idx : Nat, rnti : Nat, size : Nat])]

Init ==
  /\ c \in Coresets
  /\ active \in SUBSET Threads \ {{}}
  /\ found_RNTI_list = Rntis
  /\ rnti_list_mutex = 1
  /\ pc = [t \in Threads |-> "idle"]
  /\ job = [t \in Threads |-> NoJob]
  /\ reported = [t \in Threads |-> <<>>]

-----------------------------------------------------------------------------
(* What is received.                                                       *)

CCEs(k, x) == get_candidates(k, x.level, x.idx, k.candidates[x.level])

\* The candidates of correlate_DMRS.
Candidates(k) == {x \in [level : Levels, idx : 0 .. 255] : x.idx < k.candidates[x.level]}

\* The candidates whose DMRS is that of a DCI: its own, and those within it.
Covered(sent, x) == \E d \in sent : CCEs(c, x) \subseteq CCEs(c, d)
Carries(sent, x) == \E d \in sent : d.level = x.level /\ d.idx = x.idx

\* The correlation of a DCI exceeds its threshold; those of the candidates within
\* it all do, or none does.
correlate_DMRS(sent, within) ==
  {x \in Candidates(c) : IF within THEN Covered(sent, x) ELSE Carries(sent, x)}

-----------------------------------------------------------------------------
(* process: the loops over the levels (from AL = NUM_ALs down, a level is  *)
(* AL - 1), the DCIs, and the sizes.                                       *)

Goto(t, label, update) ==
  /\ pc' = [pc EXCEPT ![t] = label]
  /\ job' = [job EXCEPT ![t] = update]

\* found_dci_list is in the order of the loops that filled it.
First(dcis) == CHOOSE x \in dcis : \A y \in dcis : x.idx <= y.idx

cand(t) == First(job[t].todo)
level(t) == job[t].AL - 1

Receive(t) ==
  /\ t \in active
  /\ pc[t] = "idle"
  /\ \E sent \in Transmissions(c), within \in BOOLEAN :
       Goto(t, "next",
            [NoJob EXCEPT !.sent = sent, !.found = correlate_DMRS(sent, within), !.AL = 6])
  /\ reported' = [reported EXCEPT ![t] = <<>>]
  /\ UNCHANGED <<fixed, shared>>

\* get_found_dci_list_per_AL, down to the next level with candidates.
Remaining(t) == {x.level : x \in job[t].found} \cap 0 .. job[t].AL - 2

NextLevel(t) ==
  /\ pc[t] = "next"
  /\ job[t].todo = {}
  /\ Remaining(t) # {}
  /\ LET l == Max(Remaining(t)) IN
     Goto(t, "next", [job[t] EXCEPT !.AL = l + 1,
                                    !.todo = {x \in job[t].found : x.level = l}])
  /\ UNCHANGED <<fixed, shared, reported>>

Finish(t) ==
  /\ pc[t] = "next"
  /\ job[t].todo = {}
  /\ Remaining(t) = {}
  /\ Goto(t, "idle", [NoJob EXCEPT !.sent = job[t].sent])
  /\ UNCHANGED <<fixed, shared, reported>>

\* Levels 3 and 4 are decoded once, with rnti 0, unless only special RNTIs are
\* looked for.
Single(t) == job[t].AL > 3 /\ RepetitionOnly

NextSize(t) ==
  /\ pc[t] = "next"
  /\ job[t].todo # {}
  /\ job[t].dci_idx < Len(Sizes)
  /\ Goto(t, IF Single(t) THEN "decode" ELSE "bound",
          [job[t] EXCEPT !.dci_idx = @ + 1, !.rnti_i = 0, !.rnti = 0, !.outp = 0])
  /\ UNCHANGED <<fixed, shared, reported>>

NextDci(t) ==
  /\ pc[t] = "next"
  /\ job[t].todo # {}
  /\ job[t].dci_idx = Len(Sizes)
  /\ Goto(t, "next", [job[t] EXCEPT !.todo = @ \ {cand(t)}, !.dci_idx = 0])
  /\ UNCHANGED <<fixed, shared, reported>>

-----------------------------------------------------------------------------
(* After the RNTIs.                                                        *)

\* Mutant of delete_lower_AL_dcis: all of a lower level.
delete_lower(t) ==
  IF c.candidates[0] = 0 THEN job[t].found
  ELSE {x \in job[t].found : x.level >= level(t)}

\* What is left of found_dci_list: the index 1 >> AL is 0 for every level, so that
\* the CCEs of all candidates are computed with the number of candidates of
\* level 0, and nothing is deleted if there are none.
CCEsToDelete(k, x) == get_candidates(k, x.level, x.idx, k.candidates[0])

delete_lower_AL_dcis(t) ==
  IF c.candidates[0] = 0 THEN job[t].found
  ELSE {x \in job[t].found :
          x.level >= level(t) \/ ~(CCEsToDelete(c, x) \subseteq CCEsToDelete(c, cand(t)))}

Found(t) == job[t].outp = 1 /\ job[t].AL > 1

\* A DCI that was found ends the loop over the sizes.
LeaveRntis(t) ==
  Goto(t, "next",
       IF Found(t)
       THEN [job[t] EXCEPT !.found = delete_lower_AL_dcis(t), !.todo = @ \ {cand(t)}, !.dci_idx = 0]
       ELSE job[t])

-----------------------------------------------------------------------------
(* The loop over the RNTIs: the size of the list and its element are read  *)
(* one after the other, without the semaphore.                             *)

Limit(t) ==
  IF job[t].AL > 3 THEN Len(found_RNTI_list) ELSE Min({rnti_list_length, Len(found_RNTI_list)})

CheckBound(t) ==
  /\ pc[t] = "bound"
  /\ IF job[t].rnti_i < Limit(t) THEN Goto(t, "at", job[t]) ELSE LeaveRntis(t)
  /\ UNCHANGED <<fixed, shared, reported>>

At(t) ==
  /\ pc[t] = "at"
  /\ IF job[t].rnti_i < Len(found_RNTI_list)
     THEN Goto(t, "decode", [job[t] EXCEPT !.rnti = found_RNTI_list[job[t].rnti_i + 1]])
     ELSE Goto(t, "exception", job[t])
  /\ UNCHANGED <<fixed, shared, reported>>

\* At levels 3 and 4 the sequence is longer than the code, and the repetition tells
\* the RNTI of a DCI from the others, if there are others, in the list.
ByRepetition(t) ==
  {d.rnti : d \in {x \in job[t].sent : /\ x.level = level(t) /\ x.idx = cand(t).idx
                                       /\ Len(found_RNTI_list) > 1
                                       /\ \E k \in DOMAIN found_RNTI_list :
                                            found_RNTI_list[k] = x.rnti}}

Tried(t) ==
  IF job[t].AL > 3 /\ ByRepetition(t) # {} THEN CHOOSE r \in ByRepetition(t) : TRUE
                                           ELSE job[t].rnti

\* decode_pdcch: the checksum is right if a DCI of this size was sent to the RNTI.
decode_pdcch(t) ==
  LET dci == [level |-> level(t), idx |-> cand(t).idx, rnti |-> Tried(t),
              size |-> Sizes[job[t].dci_idx]] IN
  /\ pc[t] = "decode"
  /\ IF dci \in job[t].sent
     THEN /\ Goto(t, "acquire", [job[t] EXCEPT !.outp = 1, !.rnti = dci.rnti])
          /\ reported' = [reported EXCEPT ![t] = Append(@, dci)]
     ELSE /\ Goto(t, "decoded", [job[t] EXCEPT !.outp = 0])
          /\ UNCHANGED reported
  /\ UNCHANGED <<fixed, shared>>

-----------------------------------------------------------------------------
(* update_RNTI_list                                                        *)

\* Mutant of Acquire: the semaphore is not waited for.
AcquireNothing(t) ==
  /\ pc[t] = "acquire"
  /\ Goto(t, IF Contains(found_RNTI_list, job[t].rnti) THEN "erase" ELSE "release", job[t])
  /\ UNCHANGED <<fixed, shared, reported>>

Acquire(t) ==
  /\ pc[t] = "acquire"
  /\ rnti_list_mutex = 1
  /\ rnti_list_mutex' = 0
  /\ Goto(t, IF Contains(found_RNTI_list, job[t].rnti) THEN "erase" ELSE "release", job[t])
  /\ UNCHANGED <<fixed, found_RNTI_list, reported>>

Erase(t) ==
  /\ pc[t] = "erase"
  /\ found_RNTI_list' = RemoveFirst(found_RNTI_list, job[t].rnti)
  /\ Goto(t, "insert", job[t])
  /\ UNCHANGED <<fixed, rnti_list_mutex, reported>>

Insert(t) ==
  /\ pc[t] = "insert"
  /\ found_RNTI_list' = <<job[t].rnti>> \o found_RNTI_list
  /\ Goto(t, "release", job[t])
  /\ UNCHANGED <<fixed, rnti_list_mutex, reported>>

\* Mutant of Release: not when the RNTI was found in the list.
ReleaseIfMissing(t) ==
  /\ pc[t] = "release"
  /\ rnti_list_mutex' = IF Contains(found_RNTI_list, job[t].rnti) THEN 0 ELSE 1
  /\ Goto(t, "decoded", job[t])
  /\ UNCHANGED <<fixed, found_RNTI_list, reported>>

Release(t) ==
  /\ pc[t] = "release"
  /\ rnti_list_mutex' = rnti_list_mutex + 1
  /\ Goto(t, "decoded", job[t])
  /\ UNCHANGED <<fixed, found_RNTI_list, reported>>

-----------------------------------------------------------------------------
(* After decode_pdcch.                                                     *)

\* Below level 3 the loop over the RNTIs ends with the first DCI; above, it goes
\* on, and its result is that of the last RNTI.
Decoded(t) ==
  /\ pc[t] = "decoded"
  /\ IF Single(t) \/ (job[t].AL <= 3 /\ Found(t))
     THEN LeaveRntis(t)
     ELSE Goto(t, "bound", [job[t] EXCEPT !.rnti_i = @ + 1])
  /\ UNCHANGED <<fixed, shared, reported>>

Work(t) ==
  \/ NextLevel(t) \/ Finish(t) \/ NextDci(t) \/ NextSize(t)
  \/ CheckBound(t) \/ At(t) \/ decode_pdcch(t)
  \/ Acquire(t) \/ Erase(t) \/ Insert(t) \/ Release(t)
  \/ Decoded(t)

\* An exception nobody catches ends the program.
Running == \A t \in Threads : pc[t] # "exception"

Next == Running /\ \E t \in Threads : Receive(t) \/ Work(t)

\* Strong fairness: std::binary_semaphore does not starve one of two threads.
Spec ==
  /\ Init
  /\ [][Next]_vars
  /\ \A t \in Threads : WF_vars(Running /\ Work(t)) /\ SF_vars(Running /\ Acquire(t))

-----------------------------------------------------------------------------
(* Properties.                                                             *)

\* Whatever the two threads find at the same time, no RNTI is lost from the list
\* and none is in it twice: a lost one would never be looked for again.
RntiListKept ==
  rnti_list_mutex = 1 =>
    Len(found_RNTI_list) = Len(Rntis) /\ Range(found_RNTI_list) = Range(Rntis)

\* "Look for DCIs across the whole PDCCH region" (pdcch.cc:147): a thread that has
\* the pdcch for itself reports every DCI sent to an RNTI of the list, once, even
\* though it deletes candidates and reorders the list while it walks through it.
EveryDciFound ==
  \A t \in Threads :
    active = {t} /\ pc[t] = "idle" /\ RepetitionOnly /\ Len(Rntis) > 1
      /\ rnti_list_length >= Len(Rntis) =>
      /\ IsInjective(reported[t])
      /\ Range(reported[t]) = {d \in job[t].sent : Contains(Rntis, d.rnti)}

\* "If the decoding succeeds, delete from the list of Possible DCIs the ones that
\* that have a lower AL and correspond to the DCI just decoded" (pdcch.cc:220),
\* those whose "candidate_idx is a subset of the decoded candidate": a DCI that was
\* found takes out of the search only candidates that lie within it.
DeletedAreCovered ==
  [][\A t \in Threads :
       job[t].AL > 0 /\ pc'[t] = "next" =>
         \A x \in job[t].found \ job'[t].found : CCEs(c, x) \subseteq CCEs(c, cand(t))]_vars

\* Every call of process returns, or ends the program.
ProcessReturns == \A t \in Threads : (pc[t] = "next") ~> (pc[t] = "idle" \/ ~Running)
=============================================================================
