------------------------------ MODULE SyncerInv ------------------------------
(***************************************************************************)
(* The inductive invariants of Syncer: what holds of all surroundings, and *)
(* what holds of the regular ones.                                         *)
(***************************************************************************)
EXTENDS Syncer

\* A chunk is 8 ms and the period 20 ms (sniffer.cc:52, syncer.h:44), so that both are
\* multiples of half a chunk; the window reaches as far behind the PSS as the block.
ASSUME TimeAssumption ==
  /\ Chunk % 2 = 0
  /\ 5 * Chunk = 2 * Period
  /\ MinSize < Chunk /\ Lead <= Chunk
  /\ Lead + SsbLength <= Window

Half == Chunk \div 2
BlockEnd == Lead + SsbLength

Id(c) == 3 * c.nid1 + c.nid2

\* The stages before the relay, in which the queue may still be what was received.
InCall == pc \in {"wait", "find_pss", "fine_sync", "find_sss"}

TypeInv ==
  /\ TypeOK
  /\ Cells \subseteq [nid1 : 0 .. 335, nid2 : 0 .. 2]
  /\ acquired + finishing <= MaxFlows
  /\ InCall => first >= 0 /\ size <= Chunk /\ first + size <= received

-----------------------------------------------------------------------------
(* Of all surroundings.                                                    *)

Served == acquired >= NumBwps /\ (NumBwps > 0 => mapper_cell # None)

\* While on_mib_found acquires flows, what it still has to acquire is all that lacks.
ServedInv ==
  /\ pc = "acquire" => /\ state = "find_sss"
                       /\ acquired + to_acquire >= NumBwps
                       /\ NumBwps > 0 => mapper_cell # None
  /\ state \in {"relay", "wait"} => Served

Apart == \A c, d \in Cells : c # d => c.nid2 # d.nid2

\* Once there are mappers the PSS is locked to their cell, or about to be.
CellInv ==
  /\ block \in Cells => nid2 = block.nid2
  /\ block \in Cells \/ mapper_cell # None => nid2 \in pss_indices
  /\ pc = "acquire" => block \in Cells /\ cell_id = Id(block)
  /\ mapper_cell # None =>
       \E c \in Cells : /\ mapper_cell = Id(c)
                        /\ pss_indices = {c.nid2} \/ (pc = "acquire" /\ nid2 = c.nid2)
  /\ MappersOfCell

-----------------------------------------------------------------------------
(* Of regular surroundings.                                                *)

\* A stage in which the queue has still to be dealt with.
Due == pc \in {"wait", "acquire"} \/ (pc \in {"find_pss", "fine_sync", "find_sss", "relay"} /\ state = pc)

\* No state is left for a later call but to wait or to search.
StageInv ==
  /\ pc # "undefined"
  /\ pc \in {"idle", "wait"} => state \in {"wait", "find_pss"}
  /\ pc \in {"find_pss", "fine_sync", "find_sss", "relay"} => state \in {"wait", "find_pss", pc}
  /\ pc = "acquire" => state = "find_sss"

\* Whole chunks are received; the queue is the last of them, up to where it is cut.
PositionInv ==
  /\ running => received % Chunk = 0
  /\ InCall => first % Chunk = 0
  /\ Due => first + size = received
  /\ Due /\ InCall /\ running => size = Chunk

\* What is not dealt with has not been counted, the rest has.
CountInv ==
  /\ sent.metadata = sent.from
  /\ Due => counting_samples = first
  /\ running /\ ~Due => counting_samples = received

\* The slot of a block starts at the stream position x.
Slot(x) == \A c \in Cells : (x - phase[c]) % Period = 0

FoundInv ==
  Due /\ pc \in {"fine_sync", "find_sss"} /\ block # Noise =>
    /\ Slot(first + offset)
    /\ offset \in 1 .. Chunk - BlockEnd - 1
    /\ offset < size

LockedInv ==
  /\ pc = "acquire" => acquired + to_acquire = NumBwps /\ block \in Cells /\ cell_id = Id(block)
  /\ pc = "relay" /\ state = "relay" => \A c \in Cells : cell_id = Id(c)
  /\ pc = "acquire" \/ (pc = "relay" /\ state = "relay") => Slot(first)
  /\ state \in {"relay", "wait"} => acquired = NumBwps
  /\ \A c \in Cells : c.nid2 \in pss_indices
  /\ in_synch => \A c \in Cells : nid1 = c.nid1

\* The time since the last block is counted from the start of its slot.  It never is
\* exactly a period when a chunk ends, after which no chunk would be searched.
WaitInv ==
  /\ state \in {"relay", "wait"} => in_synch
  /\ state = "wait" => Slot(received - waiting_for_pss)
  /\ state = "wait" /\ pc = "wait" => waiting_for_pss - size < Period
  /\ state = "wait" /\ pc # "wait" /\ running => waiting_for_pss < Period
  /\ in_synch /\ state \in {"find_pss", "fine_sync", "find_sss"} => waiting_for_pss > Period
  /\ pc = "wait" /\ state = "find_pss" => ~in_synch
  /\ in_synch /\ pc = "find_pss" /\ state = "find_pss" =>
       waiting_for_pss - size < Period /\ Slot(received - waiting_for_pss)

RegularParts ==
  StageInv /\ PositionInv /\ CountInv /\ FoundInv /\ LockedInv /\ WaitInv

RegularInv == Regular => RegularParts

-----------------------------------------------------------------------------
(* When no block is missed either.                                         *)

\* A block that will be decoded, if its group is not cut.
Whole == block \in Cells /\ offset + BlockEnd < reach

\* The flows that were acquired are fed without a gap for as long as samples come.
FedInv ==
  /\ ~gap
  /\ acquired > 0 /\ (running \/ Due) => fed = counting_samples
  /\ acquired > 0 /\ running =>
       \/ state \in {"wait", "relay"} \/ pc = "acquire"
       \/ in_synch /\ pc = "find_pss" /\ state = "find_pss"
       \/ in_synch /\ pc \in {"fine_sync", "find_sss"} /\ state = pc /\ Whole

\* No block has passed before the first flow is acquired.
FirstInv ==
  acquired = 0 /\ running /\ pc # "acquire" =>
    /\ ~in_synch
    /\ state \notin {"wait", "relay"}
    /\ ~Due => \A c \in Cells : received <= phase[c]
    /\ Due => \A c \in Cells : first <= phase[c]
    /\ Due /\ pc \in {"fine_sync", "find_sss"} =>
         Whole \/ \A c \in Cells : received <= phase[c]

TrackInv ==
  Regular /\ ~lossy =>
    /\ FedInv
    /\ (\A c \in Cells : c.nid1 < Nid1Width) => FirstInv
=============================================================================
