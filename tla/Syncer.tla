------------------------------- MODULE Syncer -------------------------------
(***************************************************************************)
(* The synchronizer (src/syncer.cc): process receives one chunk of samples *)
(* after the other, looks for a synchronization signal block (SSB), decodes *)
(* it (src/ssb_mapper.cc, src/pbch.cc) and from then on relays the samples, *)
(* aligned to the slot the block was found in, to a flow per bandwidth     *)
(* part, while it waits for the next block, a period later.                *)
(*                                                                         *)
(* Time and positions in the stream are counted in units of two OFDM       *)
(* symbols.  Everything here runs in one thread.  A call of process runs   *)
(* through the stages wait, find_pss, fine_sync, find_sss and relay, each  *)
(* of which does something only when the state has its name.               *)
(***************************************************************************)
EXTENDS Integers, FiniteSets, FiniteSetsExt

CONSTANTS
  Chunk,         \* size of a chunk: 8 ms (sniffer::start)
  Period,        \* ssb_period: 20 ms
  Window,        \* pss_window_size: 8 symbols
  MinSize,       \* ssb_num_samples: a chunk must exceed 10 symbols to be searched
  Lead,          \* the PSS comes two symbols after the start of its slot
  SsbLength,     \* symbols 2 to 5 of the slot carry the block
  Environments,  \* the cells that may be around (records [nid1, nid2], each with where
                 \* in a period the slot of its block starts), the configured nid_2,
                 \* and what goes wrong
  Nid1Width,     \* phy::nid1 holds values modulo this (uint8_t)
  NumBwps,       \* number of bandwidth parts in the configuration
  MaxFlows,      \* size of the flow pool
  MaxChunks,     \* bound: number of chunks
  LastSizes,     \* sizes the last chunk of a file may have
  Losses         \* numbers of samples the SDR may lose

ASSUME SyncerAssumption ==
  /\ {Chunk, Period, Nid1Width, MaxFlows} \subseteq Nat \ {0}
  /\ {Window, MinSize, Lead, SsbLength, NumBwps, MaxChunks} \subseteq Nat
  /\ \A e \in Environments :
       /\ DOMAIN e.phase \subseteq [nid1 : 0 .. 335, nid2 : 0 .. 2]
       /\ \A c \in DOMAIN e.phase : e.phase[c] \in 0 .. Period - 1
       /\ e.nid_2 \in Nat
       /\ e.lossy \in BOOLEAN
       /\ e.faults \subseteq {"decoder", "overflow"}
  /\ LastSizes \subseteq 0 .. Chunk - 1
  /\ Losses \subseteq 1 .. Period - 1

Noise == [nid1 |-> 336, nid2 |-> 3]
None == -1

VARIABLES
  phase,             \* environment: the cells, and where in a period their blocks are
  nid_2,             \* config.nid_2: the PSS to look for, 3 and more for any
  lossy,             \* environment: a block can be missed, or found where there is none
  faults,            \* environment: the decoder can return early, the SDR lose samples
  pc,                \* the stage process is in, "idle" between two calls
  state,             \* syncer::state
  first, size,       \* processing_queue: stream position of its first sample, size
  waiting_for_pss,
  counting_samples,
  in_synch,          \* phy::in_synch
  pss_indices,       \* pss_start .. pss_end
  nid1, nid2,        \* phy::nid1, phy::nid2
  block,             \* downsampled_samples: the cell (or Noise) they hold the block of
  offset,            \* sss_hint: where in the queue the slot of that block starts
  reach,             \* how far into the queue downsampled_samples goes
  mapper_cell,       \* cell id of the channel mappers, None before they exist
  to_acquire,        \* flows on_mib_found has still to acquire
  acquired,          \* flows the pool holds for the syncer
  finishing,         \* flows released that have not become available again
  \* history
  received,          \* samples received so far, and whether there will be more
  running,
  sent,              \* what was sent last: [from, len, metadata]
  fed,               \* position up to which every acquired flow has been fed
  gap,               \* an acquired flow missed some samples
  sss                \* the nid1 the SSS search reported last

queue    == <<first, size>>
tracking == <<waiting_for_pss, in_synch>>
cell     == <<pss_indices, nid1, nid2, sss>>
ssb      == <<block, offset, reach>>
flows    == <<to_acquire, acquired, finishing>>
air      == <<phase, nid_2, lossy, faults>>
history  == <<received, running, sent, fed, gap>>
vars == <<air, pc, state, queue, counting_samples, tracking, cell, ssb, mapper_cell, flows, history>>

Cells == DOMAIN phase

Stages == {"wait", "find_pss", "fine_sync", "find_sss", "relay"}

TypeOK ==
  /\ \A c \in Cells : phase[c] \in 0 .. Period - 1
  /\ nid_2 \in Nat
  /\ lossy \in BOOLEAN
  /\ faults \subseteq {"decoder", "overflow"}
  /\ pc \in Stages \cup {"idle", "acquire", "undefined"}
  /\ state \in Stages
  /\ first \in -Chunk .. Chunk * MaxChunks
  /\ size \in 0 .. 2 * Chunk
  /\ waiting_for_pss \in 0 .. Period + Chunk
  /\ counting_samples \in Nat
  /\ in_synch \in BOOLEAN
  /\ pss_indices \in {0 .. 2} \cup {{n} : n \in 0 .. 2}
  /\ nid1 \in 0 .. Nid1Width - 1
  /\ nid2 \in 0 .. 2
  /\ block \in Cells \cup {Noise}
  /\ offset \in -Lead .. Chunk
  /\ reach \in 0 .. Chunk
  /\ mapper_cell \in Nat \cup {None}
  /\ to_acquire \in 0 .. NumBwps
  /\ acquired \in 0 .. MaxFlows
  /\ finishing \in 0 .. MaxFlows
  /\ received \in 0 .. Chunk * MaxChunks
  /\ running \in BOOLEAN
  /\ sent \in [from : Int, len : Nat, metadata : Nat]
  /\ fed \in Int
  /\ gap \in BOOLEAN
  /\ sss \in {None} \cup 0 .. 335

\* phy::get_cell_id
cell_id == 3 * nid1 + nid2

Init ==
  /\ \E e \in Environments :
       phase = e.phase /\ nid_2 = e.nid_2 /\ lossy = e.lossy /\ faults = e.faults
  /\ pc = "idle"
  /\ state = "find_pss"
  /\ first = 0
  /\ size = 0
  /\ waiting_for_pss = 0
  /\ counting_samples = 0
  /\ in_synch = FALSE
  /\ pss_indices = IF nid_2 < 3 THEN {nid_2} ELSE 0 .. 2
  /\ nid1 = 0
  /\ nid2 = 0
  /\ block = Noise
  /\ offset = 0
  /\ reach = 0
  /\ mapper_cell = None
  /\ to_acquire = 0
  /\ acquired = 0
  /\ finishing = 0
  /\ received = 0
  /\ running = TRUE
  /\ sent = [from |-> 0, len |-> 0, metadata |-> 0]
  /\ fed = 0
  /\ gap = FALSE
  /\ sss = None

-----------------------------------------------------------------------------
(* The stages of process.                                                  *)

following(stage) ==
  CASE stage = "wait"      -> "find_pss"
    [] stage = "find_pss"  -> "fine_sync"
    [] stage = "fine_sync" -> "find_sss"
    [] stage = "find_sss"  -> "relay"
    [] stage = "relay"     -> "idle"

Skip ==
  /\ pc \in Stages
  /\ state # pc
  /\ pc' = following(pc)
  /\ UNCHANGED <<air, state, queue, counting_samples, tracking, cell, ssb, mapper_cell, flows,
                 history>>

At(stage) ==
  /\ pc = stage
  /\ state = stage
  /\ pc' = following(stage)

\* send_to_next_workers: n samples from the stream position from on.
Send(from, n) ==
  /\ sent' = [from |-> from, len |-> n, metadata |-> counting_samples]
  /\ counting_samples' = counting_samples + n
  /\ gap' = (gap \/ (acquired > 0 /\ from > fed))
  /\ fed' = from + n
  /\ UNCHANGED <<received, running>>

\* A new chunk replaces the queue; in_synch, the time since the last block goes
\* on, and tracking is given up when it already exceeds the period.
process(n) ==
  /\ pc = "idle"
  /\ running
  /\ received + n <= Chunk * MaxChunks
  /\ pc' = "wait"
  /\ first' = received
  /\ size' = n
  /\ received' = received + n
  /\ running' = (n = Chunk)
  /\ IF in_synch /\ waiting_for_pss > Period
     THEN waiting_for_pss' = 0 /\ in_synch' = FALSE
     ELSE /\ waiting_for_pss' = IF in_synch THEN waiting_for_pss + n ELSE waiting_for_pss
          /\ UNCHANGED in_synch
  /\ UNCHANGED <<air, state, counting_samples, cell, ssb, mapper_cell, flows, sent, fed, gap>>

\* Mutants of PssIsDue: the chunk before the right one; a window too narrow.
PssIsDueEarly == waiting_for_pss + size > Period

PssIsDueNarrow ==
  /\ waiting_for_pss > Period
  /\ waiting_for_pss - size \in 0 .. Period - Window

\* The next block is expected in this chunk.  The difference is computed in
\* size_t: below zero it would be larger than any period.
PssIsDue ==
  /\ waiting_for_pss > Period
  /\ waiting_for_pss - size \in 0 .. Period - 1

Wait ==
  /\ At("wait")
  /\ IF PssIsDue
     THEN state' = "find_pss" /\ UNCHANGED <<size, counting_samples, history>>
     ELSE Send(first, size) /\ size' = 0 /\ UNCHANGED state
  /\ UNCHANGED <<air, first, tracking, cell, ssb, mapper_cell, flows>>

-----------------------------------------------------------------------------
(* find_pss: the positions in the queue it searches, and the blocks of the *)
(* cells whose PSS is at one of them.                                      *)

SearchStart == IF in_synch THEN Max({0, Period - (waiting_for_pss - size) - Window}) ELSE 0

\* Mutant of SearchEnd: the first half only, as a comment has it.
SearchEndHalf == IF in_synch THEN Min({size, SearchStart + 2 * Window + 1}) ELSE size \div 2

SearchEnd == IF in_synch THEN Min({size, SearchStart + 2 * Window + 1}) ELSE size

Searched == SearchStart .. SearchEnd - 1

HoldsBlock(c, p) == (first + p - Lead - phase[c]) % Period = 0

Detectable == {cp \in Cells \X Searched : cp[1].nid2 \in pss_indices /\ HoldsBlock(cp[1], cp[2])}

PssFound ==
  /\ At("find_pss")
  /\ size > MinSize
  /\ \E cp \in Detectable :
       /\ block' = cp[1]
       /\ offset' = cp[2] - Lead
       /\ reach' = SearchEnd
       /\ nid2' = cp[1].nid2
  /\ state' = "fine_sync"
  /\ UNCHANGED <<air, queue, counting_samples, tracking, pss_indices, nid1, sss, mapper_cell,
                 flows, history>>

\* A peak of the correlation that is not the PSS of a cell: the threshold is the
\* average itself, so that without a cell's PSS one is found all the same.
FalseAlarm ==
  /\ At("find_pss")
  /\ lossy \/ Detectable = {}
  /\ size > MinSize
  /\ Searched # {}
  /\ block' = Noise
  /\ offset' = SearchStart - Lead
  /\ reach' = SearchEnd
  /\ nid2' \in pss_indices
  /\ state' = "fine_sync"
  /\ UNCHANGED <<air, queue, counting_samples, tracking, pss_indices, nid1, sss, mapper_cell,
                 flows, history>>

PssNotFound ==
  /\ At("find_pss")
  /\ size > MinSize
  /\ lossy \/ Detectable = {}
  /\ counting_samples' = counting_samples + size
  /\ UNCHANGED <<air, state, queue, tracking, cell, ssb, mapper_cell, flows, history>>

\* find_pss does nothing with a chunk that is too short.
TooShort ==
  /\ At("find_pss")
  /\ size <= MinSize
  /\ UNCHANGED <<air, state, queue, counting_samples, tracking, cell, ssb, mapper_cell, flows,
                 history>>

\* fine_sync estimates and corrects the frequency offset, which is not modelled.
FineSync ==
  /\ At("fine_sync")
  /\ state' = "find_sss"
  /\ UNCHANGED <<air, queue, counting_samples, tracking, cell, ssb, mapper_cell, flows, history>>

-----------------------------------------------------------------------------
(* find_sss: the block is demodulated and goes through ssb_mapper::process *)
(* and pbch::process, which call back into the syncer.                     *)

\* Mutant of on_sync_lost: the chunk is not counted.
on_sync_lostUncounted ==
  /\ state' = "find_pss"
  /\ UNCHANGED counting_samples

on_sync_lost ==
  /\ state' = "find_pss"
  /\ counting_samples' = counting_samples + size

\* The SSS search is skipped in_synch; otherwise it finds the cell's nid1 (of
\* noise, any), which on_sss_found stores in the eight bits of phy::nid1.
SearchSss ==
  IF in_synch
  THEN UNCHANGED <<nid1, sss>>
  ELSE /\ sss' \in IF block = Noise THEN {c.nid1 : c \in Cells} ELSE {block.nid1}
       /\ nid1' = sss' % Nid1Width

\* find_pss keeps ten symbols of the downsampled signal.  In the window searched in
\* synch there are never ten left after the PSS: the erase then has its first
\* iterator behind its last, which leaves the vector with that size, and old memory
\* where the signal ends.  That does harm when the four symbols of the block, and
\* the prefix fine_sync reads after them, are not all in the signal.
Truncated == offset + Lead + SsbLength >= reach

SssNotFound ==
  /\ At("find_sss")
  /\ ~in_synch
  /\ lossy \/ Truncated \/ block = Noise
  /\ on_sync_lost
  /\ UNCHANGED <<air, queue, tracking, cell, ssb, mapper_cell, flows, history>>

\* The PBCH is scrambled with the cell id, and the block must have fitted in the
\* signal it was found in; the CRC fails otherwise.
Decodable ==
  /\ block # Noise
  /\ 3 * nid1' + nid2 = 3 * block.nid1 + block.nid2
  /\ offset + Lead + SsbLength <= reach

MibNotFound ==
  /\ At("find_sss")
  /\ SearchSss
  /\ lossy \/ Truncated \/ ~Decodable
  /\ on_sync_lost
  /\ UNCHANGED <<air, queue, tracking, pss_indices, nid2, ssb, mapper_cell, flows, history>>

\* pbch::decode returns without calling back.
DecodeReturnsEarly ==
  /\ At("find_sss")
  /\ "decoder" \in faults
  /\ SearchSss
  /\ UNCHANGED <<air, state, queue, counting_samples, tracking, pss_indices, nid2, ssb,
                 mapper_cell, flows, history>>

\* Mutants of fine_time_sync: the queue is not cut; the flows are not released.
fine_time_syncUncut ==
  /\ UNCHANGED <<first, size>>
  /\ IF offset > 0
     THEN /\ Send(first, offset)
          /\ finishing' = finishing + acquired
          /\ acquired' = 0
     ELSE UNCHANGED <<counting_samples, history, acquired, finishing>>

fine_time_syncKeepsFlows ==
  /\ first' = first + offset
  /\ size' = size - offset
  /\ IF offset > 0
     THEN Send(first, offset) /\ UNCHANGED <<acquired, finishing>>
     ELSE UNCHANGED <<counting_samples, history, acquired, finishing>>

\* fine_time_sync cuts the queue at the start of the slot, after sending what
\* comes before it to the flows there are and releasing them; a slot that
\* started before the queue is completed with zeros.
fine_time_sync ==
  /\ first' = first + offset
  /\ size' = size - offset
  /\ IF offset > 0
     THEN /\ Send(first, offset)
          /\ finishing' = finishing + acquired
          /\ acquired' = 0
     ELSE UNCHANGED <<counting_samples, history, acquired, finishing>>

\* Mutant of MibFound: flows are acquired with the first MIB only.
MibFoundAcquiresOnce ==
  /\ pc = "find_sss"
  /\ state = "find_sss"
  /\ NumBwps > 0 => offset <= size
  /\ SearchSss
  /\ Decodable
  /\ mapper_cell' = IF mapper_cell = None /\ NumBwps > 0 THEN 3 * nid1' + nid2 ELSE mapper_cell
  /\ IF NumBwps > 0
     THEN fine_time_sync
     ELSE UNCHANGED <<queue, counting_samples, history, acquired, finishing>>
  /\ to_acquire' = IF mapper_cell = None THEN NumBwps ELSE 0
  /\ pc' = "acquire"
  /\ UNCHANGED <<air, state, tracking, pss_indices, nid2, ssb>>

\* on_mib_found, up to the loop that acquires the flows.
MibFound ==
  /\ pc = "find_sss"
  /\ state = "find_sss"
  /\ NumBwps > 0 => offset <= size
  /\ SearchSss
  /\ Decodable
  /\ mapper_cell' = IF mapper_cell = None /\ NumBwps > 0 THEN 3 * nid1' + nid2 ELSE mapper_cell
  /\ IF NumBwps > 0
     THEN fine_time_sync
     ELSE UNCHANGED <<queue, counting_samples, history, acquired, finishing>>
  /\ to_acquire' = NumBwps
  /\ pc' = "acquire"
  /\ UNCHANGED <<air, state, tracking, pss_indices, nid2, ssb>>

\* A slot that starts beyond the queue, which then is not the queue the block was
\* found in: fine_time_sync reads and erases outside it.
CutBeyondQueue ==
  /\ pc = "find_sss"
  /\ state = "find_sss"
  /\ NumBwps > 0
  /\ offset > size
  /\ SearchSss
  /\ Decodable
  /\ pc' = "undefined"
  /\ UNCHANGED <<air, state, queue, counting_samples, tracking, pss_indices, nid2, ssb,
                 mapper_cell, flows, history>>

\* flow_pool->acquire_flow() blocks until a flow is available.
AcquireFlow ==
  /\ pc = "acquire"
  /\ to_acquire > 0
  /\ acquired + finishing < MaxFlows
  /\ acquired' = acquired + 1
  /\ to_acquire' = to_acquire - 1
  /\ fed' = IF acquired = 0 THEN first ELSE fed
  /\ UNCHANGED <<air, pc, state, queue, counting_samples, tracking, cell, ssb, mapper_cell,
                 finishing, received, running, sent, gap>>

\* Mutant of LockCell: every PSS is still searched for.
LockNothing ==
  /\ pc = "acquire"
  /\ to_acquire = 0
  /\ in_synch' = TRUE
  /\ state' = "relay"
  /\ pc' = "relay"
  /\ UNCHANGED <<air, queue, counting_samples, waiting_for_pss, cell, ssb, mapper_cell, flows,
                 history>>

\* The end of on_mib_found: in synch, the PSS locked.
LockCell ==
  /\ pc = "acquire"
  /\ to_acquire = 0
  /\ in_synch' = TRUE
  /\ pss_indices' = {nid2}
  /\ state' = "relay"
  /\ pc' = "relay"
  /\ UNCHANGED <<air, queue, counting_samples, waiting_for_pss, nid1, nid2, sss, ssb,
                 mapper_cell, flows, history>>

Relay ==
  /\ At("relay")
  /\ waiting_for_pss' = size
  /\ Send(first, size)
  /\ size' = 0
  /\ state' = "wait"
  /\ UNCHANGED <<air, first, in_synch, cell, ssb, mapper_cell, flows>>

\* The pool: a flow that was released becomes available again.
FlowAvailable ==
  /\ finishing > 0
  /\ finishing' = finishing - 1
  /\ UNCHANGED <<air, pc, state, queue, counting_samples, tracking, cell, ssb, mapper_cell,
                 to_acquire, acquired, history>>

\* The SDR has lost n samples (an overflow, or a failed read that sdr::receive only
\* logs): what follows comes that much earlier than the syncer counts.
LoseSamples(n) ==
  /\ pc = "idle"
  /\ "overflow" \in faults
  /\ running
  /\ received > 0
  /\ phase' = [c \in Cells |-> (phase[c] - n) % Period]
  /\ UNCHANGED <<nid_2, lossy, faults, pc, state, queue, counting_samples, tracking, cell, ssb,
                 mapper_cell, flows, history>>

Receive == \E n \in {Chunk} \cup LastSizes : process(n)

Search == PssFound \/ FalseAlarm \/ PssNotFound \/ TooShort \/ FineSync

Decode == SssNotFound \/ MibNotFound \/ DecodeReturnsEarly \/ MibFound \/ CutBeyondQueue
          \/ AcquireFlow \/ LockCell

Next == Receive \/ Skip \/ Wait \/ Search \/ Decode \/ Relay \/ FlowAvailable
        \/ \E n \in Losses : LoseSamples(n)

\* The call of process goes on, and the flows finish; that samples keep coming
\* is not assumed.
Spec ==
  /\ Init
  /\ [][Next]_vars
  /\ WF_vars(Skip \/ Wait \/ Search \/ Decode \/ Relay)
  /\ WF_vars(FlowAvailable)

-----------------------------------------------------------------------------
(* Properties.                                                             *)

\* One cell, with the PSS that is looked for, no faults, and a block that starts after the first sample of its chunk,
\* is complete in it, and does not start in the middle of it (README, section 4,
\* says what happens to the others).
Clear(ph) == ph % (Chunk \div 2) \in 1 .. Chunk \div 2 - Lead - SsbLength - 1
Regular ==
  /\ faults = {}
  /\ Cardinality(Cells) = 1
  /\ \A c \in Cells : Clear(phase[c]) /\ (nid_2 < 3 => nid_2 = c.nid2)

\* "Aligns the received signal to the resource grid and passes samples on to the
\* next workers" (syncer.cc:110): what is relayed after a synchronization starts
\* at the slot of a block of the cell the MIB was decoded from.
RelaysAligned ==
  pc = "relay" /\ state = "relay" /\ Regular =>
    \E c \in Cells : (first - phase[c]) % Period = 0 /\ cell_id = 3 * c.nid1 + c.nid2

\* The metadata sent along with samples is their position in the stream ("Samples
\* from start", pdcch.cc:446), whatever was skipped, lost or cut before.
MetadataIsPosition == Regular => sent.metadata = sent.from

\* "Now that we are synced, create a processing flow for each BWP" (syncer.cc:424)
\* and no other: the flows of the synchronization before have been released.
OneFlowPerBwp == Regular /\ state = "wait" => acquired = NumBwps

\* The same of every block, wherever it starts.
OneFlowPerBwpAlways == state = "wait" => acquired = NumBwps

\* Whatever happened before, samples are relayed to at least one flow per
\* bandwidth part, through the channel mappers of on_mib_found.
RelayIsServed ==
  state = "wait" => acquired >= NumBwps /\ (NumBwps > 0 => mapper_cell # None)

\* The channel mappers, which are made once (syncer.cc:383), are those of the cell in
\* synch, also after a loss of synchronization among other cells: the PSS stays
\* locked, and only a cell with the same nid2 can take the place of the first.
MappersOfCell ==
  in_synch /\ mapper_cell # None /\ (\A c, d \in Cells : c # d => c.nid2 # d.nid2) =>
    mapper_cell = cell_id

\* The search covers all of every chunk ("Look for SSB only in the first half" of a
\* comment is not what it does, syncer.cc:233): the syncer is in synch once it
\* has received the samples of one period, in whole chunks.
FoundInTime ==
  /\ Regular /\ ~lossy /\ \A c \in Cells : c.nid1 < Nid1Width
  /\ pc = "idle" /\ running /\ received >= Period
  => in_synch

\* While it relays samples without searching, the syncer is in synch: it never
\* sleeps through the block it waits for ("PSS tracking failed resetting").
NeverIdlesUnsynced == Regular /\ state = "wait" => in_synch

\* When no block is missed by the correlators, no flow misses samples between
\* those it receives: the OFDM demodulator behind it counts symbols from the
\* first one on.
NoGap == Regular /\ ~lossy => ~gap

\* on_mib_found gets the flows it asks for and returns.
FlowsAreGranted == Regular /\ pc = "acquire" ~> pc = "relay"
=============================================================================
