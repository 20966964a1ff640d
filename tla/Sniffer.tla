------------------------------- MODULE Sniffer -------------------------------
(***************************************************************************)
(* The program from its configuration to its exit: main (src/main.cc),     *)
(* the sniffer's loop (src/sniffer.cc), the source of samples              *)
(* (src/file_source.cc, src/sdr.cc), and what the synchronizer sets up for *)
(* them with the first MIB (src/syncer.cc).                                *)
(*                                                                         *)
(* The pool of flows is FlowService, which FlowPool implements; when a MIB *)
(* is found is free here, Syncer and Ssb say when.  Samples are counted in *)
(* units of which a chunk has a few.                                       *)
(***************************************************************************)
EXTENDS Setup, Candidate

CONSTANTS
  Environments, \* what the program may be started with, and meet
  Chunk,        \* samples of a chunk: 8 ms
  Flows,        \* the pool has 64
  QueueCap,     \* chunks a flow can have pending before sending it one more blocks
  Repeat        \* third parameter of file_source, which is never given

\* source: "file", "sdr" or "missing" (neither file nor device can be opened).
\* config: whether the configuration parses and has [[pdcch]] tables.
ASSUME SnifferAssumption ==
  /\ {Chunk, QueueCap} \subseteq Nat \ {0}
  /\ Repeat \in BOOLEAN
  /\ \A e \in Environments :
       /\ e.source \in {"file", "sdr", "missing"}
       /\ e.config \in {"ok", "syntax", "no array"}
       /\ e.size \in Nat
       /\ e.read_error \in BOOLEAN
       /\ e.ssb_numerology \in 0 .. 31 /\ e.sample_rate \in Nat
       /\ e.mib.scs_common \in 0 .. 3 /\ e.mib.coreset0_idx \in 0 .. 15
       /\ e.cell_id \in 0 .. nid_max
       /\ e.early \in BOOLEAN \* whether a slot may start before the chunk

VARIABLES
  env,             \* the environment
  pc,              \* where main is
  result,          \* what main returns, -1 before
  configs,         \* config.pdcch_configs
  stream,          \* the file: pos, eofbit, failbit, badbit
  running,         \* sniffer::running
  chunk,           \* the size of the chunk that is being processed
  bandwidth_parts, channel_mappers,  \* of phy
  todo,            \* what is left of a loop over flows or configurations
  status, pending, \* the pool: see FlowService
  stopped,         \* flows an empty chunk has stopped while they were acquired
  serves,          \* the mapper at the end of a flow's chain, 0 when it is disconnected
  fatal,           \* which of the pending chunks of a flow makes its mapper throw, 0 for none
  passed,          \* history: the position in the file up to which it has been processed
  emptied,         \* history: an empty chunk was passed on
  renewed          \* history: a later block has renewed the flows

phy  == <<bandwidth_parts, channel_mappers>>
pool == <<status, pending, stopped, serves, fatal>>
past == <<passed, emptied, renewed>>
vars == <<env, pc, result, configs, stream, running, chunk, phy, todo, pool, past>>

Service == INSTANCE FlowService

\* A configuration as the MIB and the code leave it.
Found(e, cfg) == Effective(cfg, e.ssb_numerology, e.mib, e.cell_id)

CoresetOf(e, cfg) == MapperOf(cfg, BandwidthPartOf(cfg, e.sample_rate), e.cell_id).coreset

\* at() throws for an index the table of CORESET 0 reserves, and for a missing level.
OutOfRange(e, cfg) ==
  \/ cfg.use_config_from_mib /\ Reserved(e.ssb_numerology, e.mib)
  \/ ~EnoughCandidates(cfg)

\* The CORESETs the environments lead to whose tables can be made.
SearchableCoresets ==
  LET reached(e) == {CoresetOf(e, Found(e, cfg)) : cfg \in {d \in Range(load(e.tables)) : ~OutOfRange(e, d)}}
  IN {k \in UNION {reached(e) : e \in Environments} : ~Throws(k)}

Busy == {f \in Flows : status[f] = "busy"}

Init ==
  /\ env \in Environments
  /\ pc = "load"
  /\ result = -1
  /\ configs = <<>>
  /\ stream = [pos |-> 0, eofbit |-> FALSE, failbit |-> FALSE, badbit |-> FALSE]
  /\ running = FALSE
  /\ chunk = 0
  /\ bandwidth_parts = <<>>
  /\ channel_mappers = <<>>
  /\ todo = {}
  /\ Service!Init
  /\ stopped = {}
  /\ serves = [f \in Flows |-> 0]
  /\ fatal = [f \in Flows |-> 0]
  /\ passed = 0
  /\ emptied = FALSE
  /\ renewed = FALSE

Return(r) == pc' = "returned" /\ result' = r

\* The program is terminated: by an assertion, or by an exception nobody catches.
Dies(place) ==
  /\ pc' = place
  /\ UNCHANGED <<env, result, configs, stream, running, chunk, phy, todo, pool, past>>

Ended == {"returned", "start died", "set-up died", "flow died"}

-----------------------------------------------------------------------------
(* main, up to the loop.                                                   *)

\* toml::parse_error and config_exception are caught.
LoadFails ==
  /\ pc = "load"
  /\ env.config # "ok"
  /\ Return(1)
  /\ UNCHANGED <<env, configs, stream, running, chunk, phy, todo, pool, past>>

LoadConfig ==
  /\ pc = "load"
  /\ env.config = "ok"
  /\ configs' = load(env.tables)
  /\ pc' = "open"
  /\ UNCHANGED <<env, result, stream, running, chunk, phy, todo, pool, past>>

\* file_source or sdr throw when they cannot open: nothing has been created yet.
OpenFails ==
  /\ pc = "open"
  /\ env.source = "missing"
  /\ Return(1)
  /\ UNCHANGED <<env, configs, stream, running, chunk, phy, todo, pool, past>>

\* sniffer::init makes the bandwidth part of the blocks, for which a numerology it does
\* not know fails an assertion.
StartDies ==
  /\ pc = "open"
  /\ env.source # "missing"
  /\ env.ssb_numerology > max_numerology
  /\ Dies("start died")

\* sniffer::init and the beginning of start.
Start ==
  /\ pc = "open"
  /\ env.source # "missing"
  /\ env.ssb_numerology <= max_numerology
  /\ running' = TRUE
  /\ pc' = "loop"
  /\ UNCHANGED <<env, result, configs, stream, chunk, phy, todo, pool, past>>

-----------------------------------------------------------------------------
(* The source.                                                             *)

Good(s) == ~s.eofbit /\ ~s.failbit /\ ~s.badbit

\* ifstream::read: how many samples are got, and the flags.
Read(n) ==
  LET left == env.size - stream.pos
  IN IF ~Good(stream) THEN [got |-> 0, stream |-> [stream EXCEPT !.failbit = TRUE]]
     ELSE IF env.read_error THEN [got |-> 0, stream |-> [stream EXCEPT !.badbit = TRUE]]
     ELSE IF left < n THEN [got |-> left, stream |-> [pos |-> env.size, eofbit |-> TRUE,
                                                      failbit |-> TRUE, badbit |-> FALSE]]
     ELSE [got |-> n, stream |-> [stream EXCEPT !.pos = @ + n]]

\* ifstream::seekg clears the end, and fails when reading had failed.
Rewind(s) == [s EXCEPT !.eofbit = FALSE, !.pos = IF s.failbit \/ s.badbit THEN @ ELSE 0]

\* Mutant of produce_samples: the end of the file starts it again.
produce_samplesAgain ==
  LET r == Read(Chunk)
  IN /\ stream' = IF r.stream.eofbit THEN Rewind(r.stream) ELSE r.stream
     /\ chunk' = IF r.stream.eofbit THEN r.got ELSE Chunk
     /\ UNCHANGED running

\* file_source::produce_samples: the buffer is cut only at the end of the file, and
\* on_end, which is sniffer::stop, is called before the last samples are passed on.
produce_samples ==
  LET r == Read(Chunk)
  IN /\ stream' = IF r.stream.eofbit /\ Repeat THEN Rewind(r.stream) ELSE r.stream
     /\ chunk' = IF r.stream.eofbit THEN r.got ELSE Chunk
     /\ running' = (running /\ (r.stream.eofbit => Repeat))

\* One turn of sniffer::start.  The SDR passes a full chunk whatever it received.
Work ==
  /\ pc = "loop"
  /\ running
  /\ IF env.source = "file"
     THEN produce_samples
     ELSE chunk' = Chunk /\ UNCHANGED <<stream, running>>
  /\ pc' = "search"
  /\ UNCHANGED <<env, result, configs, phy, todo, pool, past>>

-----------------------------------------------------------------------------
(* syncer::process, as far as it sets up and uses bandwidth parts.         *)

\* No MIB in this chunk: it is passed on while waiting for the next block, not
\* while searching for one.  (process begins with a reset in a state nothing sets.)
NoMib ==
  /\ pc = "search"
  /\ pc' = "submit"
  /\ todo' \in {Busy, {}}
  /\ UNCHANGED <<env, result, configs, stream, running, chunk, phy, pool, past>>

\* fine_time_sync: the flows there are get the samples before the slot and are
\* released, unless the slot starts before the chunk.
FineTimeSync ==
  \/ pc' = "remainder" /\ todo' = Busy
  \/ env.early /\ pc' = "acquire" /\ todo' = DOMAIN bandwidth_parts

\* A MIB when the bandwidth parts exist: only the flows are renewed.
MibAgain ==
  /\ pc = "search"
  /\ chunk > 0
  /\ bandwidth_parts # <<>>
  /\ FineTimeSync
  /\ renewed' = TRUE
  /\ UNCHANGED <<env, result, configs, stream, running, chunk, phy, pool, passed, emptied>>

\* The first MIB: the configurations are taken one by one.
FirstMib ==
  /\ pc = "search"
  /\ chunk > 0
  /\ bandwidth_parts = <<>>
  /\ pc' = "set up"
  /\ todo' = DOMAIN configs
  /\ UNCHANGED <<env, result, configs, stream, running, chunk, phy, pool, past>>

Current == CHOOSE i \in todo : \A j \in todo : i <= j

\* The configuration the loop is at.
CurrentConfig == Found(env, configs[Current])

\* Whether the tables of the channel mapper of a configuration can be made.
Searchable(cfg) == CoresetOf(env, cfg) \in SearchableCoresets

\* std::out_of_range is not caught by main: the program terminates, as it does at an
\* assertion, or when the tables of the mapper cannot be made.
Usable ==
  /\ ~OutOfRange(env, configs[Current])
  /\ BandwidthPartAsserts(CurrentConfig, env.sample_rate)
  /\ Searchable(CurrentConfig)

SetUpDies ==
  /\ pc = "set up"
  /\ todo # {}
  /\ ~Usable
  /\ Dies("set-up died")

\* phy::get_initial_dl_bandwidth_part
InitialBwp(bwps) == bwps[1]

SetUp ==
  /\ pc = "set up"
  /\ todo # {}
  /\ Usable
  /\ LET bwps == Append(bandwidth_parts, BandwidthPartOf(CurrentConfig, env.sample_rate))
     IN /\ bandwidth_parts' = bwps
        /\ channel_mappers' = Append(channel_mappers,
                                     MapperOf(CurrentConfig, InitialBwp(bwps), env.cell_id))
  /\ todo' = todo \ {Current}
  /\ UNCHANGED <<env, pc, result, configs, stream, running, chunk, pool, past>>

SetUpDone ==
  /\ pc = "set up"
  /\ todo = {}
  /\ FineTimeSync
  /\ UNCHANGED <<env, result, configs, stream, running, chunk, phy, pool, past>>

RemainderDone ==
  /\ pc = "remainder"
  /\ todo = {}
  /\ pc' = "release"
  /\ todo' = Busy
  /\ UNCHANGED <<env, result, configs, stream, running, chunk, phy, pool, past>>

\* flow_pool::release_flows, by fine_time_sync and by the destructor.
ReleaseFlow ==
  /\ pc \in {"release", "destroy"}
  /\ \E f \in todo :
       /\ Service!Release(f)
       /\ todo' = todo \ {f}
  /\ UNCHANGED <<env, pc, result, configs, stream, running, chunk, phy, stopped, serves, fatal, past>>

ReleaseDone ==
  /\ pc = "release"
  /\ todo = {}
  /\ pc' = "acquire"
  /\ todo' = DOMAIN bandwidth_parts
  /\ UNCHANGED <<env, result, configs, stream, running, chunk, phy, pool, past>>

\* Mutant of AcquireFlow: every chain ends in the mapper of the first configuration.
AcquireFlowForTheFirst ==
  /\ pc = "acquire"
  /\ todo # {}
  /\ \E f \in Flows : Service!Acquire(f) /\ serves' = [serves EXCEPT ![f] = 1]
  /\ todo' = todo \ {Current}
  /\ UNCHANGED <<env, pc, result, configs, stream, running, chunk, phy, stopped, fatal, past>>

\* The loop of on_mib_found over the bandwidth parts, each with the mapper at its place:
\* acquire_flow may block.
AcquireFlow ==
  /\ pc = "acquire"
  /\ todo # {}
  /\ \E f \in Flows : Service!Acquire(f) /\ serves' = [serves EXCEPT ![f] = Current]
  /\ todo' = todo \ {Current}
  /\ UNCHANGED <<env, pc, result, configs, stream, running, chunk, phy, stopped, fatal, past>>

\* The samples that hold the block go to the flows at once.
AcquireDone ==
  /\ pc = "acquire"
  /\ todo = {}
  /\ pc' = "relay"
  /\ todo' = Busy
  /\ UNCHANGED <<env, result, configs, stream, running, chunk, phy, pool, past>>

\* Whether what is passed on may leave the demodulator of a bandwidth part one symbol:
\* the samples before a slot, or the end of a file, of any length.  Behind a block whose
\* MIB is found there are ten of its symbols.
CutShort(i) ==
  \/ pc = "remainder"
  \/ pc = "submit" /\ chunk < Chunk
  \/ pc = "relay" /\ env.ssb_numerology > bandwidth_parts[i].numerology + 2

\* channel_mapper::process runs off such a batch, when its CORESET has three symbols.
MayThrow(i) == channel_mappers[i].coreset.duration > 2 /\ CutShort(i)

\* send_to_next_workers.  The flow takes an empty chunk for the order to finish.
SubmitChunk ==
  /\ pc \in {"submit", "remainder", "relay"}
  /\ \E f \in todo :
       /\ pending[f] < QueueCap
       /\ todo' = todo \ {f}
       /\ \/ /\ chunk > 0
             /\ Service!Submit(f)
             /\ \/ UNCHANGED fatal
                \/ /\ fatal[f] = 0 /\ MayThrow(serves[f])
                   /\ fatal' = [fatal EXCEPT ![f] = pending[f] + 1]
             /\ UNCHANGED <<stopped, emptied>>
          \/ /\ chunk = 0
             /\ Service!Release(f)
             /\ stopped' = stopped \cup {f}
             /\ emptied' = TRUE
             /\ UNCHANGED fatal
  /\ UNCHANGED <<env, pc, result, configs, stream, running, chunk, phy, serves, passed, renewed>>

\* work returns to the loop.
WorkDone ==
  /\ pc \in {"submit", "relay"}
  /\ todo = {}
  /\ passed' = stream.pos
  /\ pc' = "loop"
  /\ chunk' = 0
  /\ UNCHANGED <<env, result, configs, stream, running, phy, todo, pool, emptied, renewed>>

-----------------------------------------------------------------------------
(* The end.                                                                *)

\* The loop ends, and the sniffer is destroyed, with it the pool.
Stop ==
  /\ pc = "loop"
  /\ ~running
  /\ pc' = "destroy"
  /\ todo' = Busy
  /\ UNCHANGED <<env, result, configs, stream, running, chunk, phy, pool, past>>

\* Mutant of AllReturned: nobody waits for the flows.
AllReturnedAtOnce == TRUE

\* ~flow_pool takes the semaphore as often as there are flows; a flow that was
\* stopped twice has given it back twice.
AllReturned ==
  LET free == {f \in Flows : status[f] = "free"}
  IN Cardinality(free) + Cardinality(free \cap stopped) >= Cardinality(Flows)

Destroyed ==
  /\ pc = "destroy"
  /\ todo = {}
  /\ AllReturned
  /\ Return(0)
  /\ UNCHANGED <<env, configs, stream, running, chunk, phy, todo, pool, past>>

-----------------------------------------------------------------------------
(* The threads of the flows.  handle_messages catches nothing.             *)

CompleteChunk ==
  /\ pc \notin Ended
  /\ \E f \in Flows :
       /\ fatal[f] # 1
       /\ Service!Complete(f)
       /\ fatal' = [fatal EXCEPT ![f] = IF @ = 0 THEN 0 ELSE @ - 1]
  /\ UNCHANGED <<env, pc, result, configs, stream, running, chunk, phy, todo, stopped, serves, past>>

\* The chunk at the head of the queue is one the mapper throws at.
BatchThrows ==
  /\ pc \notin Ended
  /\ \E f \in Flows : fatal[f] = 1
  /\ Dies("flow died")

\* Two flows that are in pdcch::process of one mapper may throw: one shortens the list of
\* RNTIs the other reads at an index it tested before.
SharedListThrows ==
  /\ pc \notin Ended
  /\ \E f \in Flows : \E g \in Flows \ {f} : serves[f] = serves[g] /\ pending[f] > 0 /\ pending[g] > 0
  /\ Dies("flow died")

\* The chain of the flow is disconnected.
FlowFinishes ==
  /\ pc \notin Ended
  /\ \E f \in Flows : Service!BecomeFree(f) /\ serves' = [serves EXCEPT ![f] = 0]
  /\ UNCHANGED <<env, pc, result, configs, stream, running, chunk, phy, todo, stopped, fatal, past>>

Main ==
  \/ LoadFails \/ LoadConfig \/ OpenFails \/ StartDies \/ Start
  \/ Work \/ NoMib \/ MibAgain \/ FirstMib
  \/ SetUpDies \/ SetUp \/ SetUpDone \/ RemainderDone
  \/ ReleaseFlow \/ ReleaseDone \/ AcquireFlow \/ AcquireDone
  \/ SubmitChunk \/ WorkDone \/ Stop \/ Destroyed

Next == Main \/ CompleteChunk \/ BatchThrows \/ SharedListThrows \/ FlowFinishes

Spec ==
  /\ Init
  /\ [][Next]_vars
  /\ WF_vars(Main)
  /\ WF_vars(CompleteChunk)
  /\ WF_vars(BatchThrows)
  /\ WF_vars(FlowFinishes)

-----------------------------------------------------------------------------
(* Properties.                                                             *)

\* Every variable keeps to its range; the pool to that of its specification.
TypeOK ==
  /\ pc \in {"load", "open", "loop", "search", "set up", "remainder", "release",
             "acquire", "relay", "submit", "destroy"} \cup Ended
  /\ result \in -1 .. 1
  /\ stream.pos \in 0 .. env.size
  /\ running \in BOOLEAN
  /\ chunk \in 0 .. Chunk
  /\ Len(bandwidth_parts) <= Len(configs)
  /\ status \in [Flows -> {"free", "busy", "finishing"}]
  /\ pending \in [Flows -> 0 .. QueueCap]
  /\ stopped \subseteq Flows
  /\ serves \in [Flows -> 0 .. Len(channel_mappers)]
  /\ fatal \in [Flows -> 0 .. QueueCap]
  /\ passed \in 0 .. env.size

\* The mapper of a CORESET 0 searched for system information has the size and the
\* duration the MIB named, no setter replaced a value, all of its resource blocks are
\* mapped, it looks for the SI-RNTI under the identity of the cell, and the references
\* it generates count slots as the demodulator of its bandwidth part does, if that has
\* the numerology of the first.
MibCoresetServes ==
  \A i \in DOMAIN channel_mappers :
    configs[i].use_config_from_mib /\ configs[i].si_dci_only
      => LET mapper == channel_mappers[i]
             k == mapper.coreset
             row == CoresetTable(env.ssb_numerology, env.mib.scs_common)[env.mib.coreset0_idx + 1]
         IN /\ <<k.rbs, k.duration>> = row
            /\ k.mapping = "interleaved" /\ k.shift = env.cell_id
            /\ Mapped(k) * k.bundle = N_CORESET_REG(k)
            /\ mapper.scrambling_ids = <<env.cell_id, env.cell_id>>
            /\ bandwidth_parts[i].num_prbs = k.rbs
            /\ bandwidth_parts[1].numerology = bandwidth_parts[i].numerology
                 => mapper.num_slots_per_frame = bandwidth_parts[i].slots_per_frame

\* Whether the interleaver holds every bundle of the CORESET.
Filled(k) == N_CORESET_REG(k) % (k.interleaver * k.bundle) = 0

\* A configuration that leaves its CORESET to the MIB does not make the program die while
\* it is set up, unless the index of the CORESET is reserved or the numerologies have no
\* table, or the CORESET is wider than the samples, or the configuration has candidates of
\* its own, or keeps an interleaver of its own that does not fit the CORESET.
SetUpDiesOnlyOfBadMib ==
  pc = "set-up died" /\ configs[Current].use_config_from_mib
    => LET cfg == configs[Current]
           found == Found(env, cfg)
       IN \/ ~HasTable(env.ssb_numerology, env.mib.scs_common)
          \/ Reserved(env.ssb_numerology, env.mib)
          \/ ~BandwidthPartAsserts(found, env.sample_rate)
          \/ cfg.candidates # <<8, 4, 2, 1, 0>>
          \/ ~cfg.si_dci_only /\ ~Filled(CoresetOf(env, found))

\* What a flow may be sent, before it is renewed, that leaves one symbol of bandwidth part i.
EndsShort(i) ==
  \/ env.source = "file" /\ env.size % Chunk # 0
  \/ env.ssb_numerology > bandwidth_parts[i].numerology + 2

\* Until a later block renews the flows no two of them work for one mapper, so that the
\* thread of a flow throws only over a batch that is shorter than a CORESET of three
\* symbols: at the end of a file that is no whole number of chunks, or behind a block
\* whose symbols are far shorter than those of the CORESET.
ThrowsOnlyAtCut ==
  pc = "flow died" /\ ~renewed
    => \E i \in DOMAIN channel_mappers : channel_mappers[i].coreset.duration > 2 /\ EndsShort(i)

\* When main returns 0, the whole file has been passed on, the last samples included,
\* and no flow has work left, unless an empty chunk confused the pool.
NothingLeftBehind ==
  result = 0
    => /\ passed = env.size
       /\ ~emptied => \A f \in Flows : pending[f] = 0 /\ status[f] = "free"

\* A file that can be read is worked off and the program ends, if the pool has a flow
\* for every [[pdcch]] table and no slot of a block starts before its chunk, which
\* would leave flows behind until acquire_flow blocks for good.
Ends ==
  [](pc = "open" /\ env.source = "file" /\ ~env.read_error /\ ~env.early
       /\ Len(configs) <= Cardinality(Flows)
     => <>(pc \in Ended))
=============================================================================
