# A TLA+ verification project for 5GSniffer

5GSniffer receives the downlink of a 5G cell, from a file or an SDR,
synchronizes to it, and decodes the DCIs on the PDCCH. This directory holds
TLA+ models of its control and of the index arithmetic behind it, the TLC
configurations that check them, and TLAPS proofs of their safety invariants.
Paths below are relative to `src/5gsniffer/src` unless they start with
`src/`.

## 1. The system

```
 file_source / sdr --> syncer --(find_pss, fine_sync, find_sss)--> ssb_mapper --> pbch
                         |  ^------- on_sss_found, on_mib_found, on_sync_lost ------'
                         |
                         '--> flow_pool --> flow (thread) --> rotator --> ofdm --> channel_mapper --> pdcch
                                       \--> flow (thread) --> rotator --> ofdm --> channel_mapper --> pdcch
```

Components are `worker`s: `connect` makes a graph of them, and
`send_to_next_workers(samples, metadata)` calls `process` of the next ones in
the caller's thread. Only a `flow` changes the thread: it sends the samples
through a ZeroMQ socket to a thread of its own.

| component | state | operations | interacts with | hard to get right | what makes it correct |
|---|---|---|---|---|---|
| flow pool, flows (`flow_pool.cc`, `flow.cc`) | `acquired_flows`, counting semaphore `available_flows`; per flow a socket, `available`, `sniffer_finished`, `metadata`, next workers | `acquire_flow`, `process`, `release_flows`, destructor; thread `handle_messages` | called by the syncer, calls a chain of workers | everything is shared without a lock; start and stop messages are empty messages in the stream of chunks; shutdown | no exception or assertion, no chunk lost, reordered or sent to another chain, `acquire_flow` and the destructor return |
| worker graph (`worker.cc`) | next workers | `connect`, `disconnect_all`, `send_to_next_workers` | all of them | lists changed by one thread and read by another | covered by the pool's properties |
| synchronizer (`syncer.cc`, `phy.cc`) | `state`, `processing_queue`, `waiting_for_pss`, `counting_samples`, `sss_hint`; `phy`: `nid1`, `nid2`, `in_synch` | `process`, callbacks `on_sss_found`, `on_mib_found`, `on_sync_lost` | SSB mapper, PBCH, pool | one block in 20 ms, chunks of 8 ms; blocks missed, cut, or false; unsigned times | what is relayed is aligned to the cell, counted, complete, and goes to one flow per bandwidth part |
| SSB mapper, PBCH (`ssb_mapper.cc`, `pbch.cc`, `symbol.cc`) | reference sequences, `i_ssb`, `n_hf` | `process`, `decode` | call back into the syncer | thresholds, returns without a callback, indices kept from an earlier block | a MIB is accepted only of the cell and block it belongs to |
| bandwidth part (`bandwidth_part.cc`) | sizes of FFT, slots, prefixes | `samples_per_cp`, `samples_per_symbol`, `get_pdcch_coreset0` | OFDM, syncer | two long prefixes per subframe | the grid of TS 38.211 |
| OFDM demodulator (`ofdm.cc`) | `leftover_samples`, `symbol_index`, `slot_index` | `process` | channel mapper | symbols that straddle buffers | every symbol cut and numbered as the grid has it |
| channel mapper (`channel_mapper.cc`) | one `pdcch` per CORESET | `process` | PDCCH | batches that start anywhere in a slot | every CORESET passed on, once, in order |
| CORESET, search space (`coreset.cc`, `common_checks.cc`, `pdcch.cc`) | `coreset_info`, tables of DMRS | setters, `initialize_dmrs_seq`, `correlate_DMRS` | blind decoder | interleaver, candidates, textual keys | what is looked up belongs to the slot and candidate meant |
| blind decoder (`pdcch.cc`) | `found_RNTI_list`, semaphore `rnti_list_mutex` | `process`, `decode_pdcch`, `update_RNTI_list`, `delete_lower_AL_dcis` | shared by the threads of all flows of a bandwidth part | a list reordered while it is walked through | every DCI reported once; the list keeps its RNTIs |
| sniffer, main (`sniffer.cc`, `main.cc`, `config.h`) | `config`, `running` | `load`, `start`, `stop` | source, syncer, pool | the last, short or empty, chunk; exceptions nobody catches | a file is worked off and the program ends; what terminates it early is known |
| sources (`file_source.cc`, `sdr.cc`) | a stream | `produce_samples`, `receive` | syncer | end of file, failed reads, lost samples | every sample passed on, the end noticed |
| reference sequences (`pn_sequences.cc`, `pss.cc`, `sss.cc`, `dmrs.cc`) | none | pure functions | | | the sequences of TS 38.211 |
| signal processing (`dsp.cc`, `symbol.cc`, `rotator.cc`) | none | floating point | | | |

Where the code can go wrong without a test noticing is listed line by line in
`PROJECT.json` under `hazards`. Its kinds: interleavings of the main thread with
flow threads and of flow threads with each other; the order of in-band control
messages and chunks; a block missed, found late, cut or false, and the time-out
of tracking; comparisons and differences of unsigned numbers; leftovers between
buffers; tables that are looked up with a key composed elsewhere; identities,
indices and corrections that are kept from an earlier block; reads that fail or
come back short; and values of a MIB or a configuration that throw far from
where they were read.

## 2. The plan

Order of work, the most important behaviour first.

1. `FlowPool`, `FlowPoolInv`: the pool and its threads. Abstract specification
   `FlowService`, refinement `FlowPoolRefines`, proofs `FlowPool_proofs`. *Done.*
2. `Syncer`, `MCSyncer`: the state machine of the synchronizer with the
   outcomes of SSB mapper and PBCH and the pool as it sees it. *Done.*
3. `BandwidthPart`, `Ofdm`, `ChannelMapper`, `MCChannelMapper`: what a flow
   thread does with the buffers. `ChannelMapper` extends `Ofdm`, which extends
   `BandwidthPart`. *Done.*
4. `Coreset`, `Candidate`, `SearchSpace`, `MCSearchSpace`: index arithmetic and tables of
   the PDCCH, and `Pdcch`, `MCPdcch`, `MCPdcchPlaces`, both over `Coreset`. *Done.*
5. `ReferenceSequences`, `Ssb`, `MCSsb`: the sequences of PSS, SSS and DMRS,
   and how a block is identified and decoded. `Ssb` extends
   `ReferenceSequences`. *Done.*
6. `Setup`, `Sniffer`, `MCSniffer`: what configuration and MIB are turned into,
   and the program from `main` to its end, composed with `FlowService` in place
   of the pool and with `Candidate` for the tables of the CORESETs. *Done.*
7. Proofs: a module `...Inv` with the inductive invariant and a module `..._proofs`
   for each of the models, where the type invariant (`TypeOK`, `MapperTypeOK`) is
   the first part of the invariant. *Done* for all safety invariants and action
   properties that the passing runs check, and for the references of all identities.
8. Left: `SssDistinguishes` for all 1008 identities from the generators, which is
   a hypothesis of three theorems; TLC evaluates it (section 6).

The run configurations list the properties a reader wants to know; the inductive
invariants were checked on the same instances before they were proved, and only
the pool's, `IInv`, is listed with a run.

Abstract specifications worth stating: `FlowService` (there), and for the
demodulator "the stream of symbols of the grid, however it is divided", which
is stated by `SymbolsOnGrid` and `NumbersOnGrid`.

## 3. The modules and the code

### FlowPool, FlowPoolInv, FlowService, FlowPoolRefines

Main has a program counter `mpc`, every flow thread has `fpc[f]`. A step of
main is one access to something shared: `flow_pool::acquire_flow` is
`AcquireSemaphore`, then `SkipFlow` and `TakeFlow` flag by flag;
`flow::process` is `SetMetadata` and `SendChunk`; the destructor is
`Destroy`, `release_flows` (`SendStop`, `ReleaseDone`), `Drain`,
`SetSnifferFinished`, `FinishFlow` and `Join`.
`flow::handle_messages` is `ConnectSocket` to `DisconnectAll`; `set_available`
is two steps, `SetAvailable` and `ReleaseSemaphore`.

The queues are ZeroMQ's: a send to a peer that has not connected fails
(`router_mandatory`), one to a peer whose queue is full blocks. This part is
external and modelled from the options the code sets and the errors it handles.
A chunk is its number, and its metadata is the same number. What the owner of
the pool (`syncer.cc`, `sniffer.cc`) calls is free: any sequence of acquire,
process and release, then the end, with or without an empty last chunk.

`FlowService` is what a user of the pool relies on: a flow is free, busy with
one owner, or finishing; it becomes free only when no chunk is pending, and does
so. `FlowPoolRefines` defines its `status` and `pending` from `available`,
`acquired_flows`, `owed` and `handled` and instantiates it with them. An empty last
chunk counts as the release of the flows it is sent to.

### Syncer, MCSyncer

A call of `process` runs through the stages `wait`, `find_pss`, `fine_sync`,
`find_sss`, `relay` in the order of the `if`s of the code (`pc`); a stage acts
when `state` has its name. `Wait`, `PssFound`, `PssNotFound`, `FalseAlarm`,
`TooShort`, `FineSync`, `Relay` are the bodies of the stages; `SssNotFound`,
`MibNotFound`, `MibFound`, `DecodeReturnsEarly` the ways out of
`ssb_mapper::process` and `pbch::decode` with the callback each makes.
`on_mib_found` is `MibFound` (with `fine_time_sync`), a loop of `AcquireFlow`
that may block, and `LockCell`.

Positions are counted in units of two OFDM symbols of 15 kHz (1/7 ms), fine
enough to tell a block that is complete in its chunk from one that is cut, and
a slot that starts before its chunk from one that starts in it. Correlations are
abstracted to their result: a block that is in the searched window and complete
is found; in a `lossy` environment it may be missed, and a false alarm may take
its place. `first` is the stream position of the queue, so that "aligned" means
that `first` is the start of a slot with a block.

What is around is a record of `Environments`: the cells with the phases of their
blocks, the configured `nid_2`, which below 3 is the only PSS looked for
(`pss_indices`), whether blocks may be missed, and which faults occur, a decoder that
returns early (`"decoder"`, `DecodeReturnsEarly`) or samples that the SDR loses
(`"overflow"`, `LoseSamples`, after which every block comes earlier). `block` is
the cell the downsampled samples hold a block of, `reach` how far they go.

### BandwidthPart, Ofdm, ChannelMapper, MCChannelMapper

`process`, `Demodulate` (one turn of the loop, with `next_symbol`, `next_slot`,
`next_ctr` and `next_processed` for its counters) and `KeepLeftover` (the end) are
`ofdm::process`; a symbol is the position in the stream it was cut at and the
numbers given to it. `Map` is the end of `ofdm::process` together with
`channel_mapper::process`, which runs in the same call. The lengths of prefixes and
of symbols are constants of their own, since `samples_per_cp` and
`samples_per_symbol` round two products down apart: a symbol has up to one sample
more than its prefix and its useful part together (`GridAssumption`; so it is, for
example, at 10 MHz, while at 23.04 MHz all are whole numbers). The errors of the
floating-point products themselves are left out.

### Coreset, Candidate, SearchSpace, MCSearchSpace

`Coreset` holds the pure functions: validation (`coreset`), the interleaver
(`cce_reg_interleaving`), the mapping to resource blocks
(`get_rb_interleaved`), the candidates (`get_candidates`). `Candidate` has the
resource blocks and reference symbols of a candidate (`Pattern`) and when the
making of the tables stops (`Throws`), which `Sniffer` needs too. `SearchSpace` makes
the tables once (`initialize_dmrs_seq`) and looks them up (`correlate_DMRS`),
under keys composed of decimal digits as in the code, with the first entry of a
key kept (`emplace`: the first turn of `Loop` with it) and a missing one inserted
(`operator[]`: `Inserted`). A reference
symbol is the block it is received on and the symbol and block it is generated
for. The vectors of `src/5gsniffer/test/pdcch_dmrs_test.cc` are the assumption
`InterleaverExamples`, which TLC evaluates.

### Pdcch, MCPdcch, MCPdcchPlaces

A thread walks through levels, candidates, sizes and RNTIs as the nested loops
of `pdcch::process` do. A step is one access to the list of RNTIs: its size
(`CheckBound`), an element (`At`), the semaphore (`Acquire`, `Release`), `erase`
and `insert`. Several threads, because one `channel_mapper` and its `pdcch`s
serve all flows of a bandwidth part, and a released flow still works through
its queue while the next one starts. The possible DCIs of a symbol are a set of
candidates (`found`), and those of a level that are left (`todo`) are taken in the
order of their index (`First`), as the loops of `correlate_DMRS` put them into the
list. The DCIs a CORESET carries are chosen by
the environment; a DCI decodes with its level, place, RNTI and size, and at the
two upper levels the repetition in the code finds its RNTI. `MCPdcchPlaces` is
`MCPdcch` for CORESETs under the hypotheses of section 5, which TLC evaluates there.

### ReferenceSequences, Ssb, MCSsb

`ReferenceSequences` has the generators of `pss.cc`, `sss.cc` and
`pn_sequences.cc` as recursive functions, and the initial values of `dmrs.cc`.
The vectors of `pss_test.cc`, `sss_test.cc` and `pbch_dmrs_test.cc` in
`src/5gsniffer/test` are assumptions of `MCSsb`, as is that no two cells, indices,
slots or symbols have the same initial value.

A step of `Ssb` is `find_pss` and `fine_sync` for a block of the environment, then
`ssb_mapper::process` in one of its two forms (`ProcessSearching`,
`ProcessInSynch`) with `pbch::process` and the callback it ends with, or
`GiveUp` of the synchronizer. The search for the group correlates the real
sequences (`SssCorrelations`); noise may pass for any group, for its threshold
is a fraction of the average. A reference signal is the value its generator
starts from; the hypothesis with the highest signal-to-noise ratio is the first one with
the reference that was sent, or any if none was. `decode` succeeds when the
block was equalized and descrambled as it was sent. `get_dmrs_indices`,
`get_data_indices` and `Estimated` are sets of subcarriers. The frequency is an
integer: `drift` is the offset of the receiver, `cfo` what new samples are
corrected by, `residual` what is left of the offset in the samples relayed.

### Setup, Sniffer, MCSniffer

`Setup` holds functions: `load` gives a `[[pdcch]]` table its defaults and cuts
every number to its width, `get_pdcch_coreset0` looks CORESET 0 up, `Effective`
is what `on_mib_found` overrides, `BandwidthPartOf` and `MapperOf` what the
constructors make of it, with the validation of `Coreset`.

`Sniffer` follows `main`: `LoadConfig`, `Start` (or `StartDies`, an assertion about
the numerology of the blocks), then per chunk `Work` (`produce_samples` with the flags
of `std::ifstream`), and either `NoMib` or the set-up of the first MIB (`FirstMib`,
`SetUp` for each configuration, `SetUpDies` where an exception or assertion leaves
`main`) and the exchange of flows (`RemainderDone`, `ReleaseFlow`, `AcquireFlow`),
after which the rest of the chunk is relayed, `SubmitChunk` and `WorkDone`; at the end
`Stop`, the destructor of the pool (`AllReturned`) and the exit code. The pool is an
instance of `FlowService`, which `FlowPool` implements, with the one difference that
an empty chunk stops a flow (`stopped`). Whether a chunk has a MIB is free: `Syncer`
and `Ssb` say when it has.

The threads of the flows (`CompleteChunk`, `FlowFinishes`) catch nothing either.
`serves` is the mapper at the end of a flow's chain. A mapper whose CORESET has three
symbols throws at a batch of one symbol (`ThrowsOnlyOnTinyBuffer` of `ChannelMapper`
says when; a batch without a symbol is not passed on); such a batch may come of the
samples before a slot, of the last chunk of a file, and of the rest of a chunk behind
a block of much shorter symbols (`CutShort`: ten symbols of the block at least are in
that rest). `SubmitChunk` may make a chunk so cut `fatal`, and the program dies when
the flow comes to it (`BatchThrows`). Two flows at one mapper, a released one with
work left and the one that took its place, share its list of RNTIs, which `Pdcch`
shows to throw in a race (`SharedListThrows`); whether it does is free.

## 4. The runs

Deadlock is checked for `ssb_blocks`, which receives blocks for ever. The other
models stop at the end of their input (a bound on chunks or samples, the pool
destroyed, an exception, the program's exit), as the program does.

| run | instance | what it shows |
|---|---|---|
| `pool_threads` | 2 flows, queues of 2, 3 chunks, empty last chunk allowed | safety invariants, the inductive invariant and order; the pool implements `FlowService`, in which a released flow becomes free again; the destructor waits for all work and returns |
| `pool_metadata` | 1 flow | violation: the metadata of another chunk (`flow.cc:125`) |
| `syncer_cell` | environments `Everything`, 2 bandwidth parts, 10 chunks | alignment, sample count, one flow per bandwidth part, no gap, and a block found within a period; with neighbours and faults, that relayed samples are served, by the mappers of the cell |
| `syncer_early` | environments `AnyPhase` | violation: flows not released for a slot that starts with its chunk or before it (`syncer.cc:511`) |
| `mapper_grid` | prefixes of 2 and 3, symbols of 6 and 8 samples, buffers 8, 53, 100, CORESETs of 1 to 3 symbols | symbols on the grid, numbered, CORESETs passed on, when the mapper throws |
| `mapper_leftover` | the same grid, 60 samples | violation: leftover copied from one sample too early (`ofdm.cc:119`) |
| `search_tables` | CORESETs of 24, 30 and 60 blocks, every duration, bundle and two interleavers, four search spaces | the tables and their lookup |
| `search_range` | default CORESET, two scrambling ids | violation: tables for the first id only (`pdcch.cc:84`) |
| `pdcch_decode` | 1 or 2 threads, 2 RNTIs, 2 sizes, numbers of candidates for which places agree | the list keeps its RNTIs, a thread alone finds every DCI once, `process` returns |
| `pdcch_delete` | 1 thread, the default numbers of candidates | violation: a found DCI deletes candidates that do not lie within it (`pdcch.cc:284`) |
| `ssb_blocks` | blocks of 10 cells, 4 indices, 2 half frames, noise, one frequency offset | group, index and half frame identified; the payload collected and its channel estimated; only a MIB of the cell and block it belongs to accepted; what is locked stays; the correction never hurts |
| `sniffer_program` | every CORESET 0 a MIB can name, lists of tables, CORESETs of three symbols, files of several lengths, failures | what the first MIB sets up fits together; of what the set-up dies, and of what a flow; unless the program dies it works a file off, and it ends |

What ends with "violation" is a property that the repository states and the code does
not have. Every property of a passing run has a mutant: a definition with a plausible
error, placed before the one it replaces ("Mutant of ..."), for which the property
fails. `PROJECT.json` lists them.

### Bounds, and why they are enough

*Pool.* Two flows are enough for the races between one flow that becomes
available and the scan that passes over another; a queue of two fills up with
three chunks. The proofs of section 5 cover all other values. `ImplementsService`
promises the progress of the service only as long as the source has not ended with an
empty chunk, and `WaitsForAllFlows` excludes such an end (section 7); the steps of the
service and all else hold with it too.

*Syncer.* A chunk of 56 and a period of 140 units are the real 8 ms and 20 ms. The
phase of a block in its chunk repeats after five chunks (two periods); 10 chunks
contain the loss of tracking, which takes more than a period, and a new
synchronization. Properties that say `Regular` are claimed for one cell without
faults, at the phases `Clear` describes. The others are those at which the code
deviates (section 7): slots that start with the first sample of a chunk or before it,
blocks cut by a chunk's end, and slots in the middle of a chunk, whose next block
falls on such a boundary. `Inner` has every phase of the first chunk that is `Clear`
and one of each later one, `Corner` representatives of those that are not,
`Neighbours` cells that differ in the PSS, in the SSS only, and in the ninth bit of
their group. `nid_2` is mostly 4, its default, and with one or two cells around also
each index, of one of them or of none. One overflow of 35 units, five milliseconds,
moves a block out of the window it is searched in.

*Grid.* The sample counts are small, but as in the code there are two lengths of
symbols, the longer one more than its prefix and useful samples together, and the
buffers are of one symbol, less than a slot and more than a slot; 900 samples are ten
slots, a frame, so that the slot number wraps. A CORESET of three symbols is longer
than the smallest buffer.

*Search space.* 24, 30 and 60 blocks include one that the interleaver does not
fill; the durations and bundles include rejected values. The candidates are
those of the README's example, of the defaults, and more than ten of a level
are left out, for the keys then collide (below).

*Decoder.* Eight CCEs hold candidates of four levels. The DCIs sent are one large, one
in the middle with a second one of a single CCE, and one to an RNTI that is not in the
list. `RepetitionOnly` is the configuration for C-RNTIs, the one the README describes;
the loop for SI and RA RNTIs is modelled and not checked. In `pdcch_decode` the
numbers of candidates are equal for the lower levels, for with others candidates are
deleted wrongly, as `pdcch_delete` shows for the defaults; or there is no candidate of
the lowest level, as in the example of `src/README.md`, and nothing is deleted.

*Blocks.* The groups lie on both sides of the thirds at which the first sequence
of the SSS shifts and of the eight bits of `nid1`, with the pair that differs by
256; indices are the first and last of a half frame of four and of eight. The
frequency enters linearly, so that one offset stands for all.

*Program.* A chunk of two samples has a short and an empty end; lists of tables are
shorter than the pool of two flows, as long, and longer; queues hold two chunks. The
CORESETs are all 16 indices with 3 by 2 numerologies. `LongCoresets` has CORESETs of
three symbols, from a table or from the MIB, in files that are a whole number of
chunks and not, so that a flow dies, alone and in either place of a list. `Failures`
are a file that is missing or unreadable, both kinds of bad configuration, and
configurations no CORESET can be made of, and a numerology of the blocks that fails
the assertion at the start.

### Fairness

*Pool.* Weak fairness for main's own steps and for each flow thread: the
operating system runs a thread that can run. No fairness for the calls of the
owner: it may stop calling. No strong fairness is needed, since main is the
only thread that waits for the semaphore and for a full queue.

*Syncer.* Weak fairness for the rest of a call of `process` and for a released
flow becoming available, which `ShutdownTerminates` and the refinement of
`FlowService` justify. That samples keep coming is not assumed.

*Decoder.* Weak fairness per thread, and strong fairness for taking the
semaphore: `std::binary_semaphore` wakes one of its waiters, and the thread that
has just given it back has a correlation to compute before it comes again.
That a CORESET is received is not assumed.

*Program.* Weak fairness for main, which is one thread, and for the flows: that a
chunk is handled and a released flow becomes free is what `FlowService` promises
and `pool_threads` checks of the pool. It is the fairness of some flow, not of
each; with finitely many chunks the others follow. A chunk that makes the mapper
throw is handled like any other (`BatchThrows`); that a race makes a thread throw is
never assumed (no fairness for `SharedListThrows`).

## 5. What is proved

Every theorem holds for all values of the constants its module's assumptions allow,
as many actors, buffers, chunks or cells as they say; an additional hypothesis is
named with it. TLC evaluates every assumption on the instances of section 4. Hardly
any of the invariants is inductive by itself; the module `...Inv` of each model has
one that is, in named parts, and the proofs have a lemma per part and action or
group of actions, with lemmas about the data apart from those about steps.

| module | theorem | statement |
|---|---|---|
| `FlowPool_proofs` | `TypeCorrect`, `Inductive` | `Spec => []TypeOK`, `Spec => []IInv` |
| | `ExceptionUnreachable`, `AssertionsNeverFail`, `WorkersInPlace`, `AvailableMeansDone` | `NoException`, `AssertionsHold`, `ChunkMeetsItsWorkers`, `NoWorkLost` |
| | `ChunksInOrder` | the action property `InOrder` |
| | `DestructorWaits` | `WaitsForAllFlows` |
| | `PoolServes` | the safety part of `ImplementsService`: the pool starts as `FlowService` does, and its steps are steps of `FlowService` or stuttering |
| `Syncer_proofs` | `TypeCorrect` | `TypeOK` |
| | `RelayServed`, `MappersStayRight` | `RelayIsServed`, `MappersOfCell` |
| | `RelayAligned`, `MetadataCounts`, `FlowsMatchBwps`, `WaitsInSynch`, `FlowsFedWithoutGap`, `FoundWithinPeriod` | `RelaysAligned`, `MetadataIsPosition`, `OneFlowPerBwp`, `NeverIdlesUnsynced`, `NoGap`, `FoundInTime`, if `NumBwps > 0` |
| `ChannelMapper_proofs` | `TypeCorrect`, `SymbolsNumbered` | `TypeOK`, `NumbersOnGrid` of `Ofdm` |
| | `SymbolsCutOnGrid`, `NothingLeftOut` | `SymbolsOnGrid`, `LessThanSymbolLeft`, if `SlotIsSubframe` and always `LeftoverContinued` |
| | `MapperKeepsOfdm`, `MapperInductive` | `MapperSpec => Spec`, `MapperSpec => []MapperInv` |
| | `CoresetsPassed`, `ThrowsOnTinyBufferOnly` | `EveryCoresetPassed`, `ThrowsOnlyOnTinyBuffer` |
| `SearchSpace_proofs` | `SearchInductive` | `Spec => []SearchInvariant` |
| | `ReceivedGenerated`, `CandidatesShareNothing`, `WholeCoresetsSearched` | `ReceivedIsGenerated`, `CandidatesApart`, `WholeCoresetsAreSearched` |
| | `LookupFinds` | `LookupFindsOwn`, if `OneId` and `OneDigit` |
| `Pdcch_proofs` | `RntisKept`, `NoneTwice` | `RntiListKept`, `[]IsInjective(found_RNTI_list)` |
| | `TypeCorrect` | `TypeOK` |
| | `DcisAreFound` | `EveryDciFound`, if `PlacesAgree`, `SentApart` and `SizesDiffer` |
| `Ssb_proofs` | `Locked`, `MibIsOfItsCell`, `CorrectionIsHarmless` | `LockedHypothesis`, `MibNamesItsCell`, `CorrectionNeverHurts` |
| | `SearchIdentifies`, `FirstBlockDecodes`, `PayloadIsEstimated` | `SearchIdentifiesBlock`, `FirstBlocksDecode`, `PayloadRestsOnPilots`, if `SssDistinguishes` |
| | `PbchReferencesDiffer`, `PdcchReferencesDiffer` | blocks with the same reference signal are of the same cell and number; candidates with the same one of the same scrambling id, slot and symbol |
| `Sniffer_proofs` | `ProgramInductive`, `TypeCorrect` | `Spec => []SnifferInvariant`, `Spec => []TypeOK` |
| | `LeavesNothingBehind`, `DiesForAReason`, `FlowsThrowOnlyAtCut` | `NothingLeftBehind`, `SetUpDiesOnlyOfBadMib`, `ThrowsOnlyAtCut` |
| | `MibIsServed` | `MibCoresetServes`, if `AsksForCandidates` |

`Candidate_proofs` has the lemmas about CORESETs that `SearchSpace_proofs` and
`Sniffer_proofs` share.

### The hypotheses, and why the code meets them

- `TimeAssumption` (`SyncerInv`): five chunks are two periods, 8 ms and 20 ms in the
  code, and the window reaches behind the PSS as far as the block. `NumBwps > 0`:
  without a `[[pdcch]]` table nothing is ever acquired or relayed.
- `SlotIsSubframe`: numerology 0, or the extended prefix; else the lengths of the
  symbols are wrong (`ofdm.cc:112`). `LeftoverContinued`: a buffer that continues
  a symbol is not shorter than it (`ofdm.cc:118`); chunks are 8 ms, and
  only the first of a flow, before which nothing is left over, and the last of the
  stream, after which nothing is cut, are shorter.
- `OneId`, `OneDigit`: one scrambling id is searched for and no level has more than ten
  candidates; else keys collide or miss (`pdcch.cc:84`, `111`). They hold for a
  search for system information and for the numbers of the example in
  `src/README.md`. `ConfigAssumption` and `InputAssumption` give the types of
  what a configuration holds.
- `SssDistinguishes`: of the correlations of a cell's SSS with all 336 sequences
  its own is the highest and above the threshold. This is a fact about
  the m-sequences, sums over 127 elements, that TLC computes for the cells of
  the instance (`CellsApart` in `MCSsb`), and that was computed once for all 1008
  identities.
- `AsksForCandidates`: every configuration asks for a candidate, as the defaults do.
- `PlacesAgree`: the places that `delete_lower_AL_dcis` computes, all with the number
  of candidates of level 0, are those of the candidates, or that number is 0. It is
  0 in the example of `src/README.md`; with 8, 4, 2, 1, 0, the defaults, the
  hypothesis fails, and DCIs are deleted that nobody has decoded: the run
  `pdcch_delete` (`pdcch.cc:284`).
- `SentApart`: what is sent is sent on candidates, with a size that is tried and an
  RNTI other than 0 (the two upper levels are tried with 0, which no UE has,
  before an RNTI is inferred, `pdcch.cc:197`), and no DCI lies within the control
  channel elements of another. `SizesDiffer`: no size is listed twice; a DCI of level 0,
  after which the sizes are gone on with (`pdcch.cc:223`), would be reported twice.
  TLC evaluates the three for the instance of `pdcch_decode` (`HypothesesHold` in
  `MCPdcchPlaces`).

### The arguments

*Pool.* That the scan of `acquire_flow` finds a flow (`NoException`) depends on the
count of the semaphore, on every flow that is about to release it, on where the
scan is, and on no flag being cleared by another; `IInv` (in `FlowPoolInv`) says so:

- `TokenInv`: flags set = tokens in the semaphore + threads about to release
  + the token main has taken; `ScanInv`: while main scans, a flow at or after
  its index is available (flags behind it may have been set meanwhile, but main
  holds a token, and each flag it has passed unset was unset then);
- `PhaseInv`: a flow is unborn, starting, free, busy or finishing, and what its
  queue and thread may look like then. This is the in-band protocol: exactly
  one empty message is on its way, behind all chunks, to a finishing flow;
- `FlowInv`: the queue is the backlog, in order, then empty messages; it is what
  remains true after an empty chunk has made a flow stop twice;
- `EndInv`: when the source ends with an empty chunk, which goes to one flow after
  the other, a flow that main has not got to (`Held`) still is busy, its flag not
  set;
- `AcquiredInv`, `ControlInv`, `IndexInv`: main's own bookkeeping.

The parts about tokens and phases hold as long as no empty chunk was sent (`Orderly`);
the others always. With the mapping of `FlowPoolRefines` they give the step simulation
of `PoolServes`: `SendChunk` adds a pending chunk, setting its flag frees a flow,
whose backlog `FlowInv` says is empty; an empty chunk releases the flow it is sent to,
and a second stop message is invisible.

*Synchronizer.* Whatever happens (`ServedInv`, `CellInv`), a flow is taken away only
on a way that acquires it again, and mappers exist only with one PSS left to
search for. For one clear cell without faults (`RegularInv`): chunks are received
whole (`PositionInv`), counted once (`CountInv`), and what was found is the slot of
a block (`FoundInv`, `LockedInv`). `WaitInv` has the heart of it: slots lie at
multiples of half a chunk plus an offset that is clear of both ends, so that the
time since the last block is never exactly a period when a chunk ends, and both
unsigned tests agree on the one chunk to search. For no block missed
(`TrackInv`), the tracking window covers the next block, and the first search
covers the whole chunk, so that none passes before the first flow is acquired.

*Demodulator and mapper.* `SamplesInv`: what has been cut of the stream ends at
`GridStart[count]`, at every turn of the loop, with less than a symbol left
over. `NumbersInv`: symbol `k` has the quotient and remainder of `k`; the batch is
the last so many. From these `PassedInv`: the loop of the mapper finds exactly the
slots whose CORESET lies in the batch, in ascending order, and those of the next
batch lie behind. `GridStart` is a recursive function; that it has a value
for every number is proved from the well-foundedness of `<` (`RecursiveNat`).

*Tables.* The interleaver is a permutation of the bundles of full columns, whatever
the shift; so the list of blocks has none twice (`Candidate_proofs`), and candidates
at different CCEs have different blocks. The blocks of a candidate are whole bundles
over all symbols of the CORESET; sorted, its shares differ by the number of blocks per
symbol, which is why the sequence of the first share serves all. For the keys: the
digits of a number determine it for a given length, the length of a key gives that of
the slot, and what precedes and follows it is a digit each (`Unambiguous`).

*List of RNTIs.* `UpdateInv`: one thread is between `acquire` and `release`; while it
is between `erase` and `insert` the list is the initial one in some order
without its RNTI, else it is all of it.

*Blind decoder.* `JobsInv`: in every thread the candidates left are among those found,
of the level the loop is at, and the indices of sizes and RNTIs are in range while the
thread is within those loops. `WalkInv` is about a thread that is alone: a wanted DCI
is reported exactly when it is behind the walk (`Done`), which for a candidate before
the present one is all of it, and at the present one the sizes and RNTIs tried
(`Behind`). The list is reordered in the middle of this, when an RNTI was found; but
then no other is tried at this candidate and size, no two DCIs are at one place, and
the next candidate starts with the whole list. A deletion takes out no candidate that
carries a DCI, because it would lie within the one found (`SentApart`). At the end all
wanted DCIs are behind the walk.

*Blocks.* `LockInv` follows from the returns of `process`: in synch nothing assigns
the hypothesis. `FrequencyInv`: the correction is 0 or all of the offset. `SearchInv`
carries the result of the search to the decoder. That the reference tells cell and
number (`PbchReferencesDiffer`) is arithmetic: the three summands of the initial value
do not overlap for at most nine numbers. For the PDCCH the overflow leaves the 14 low
bits of a product with an odd factor, which are different for different other factors
below 2^14; the difference is halved 14 times (`LowBitsTell`).

*Program.* `SetUpInv`: each bandwidth part and mapper is made of the configuration at
its index, as the MIB leaves it, and what could not be made never is (`MadeOf`).
`StreamInv` follows the flags of the stream to the exit, `PoolInv` the pool.
`ChainInv` follows the flows: a flow with work serves a mapper, and the loop over the
bandwidth parts, which has done the first so many, gives each a flow that nobody
else's mapper has, until a later block acquires flows while released ones still work.
`ChunkInv` says that a chunk is short only at the end of a file that is no whole
number of them, so that a fatal chunk means one of the two reasons in `EndsShort`. The
theorems about a MIB then are facts about `get_pdcch_coreset0`, row by row: every row
has a multiple of 24 blocks and at most 96.

## 6. What is only model-checked

- Liveness: `ShutdownTerminates`, the fairness in `ImplementsService`,
  `FlowsAreGranted`, `ProcessReturns`, `Ends`. Out of the prover's reach, as is
  `ENABLED`.
- What rests on sums over sequences: `SssDistinguishes`, the vectors of the tests. The
  library's induction theorems take an operator, which no installed prover
  instantiates; induction over a set of numbers (`Induct` in `ChannelMapper_proofs`)
  replaces them where it is needed, but sums of 127 products are better computed.

## 7. Divergences met

Five have a run (section 4). The others were met while modelling; for those
that the models show, the change of constants that shows them is given.

- `flow.cc:154`: an empty chunk, which `file_source` produces when the file ended
  with the chunk before, is taken for the stop message. The flow is counted
  twice, and `~flow_pool` stops waiting while another flow has work left, against
  "Wait for all flows to finish" (`flow_pool.cc:51`). `EofMayBeEmpty = TRUE`
  with `WaitsForAllFlows` without `~eof`.
- `syncer.cc:152`: when `waiting_for_pss` equals the period exactly, the test `>`
  fails in this chunk and the test `<` in the next. Tracking is given up in the
  state `wait`, which is never left. `AnyPhase`, `NeverIdlesUnsynced` without
  `Regular`.
- `syncer.cc:513`: inserted zeros are counted as received samples. `AnyPhase`,
  `MetadataIsPosition` without `Regular`.
- `syncer.cc:296`: a chunk in which a block is missed is counted, not sent to the
  flows there are, though the log line says "sending to next worker all except a
  window". `NoGap` without its hypothesis.
- `syncer.cc:383`: channel mappers are made once; after a synchronization to
  another cell with the same PSS they decode with the first cell's id.
  `MappersOfCell` without its last hypothesis.
- `channel_mapper.cc:65`: the slots per frame of every mapper are those of the first
  bandwidth part; with others of another numerology, slots are looked up modulo a
  number that is not theirs. `MibCoresetServes` without its last hypothesis.
- `src/5gsniffer/include/phy.h:39`: `nid1` has eight bits, groups go up to 335. A
  cell with `nid1` above 255 is never decoded. `FirstBlocksDecode` without
  `block.nid1 < Nid1Width`.
- `pbch.cc:112`: `decode` returns early without a callback, and the old block is
  decoded again with the next chunk, which is then cut by the old offset.
  `RelaysAligned` with the fault `"decoder"` allowed. The decoder it had set up
  is not freed on these ways out.
- `syncer.cc:485`: every block is taken to be in symbols 2 to 5 of the first slot of
  a frame. For the index that is so (`MibNamesItsCell`: no other is decoded,
  `pbch.cc:95`), but a block in the second half of a frame is in its sixth slot.
- `syncer.cc:376`: `cfo` is set to what `fine_sync` measured on samples that had been
  corrected by the old one, against "Update the total CFO so it is applied next time"
  (`syncer.cc:375`): it alternates between the offset and 0 with every MIB.
  `CfoIsTotal` in `Ssb_blocks.cfg`; `CorrectionNeverHurts` does not see it. The
  samples of the chunk are corrected twice (`syncer.cc:329`, `377`).
- `syncer.cc:285`: while tracking, fewer than ten symbols remain behind the PSS in
  the window, and the second `erase` has its first iterator behind its last. In a
  release build the vector gets the right size and old memory at its end.
- `syncer.cc:234`: "Look for SSB only in the first half", but all of the chunk is
  searched.
- `syncer.cc:255`, `ssb_mapper.cc:93`: the thresholds are the average, or less (336
  values over 355), and reject next to nothing.
- `sss.cc:106` tests `nid_1` twice where `nid_2` is meant.
- `dmrs.cc:89`: the product is computed in an `int` and overflows; the bits that
  are used come out right (`PdcchInit`).
- `pdcch.cc:284`: the index `1>>AL` is 0 for every level, so that candidates are
  deleted at places computed with the number of level 0, and a DCI there with
  them, against "delete from the list of Possible DCIs the ones that that have a
  lower AL and correspond to the DCI just decoded" (`pdcch.cc:220`). The run
  `pdcch_delete`: with the defaults a DCI in the control channel elements 4 to 7
  takes the candidates in 0 to 3 out of the list.
- `channel_mapper.cc:89`, `flow.cc:149`: what the mapper or the decoder throws leaves
  the thread of a flow, and the program is terminated by good input: the last chunk
  of a file, or the samples before the slot of a later block, of one symbol, with a
  CORESET of three symbols (`BatchThrows`); or the race for the list of RNTIs
  (`SharedListThrows`). `pc # "flow died"` is violated in `Sniffer_program.cfg`.
- `sniffer.cc:69`: `ssb_numerology` is not checked before the assertion of the
  bandwidth part (`StartDies`).
- `bandwidth_part.cc:84`: lengths of symbols are rounded down one by one. At a sample
  rate at which they are no whole numbers a slot of the code is a few samples shorter
  than that of the signal; the properties are about the grid of the code.
- `file_source.cc:66`: a read error does not set `eof`, and the program processes
  chunks of zeros for ever. `Ends` without `~env.read_error`.
- `file_source.cc:70`: at the end of a file `seekg` fails because of the failbit, so
  that the repeat mode, which has no caller, would not repeat.
- `bandwidth_part.cc:220`: a minimum bandwidth of 40000 is asked for by nobody;
  `syncer.cc:394` leaves the offset column of the tables unread.
- `coreset.h:84`: the 320 slots of numerology 5 are cut to 64.
- `rotator.cc:43`: the phase starts anew with every buffer.
- `src/README.md` names a parameter `nid_1`, and the configurations a key
  `interleaving_pattern`; the code reads `nid_2` and
  `coreset_interleaving_pattern` (`src/5gsniffer/include/config.h:82`, `147`).
- `ofdm.cc:112`: the symbol index wraps with the slot, `samples_per_cp` wants the
  index in the subframe; from numerology 1 on the prefixes differ.
  `numerology = 2` with `SymbolsOnGrid`.
- `ofdm.cc:118`: what is left over is replaced, not extended: a buffer shorter than the
  symbol it continues loses what was left over before it, and the symbols after it
  are off the grid. `SymbolsOnGrid` with a buffer of 3 in `BufferSizes`; the theorem
  has the hypothesis `LeftoverContinued`.
- `ofdm.cc:115`: `samples_processed` grows by the length of the next symbol.
- `channel_mapper.cc:91`: a CORESET of several symbols that straddles two batches
  is skipped, and a batch shorter than the CORESET makes the bound underflow.
  `EveryCoresetPassed` claims only CORESETs in one batch, `ThrowsOnlyOnTinyBuffer`
  says how short the buffer must be.
- `pdcch.cc:200`, `216`, `364`: the list of RNTIs is read without the semaphore. With
  two threads one may miss an RNTI, or `at` throws.
- `pdcch.cc:111`: with eleven candidates of a level, slot 1 candidate 10 and slot 11
  candidate 0 have the same key, and the first entry is kept.
- `syncer.cc:388`: with a CORESET 0 from the MIB the interleaver keeps the size the file
  gives it unless only SI is searched for; three rows do not divide the bundles of
  24 blocks, and the tables cannot be made. One of the reasons in
  `SetUpDiesOnlyOfBadMib` (`Filled`).
- `bandwidth_part.cc:217`: for a pair of numerologies without a table CORESET 0 gets no
  blocks. With candidates the set-up dies of it; a configuration that asks for no
  candidate passes, with a CORESET that is not the MIB's (`AsksForCandidates`).
- `pdcch.cc:106`: the sequence covers 96 blocks; a larger CORESET throws.
- `pdcch.cc:532`: the non-interleaved mapping is truncated to whole columns of the
  interleaver too: 30 blocks with an interleaver of two rows map four bundles of
  five.
- `pdcch.cc:203`: for SI and RA RNTIs the loop goes on after a success, so that the
  result is that of the last RNTI and nothing is deleted.
- `pdcch.cc:377`: the repetition is compared with 1.05 times the average of the
  list, which a list of one RNTI never exceeds.

## 8. What is not modelled, and why

- Floating-point signal processing (`dsp.cc`, `symbol.cc`, `rotator.cc`,
  correlations with received samples, resampling, equalization): TLC has no such
  arithmetic. Its results are choices of the environment; what can be said in
  integers (correlations of the reference sequences, which subcarriers an
  estimate covers, the sum of the frequency corrections) is in `Ssb`.
- Opening and tuning the SDR, logging, time profiles, writing DCIs: I/O.
- `cell_search.cc` (commented out), `args_manager.cc`, `shifter.cc`, `file_sink.cc`,
  `worker::disconnect` and `finish_next_workers`: no caller. The state `reset` has
  no way in.
- `dci.cc`, the setters and getters of `coreset.cc`, `pss.cc` and `sss.cc`: records
  without control; their fields are in the models that use them.
- `include/toml.hpp`, srsRAN, liquid-dsp, volk, ZeroMQ: third-party; ZeroMQ and the
  decoders as far as the code relies on them. `toml.hpp` alone has 17166 of the
  24033 lines of the repository's code; the program itself has 6824 with its
  comments, headers and licence texts. No line of the parser is mapped, and so
  the share of all lines that the models stand for stays small.
