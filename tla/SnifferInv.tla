------------------------------ MODULE SnifferInv ------------------------------
(***************************************************************************)
(* The inductive invariant of Sniffer.                                     *)
(***************************************************************************)
EXTENDS Sniffer

IsSequence(s) == s \in Seq(Range(s))

NumberKeys ==
  {"numerology", "num_prbs", "rnti_start", "rnti_end", "scrambling_id_start", "scrambling_id_end",
   "coreset_duration", "coreset_nshift", "coreset_reg_bundle_size", "coreset_interleaver_size"}

\* The values the keys of a [[pdcch]] table are read as.
IsTable(table) ==
  /\ \A key \in NumberKeys \cap DOMAIN table : table[key] \in Int
  /\ \A key \in {"si_dci_only", "use_config_from_mib"} \cap DOMAIN table : table[key] \in BOOLEAN
  /\ \A key \in {"coreset_interleaving_pattern"} \cap DOMAIN table : table[key] \in STRING
  /\ \A key \in {"num_candidates_per_AL"} \cap DOMAIN table : table[key] \in Seq(0 .. 255)

\* The pool has a fixed number of flows; [[pdcch]] is an array of tables.
ASSUME InputAssumption ==
  /\ IsFiniteSet(Flows)
  /\ \A e \in Environments :
       /\ IsSequence(e.tables)
       /\ \A i \in DOMAIN e.tables : IsTable(e.tables[i])

\* Every configuration asks for a candidate.
AsksForCandidates ==
  \A e \in Environments : \A i \in DOMAIN e.tables :
    \E level \in Levels : LoadPdcch(e.tables[i]).candidates[level + 1] > 0

Places ==
  {"load", "open", "loop", "search", "set up", "remainder", "release", "acquire", "relay",
   "submit", "destroy", "returned", "start died", "set-up died", "flow died"}

\* The places of one turn of the loop.
InLoop ==
  pc \in {"loop", "search", "set up", "remainder", "release", "acquire", "relay", "submit"}

\* What an ifstream can be on a file of this size.
Streams(size) == [pos : 0 .. size, eofbit : BOOLEAN, failbit : BOOLEAN, badbit : BOOLEAN]

\* What the state keeps to, and the configurations are a sequence once they are loaded.
TypeInv ==
  /\ env \in Environments
  /\ pc \in Places
  /\ result \in -1 .. 1
  /\ stream \in Streams(env.size)
  /\ running \in BOOLEAN
  /\ chunk \in 0 .. Chunk
  /\ status \in [Flows -> {"free", "busy", "finishing"}]
  /\ pending \in [Flows -> 0 .. QueueCap]
  /\ stopped \subseteq Flows
  /\ serves \in [Flows -> Nat]
  /\ fatal \in [Flows -> 0 .. QueueCap]
  /\ passed \in 0 .. env.size
  /\ emptied \in BOOLEAN
  /\ renewed \in BOOLEAN

\* The set-up takes the configurations in their order, each as the MIB leaves it; what
\* could not be used never has a bandwidth part.
MadeOf(i) ==
  LET found == Found(env, configs[i])
  IN /\ ~OutOfRange(env, configs[i])
     /\ BandwidthPartAsserts(found, env.sample_rate)
     /\ Searchable(found)
     /\ bandwidth_parts[i] = BandwidthPartOf(found, env.sample_rate)
     /\ channel_mappers[i] = MapperOf(found, bandwidth_parts[1], env.cell_id)

SetUpInv ==
  /\ pc \notin {"load", "returned", "flow died"} => configs = load(env.tables)
  /\ channel_mappers # <<>> => configs = load(env.tables)
  /\ pc \in {"load", "open"} => bandwidth_parts = <<>>
  /\ IsSequence(bandwidth_parts)
  /\ IsSequence(channel_mappers)
  /\ Len(channel_mappers) = Len(bandwidth_parts)
  /\ Len(bandwidth_parts) <= Len(configs)
  /\ pc \in {"set up", "set-up died"} => todo = Len(bandwidth_parts) + 1 .. Len(configs)
  /\ \A i \in DOMAIN channel_mappers : MadeOf(i)
  /\ pc = "set-up died" => todo # {} /\ ~Usable

\* The loop is left only for the end of the file, after the last samples have been
\* passed on.
StreamInv ==
  /\ running \/ pc \in {"load", "open"} => ~stream.eofbit
  /\ InLoop /\ ~running => stream.pos = env.size
  /\ pc = "loop" /\ ~running => passed = env.size
  /\ pc = "destroy" => passed = env.size

\* The loops over the flows go over flows that are acquired; an available flow has no
\* work; a flow that was stopped while it was acquired got an empty chunk.
PoolInv ==
  /\ pc \in {"remainder", "release", "relay", "submit", "destroy"} => todo \subseteq Flows
  /\ \A f \in Flows : status[f] = "free" => pending[f] = 0
  /\ ~emptied => stopped = {}

\* A file is read a chunk at a time, and only its last chunk is cut.
ChunkInv ==
  /\ Good(stream) => stream.pos % Chunk = 0
  /\ 0 < chunk /\ chunk < Chunk => env.source = "file" /\ env.size % Chunk # 0

NobodyServes == \A f \in Flows : serves[f] = 0

\* A mapper has a CORESET longer than what the flows may be sent.
SomeEndsShort == \E i \in DOMAIN channel_mappers : channel_mappers[i].coreset.duration > 2 /\ EndsShort(i)

\* A flow with work serves a mapper; the first block gives every mapper a flow of its own.
ChainInv ==
  /\ \A f \in Flows : serves[f] <= Len(channel_mappers)
  /\ \A f \in Flows : status[f] = "busy" \/ pending[f] > 0 => serves[f] > 0
  /\ \A f \in Flows : fatal[f] <= pending[f]
  /\ pc = "acquire" => \E n \in 0 .. Len(bandwidth_parts) : todo = n + 1 .. Len(bandwidth_parts)
  /\ ~renewed =>
       /\ bandwidth_parts = <<>> \/ pc \in {"set up", "remainder", "release"} => NobodyServes
       /\ pc = "acquire" => \A f \in Flows : serves[f] \notin todo
       /\ \A f, g \in Flows : serves[f] = serves[g] /\ serves[f] > 0 => f = g
       /\ (\E f \in Flows : fatal[f] > 0) \/ pc = "flow died" => SomeEndsShort

SnifferInvariant ==
  /\ TypeInv
  /\ SetUpInv
  /\ StreamInv
  /\ PoolInv
  /\ ChunkInv
  /\ ChainInv
  /\ result = 0 => pc = "returned" /\ NothingLeftBehind
=============================================================================
