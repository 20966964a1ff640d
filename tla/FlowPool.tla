------------------------------ MODULE FlowPool ------------------------------
(***************************************************************************)
(* The pool of processing flows (src/flow_pool.cc, src/flow.cc).           *)
(*                                                                         *)
(* One main thread owns the pool: it creates the flows, acquires and       *)
(* releases them, sends every chunk of samples to every acquired flow and  *)
(* finally destroys the pool.  Every flow is a thread with a message queue *)
(* of its own (a ZeroMQ DEALER socket connected to the pool's ROUTER).     *)
(* Main and a flow share, without a lock, the flow's fields available,     *)
(* sniffer_finished and metadata and its list of next workers, and the     *)
(* counting semaphore available_flows.                                     *)
(*                                                                         *)
(* A message is a number: 0 is the message of size 0, which a flow takes   *)
(* for its start or stop message; n > 0 is the n-th chunk the pool was     *)
(* asked to process.  The metadata passed along with chunk n is n.         *)
(***************************************************************************)
EXTENDS Naturals, Sequences, FiniteSets

CONSTANTS
  MaxFlows,       \* number of flows in the pool (64 in syncer.cc:98)
  QueueCap,       \* messages a queue holds before send blocks (ZeroMQ's high-water mark)
  MaxChunks,      \* bound: how many chunks main processes
  EofMayBeEmpty   \* whether the last chunk of the source may hold no sample

ASSUME PoolAssumption ==
  /\ MaxFlows \in Nat \ {0}
  /\ QueueCap \in Nat \ {0}
  /\ MaxChunks \in Nat
  /\ EofMayBeEmpty \in BOOLEAN

Flows == 0 .. MaxFlows - 1
Chunks == 1 .. MaxChunks
Empty == 0

VARIABLES
  \* main thread
  mpc,               \* where main is
  i,                 \* index of the loop main is in
  payload,           \* the message flow_pool::process is sending
  chunks,            \* chunks processed so far
  running,           \* FALSE once the source has ended
  eof,               \* the source ended with an empty chunk
  acquired_flows,    \* flow_pool::acquired_flows
  \* shared with the flow threads
  available_flows,   \* value of the counting semaphore
  available,         \* flow::available
  sniffer_finished,  \* flow::sniffer_finished
  metadata,          \* flow::metadata
  num_next_workers,  \* number of workers connected to the flow
  queue,             \* messages sent to the flow and not yet received
  \* flow threads
  fpc,               \* where the thread of the flow is
  msg,               \* the message last received
  \* history: chunk numbers, counted from the acquisition of the flow
  owed,              \* last chunk sent to the flow
  handled,           \* last chunk the flow passed on to its next workers
  mislabelled        \* some chunk was passed on with the metadata of another

mainVars == <<mpc, i, payload, chunks, running, eof, acquired_flows>>
shared   == <<available_flows, available, sniffer_finished, metadata, num_next_workers, queue>>
history  == <<owed, handled, mislabelled>>
vars     == <<mainVars, shared, fpc, msg, history>>

MainPc == {"create", "start_ack", "serve", "acquire", "scan", "connect", "metadata",
           "send", "release", "drain", "flag", "stop", "join", "done", "exception"}
FlowPc == {"none", "connecting", "wait_start", "set_available", "sem_release", "check",
           "recv", "handle", "disconnect", "exited"}

TypeOK ==
  /\ mpc \in MainPc
  /\ i \in Nat
  /\ payload \in {Empty} \cup Chunks
  /\ chunks \in 0 .. MaxChunks
  /\ running \in BOOLEAN
  /\ eof \in BOOLEAN
  /\ acquired_flows \in Seq(Flows)
  /\ available_flows \in Nat
  /\ available \in [Flows -> BOOLEAN]
  /\ sniffer_finished \in [Flows -> BOOLEAN]
  /\ metadata \in [Flows -> Nat]
  /\ num_next_workers \in [Flows -> Nat]
  /\ queue \in [Flows -> Seq(Nat)]
  /\ fpc \in [Flows -> FlowPc]
  /\ msg \in [Flows -> Nat]
  /\ owed \in [Flows -> Nat]
  /\ handled \in [Flows -> Nat]
  /\ mislabelled \in BOOLEAN

Init ==
  /\ mpc = "create"
  /\ i = 0
  /\ payload = Empty
  /\ chunks = 0
  /\ running = TRUE
  /\ eof = FALSE
  /\ acquired_flows = <<>>
  /\ available_flows = 0
  /\ available = [f \in Flows |-> FALSE]
  /\ sniffer_finished = [f \in Flows |-> FALSE]
  /\ metadata = [f \in Flows |-> 0]
  /\ num_next_workers = [f \in Flows |-> 0]
  /\ queue = [f \in Flows |-> <<>>]
  /\ fpc = [f \in Flows |-> "none"]
  /\ msg = [f \in Flows |-> Empty]
  /\ owed = [f \in Flows |-> 0]
  /\ handled = [f \in Flows |-> 0]
  /\ mislabelled = FALSE

-----------------------------------------------------------------------------
(* The ROUTER socket.  With router_mandatory a send to a peer that has not *)
(* connected yet, or has closed its socket, fails with EHOSTUNREACH, and a *)
(* send to a peer whose queue is full blocks.                              *)

Reachable(f) == fpc[f] \notin {"none", "connecting", "exited"}

Deliver(f, m) ==
  /\ Reachable(f)
  /\ Len(queue[f]) < QueueCap
  /\ queue' = [queue EXCEPT ![f] = Append(@, m)]

\* Mutant of finish: the stop message overtakes the chunks already queued.
finishUrgent(f) ==
  \/ /\ Reachable(f)
     /\ Len(queue[f]) < QueueCap
     /\ queue' = [queue EXCEPT ![f] = <<Empty>> \o @]
  \/ ~Reachable(f) /\ UNCHANGED queue

\* flow::finish: an empty message, dropped when the flow has already stopped.
finish(f) ==
  \/ Deliver(f, Empty)
  \/ ~Reachable(f) /\ UNCHANGED queue

-----------------------------------------------------------------------------
(* Main: construction of the pool.                                         *)

\* flow::flow starts the thread of the next flow.
CreateFlow ==
  /\ mpc = "create"
  /\ mpc' = "start_ack"
  /\ fpc' = [fpc EXCEPT ![i] = "connecting"]
  /\ UNCHANGED <<i, payload, chunks, running, eof, acquired_flows, shared, msg, history>>

\* wait_for_start_message_ack repeats the empty message until it can be
\* delivered; a try that fails with EHOSTUNREACH changes nothing.
SendStart ==
  /\ mpc = "start_ack"
  /\ Deliver(i, Empty)
  /\ IF i + 1 < MaxFlows
     THEN mpc' = "create" /\ i' = i + 1
     ELSE mpc' = "serve" /\ i' = 0
  /\ UNCHANGED <<payload, chunks, running, eof, acquired_flows, available_flows, available,
                 sniffer_finished, metadata, num_next_workers, fpc, msg, history>>

-----------------------------------------------------------------------------
(* Main: the calls its owner makes while the sniffer runs.                 *)

CallAcquire ==
  /\ mpc = "serve"
  /\ mpc' = "acquire"
  /\ UNCHANGED <<i, payload, chunks, running, eof, acquired_flows, shared, fpc, msg, history>>

\* flow_pool::process on a chunk of samples.
CallProcess ==
  /\ mpc = "serve"
  /\ chunks < MaxChunks
  /\ chunks' = chunks + 1
  /\ payload' = chunks + 1
  /\ mpc' = "metadata"
  /\ i' = 0
  /\ UNCHANGED <<running, eof, acquired_flows, shared, fpc, msg, history>>

CallRelease ==
  /\ mpc = "serve"
  /\ mpc' = "release"
  /\ i' = 0
  /\ UNCHANGED <<payload, chunks, running, eof, acquired_flows, shared, fpc, msg, history>>

\* The source ends: on_end stops the sniffer, but the buffer it was read into
\* is still processed.  It is empty when the file ended with the chunk before.
EndWithEmptyChunk ==
  /\ mpc = "serve"
  /\ EofMayBeEmpty
  /\ running' = FALSE
  /\ eof' = TRUE
  /\ payload' = Empty
  /\ mpc' = "metadata"
  /\ i' = 0
  /\ UNCHANGED <<chunks, acquired_flows, shared, fpc, msg, history>>

\* The sniffer is destroyed; ~flow_pool starts by releasing the flows.
Destroy ==
  /\ mpc = "serve"
  /\ running' = FALSE
  /\ mpc' = "release"
  /\ i' = 0
  /\ UNCHANGED <<payload, chunks, eof, acquired_flows, shared, fpc, msg, history>>

-----------------------------------------------------------------------------
(* Main: flow_pool::acquire_flow, then flow->connect of its caller.        *)

AcquireSemaphore ==
  /\ mpc = "acquire"
  /\ available_flows > 0
  /\ available_flows' = available_flows - 1
  /\ mpc' = "scan"
  /\ i' = 0
  /\ UNCHANGED <<payload, chunks, running, eof, acquired_flows, available, sniffer_finished,
                 metadata, num_next_workers, queue, fpc, msg, history>>

\* The scan reads the flags one by one while the flow threads may set them.  At
\* its end: "Flow pool semaphore indicated a flow is available, but this was not
\* the case."
SkipFlow ==
  /\ mpc = "scan"
  /\ ~available[i]
  /\ mpc' = IF i + 1 < MaxFlows THEN "scan" ELSE "exception"
  /\ i' = i + 1
  /\ UNCHANGED <<payload, chunks, running, eof, acquired_flows, shared, fpc, msg, history>>

TakeFlow ==
  /\ mpc = "scan"
  /\ available[i]
  /\ available' = [available EXCEPT ![i] = FALSE]
  /\ acquired_flows' = Append(acquired_flows, i)
  /\ owed' = [owed EXCEPT ![i] = chunks]
  /\ handled' = [handled EXCEPT ![i] = chunks]
  /\ mpc' = "connect"
  /\ UNCHANGED <<i, payload, chunks, running, eof, available_flows, sniffer_finished, metadata,
                 num_next_workers, queue, fpc, msg, mislabelled>>

\* flow->connect(rotator)
Connect ==
  /\ mpc = "connect"
  /\ num_next_workers' = [num_next_workers EXCEPT ![i] = @ + 1]
  /\ mpc' = "serve"
  /\ i' = 0
  /\ UNCHANGED <<payload, chunks, running, eof, acquired_flows, available_flows, available,
                 sniffer_finished, metadata, queue, fpc, msg, history>>

-----------------------------------------------------------------------------
(* Main: flow_pool::process and flow_pool::release_flows walk through      *)
(* acquired_flows; i counts the flows done.                                *)

Current == acquired_flows[i + 1]
MoreFlows == i < Len(acquired_flows)

\* flow::process stores the metadata in the flow ...
SetMetadata ==
  /\ mpc = "metadata"
  /\ MoreFlows
  /\ metadata' = [metadata EXCEPT ![Current] = chunks]
  /\ mpc' = "send"
  /\ UNCHANGED <<i, payload, chunks, running, eof, acquired_flows, available_flows, available,
                 sniffer_finished, num_next_workers, queue, fpc, msg, history>>

\* Mutant of SendChunk: a send that would block drops the chunk.
SendChunkOrDrop ==
  /\ mpc = "send"
  /\ \/ Deliver(Current, payload)
     \/ Len(queue[Current]) = QueueCap /\ UNCHANGED queue
  /\ owed' = [owed EXCEPT ![Current] = chunks]
  /\ mpc' = "metadata"
  /\ i' = i + 1
  /\ UNCHANGED <<payload, chunks, running, eof, acquired_flows, available_flows, available,
                 sniffer_finished, metadata, num_next_workers, fpc, msg, handled, mislabelled>>

\* ... and then sends the samples.
SendChunk ==
  /\ mpc = "send"
  /\ Deliver(Current, payload)
  /\ owed' = [owed EXCEPT ![Current] = chunks]
  /\ mpc' = "metadata"
  /\ i' = i + 1
  /\ UNCHANGED <<payload, chunks, running, eof, acquired_flows, available_flows, available,
                 sniffer_finished, metadata, num_next_workers, fpc, msg, handled, mislabelled>>

ProcessDone ==
  /\ mpc = "metadata"
  /\ ~MoreFlows
  /\ mpc' = IF running THEN "serve" ELSE "release"
  /\ i' = 0
  /\ UNCHANGED <<payload, chunks, running, eof, acquired_flows, shared, fpc, msg, history>>

SendStop ==
  /\ mpc = "release"
  /\ MoreFlows
  /\ finish(Current)
  /\ i' = i + 1
  /\ UNCHANGED <<mpc, payload, chunks, running, eof, acquired_flows, available_flows, available,
                 sniffer_finished, metadata, num_next_workers, fpc, msg, history>>

\* Mutant of ReleaseDone: acquired_flows is not cleared.
ReleaseKeepsFlows ==
  /\ mpc = "release"
  /\ ~MoreFlows
  /\ mpc' = IF running THEN "serve" ELSE "drain"
  /\ i' = 0
  /\ UNCHANGED <<payload, chunks, running, eof, acquired_flows, shared, fpc, msg, history>>

ReleaseDone ==
  /\ mpc = "release"
  /\ ~MoreFlows
  /\ acquired_flows' = <<>>
  /\ mpc' = IF running THEN "serve" ELSE "drain"
  /\ i' = 0
  /\ UNCHANGED <<payload, chunks, running, eof, shared, fpc, msg, history>>

-----------------------------------------------------------------------------
(* Main: the rest of ~flow_pool, and the joins of ~flow.                   *)

\* Mutant of Drain: the loop waits for one flow fewer.
DrainOneShort ==
  /\ mpc = "drain"
  /\ available_flows > 0
  /\ available_flows' = available_flows - 1
  /\ IF i + 2 < MaxFlows
     THEN mpc' = "drain" /\ i' = i + 1
     ELSE mpc' = "flag" /\ i' = 0
  /\ UNCHANGED <<payload, chunks, running, eof, acquired_flows, available, sniffer_finished,
                 metadata, num_next_workers, queue, fpc, msg, history>>

\* One of the max_flows calls of available_flows->acquire().
Drain ==
  /\ mpc = "drain"
  /\ available_flows > 0
  /\ available_flows' = available_flows - 1
  /\ IF i + 1 < MaxFlows
     THEN mpc' = "drain" /\ i' = i + 1
     ELSE mpc' = "flag" /\ i' = 0
  /\ UNCHANGED <<payload, chunks, running, eof, acquired_flows, available, sniffer_finished,
                 metadata, num_next_workers, queue, fpc, msg, history>>

SetSnifferFinished ==
  /\ mpc = "flag"
  /\ sniffer_finished' = [sniffer_finished EXCEPT ![i] = TRUE]
  /\ mpc' = "stop"
  /\ UNCHANGED <<i, payload, chunks, running, eof, acquired_flows, available_flows, available,
                 metadata, num_next_workers, queue, fpc, msg, history>>

\* Mutant of FinishFlow: the flag is set, but no message wakes the flow up.
FlagOnly ==
  /\ mpc = "stop"
  /\ IF i + 1 < MaxFlows
     THEN mpc' = "flag" /\ i' = i + 1
     ELSE mpc' = "join" /\ i' = 0
  /\ UNCHANGED <<payload, chunks, running, eof, acquired_flows, shared, fpc, msg, history>>

FinishFlow ==
  /\ mpc = "stop"
  /\ finish(i)
  /\ IF i + 1 < MaxFlows
     THEN mpc' = "flag" /\ i' = i + 1
     ELSE mpc' = "join" /\ i' = 0
  /\ UNCHANGED <<payload, chunks, running, eof, acquired_flows, available_flows, available,
                 sniffer_finished, metadata, num_next_workers, fpc, msg, history>>

Join ==
  /\ mpc = "join"
  /\ fpc[i] = "exited"
  /\ IF i + 1 < MaxFlows
     THEN mpc' = "join" /\ i' = i + 1
     ELSE mpc' = "done" /\ i' = 0
  /\ UNCHANGED <<payload, chunks, running, eof, acquired_flows, shared, fpc, msg, history>>

-----------------------------------------------------------------------------
(* The thread of flow f: flow::handle_messages.                            *)

Goto(f, from, to) ==
  /\ fpc[f] = from
  /\ fpc' = [fpc EXCEPT ![f] = to]

\* The DEALER socket connects and its routing id becomes known to the ROUTER.
ConnectSocket(f) ==
  /\ Goto(f, "connecting", "wait_start")
  /\ UNCHANGED <<mainVars, shared, msg, history>>

\* wait_for_start_message
ReceiveStart(f) ==
  /\ Goto(f, "wait_start", "set_available")
  /\ queue[f] # <<>>
  /\ msg' = [msg EXCEPT ![f] = Head(queue[f])]
  /\ queue' = [queue EXCEPT ![f] = Tail(@)]
  /\ UNCHANGED <<mainVars, available_flows, available, sniffer_finished, metadata,
                 num_next_workers, history>>

\* set_available: the flag, then the semaphore.
SetAvailable(f) ==
  /\ Goto(f, "set_available", "sem_release")
  /\ available' = [available EXCEPT ![f] = TRUE]
  /\ UNCHANGED <<mainVars, available_flows, sniffer_finished, metadata, num_next_workers, queue,
                 msg, history>>

\* Mutant of ReleaseSemaphore: the workers are disconnected after the flow has
\* been announced instead of before.
ReleaseThenDisconnect(f) ==
  /\ Goto(f, "sem_release", "check")
  /\ available_flows' = available_flows + 1
  /\ num_next_workers' = [num_next_workers EXCEPT ![f] = 0]
  /\ UNCHANGED <<mainVars, available, sniffer_finished, metadata, queue, msg, history>>

ReleaseSemaphore(f) ==
  /\ Goto(f, "sem_release", "check")
  /\ available_flows' = available_flows + 1
  /\ UNCHANGED <<mainVars, available, sniffer_finished, metadata, num_next_workers, queue, msg,
                 history>>

\* while(!sniffer_finished)
CheckFinished(f) ==
  /\ Goto(f, "check", IF sniffer_finished[f] THEN "exited" ELSE "recv")
  /\ UNCHANGED <<mainVars, shared, msg, history>>

Receive(f) ==
  /\ queue[f] # <<>>
  /\ Goto(f, "recv", IF Head(queue[f]) = Empty THEN "disconnect" ELSE "handle")
  /\ msg' = [msg EXCEPT ![f] = Head(queue[f])]
  /\ queue' = [queue EXCEPT ![f] = Tail(@)]
  /\ UNCHANGED <<mainVars, available_flows, available, sniffer_finished, metadata,
                 num_next_workers, history>>

\* send_to_next_workers(samples, metadata): the metadata is read now.
Handle(f) ==
  /\ Goto(f, "handle", "recv")
  /\ handled' = [handled EXCEPT ![f] = msg[f]]
  /\ mislabelled' = (mislabelled \/ metadata[f] # msg[f])
  /\ UNCHANGED <<mainVars, shared, msg, owed>>

\* Mutants of DisconnectAll: the flag is not set before the semaphore is
\* released; the workers stay connected.
DisconnectSkipsFlag(f) ==
  /\ Goto(f, "disconnect", "sem_release")
  /\ num_next_workers' = [num_next_workers EXCEPT ![f] = 0]
  /\ UNCHANGED <<mainVars, available_flows, available, sniffer_finished, metadata, queue, msg,
                 history>>

KeepWorkers(f) ==
  /\ Goto(f, "disconnect", "set_available")
  /\ UNCHANGED <<mainVars, shared, msg, history>>

DisconnectAll(f) ==
  /\ Goto(f, "disconnect", "set_available")
  /\ num_next_workers' = [num_next_workers EXCEPT ![f] = 0]
  /\ UNCHANGED <<mainVars, available_flows, available, sniffer_finished, metadata, queue, msg,
                 history>>

-----------------------------------------------------------------------------
(* What the owner of the pool decides, and what then runs by itself.       *)

Owner == CallAcquire \/ CallProcess \/ CallRelease \/ EndWithEmptyChunk \/ Destroy

Main ==
  \/ CreateFlow \/ SendStart
  \/ AcquireSemaphore \/ SkipFlow \/ TakeFlow \/ Connect
  \/ SetMetadata \/ SendChunk \/ ProcessDone \/ SendStop \/ ReleaseDone
  \/ Drain \/ SetSnifferFinished \/ FinishFlow \/ Join

FlowThread(f) ==
  \/ ConnectSocket(f) \/ ReceiveStart(f) \/ SetAvailable(f) \/ ReleaseSemaphore(f)
  \/ CheckFinished(f) \/ Receive(f) \/ Handle(f) \/ DisconnectAll(f)

Next == Owner \/ Main \/ \E f \in Flows : FlowThread(f)

\* The operating system schedules every thread that can run; the owner of the
\* pool is free to make no further call.
Spec ==
  /\ Init
  /\ [][Next]_vars
  /\ WF_vars(Main)
  /\ \A f \in Flows : WF_vars(FlowThread(f))

-----------------------------------------------------------------------------
(* Properties.                                                             *)

\* The exception of flow_pool.cc:77 is never thrown: a thread that passes the
\* semaphore finds a flow whose flag is set, although a flow sets its flag and
\* releases the semaphore in two steps and main may take it between the two.
NoException == mpc # "exception"

\* The assertions of flow.cc: the first message a flow receives is the empty
\* one (line 95), and a flow that becomes available has no worker left (line
\* 63), so that a worker connected by main is never one of an earlier use.
AssertionsHold ==
  \A f \in Flows : fpc[f] = "set_available" =>
    /\ msg[f] = Empty
    /\ num_next_workers[f] = 0

\* A chunk reaches exactly the one chain of workers that main connected for the
\* acquisition the chunk was sent under: never an emptied list, never two.
ChunkMeetsItsWorkers ==
  \A f \in Flows : fpc[f] = "handle" => num_next_workers[f] = 1

\* "Tell all currently existing flows to finish processing after the workload
\* they received now" (syncer.cc:506): when a flow becomes available again it
\* has passed on every chunk that was sent to it.
NoWorkLost == \A f \in Flows : available[f] => handled[f] = owed[f]

\* "Wait for all flows to finish" (flow_pool.cc:51, in ~flow_pool): once the
\* destructor has passed its semaphore loop no flow has work left, unless the
\* source ended with an empty chunk.  Then every flow is stopped twice, and the
\* second release of one flow may stand for the first of another.
WaitsForAllFlows ==
  ~eof /\ mpc \in {"flag", "stop", "join", "done"} => \A f \in Flows : handled[f] = owed[f]

\* Between two acquisitions a flow passes on the chunks in the order they were
\* sent, none twice and none left out.
InOrder ==
  [][\A f \in Flows :
       handled'[f] # handled[f] => \/ handled'[f] = handled[f] + 1
                                   \/ available[f] /\ ~available'[f]]_vars

\* The metadata a flow passes on with a chunk is the metadata the chunk was sent
\* with ("Samples from start", which the DCI log line of pdcch.cc prints).
MetadataOfChunk == ~mislabelled

\* Once the sniffer stops, ~flow_pool returns and every thread has been joined,
\* whatever the flows were doing and however the source ended.
ShutdownTerminates == ~running ~> (mpc = "done")
=============================================================================
