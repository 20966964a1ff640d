----------------------------- MODULE FlowPoolInv -----------------------------
(***************************************************************************)
(* The inductive invariant of FlowPool: what holds between any two steps   *)
(* of main and of the flow threads, and implies the safety properties.     *)
(***************************************************************************)
EXTENDS FlowPool, Integers

Creating == {"create", "start_ack"}
Walking  == {"metadata", "send"}
Stopping == {"flag", "stop", "join", "done"}
Serving  == {"sem_release", "check", "recv", "handle"}

Positions == 1 .. Len(acquired_flows)

\* Main holds f and has not sent it the stop message yet.
Owned(f) == \E k \in Positions : acquired_flows[k] = f /\ (mpc = "release" => k > i)

\* Main holds f and has sent it neither the stop message nor an empty chunk.
Held(f) ==
  /\ eof => mpc \in Walking
  /\ \E k \in Positions : acquired_flows[k] = f /\ (eof \/ mpc = "release" => k > i)

\* The chunk the thread of f has received but not passed on yet, if any.
InHand(f) == IF fpc[f] = "handle" THEN 1 ELSE 0

\* How many chunks wait in the queue of f.
Backlog(f) == owed[f] - handled[f] - InHand(f)

\* The loop index of main is an index of what it loops over.
IndexInv ==
  /\ mpc \in {"create", "start_ack", "scan", "connect", "drain", "flag", "stop", "join"}
        => i < MaxFlows
  /\ mpc = "send" => i < Len(acquired_flows)

\* main's control and the way the source ended.
ControlInv ==
  /\ mpc \in {"create", "start_ack", "serve", "acquire", "scan", "connect"} => running
  /\ mpc \in {"drain"} \cup Stopping => ~running
  /\ eof => ~running
  /\ ~running => eof \/ mpc \notin Walking
  /\ mpc \in {"create", "start_ack", "drain"} \cup Stopping => acquired_flows = <<>>
  /\ mpc # "exception"

\* The messages in the queue of f are the backlog, in order, and then empty ones.
FlowInv(f) ==
  /\ Backlog(f) \in 0 .. Len(queue[f])
  /\ \A j \in 1 .. Len(queue[f]) :
       queue[f][j] = IF j <= Backlog(f) THEN handled[f] + InHand(f) + j ELSE Empty
  /\ fpc[f] \notin Serving \cup {"exited"} \/ available[f] => Backlog(f) = 0 /\ fpc[f] # "handle"
  /\ Backlog(f) > 0 \/ fpc[f] = "handle" => num_next_workers[f] = 1
  /\ fpc[f] = "handle" => msg[f] = handled[f] + 1
  /\ fpc[f] \in {"disconnect", "set_available"} => msg[f] = Empty
  /\ fpc[f] \in {"none", "connecting", "wait_start", "set_available"} => num_next_workers[f] = 0

\* The life of a flow as long as main sends it no empty chunk.  Main has not
\* sent the start message to an unborn flow; a starting flow has it to receive;
\* a free one waits for main; main sends chunks to a busy one; a finishing one
\* has been sent the stop message and works until it gets there.
Unborn(f) == mpc \in Creating /\ f >= i

WithoutStart(f) ==
  /\ fpc[f] = "none" <=> mpc = "create" \/ f > i
  /\ fpc[f] \in {"none", "connecting", "wait_start"}
  /\ queue[f] = <<>>
  /\ num_next_workers[f] = 0

Starting(f) ==
  /\ \/ fpc[f] = "wait_start" /\ queue[f] = <<Empty>>
     \/ fpc[f] = "set_available" /\ queue[f] = <<>>
  /\ num_next_workers[f] = 0

Free(f) ==
  /\ fpc[f] \in {"sem_release", "check", "recv"}
  /\ queue[f] = <<>>
  /\ num_next_workers[f] = 0

Busy(f) ==
  /\ fpc[f] \in Serving
  /\ Len(queue[f]) = Backlog(f)
  /\ num_next_workers[f] = IF mpc = "connect" /\ i = f THEN 0 ELSE 1

Finishing(f) ==
  \/ /\ fpc[f] \in Serving
     /\ Len(queue[f]) = Backlog(f) + 1
  \/ /\ fpc[f] \in {"disconnect", "set_available"}
     /\ queue[f] = <<>>

PhaseInv(f) ==
  /\ Unborn(f) => ~available[f] /\ WithoutStart(f)
  /\ Owned(f) => ~available[f] /\ Busy(f)
  /\ available[f] => Free(f)
  /\ ~Unborn(f) /\ ~available[f] /\ ~Owned(f) => Starting(f) \/ Finishing(f)
  /\ ~sniffer_finished[f]

\* Every flag that is set stands for one token: in the semaphore, about to be
\* released to it, or taken from it by main.
Flagged == {f \in Flows : available[f]}
AboutToRelease == {f \in Flows : fpc[f] = "sem_release"}
Taken == CASE mpc = "scan" -> 1 [] mpc = "drain" -> i [] OTHER -> 0

TokenInv == Cardinality(Flagged) = available_flows + Cardinality(AboutToRelease) + Taken

\* Some flow the scan has not looked at yet is available.
ScanInv == mpc = "scan" => \E f \in Flows : f >= i /\ available[f]

\* Main holds no flow twice, and what it has sent to the flows it holds.
AcquiredInv ==
  /\ \A j, k \in Positions : acquired_flows[j] = acquired_flows[k] => j = k
  /\ mpc = "connect" => \E k \in Positions : acquired_flows[k] = i
  /\ \A k \in Positions :
       owed[acquired_flows[k]] = IF mpc \in Walking /\ running /\ k > i THEN chunks - 1 ELSE chunks
  /\ mpc \in Walking => payload = IF running THEN chunks ELSE Empty
  /\ mpc \in Walking /\ running => chunks > 0

\* No empty chunk has been sent and ~flow_pool has not passed its semaphore loop.
Orderly == ~eof /\ mpc \notin Stopping

\* The source has ended with an empty chunk, and main has not got to f with it.
EndInv(f) == Held(f) => ~available[f] /\ Busy(f) /\ ~sniffer_finished[f]

IInv ==
  /\ TypeOK
  /\ IndexInv
  /\ ControlInv
  /\ AcquiredInv
  /\ \A f \in Flows : FlowInv(f)
  /\ Orderly => /\ \A f \in Flows : PhaseInv(f)
                /\ TokenInv
                /\ ScanInv
  /\ ~eof /\ mpc \in Stopping => \A f \in Flows : available[f]
  /\ eof => \A f \in Flows : EndInv(f)
=============================================================================
