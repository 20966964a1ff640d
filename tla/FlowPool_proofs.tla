--------------------------- MODULE FlowPool_proofs ---------------------------
(***************************************************************************)
(* Proofs about FlowPool: its type invariant, its safety invariants and    *)
(* action property, and that its steps implement those of FlowService, for *)
(* every number of flows, queue capacity and number of chunks.             *)
(***************************************************************************)
EXTENDS FlowPoolRefines, FiniteSetTheorems, TLAPS

LEMMA FlowsFinite ==
  /\ IsFiniteSet(Flows)
  /\ Cardinality(Flows) = MaxFlows
<1>1. MaxFlows - 1 \in Int /\ 0 \in Int /\ 0 <= MaxFlows - 1
  BY PoolAssumption
<1>2. QED
  BY <1>1, FS_Interval, PoolAssumption DEF Flows

\* Facts about the elements of Append and Tail, in the form the proofs use.
LEMMA AppendFacts ==
  ASSUME NEW s \in Seq(Nat), NEW m \in Nat
  PROVE  /\ Append(s, m) \in Seq(Nat)
         /\ Len(Append(s, m)) = Len(s) + 1
         /\ \A j \in 1 .. Len(s) : Append(s, m)[j] = s[j]
         /\ Append(s, m)[Len(s) + 1] = m
  OBVIOUS

LEMMA TailFacts ==
  ASSUME NEW s \in Seq(Nat), s # <<>>
  PROVE  /\ Tail(s) \in Seq(Nat)
         /\ Len(Tail(s)) = Len(s) - 1
         /\ Len(s) > 0
         /\ Head(s) = s[1]
         /\ Head(s) \in Nat
         /\ \A j \in 1 .. Len(s) - 1 : Tail(s)[j] = s[j + 1]
  OBVIOUS

LEMMA EmptyFact ==
  ASSUME NEW s \in Seq(Nat), Len(s) = 0
  PROVE  s = <<>>
  OBVIOUS

-----------------------------------------------------------------------------
(* Type correctness.  The index of main's loop is part of it, for without  *)
(* it main could write outside the tables of the flows.                    *)

TypeInv == TypeOK /\ IndexInv

LEMMA ChunksFact == \A n \in 0 .. MaxChunks : n \in Nat /\ (n < MaxChunks => n + 1 \in 0 .. MaxChunks /\ n + 1 \in Chunks)
  BY PoolAssumption DEF Chunks

LEMMA IndexFact == i \in Nat /\ i < MaxFlows <=> i \in Flows
  BY PoolAssumption DEF Flows

LEMMA CurrentFact ==
  ASSUME TypeInv, MoreFlows
  PROVE  Current \in Flows
  BY DEF TypeInv, TypeOK, MoreFlows, Current

LEMMA DeliverType ==
  ASSUME TypeOK, NEW f \in Flows, NEW m \in Nat, Deliver(f, m)
  PROVE  queue' \in [Flows -> Seq(Nat)]
<1>1. queue[f] \in Seq(Nat)
  BY DEF TypeOK
<1>2. Append(queue[f], m) \in Seq(Nat)
  BY <1>1, AppendFacts
<1>3. QED
  BY <1>2 DEF TypeOK, Deliver

LEMMA finishType ==
  ASSUME TypeOK, NEW f \in Flows, finish(f)
  PROVE  queue' \in [Flows -> Seq(Nat)]
  BY DeliverType DEF finish, Empty, TypeOK

LEMMA InitType == Init => TypeInv
<1> SUFFICES ASSUME Init
             PROVE  TypeInv
  OBVIOUS
<1>1. /\ acquired_flows \in Seq(Flows)
      /\ queue \in [Flows -> Seq(Nat)]
  BY DEF Init
<1>2. /\ available \in [Flows -> BOOLEAN]
      /\ sniffer_finished \in [Flows -> BOOLEAN]
      /\ fpc \in [Flows -> FlowPc]
  BY DEF Init, FlowPc
<1>3. /\ metadata \in [Flows -> Nat]
      /\ num_next_workers \in [Flows -> Nat]
      /\ msg \in [Flows -> Nat]
      /\ owed \in [Flows -> Nat]
      /\ handled \in [Flows -> Nat]
  BY DEF Init, Empty
<1>4. TypeOK
  <2>1. mpc \in MainPc /\ i \in Nat /\ payload \in {Empty} \cup Chunks /\ available_flows \in Nat
    BY DEF Init, MainPc
  <2>2. chunks \in 0 .. MaxChunks
    BY PoolAssumption DEF Init
  <2>3. running \in BOOLEAN /\ eof \in BOOLEAN /\ mislabelled \in BOOLEAN
    BY DEF Init
  <2>4. QED
    BY <1>1, <1>2, <1>3, <2>1, <2>2, <2>3 DEF TypeOK
<1>5. IndexInv
  BY PoolAssumption DEF Init, IndexInv
<1>6. QED
  BY <1>4, <1>5 DEF TypeInv

LEMMA NextType == TypeInv /\ [Next]_vars => TypeInv'
<1> SUFFICES ASSUME TypeInv, [Next]_vars
             PROVE  TypeInv'
  OBVIOUS
<1> USE DEF TypeInv, TypeOK, IndexInv, MainPc, FlowPc
<1>1. CASE CreateFlow
  BY <1>1, IndexFact DEF CreateFlow, shared, history
<1>2. CASE SendStart
  <2>1. i \in Flows /\ Empty \in Nat
    BY <1>2, IndexFact DEF SendStart, Empty
  <2>2. queue' \in [Flows -> Seq(Nat)]
    BY <1>2, <2>1, DeliverType DEF SendStart
  <2>3. QED
    BY <1>2, <2>2, PoolAssumption DEF SendStart, history
<1>3. CASE CallAcquire
  BY <1>3 DEF CallAcquire, shared, history
<1>4. CASE CallProcess
  <2>1. chunks + 1 \in 0 .. MaxChunks /\ chunks + 1 \in Chunks
    BY <1>4, ChunksFact DEF CallProcess
  <2>2. QED
    BY <1>4, <2>1 DEF CallProcess, shared, history
<1>5. CASE CallRelease
  BY <1>5 DEF CallRelease, shared, history
<1>6. CASE EndWithEmptyChunk
  BY <1>6 DEF EndWithEmptyChunk, shared, history, Empty
<1>7. CASE Destroy
  BY <1>7 DEF Destroy, shared, history
<1>8. CASE AcquireSemaphore
  BY <1>8, PoolAssumption DEF AcquireSemaphore, history
<1>9. CASE SkipFlow
  BY <1>9, PoolAssumption DEF SkipFlow, shared, history
<1>10. CASE TakeFlow
  <2>1. i \in Flows /\ chunks \in Nat
    BY <1>10, IndexFact, ChunksFact DEF TakeFlow
  <2>2. acquired_flows' \in Seq(Flows)
    BY <1>10, <2>1 DEF TakeFlow
  <2>3. owed' \in [Flows -> Nat] /\ handled' \in [Flows -> Nat]
    BY <1>10, <2>1 DEF TakeFlow
  <2>4. QED
    BY <1>10, <2>2, <2>3 DEF TakeFlow, history
<1>11. CASE Connect
  <2>1. i \in Flows
    BY <1>11, IndexFact DEF Connect
  <2>2. num_next_workers[i] + 1 \in Nat
    BY <2>1
  <2>3. num_next_workers' \in [Flows -> Nat]
    BY <1>11, <2>1, <2>2 DEF Connect
  <2>4. QED
    BY <1>11, <2>3 DEF Connect, history
<1>12. CASE SetMetadata
  <2>1. Current \in Flows /\ chunks \in Nat
    BY <1>12, CurrentFact, ChunksFact DEF SetMetadata
  <2>2. QED
    BY <1>12, <2>1 DEF SetMetadata, MoreFlows, history
<1>13. CASE SendChunk
  <2>1. Current \in Flows /\ chunks \in Nat
    BY <1>13, CurrentFact, ChunksFact DEF SendChunk, MoreFlows
  <2>0. payload \in Nat
    BY PoolAssumption DEF Chunks, Empty
  <2>2. queue' \in [Flows -> Seq(Nat)]
    BY <1>13, <2>1, <2>0, DeliverType DEF SendChunk
  <2>3. owed' \in [Flows -> Nat]
    BY <1>13, <2>1 DEF SendChunk
  <2>4. /\ mpc' = "metadata" /\ i' \in Nat
        /\ UNCHANGED <<payload, chunks, running, eof, acquired_flows, available_flows, available,
                      sniffer_finished, metadata, num_next_workers, fpc, msg, handled, mislabelled>>
    BY <1>13 DEF SendChunk
  <2>5. QED
    BY <2>2, <2>3, <2>4
<1>14. CASE ProcessDone
  BY <1>14, PoolAssumption DEF ProcessDone, shared, history
<1>15. CASE SendStop
  <2>1. queue' \in [Flows -> Seq(Nat)]
    BY <1>15, CurrentFact, finishType DEF SendStop
  <2>2. QED
    BY <1>15, <2>1 DEF SendStop, history
<1>16. CASE ReleaseDone
  <2>1. acquired_flows' \in Seq(Flows)
    BY <1>16 DEF ReleaseDone
  <2>2. QED
    BY <1>16, <2>1, PoolAssumption DEF ReleaseDone, shared, history
<1>17. CASE Drain
  <2>1. CASE i + 1 < MaxFlows
    BY <1>17, <2>1 DEF Drain, history
  <2>2. CASE ~(i + 1 < MaxFlows)
    BY <1>17, <2>2, PoolAssumption DEF Drain, history
  <2>3. QED
    BY <2>1, <2>2
<1>18. CASE SetSnifferFinished
  BY <1>18, IndexFact DEF SetSnifferFinished, history
<1>19. CASE FinishFlow
  <2>1. queue' \in [Flows -> Seq(Nat)]
    BY <1>19, IndexFact, finishType DEF FinishFlow
  <2>2. CASE i + 1 < MaxFlows
    <3>1. mpc' = "flag" /\ i' = i + 1
      BY <1>19, <2>2 DEF FinishFlow
    <3>2. QED
      BY <1>19, <2>1, <2>2, <3>1 DEF FinishFlow, history
  <2>3. CASE ~(i + 1 < MaxFlows)
    <3>1. mpc' = "join" /\ i' = 0
      BY <1>19, <2>3 DEF FinishFlow
    <3>2. QED
      BY <1>19, <2>1, <3>1, PoolAssumption DEF FinishFlow, history
  <2>4. QED
    BY <2>2, <2>3
<1>20. CASE Join
  <2>1. /\ mpc' \in MainPc
        /\ UNCHANGED <<payload, chunks, running, eof, acquired_flows, shared, fpc, msg, history>>
    BY <1>20 DEF Join
  <2>2. TypeOK'
    <3>1. i' \in Nat
      BY <1>20 DEF Join
    <3>2. QED
      BY <2>1, <3>1 DEF shared, history
  <2>3. IndexInv'
    <3>1. CASE i + 1 < MaxFlows
      BY <1>20, <3>1 DEF Join
    <3>2. CASE ~(i + 1 < MaxFlows)
      BY <1>20, <3>2 DEF Join
    <3>3. QED
      BY <3>1, <3>2
  <2>4. QED
    BY <2>2, <2>3
<1>21. ASSUME NEW f \in Flows, FlowThread(f)
       PROVE  TypeInv'
  <2> USE DEF Goto, mainVars, history
  <2>1. CASE ConnectSocket(f)
    BY <2>1 DEF ConnectSocket, shared
  <2>2. CASE ReceiveStart(f)
    <3>1. Tail(queue[f]) \in Seq(Nat) /\ Head(queue[f]) \in Nat
      BY <2>2, TailFacts DEF ReceiveStart
    <3>2. QED
      BY <2>2, <3>1 DEF ReceiveStart
  <2>3. CASE SetAvailable(f)
    BY <2>3 DEF SetAvailable
  <2>4. CASE ReleaseSemaphore(f)
    BY <2>4 DEF ReleaseSemaphore
  <2>5. CASE CheckFinished(f)
    BY <2>5 DEF CheckFinished, shared
  <2>6. CASE Receive(f)
    <3>1. Tail(queue[f]) \in Seq(Nat) /\ Head(queue[f]) \in Nat
      BY <2>6, TailFacts DEF Receive
    <3>2. queue' \in [Flows -> Seq(Nat)] /\ msg' \in [Flows -> Nat]
      BY <2>6, <3>1 DEF Receive
    <3>3. fpc' \in [Flows -> FlowPc]
      BY <2>6 DEF Receive
    <3>4. QED
      BY <2>6, <3>2, <3>3 DEF Receive
  <2>7. CASE Handle(f)
    BY <2>7 DEF Handle, shared
  <2>8. CASE DisconnectAll(f)
    BY <2>8 DEF DisconnectAll
  <2>9. QED
    BY <1>21, <2>1, <2>2, <2>3, <2>4, <2>5, <2>6, <2>7, <2>8 DEF FlowThread
<1>22. CASE UNCHANGED vars
  BY <1>22 DEF vars, mainVars, shared, history
<1>23. QED
  BY <1>1, <1>2, <1>3, <1>4, <1>5, <1>6, <1>7, <1>8, <1>9, <1>10, <1>11, <1>12, <1>13, <1>14, <1>15, <1>16, <1>17, <1>18, <1>19, <1>20, <1>21, <1>22
  DEF Next, Owner, Main

\* Every variable of the pool keeps its type, whatever the constants are.
THEOREM TypeCorrect == Spec => []TypeOK
<1>1. TypeInv => TypeOK
  BY DEF TypeInv
<1>2. QED
  BY <1>1, InitType, NextType, PTL DEF Spec

-----------------------------------------------------------------------------
(* The inductive invariant, one conjunct after the other.                  *)

LEMMA IInvType == IInv => TypeInv
  BY DEF IInv, TypeInv

\* A flow none of whose state changes keeps its invariant.
LEMMA FlowFrame ==
  ASSUME NEW f \in Flows, FlowInv(f),
         UNCHANGED <<queue[f], owed[f], handled[f], fpc[f], available[f], num_next_workers[f], msg[f]>>
  PROVE  FlowInv(f)'
  BY DEF FlowInv, Backlog, InHand

\* An empty message may be sent to any flow at any time.
LEMMA FlowAppendEmpty ==
  ASSUME NEW f \in Flows, TypeOK, FlowInv(f), queue'[f] = Append(queue[f], Empty),
         UNCHANGED <<owed[f], handled[f], fpc[f], available[f], num_next_workers[f], msg[f]>>
  PROVE  FlowInv(f)'
<1>1. queue[f] \in Seq(Nat) /\ Empty \in Nat
  BY DEF TypeOK, Empty
<1>2. /\ Len(queue'[f]) = Len(queue[f]) + 1
      /\ \A j \in 1 .. Len(queue[f]) : queue'[f][j] = queue[f][j]
      /\ queue'[f][Len(queue[f]) + 1] = Empty
      /\ Len(queue[f]) \in Nat
  BY <1>1, AppendFacts
<1>3. InHand(f)' = InHand(f) /\ Backlog(f)' = Backlog(f)
  BY DEF InHand, Backlog
<1>4. Backlog(f) \in 0 .. Len(queue[f])
  BY DEF FlowInv
<1>5. Backlog(f)' \in 0 .. Len(queue'[f])
  BY <1>2, <1>3, <1>4
<1>6. ASSUME NEW j \in 1 .. Len(queue'[f])
      PROVE  queue'[f][j] = IF j <= Backlog(f)' THEN handled'[f] + InHand(f)' + j ELSE Empty
  <2>1. CASE j \in 1 .. Len(queue[f])
    BY <2>1, <1>2, <1>3 DEF FlowInv
  <2>2. CASE j = Len(queue[f]) + 1
    BY <2>2, <1>2, <1>3, <1>4
  <2>3. QED
    BY <2>1, <2>2, <1>2
<1>7. QED
  BY <1>3, <1>5, <1>6 DEF FlowInv

\* The next chunk may be sent to a flow that is serving and has its workers.
LEMMA FlowAppendChunk ==
  ASSUME NEW f \in Flows, TypeOK, FlowInv(f),
         fpc[f] \in Serving, ~available[f], num_next_workers[f] = 1,
         Len(queue[f]) = Backlog(f),
         queue'[f] = Append(queue[f], owed[f] + 1),
         owed'[f] = owed[f] + 1,
         UNCHANGED <<handled[f], fpc[f], available[f], num_next_workers[f], msg[f]>>
  PROVE  FlowInv(f)' /\ Backlog(f)' = Backlog(f) + 1 /\ Len(queue'[f]) = Len(queue[f]) + 1
<1>1. queue[f] \in Seq(Nat) /\ owed[f] + 1 \in Nat /\ owed[f] \in Nat /\ handled[f] \in Nat
  BY DEF TypeOK
<1>2. /\ Len(queue'[f]) = Len(queue[f]) + 1
      /\ \A j \in 1 .. Len(queue[f]) : queue'[f][j] = queue[f][j]
      /\ queue'[f][Len(queue[f]) + 1] = owed[f] + 1
      /\ Len(queue[f]) \in Nat
  BY <1>1, AppendFacts
<1>3. InHand(f)' = InHand(f) /\ InHand(f) \in Nat
  BY DEF InHand
<1>4. Backlog(f)' = Backlog(f) + 1
  BY <1>1, <1>3 DEF Backlog
<1>5. owed[f] + 1 = handled[f] + InHand(f) + (Backlog(f) + 1)
  BY <1>1, <1>3 DEF Backlog
<1>6. ASSUME NEW j \in 1 .. Len(queue'[f])
      PROVE  queue'[f][j] = IF j <= Backlog(f)' THEN handled'[f] + InHand(f)' + j ELSE Empty
  <2>1. CASE j \in 1 .. Len(queue[f])
    <3>1. queue[f][j] = handled[f] + InHand(f) + j
      BY <2>1, <1>2 DEF FlowInv
    <3>2. j <= Backlog(f)'
      BY <2>1, <1>2, <1>4
    <3>3. QED
      BY <3>1, <3>2, <2>1, <1>2, <1>3
  <2>2. CASE j = Len(queue[f]) + 1
    <3>1. j = Backlog(f) + 1 /\ j \in Nat /\ Backlog(f) \in Nat
      BY <2>2, <1>2
    <3>2. owed[f] + 1 = handled[f] + InHand(f) + j
      BY <3>1, <1>5
    <3>3. j <= Backlog(f)'
      BY <3>1, <1>4
    <3>4. QED
      BY <2>2, <3>2, <3>3, <1>2, <1>3
  <2>3. QED
    BY <2>1, <2>2, <1>2
<1>7. Backlog(f)' \in 0 .. Len(queue'[f])
  BY <1>2, <1>4
<1>8. QED
  BY <1>2, <1>3, <1>4, <1>6, <1>7 DEF FlowInv, Serving

\* What the thread of a flow finds at the head of its queue.
LEMMA HeadOfQueue ==
  ASSUME NEW f \in Flows, TypeOK, FlowInv(f), queue[f] # <<>>, fpc[f] # "handle"
  PROVE  /\ Head(queue[f]) = Empty => Backlog(f) = 0
         /\ Head(queue[f]) # Empty => Backlog(f) > 0 /\ Head(queue[f]) = handled[f] + 1
<1>1. Len(queue[f]) > 0 /\ Head(queue[f]) = queue[f][1] /\ Len(queue[f]) \in Nat
  BY TailFacts DEF TypeOK
<1>2. 1 \in 1 .. Len(queue[f])
  BY <1>1
<1>3. InHand(f) = 0 /\ handled[f] \in Nat /\ Backlog(f) \in 0 .. Len(queue[f])
  BY DEF InHand, FlowInv, TypeOK
<1>4. queue[f][1] = IF 1 <= Backlog(f) THEN handled[f] + InHand(f) + 1 ELSE Empty
  BY <1>2 DEF FlowInv
<1>5. Backlog(f) \in Int /\ (1 <= Backlog(f) \/ Backlog(f) = 0)
  BY <1>1, <1>3
<1>6. QED
  BY <1>1, <1>3, <1>4, <1>5 DEF Empty

\* Receiving a message shifts the queue by one place.
LEMMA FlowShift ==
  ASSUME NEW f \in Flows, TypeOK, FlowInv(f), queue[f] # <<>>, fpc[f] # "handle",
         queue'[f] = Tail(queue[f]), UNCHANGED <<owed[f], handled[f]>>,
         NEW d \in {0, 1}, InHand(f)' = d, d = IF Head(queue[f]) = Empty THEN 0 ELSE 1
  PROVE  /\ Backlog(f)' = Backlog(f) - d
         /\ Len(queue'[f]) = Len(queue[f]) - 1
         /\ Backlog(f)' \in 0 .. Len(queue'[f])
         /\ \A j \in 1 .. Len(queue'[f]) :
              queue'[f][j] = IF j <= Backlog(f)' THEN handled'[f] + InHand(f)' + j ELSE Empty
<1>1. /\ Len(queue'[f]) = Len(queue[f]) - 1
      /\ Len(queue[f]) > 0 /\ Len(queue[f]) \in Nat
      /\ \A j \in 1 .. Len(queue[f]) - 1 : queue'[f][j] = queue[f][j + 1]
  BY TailFacts DEF TypeOK
<1>2. InHand(f) = 0 /\ handled[f] \in Nat /\ owed[f] \in Nat
  BY DEF InHand, TypeOK
<1>3. Backlog(f)' = Backlog(f) - d /\ Backlog(f) \in 0 .. Len(queue[f])
  BY <1>2 DEF Backlog, FlowInv
<1>4. Backlog(f)' \in 0 .. Len(queue'[f])
  BY <1>1, <1>3, HeadOfQueue
<1>5. ASSUME NEW j \in 1 .. Len(queue'[f])
      PROVE  queue'[f][j] = IF j <= Backlog(f)' THEN handled'[f] + InHand(f)' + j ELSE Empty
  <2>1. /\ queue'[f][j] = queue[f][j + 1]
        /\ j + 1 \in 1 .. Len(queue[f])
    BY <1>1
  <2>2. queue[f][j + 1] = IF j + 1 <= Backlog(f) THEN handled[f] + InHand(f) + (j + 1) ELSE Empty
    BY <2>1 DEF FlowInv
  <2>3. CASE d = 1
    <3>1. j \in Int /\ Backlog(f) \in Int /\ handled'[f] = handled[f] /\ InHand(f)' = 1
      BY <2>3, <1>1, <1>3
    <3>2. j + 1 <= Backlog(f) <=> j <= Backlog(f)'
      BY <2>3, <3>1, <1>3
    <3>3. handled[f] + InHand(f) + (j + 1) = handled'[f] + InHand(f)' + j
      BY <3>1, <1>2
    <3>4. QED
      BY <2>1, <2>2, <3>2, <3>3
  <2>4. CASE d = 0
    <3>1. Backlog(f) = 0
      BY <2>4, HeadOfQueue
    <3>2. QED
      BY <3>1, <2>1, <2>2, <2>4, <1>2, <1>3
  <2>5. QED
    BY <2>3, <2>4
<1>6. QED
  BY <1>1, <1>3, <1>4, <1>5

\* As long as the source has not ended, the pool is orderly.
LEMMA RunningOrderly ==
  ASSUME IInv, running
  PROVE  Orderly /\ (\A f \in Flows : PhaseInv(f)) /\ TokenInv /\ ScanInv
  BY DEF IInv, ControlInv, Orderly

\* The flow that main is about to send to, or to connect, is busy.
LEMMA CurrentBusy ==
  ASSUME IInv, Orderly, MoreFlows
  PROVE  Current \in Flows /\ Owned(Current) /\ Busy(Current) /\ ~available[Current]
<1>1. i + 1 \in Positions /\ i \in Nat
  BY DEF IInv, TypeOK, MoreFlows, Positions
<1>2. Owned(Current)
  BY <1>1 DEF Owned, Current
<1>3. QED
  BY <1>2, CurrentFact, IInvType DEF IInv, PhaseInv

LEMMA ConnectBusy ==
  ASSUME IInv, mpc = "connect"
  PROVE  i \in Flows /\ Owned(i) /\ Busy(i) /\ ~available[i]
<1>1. i \in Flows
  BY IndexFact DEF IInv, TypeOK, IndexInv
<1>2. Owned(i)
  BY DEF IInv, AcquiredInv, Owned
<1>3. running
  BY DEF IInv, ControlInv
<1>4. QED
  BY <1>1, <1>2, <1>3, RunningOrderly DEF PhaseInv

LEMMA NextFlowMain ==
  ASSUME IInv, Owner \/ Main, NEW f \in Flows
  PROVE  FlowInv(f)'
<1> USE DEF shared, history
<1>0. TypeOK /\ FlowInv(f) /\ TypeInv /\ Empty \in Nat
  BY DEF IInv, TypeInv, Empty
<1>1. CASE CreateFlow
  <2>1. CASE f = i
    <3>1. fpc[i] = "none"
      <4>1. Unborn(i)
        BY <1>1, <2>1 DEF Unborn, Creating, CreateFlow, IInv, TypeOK
      <4>2. running
        BY <1>1 DEF CreateFlow, IInv, ControlInv
      <4>3. QED
        BY <1>1, <2>1, <4>1, <4>2, RunningOrderly DEF CreateFlow, PhaseInv, WithoutStart
    <3>2. fpc'[f] = "connecting"
      BY <1>0, <1>1, <2>1 DEF CreateFlow, TypeOK
    <3>3. UNCHANGED <<queue[f], owed[f], handled[f], available[f], num_next_workers[f], msg[f]>>
      BY <1>1 DEF CreateFlow
    <3>4. QED
      BY <1>0, <2>1, <3>1, <3>2, <3>3 DEF FlowInv, Backlog, InHand, Serving
  <2>2. CASE f # i
    BY <1>0, <1>1, <2>2, FlowFrame DEF CreateFlow, TypeOK
  <2>3. QED
    BY <2>1, <2>2
<1>2. CASE SendStart
  <2>1. CASE f = i
    BY <1>0, <1>2, <2>1, FlowAppendEmpty DEF SendStart, Deliver, TypeOK
  <2>2. CASE f # i
    BY <1>0, <1>2, <2>2, FlowFrame DEF SendStart, Deliver, TypeOK
  <2>3. QED
    BY <2>1, <2>2
<1>3. CASE CallAcquire \/ CallProcess \/ CallRelease \/ EndWithEmptyChunk \/ Destroy
  BY <1>0, <1>3, FlowFrame DEF CallAcquire, CallProcess, CallRelease, EndWithEmptyChunk, Destroy
<1>4. CASE AcquireSemaphore \/ SkipFlow
  BY <1>0, <1>4, FlowFrame DEF AcquireSemaphore, SkipFlow
<1>5. CASE TakeFlow
  <2>1. CASE f = i
    <3>1. Free(i)
      BY <1>5, <2>1, RunningOrderly DEF TakeFlow, PhaseInv, IInv, ControlInv
    <3>2. /\ owed'[f] = chunks /\ handled'[f] = chunks /\ ~available'[f] /\ chunks \in Nat
          /\ UNCHANGED <<queue[f], fpc[f], num_next_workers[f], msg[f]>>
      BY <1>0, <1>5, <2>1, ChunksFact DEF TakeFlow, TypeOK
    <3>3. Backlog(f)' = 0
      <4>1. InHand(f)' = 0
        BY <2>1, <3>1, <3>2 DEF Free, InHand
      <4>2. QED
        BY <3>2, <4>1 DEF Backlog
    <3>4. QED
      BY <2>1, <3>1, <3>2, <3>3 DEF FlowInv, Free, Serving
  <2>2. CASE f # i
    BY <1>0, <1>5, <2>2, FlowFrame DEF TakeFlow, TypeOK
  <2>3. QED
    BY <2>1, <2>2
<1>6. CASE Connect
  <2>1. CASE f = i
    <3>1. /\ num_next_workers'[f] = num_next_workers[f] + 1
          /\ UNCHANGED <<queue[f], owed[f], handled[f], fpc[f], available[f], msg[f]>>
      BY <1>0, <1>6, <2>1 DEF Connect, TypeOK
    <3>2. num_next_workers[f] = 0 /\ fpc[f] \in Serving
      BY <1>6, <2>1, ConnectBusy DEF Connect, Busy
    <3>3. num_next_workers'[f] = 1
      BY <3>1, <3>2
    <3>4. QED
      BY <1>0, <3>1, <3>2, <3>3 DEF FlowInv, Backlog, InHand, Serving
  <2>2. CASE f # i
    BY <1>0, <1>6, <2>2, FlowFrame DEF Connect, TypeOK
  <2>3. QED
    BY <2>1, <2>2
<1>7. CASE SetMetadata \/ ProcessDone \/ ReleaseDone \/ Drain \/ SetSnifferFinished \/ Join
  BY <1>0, <1>7, FlowFrame
  DEF SetMetadata, ProcessDone, ReleaseDone, Drain, SetSnifferFinished, Join
<1>8. CASE SendChunk
  <2>1. MoreFlows /\ mpc = "send" /\ mpc \in Walking /\ mpc # "connect" /\ i + 1 \in Positions
    BY <1>0, <1>8 DEF SendChunk, MoreFlows, TypeInv, IndexInv, TypeOK, Walking, Positions
  <2>2. CASE f = Current
    <3>1. /\ queue'[f] = Append(queue[f], payload)
          /\ owed'[f] = chunks
          /\ UNCHANGED <<handled[f], fpc[f], available[f], num_next_workers[f], msg[f]>>
      BY <1>0, <1>8, <2>2 DEF SendChunk, Deliver, TypeOK
    <3>2. CASE running
      <4>1. payload = chunks /\ owed[f] = chunks - 1 /\ chunks \in Nat
        BY <2>1, <2>2, <3>2, <1>0, ChunksFact DEF IInv, AcquiredInv, Current, TypeOK
      <4>2. Busy(f) /\ ~available[f]
        BY <2>1, <2>2, <3>2, RunningOrderly, CurrentBusy
      <4>3. owed[f] + 1 = chunks
        BY <4>1
      <4>4. QED
        BY <1>0, <2>1, <3>1, <4>1, <4>2, <4>3, FlowAppendChunk DEF Busy
    <3>3. CASE ~running
      <4>1. payload = Empty /\ owed[f] = chunks
        BY <2>1, <2>2, <3>3 DEF IInv, AcquiredInv, Current
      <4>2. QED
        BY <1>0, <3>1, <4>1, FlowAppendEmpty
    <3>4. QED
      BY <3>2, <3>3
  <2>3. CASE f # Current
    BY <1>0, <1>8, <2>3, FlowFrame DEF SendChunk, Deliver, TypeOK
  <2>4. QED
    BY <2>2, <2>3
<1>9. CASE SendStop \/ FinishFlow
  <2>1. PICK g : finish(g) /\ UNCHANGED <<fpc, owed, handled, available, num_next_workers, msg>>
    BY <1>9 DEF SendStop, FinishFlow
  <2>2. CASE f = g /\ Deliver(g, Empty)
    BY <1>0, <2>1, <2>2, FlowAppendEmpty DEF Deliver, TypeOK
  <2>3. CASE f # g \/ ~Deliver(g, Empty)
    BY <1>0, <2>1, <2>3, FlowFrame DEF finish, Deliver, TypeOK
  <2>4. QED
    BY <2>2, <2>3
<1>10. QED
  BY <1>1, <1>2, <1>3, <1>4, <1>5, <1>6, <1>7, <1>8, <1>9 DEF Owner, Main

LEMMA NextFlowThread ==
  ASSUME IInv, NEW g \in Flows, FlowThread(g), NEW f \in Flows
  PROVE  FlowInv(f)'
<1> USE DEF Goto
<1>0. TypeOK /\ FlowInv(f)
  BY DEF IInv
<1>1. CASE f # g
  <2>1. UNCHANGED <<queue[f], owed[f], handled[f], fpc[f], available[f], num_next_workers[f], msg[f]>>
    BY <1>0, <1>1
    DEF FlowThread, ConnectSocket, ReceiveStart, SetAvailable, ReleaseSemaphore, CheckFinished,
        Receive, Handle, DisconnectAll, shared, history, TypeOK
  <2>2. QED
    BY <1>0, <2>1, FlowFrame
<1>2. CASE f = g
  <2> USE <1>2
  <2>1. CASE ConnectSocket(g)
    BY <1>0, <2>1 DEF ConnectSocket, FlowInv, Backlog, InHand, Serving, shared, history, TypeOK
  <2>2. CASE ReceiveStart(g)
    <3>1. /\ queue[f] # <<>> /\ queue'[f] = Tail(queue[f]) /\ msg'[f] = Head(queue[f])
          /\ fpc[f] = "wait_start" /\ fpc'[f] = "set_available"
          /\ UNCHANGED <<owed[f], handled[f], available[f], num_next_workers[f]>>
      BY <1>0, <2>2 DEF ReceiveStart, history, TypeOK
    <3>2. Head(queue[f]) = Empty /\ Backlog(f) = 0
      BY <1>0, <3>1, HeadOfQueue DEF FlowInv, Serving
    <3>3. InHand(f)' = 0
      BY <3>1 DEF InHand
    <3>4. Backlog(f)' = 0
      BY <1>0, <3>1, <3>2, <3>3, FlowShift
    <3>5. num_next_workers[f] = 0
      BY <3>1, <1>0 DEF FlowInv
    <3>6. QED
      BY <1>0, <3>1, <3>2, <3>3, <3>4, <3>5, FlowShift DEF FlowInv, Serving
  <2>3. CASE SetAvailable(g)
    BY <1>0, <2>3 DEF SetAvailable, FlowInv, Backlog, InHand, Serving, history, TypeOK
  <2>4. CASE ReleaseSemaphore(g)
    BY <1>0, <2>4 DEF ReleaseSemaphore, FlowInv, Backlog, InHand, Serving, history, TypeOK
  <2>5. CASE CheckFinished(g)
    BY <1>0, <2>5 DEF CheckFinished, FlowInv, Backlog, InHand, Serving, shared, history, TypeOK
  <2>6. CASE Receive(g)
    <3>1. /\ queue[f] # <<>> /\ queue'[f] = Tail(queue[f]) /\ msg'[f] = Head(queue[f])
          /\ fpc[f] = "recv" /\ fpc'[f] = IF Head(queue[f]) = Empty THEN "disconnect" ELSE "handle"
          /\ UNCHANGED <<owed[f], handled[f], available[f], num_next_workers[f]>>
      BY <1>0, <2>6 DEF Receive, history, TypeOK
    <3>2. CASE Head(queue[f]) = Empty
      <4>1. InHand(f)' = 0
        BY <3>1, <3>2 DEF InHand
      <4>2. Backlog(f)' = 0
        BY <1>0, <3>1, <3>2, <4>1, FlowShift, HeadOfQueue
      <4>3. QED
        BY <1>0, <3>1, <3>2, <4>1, <4>2, FlowShift DEF FlowInv, Serving
    <3>3. CASE Head(queue[f]) # Empty
      <4>1. InHand(f)' = 1
        BY <3>1, <3>3 DEF InHand
      <4>2. Backlog(f) > 0 /\ Head(queue[f]) = handled[f] + 1
        BY <1>0, <3>1, <3>3, HeadOfQueue
      <4>3. ~available[f] /\ num_next_workers[f] = 1
        BY <1>0, <4>2 DEF FlowInv
      <4>4. QED
        BY <1>0, <3>1, <3>3, <4>1, <4>2, <4>3, FlowShift DEF FlowInv, Serving
    <3>4. QED
      BY <3>2, <3>3
  <2>7. CASE Handle(g)
    <3>1. /\ handled'[f] = handled[f] + 1 /\ handled[f] \in Nat
          /\ fpc[f] = "handle" /\ fpc'[f] = "recv"
          /\ UNCHANGED <<queue[f], owed[f], available[f], num_next_workers[f], msg[f]>>
      BY <1>0, <2>7 DEF Handle, FlowInv, shared, TypeOK
    <3>2. InHand(f) = 1 /\ InHand(f)' = 0
      BY <3>1 DEF InHand
    <3>3. Backlog(f)' = Backlog(f)
      BY <1>0, <3>1, <3>2 DEF Backlog, TypeOK
    <3>4. handled'[f] + InHand(f)' = handled[f] + InHand(f)
      BY <3>1, <3>2
    <3>5. ~available[f]
      BY <1>0, <3>1 DEF FlowInv
    <3>6. QED
      BY <1>0, <3>1, <3>3, <3>4, <3>5 DEF FlowInv, Serving
  <2>8. CASE DisconnectAll(g)
    BY <1>0, <2>8 DEF DisconnectAll, FlowInv, Backlog, InHand, Serving, history, TypeOK
  <2>9. QED
    BY <2>1, <2>2, <2>3, <2>4, <2>5, <2>6, <2>7, <2>8 DEF FlowThread
<1>3. QED
  BY <1>1, <1>2

LEMMA NextControl ==
  ASSUME IInv, [Next]_vars
  PROVE  ControlInv'
<1> USE DEF ControlInv, Walking, Stopping
<1>0. ControlInv /\ TypeOK
  BY DEF IInv
<1>1. CASE CreateFlow \/ SendStart
  BY <1>0, <1>1 DEF CreateFlow, SendStart
<1>2. CASE CallAcquire \/ CallProcess \/ CallRelease \/ EndWithEmptyChunk \/ Destroy
  BY <1>0, <1>2 DEF CallAcquire, CallProcess, CallRelease, EndWithEmptyChunk, Destroy
<1>3. CASE AcquireSemaphore \/ TakeFlow \/ Connect
  BY <1>0, <1>3 DEF AcquireSemaphore, TakeFlow, Connect
<1>4. CASE SkipFlow
  <2>1. ScanInv /\ mpc = "scan"
    BY <1>0, <1>4, RunningOrderly DEF SkipFlow
  <2>2. PICK f \in Flows : f >= i /\ available[f]
    BY <2>1 DEF ScanInv
  <2>3. f # i
    BY <1>4, <2>2 DEF SkipFlow
  <2>4. i + 1 < MaxFlows
    BY <2>2, <2>3, <1>0, PoolAssumption DEF Flows, TypeOK
  <2>5. QED
    BY <1>0, <1>4, <2>4 DEF SkipFlow
<1>5. CASE SetMetadata \/ SendChunk \/ ProcessDone
  BY <1>0, <1>5 DEF SetMetadata, SendChunk, ProcessDone
<1>6. CASE SendStop \/ ReleaseDone
  BY <1>0, <1>6 DEF SendStop, ReleaseDone
<1>7. CASE Drain \/ SetSnifferFinished \/ FinishFlow \/ Join
  BY <1>0, <1>7 DEF Drain, SetSnifferFinished, FinishFlow, Join
<1>8. ASSUME NEW f \in Flows, FlowThread(f)
      PROVE  ControlInv'
  <2>1. UNCHANGED mainVars
    BY <1>8 DEF FlowThread, ConnectSocket, ReceiveStart, SetAvailable, ReleaseSemaphore,
                CheckFinished, Receive, Handle, DisconnectAll
  <2>2. QED
    BY <1>0, <2>1 DEF mainVars
<1>9. CASE UNCHANGED vars
  BY <1>0, <1>9 DEF vars, mainVars
<1>10. QED
  BY <1>1, <1>2, <1>3, <1>4, <1>5, <1>6, <1>7, <1>8, <1>9 DEF Next, Owner, Main

\* What main has in hand stays the same when only flow threads move.
LEMMA AcquiredFrame ==
  ASSUME AcquiredInv, UNCHANGED <<mpc, i, payload, chunks, running, acquired_flows, owed>>
  PROVE  AcquiredInv'
  BY DEF AcquiredInv, Positions, Walking

LEMMA NextAcquired ==
  ASSUME IInv, [Next]_vars
  PROVE  AcquiredInv'
<1> USE DEF shared, history, Walking
<1>0. AcquiredInv /\ TypeOK /\ ControlInv /\ TypeInv
  BY DEF IInv, TypeInv
<1>1. CASE CreateFlow \/ SendStart
  BY <1>0, <1>1 DEF CreateFlow, SendStart, AcquiredInv, Positions, ControlInv
<1>2. CASE CallAcquire \/ CallRelease \/ Destroy \/ EndWithEmptyChunk
  BY <1>0, <1>2 DEF CallAcquire, CallRelease, Destroy, EndWithEmptyChunk, AcquiredInv, Positions
<1>3. CASE CallProcess
  <2>1. chunks \in Nat /\ chunks' = chunks + 1 /\ payload' = chunks + 1 /\ i' = 0
    BY <1>0, <1>3, ChunksFact DEF CallProcess, TypeOK
  <2>2. \A k \in Positions : k > 0
    BY <1>0 DEF Positions
  <2>3. \A k \in Positions : owed[acquired_flows[k]] = chunks' - 1
    BY <1>0, <1>3, <2>1 DEF CallProcess, AcquiredInv
  <2>4. /\ mpc' = "metadata" /\ running' /\ chunks' > 0
        /\ UNCHANGED <<acquired_flows, owed>>
    BY <1>0, <1>3, <2>1 DEF CallProcess, ControlInv
  <2>5. QED
    BY <1>0, <2>1, <2>2, <2>3, <2>4 DEF AcquiredInv, Positions
<1>4. CASE AcquireSemaphore \/ SkipFlow
  BY <1>0, <1>4 DEF AcquireSemaphore, SkipFlow, AcquiredInv, Positions
<1>5. CASE TakeFlow
  <2>1. i \in Flows /\ available[i] /\ mpc = "scan" /\ running
    BY <1>0, <1>5, IndexFact DEF TakeFlow, TypeInv, IndexInv, ControlInv, TypeOK
  <2>2. \A k \in Positions : acquired_flows[k] # i
    <3>1. SUFFICES ASSUME NEW k \in Positions, acquired_flows[k] = i PROVE FALSE
      OBVIOUS
    <3>2. Owned(i)
      BY <2>1, <3>1 DEF Owned
    <3>3. QED
      BY <2>1, <3>2, RunningOrderly DEF PhaseInv
  <2>3. /\ Len(acquired_flows') = Len(acquired_flows) + 1 /\ Len(acquired_flows) \in Nat
        /\ \A k \in Positions : acquired_flows'[k] = acquired_flows[k] /\ acquired_flows[k] \in Flows
        /\ acquired_flows'[Len(acquired_flows) + 1] = i
    BY <1>0, <1>5, <2>1 DEF TakeFlow, TypeOK, Positions
  <2>4. Positions' = Positions \cup {Len(acquired_flows) + 1}
    BY <2>3 DEF Positions
  <2>5. \A j, k \in Positions' : acquired_flows'[j] = acquired_flows'[k] => j = k
    BY <1>0, <2>2, <2>3, <2>4 DEF AcquiredInv
  <2>6. /\ owed'[i] = chunks
        /\ \A f \in Flows : f # i => owed'[f] = owed[f]
    BY <1>0, <1>5, <2>1 DEF TakeFlow, TypeOK
  <2>7. \A k \in Positions : owed[acquired_flows[k]] = chunks
    BY <1>0, <2>1 DEF AcquiredInv
  <2>8. \A k \in Positions' : owed'[acquired_flows'[k]] = chunks
    BY <2>2, <2>3, <2>4, <2>6, <2>7
  <2>9. mpc' = "connect" /\ i' = i /\ chunks' = chunks
    BY <1>5 DEF TakeFlow
  <2>10. \E k \in Positions' : acquired_flows'[k] = i'
    BY <2>3, <2>4, <2>9
  <2>11. QED
    BY <2>5, <2>8, <2>9, <2>10 DEF AcquiredInv
<1>6. CASE Connect
  BY <1>0, <1>6 DEF Connect, AcquiredInv, Positions
<1>7. CASE SetMetadata
  BY <1>0, <1>7 DEF SetMetadata, AcquiredInv, Positions
<1>8. CASE SendChunk
  <2>1. /\ i \in Nat /\ i' = i + 1 /\ i + 1 \in Positions
        /\ mpc = "send" /\ mpc' = "metadata" /\ UNCHANGED <<payload, chunks, running, acquired_flows>>
    BY <1>0, <1>8 DEF SendChunk, TypeInv, IndexInv, TypeOK, Positions
  <2>2. \A k \in Positions : acquired_flows[k] \in Flows /\ k \in Nat
    BY <1>0 DEF TypeOK, Positions
  <2>3. \A k \in Positions : owed'[acquired_flows[k]] =
          IF k = i + 1 THEN chunks ELSE owed[acquired_flows[k]]
    BY <1>0, <1>8, <2>1, <2>2 DEF SendChunk, Current, AcquiredInv, TypeOK
  <2>4. \A k \in Positions : owed[acquired_flows[k]] = IF running /\ k > i THEN chunks - 1 ELSE chunks
    BY <1>0, <2>1 DEF AcquiredInv
  <2>5. ASSUME NEW k \in Positions
        PROVE  owed'[acquired_flows[k]] = IF running /\ k > i + 1 THEN chunks - 1 ELSE chunks
    <3>1. k > i + 1 <=> k > i /\ k # i + 1
      BY <2>1, <2>2
    <3>2. QED
      BY <2>3, <2>4, <3>1
  <2>6. QED
    BY <1>0, <2>1, <2>5 DEF AcquiredInv, Positions
<1>9. CASE ProcessDone
  <2>1. \A k \in Positions : ~(k > i)
    BY <1>0, <1>9 DEF ProcessDone, MoreFlows, Positions, TypeOK
  <2>2. QED
    BY <1>0, <1>9, <2>1 DEF ProcessDone, AcquiredInv, Positions
<1>10. CASE SendStop
  BY <1>0, <1>10 DEF SendStop, AcquiredInv, Positions
<1>11. CASE ReleaseDone
  BY <1>0, <1>11 DEF ReleaseDone, AcquiredInv, Positions
<1>12. CASE Drain \/ SetSnifferFinished \/ FinishFlow \/ Join
  BY <1>0, <1>12 DEF Drain, SetSnifferFinished, FinishFlow, Join, AcquiredInv, Positions
<1>13. ASSUME NEW f \in Flows, FlowThread(f)
       PROVE  AcquiredInv'
  <2>1. UNCHANGED mainVars /\ UNCHANGED owed
    BY <1>13 DEF FlowThread, ConnectSocket, ReceiveStart, SetAvailable, ReleaseSemaphore,
                 CheckFinished, Receive, Handle, DisconnectAll
  <2>2. QED
    BY <1>0, <2>1, AcquiredFrame DEF mainVars
<1>14. CASE UNCHANGED vars
  BY <1>0, <1>14, AcquiredFrame DEF vars, mainVars
<1>15. QED
  BY <1>1, <1>2, <1>3, <1>4, <1>5, <1>6, <1>7, <1>8, <1>9, <1>10, <1>11, <1>12, <1>13, <1>14
  DEF Next, Owner, Main

\* Once the pool is not orderly it stays so.
LEMMA OrderlyBefore ==
  ASSUME IInv, [Next]_vars, Orderly'
  PROVE  Orderly
<1> USE DEF Orderly, Stopping
<1>1. CASE Owner
  BY <1>1 DEF Owner, CallAcquire, CallProcess, CallRelease, EndWithEmptyChunk, Destroy
<1>2. CASE Main
  BY <1>2 DEF Main, CreateFlow, SendStart, AcquireSemaphore, SkipFlow, TakeFlow, Connect,
              SetMetadata, SendChunk, ProcessDone, SendStop, ReleaseDone, Drain,
              SetSnifferFinished, FinishFlow, Join
<1>3. ASSUME NEW f \in Flows, FlowThread(f)
      PROVE  Orderly
  BY <1>3 DEF FlowThread, ConnectSocket, ReceiveStart, SetAvailable, ReleaseSemaphore,
              CheckFinished, Receive, Handle, DisconnectAll, mainVars
<1>4. CASE UNCHANGED vars
  BY <1>4 DEF vars, mainVars
<1>5. QED
  BY <1>1, <1>2, <1>3, <1>4 DEF Next

\* A flow none of whose state changes stays in its phase.
LEMMA PhaseFrame ==
  ASSUME NEW f \in Flows, PhaseInv(f),
         UNCHANGED <<queue[f], owed[f], handled[f], fpc[f], available[f], num_next_workers[f],
                     sniffer_finished[f]>>,
         Unborn(f)' <=> Unborn(f), Owned(f)' <=> Owned(f),
         Unborn(f) => (mpc' = "create" \/ f > i' <=> mpc = "create" \/ f > i),
         mpc' = "connect" /\ i' = f <=> mpc = "connect" /\ i = f
  PROVE  PhaseInv(f)'
  BY DEF PhaseInv, WithoutStart, Starting, Free, Busy, Finishing, Backlog, InHand

\* Main holds a flow as long as acquired_flows and the loop over it say so.
LEMMA OwnedFrame ==
  ASSUME NEW f \in Flows, UNCHANGED acquired_flows,
         mpc # "release", mpc' # "release" \/ i' = 0, acquired_flows \in Seq(Flows)
  PROVE  Owned(f)' <=> Owned(f)
<1>1. \A k \in Positions : k > 0
  BY DEF Positions
<1>2. QED
  BY <1>1 DEF Owned, Positions

LEMMA NextPhaseMain ==
  ASSUME IInv, Owner \/ Main, Orderly, Orderly', NEW f \in Flows
  PROVE  PhaseInv(f)'
<1> USE DEF shared, history
<1>0. /\ TypeOK /\ TypeInv /\ ControlInv /\ PhaseInv(f) /\ FlowInv(f)
      /\ acquired_flows \in Seq(Flows) /\ i \in Nat /\ f \in Nat
  <2>1. f \in Nat
    BY PoolAssumption DEF Flows
  <2>2. QED
    BY <2>1 DEF IInv, TypeInv, TypeOK
<1>1. CASE CreateFlow
  <2>1. mpc = "create" /\ mpc' = "start_ack" /\ i' = i /\ acquired_flows' = acquired_flows
    BY <1>1 DEF CreateFlow
  <2>2. (Owned(f)' <=> Owned(f)) /\ (Unborn(f)' <=> Unborn(f))
    BY <1>0, <2>1, OwnedFrame DEF Unborn, Creating
  <2>3. CASE f = i
    <3>1. Unborn(f) /\ ~Owned(f)
      BY <1>0, <2>1, <2>3 DEF Unborn, Creating, PhaseInv, Busy, WithoutStart, Serving
    <3>2. fpc'[f] = "connecting"
      BY <1>0, <1>1, <2>3 DEF CreateFlow, TypeOK
    <3>3. UNCHANGED <<queue[f], available[f], num_next_workers[f], sniffer_finished[f]>>
      BY <1>1 DEF CreateFlow
    <3>4. QED
      BY <1>0, <2>1, <2>2, <2>3, <3>1, <3>2, <3>3 DEF PhaseInv, WithoutStart
  <2>4. CASE f # i
    <3>1. UNCHANGED <<queue[f], owed[f], handled[f], fpc[f], available[f], num_next_workers[f],
                      sniffer_finished[f]>>
      BY <1>0, <1>1, <2>4 DEF CreateFlow, TypeOK
    <3>2. Unborn(f) => f > i
      BY <1>0, <2>4 DEF Unborn
    <3>3. QED
      BY <1>0, <2>1, <2>2, <3>1, <3>2, PhaseFrame
  <2>5. QED
    BY <2>3, <2>4
<1>2. CASE SendStart
  <2>1. mpc = "start_ack" /\ acquired_flows' = acquired_flows /\ acquired_flows = <<>>
    BY <1>0, <1>2 DEF SendStart, ControlInv
  <2>2. ~Owned(f) /\ ~Owned(f)'
    BY <2>1 DEF Owned, Positions
  <2>3. CASE f = i
    <3>1. Unborn(f) /\ ~available[f] /\ WithoutStart(f) /\ fpc[f] = "wait_start"
      BY <1>0, <1>2, <2>1, <2>3
      DEF Unborn, Creating, PhaseInv, WithoutStart, SendStart, Deliver, Reachable
    <3>2. queue'[f] = <<Empty>>
      BY <1>0, <1>2, <2>3, <3>1 DEF SendStart, Deliver, TypeOK, WithoutStart
    <3>3. ~Unborn(f)'
      BY <1>0, <1>2, <2>3 DEF SendStart, Unborn, Creating
    <3>4. UNCHANGED <<fpc[f], available[f], num_next_workers[f], sniffer_finished[f]>>
      BY <1>2 DEF SendStart
    <3>5. QED
      BY <1>0, <2>2, <3>1, <3>2, <3>3, <3>4 DEF PhaseInv, Starting, WithoutStart
  <2>4. CASE f # i
    <3>1. UNCHANGED <<queue[f], owed[f], handled[f], fpc[f], available[f], num_next_workers[f],
                      sniffer_finished[f]>>
      BY <1>0, <1>2, <2>4 DEF SendStart, Deliver, TypeOK
    <3>2. f < MaxFlows /\ MaxFlows \in Nat
      BY PoolAssumption DEF Flows
    <3>3. Unborn(f)' <=> Unborn(f)
      BY <1>0, <1>2, <2>1, <2>4, <3>2 DEF SendStart, Unborn, Creating
    <3>4. Unborn(f) => mpc' = "create" /\ f > i
      BY <1>0, <1>2, <2>4, <3>2 DEF SendStart, Unborn
    <3>5. mpc' # "connect"
      BY <1>2 DEF SendStart
    <3>6. QED
      BY <1>0, <2>1, <2>2, <3>1, <3>3, <3>4, <3>5, PhaseFrame
  <2>5. QED
    BY <2>3, <2>4
<1>3. CASE CallAcquire \/ CallProcess \/ CallRelease \/ Destroy
  <2>1. /\ mpc = "serve" /\ mpc' \notin Creating /\ mpc' # "connect"
        /\ mpc' # "release" \/ i' = 0
        /\ UNCHANGED <<queue, owed, handled, fpc, available, num_next_workers, sniffer_finished,
                       acquired_flows>>
    BY <1>3 DEF CallAcquire, CallProcess, CallRelease, Destroy, Creating
  <2>2. Owned(f)' <=> Owned(f)
    BY <1>0, <2>1, OwnedFrame
  <2>3. ~Unborn(f) /\ ~Unborn(f)'
    BY <2>1 DEF Unborn, Creating
  <2>4. QED
    BY <1>0, <2>1, <2>2, <2>3, PhaseFrame
<1>4. CASE EndWithEmptyChunk
  BY <1>4 DEF EndWithEmptyChunk, Orderly
<1>5. CASE AcquireSemaphore \/ SkipFlow \/ SetMetadata
  <2>1. /\ mpc \notin Creating \cup {"connect", "release"}
        /\ mpc' \notin Creating \cup {"connect", "release"}
        /\ UNCHANGED <<queue, owed, handled, fpc, available, num_next_workers, sniffer_finished,
                       acquired_flows>>
    BY <1>5 DEF AcquireSemaphore, SkipFlow, SetMetadata, Creating
  <2>2. Owned(f)' <=> Owned(f)
    BY <1>0, <2>1, OwnedFrame
  <2>3. ~Unborn(f) /\ ~Unborn(f)'
    BY <2>1 DEF Unborn
  <2>4. QED
    BY <1>0, <2>1, <2>2, <2>3, PhaseFrame
<1>6. CASE TakeFlow
  <2>1. mpc = "scan" /\ mpc' = "connect" /\ i' = i /\ available[i] /\ i \in Flows
    BY <1>0, <1>6, IndexFact DEF TakeFlow, TypeInv, IndexInv
  <2>2. /\ Len(acquired_flows') = Len(acquired_flows) + 1 /\ Len(acquired_flows) \in Nat
        /\ \A k \in Positions : acquired_flows'[k] = acquired_flows[k]
        /\ acquired_flows'[Len(acquired_flows) + 1] = i
    BY <1>0, <1>6, <2>1 DEF TakeFlow, Positions
  <2>3. Positions' = Positions \cup {Len(acquired_flows) + 1}
    BY <2>2 DEF Positions
  <2>4. Owned(f)' <=> Owned(f) \/ f = i
    BY <2>1, <2>2, <2>3 DEF Owned
  <2>5. ~Unborn(f) /\ ~Unborn(f)'
    BY <2>1 DEF Unborn, Creating
  <2>6. CASE f = i
    <3>1. Free(f)
      BY <1>0, <2>1, <2>6 DEF PhaseInv
    <3>2. /\ owed'[f] = chunks /\ handled'[f] = chunks /\ ~available'[f] /\ chunks \in Nat
          /\ UNCHANGED <<queue[f], fpc[f], num_next_workers[f], sniffer_finished[f]>>
      BY <1>0, <1>6, <2>6, ChunksFact DEF TakeFlow, TypeOK
    <3>3. InHand(f)' = 0
      BY <3>1, <3>2 DEF Free, InHand
    <3>4. Backlog(f)' = 0
      BY <3>2, <3>3 DEF Backlog
    <3>5. Len(queue'[f]) = 0
      BY <3>1, <3>2 DEF Free
    <3>6. Busy(f)'
      BY <2>1, <2>6, <3>1, <3>2, <3>4, <3>5 DEF Busy, Free, Serving
    <3>7. QED
      BY <1>0, <2>4, <2>5, <2>6, <3>2, <3>6 DEF PhaseInv
  <2>7. CASE f # i
    <3>1. UNCHANGED <<queue[f], owed[f], handled[f], fpc[f], available[f], num_next_workers[f],
                      sniffer_finished[f]>>
      BY <1>0, <1>6, <2>7 DEF TakeFlow, TypeOK
    <3>2. QED
      BY <1>0, <2>1, <2>4, <2>5, <2>7, <3>1, PhaseFrame
  <2>8. QED
    BY <2>6, <2>7
<1>7. CASE Connect
  <2>1. mpc = "connect" /\ mpc' = "serve" /\ acquired_flows' = acquired_flows
    BY <1>7 DEF Connect
  <2>2. (Owned(f)' <=> Owned(f)) /\ ~Unborn(f) /\ ~Unborn(f)'
    BY <1>0, <2>1, OwnedFrame DEF Unborn, Creating
  <2>3. CASE f = i
    <3>1. Owned(f) /\ Busy(f) /\ ~available[f]
      BY <2>1, <2>3, ConnectBusy
    <3>2. /\ num_next_workers'[f] = num_next_workers[f] + 1
          /\ UNCHANGED <<queue[f], owed[f], handled[f], fpc[f], available[f], sniffer_finished[f]>>
      BY <1>0, <1>7, <2>3 DEF Connect, TypeOK
    <3>3. num_next_workers'[f] = 1
      BY <2>1, <2>3, <3>1, <3>2 DEF Busy
    <3>4. Busy(f)'
      BY <2>1, <3>1, <3>2, <3>3 DEF Busy, Backlog, InHand
    <3>5. QED
      BY <1>0, <2>2, <3>1, <3>2, <3>4 DEF PhaseInv
  <2>4. CASE f # i
    <3>1. UNCHANGED <<queue[f], owed[f], handled[f], fpc[f], available[f], num_next_workers[f],
                      sniffer_finished[f]>>
      BY <1>0, <1>7, <2>4 DEF Connect, TypeOK
    <3>2. QED
      BY <1>0, <2>1, <2>2, <2>4, <3>1, PhaseFrame
  <2>5. QED
    BY <2>3, <2>4
<1>8. CASE SendChunk
  <2>1. /\ mpc = "send" /\ mpc' = "metadata" /\ running /\ MoreFlows /\ acquired_flows' = acquired_flows
        /\ i + 1 \in Positions
    BY <1>0, <1>8 DEF SendChunk, ControlInv, Orderly, Walking, MoreFlows, TypeInv, IndexInv, Positions
  <2>2. (Owned(f)' <=> Owned(f)) /\ ~Unborn(f) /\ ~Unborn(f)'
    BY <1>0, <2>1, OwnedFrame DEF Unborn, Creating
  <2>3. CASE f = Current
    <3>1. Owned(f) /\ Busy(f) /\ ~available[f]
      BY <2>1, <2>3, CurrentBusy
    <3>2. payload = chunks /\ owed[f] = chunks - 1 /\ chunks \in Nat
      BY <1>0, <2>1, <2>3, ChunksFact DEF IInv, AcquiredInv, Current, Walking, TypeOK
    <3>3. owed[f] + 1 = chunks
      BY <3>2
    <3>4. /\ queue'[f] = Append(queue[f], owed[f] + 1) /\ owed'[f] = owed[f] + 1
          /\ UNCHANGED <<handled[f], fpc[f], available[f], num_next_workers[f], msg[f],
                         sniffer_finished[f]>>
      BY <1>0, <1>8, <2>3, <3>2, <3>3 DEF SendChunk, Deliver, TypeOK
    <3>5. Backlog(f)' = Backlog(f) + 1 /\ Len(queue'[f]) = Len(queue[f]) + 1
      BY <1>0, <2>1, <3>1, <3>4, FlowAppendChunk DEF Busy
    <3>6. Busy(f)'
      BY <2>1, <3>1, <3>4, <3>5 DEF Busy
    <3>7. QED
      BY <1>0, <2>2, <3>1, <3>4, <3>6 DEF PhaseInv
  <2>4. CASE f # Current
    <3>1. UNCHANGED <<queue[f], owed[f], handled[f], fpc[f], available[f], num_next_workers[f],
                      sniffer_finished[f]>>
      BY <1>0, <1>8, <2>4 DEF SendChunk, Deliver, TypeOK
    <3>2. QED
      BY <1>0, <2>1, <2>2, <3>1, PhaseFrame
  <2>5. QED
    BY <2>3, <2>4
<1>9. CASE ProcessDone
  <2>1. /\ mpc = "metadata" /\ mpc' = "serve"
        /\ UNCHANGED <<queue, owed, handled, fpc, available, num_next_workers, sniffer_finished,
                       acquired_flows>>
    BY <1>0, <1>9 DEF ProcessDone, ControlInv, Orderly, Walking
  <2>2. (Owned(f)' <=> Owned(f)) /\ ~Unborn(f) /\ ~Unborn(f)'
    BY <1>0, <2>1, OwnedFrame DEF Unborn, Creating
  <2>3. QED
    BY <1>0, <2>1, <2>2, PhaseFrame
<1>10. CASE SendStop
  <2>1. /\ mpc = "release" /\ mpc' = "release" /\ i' = i + 1 /\ MoreFlows
        /\ acquired_flows' = acquired_flows /\ finish(Current)
        /\ UNCHANGED <<owed, handled, fpc, available, num_next_workers, sniffer_finished, msg>>
    BY <1>10 DEF SendStop
  <2>2. ~Unborn(f) /\ ~Unborn(f)'
    BY <2>1 DEF Unborn, Creating
  <2>3. i + 1 \in Positions /\ \A k \in Positions : k \in Nat
    BY <1>0, <2>1 DEF MoreFlows, Positions
  <2>4. CASE f = Current
    <3>1. Owned(f) /\ Busy(f) /\ ~available[f]
      BY <2>1, <2>4, CurrentBusy
    <3>2. \A k \in Positions : acquired_flows[k] = f => k = i + 1
      BY <2>3, <2>4 DEF IInv, AcquiredInv, Current
    <3>3. ~Owned(f)'
      BY <1>0, <2>1, <2>3, <3>2 DEF Owned, Positions
    <3>4. queue'[f] = Append(queue[f], Empty)
      BY <1>0, <2>1, <2>4, <3>1 DEF finish, Deliver, Reachable, Busy, Serving, TypeOK
    <3>5. Len(queue'[f]) = Len(queue[f]) + 1
      BY <1>0, <3>4, AppendFacts DEF TypeOK, Empty
    <3>6. Backlog(f)' = Backlog(f)
      BY <2>1 DEF Backlog, InHand
    <3>7. Finishing(f)'
      BY <2>1, <3>1, <3>5, <3>6 DEF Finishing, Busy
    <3>8. QED
      BY <1>0, <2>1, <2>2, <3>1, <3>3, <3>7 DEF PhaseInv
  <2>5. CASE f # Current
    <3>1. \A k \in Positions : acquired_flows[k] = f => k # i + 1
      BY <2>5 DEF Current
    <3>2. \A k \in Positions : k # i + 1 => (k > i <=> k > i + 1)
      BY <1>0, <2>3
    <3>3. Owned(f)' <=> Owned(f)
      BY <2>1, <3>1, <3>2 DEF Owned, Positions
    <3>4. queue'[f] = queue[f]
      BY <1>0, <2>1, <2>5 DEF finish, Deliver, TypeOK
    <3>5. QED
      BY <1>0, <2>1, <2>2, <3>3, <3>4, PhaseFrame
  <2>6. QED
    BY <2>4, <2>5
<1>11. CASE ReleaseDone
  <2>1. /\ mpc = "release" /\ mpc' \in {"serve", "drain"} /\ acquired_flows' = <<>> /\ ~MoreFlows
        /\ UNCHANGED <<queue, owed, handled, fpc, available, num_next_workers, sniffer_finished>>
    BY <1>11 DEF ReleaseDone
  <2>2. ~Owned(f) /\ ~Owned(f)' /\ ~Unborn(f) /\ ~Unborn(f)'
    BY <1>0, <2>1 DEF Owned, Positions, MoreFlows, Unborn, Creating
  <2>3. QED
    BY <1>0, <2>1, <2>2, PhaseFrame
<1>12. CASE Drain
  <2>1. /\ mpc = "drain" /\ mpc' \notin Creating \cup {"connect", "release"}
        /\ UNCHANGED <<queue, owed, handled, fpc, available, num_next_workers, sniffer_finished,
                       acquired_flows>>
    BY <1>12 DEF Drain, Creating
  <2>2. (Owned(f)' <=> Owned(f)) /\ ~Unborn(f) /\ ~Unborn(f)'
    BY <1>0, <2>1, OwnedFrame DEF Unborn, Creating
  <2>3. QED
    BY <1>0, <2>1, <2>2, PhaseFrame
<1>13. CASE SetSnifferFinished \/ FinishFlow \/ Join
  BY <1>13 DEF SetSnifferFinished, FinishFlow, Join, Orderly, Stopping
<1>14. QED
  BY <1>1, <1>2, <1>3, <1>4, <1>5, <1>6, <1>7, <1>8, <1>9, <1>10, <1>11, <1>12, <1>13
  DEF Owner, Main

LEMMA NextPhaseThread ==
  ASSUME IInv, Orderly, NEW g \in Flows, FlowThread(g), NEW f \in Flows
  PROVE  PhaseInv(f)'
<1> USE DEF Goto
<1>0. /\ TypeOK /\ PhaseInv(f) /\ FlowInv(f)
  BY DEF IInv
<1>1. UNCHANGED mainVars /\ UNCHANGED sniffer_finished
  BY DEF FlowThread, ConnectSocket, ReceiveStart, SetAvailable, ReleaseSemaphore,
         CheckFinished, Receive, Handle, DisconnectAll, shared
<1>2. (Owned(f)' <=> Owned(f)) /\ (Unborn(f)' <=> Unborn(f))
  BY <1>1 DEF Owned, Unborn, Positions, mainVars
<1>3. CASE f # g
  <2>1. UNCHANGED <<queue[f], owed[f], handled[f], fpc[f], available[f], num_next_workers[f], msg[f]>>
    BY <1>0, <1>3
    DEF FlowThread, ConnectSocket, ReceiveStart, SetAvailable, ReleaseSemaphore, CheckFinished,
        Receive, Handle, DisconnectAll, shared, history, TypeOK
  <2>2. QED
    BY <1>0, <1>1, <1>2, <2>1, PhaseFrame DEF mainVars
<1>4. CASE f = g
  <2> USE <1>4
  <2>0. mpc' = mpc /\ i' = i /\ sniffer_finished' = sniffer_finished
    BY <1>1 DEF mainVars
  <2>1. CASE ConnectSocket(g)
    <3>1. fpc[f] = "connecting"
      BY <2>1 DEF ConnectSocket
    <3>2. Unborn(f) /\ ~Owned(f) /\ ~available[f] /\ WithoutStart(f)
      BY <1>0, <3>1 DEF PhaseInv, Free, Busy, Starting, Finishing, Serving
    <3>3. fpc'[f] = "wait_start"
      BY <1>0, <2>1 DEF ConnectSocket, TypeOK
    <3>4. UNCHANGED <<queue[f], available[f], num_next_workers[f]>>
      BY <2>1 DEF ConnectSocket, shared
    <3>5. WithoutStart(f)'
      BY <2>0, <3>1, <3>2, <3>3, <3>4 DEF WithoutStart
    <3>6. QED
      BY <1>0, <1>2, <2>0, <3>2, <3>4, <3>5 DEF PhaseInv
  <2>2. CASE ReceiveStart(g)
    <3>1. /\ fpc[f] = "wait_start" /\ queue[f] # <<>>
          /\ fpc'[f] = "set_available" /\ queue'[f] = Tail(queue[f])
          /\ UNCHANGED <<available[f], num_next_workers[f]>>
      BY <1>0, <2>2 DEF ReceiveStart, TypeOK
    <3>2. ~Unborn(f) /\ ~Owned(f) /\ ~available[f] /\ queue[f] = <<Empty>> /\ num_next_workers[f] = 0
      BY <1>0, <3>1 DEF PhaseInv, WithoutStart, Free, Busy, Starting, Finishing, Serving
    <3>3. Starting(f)'
      BY <3>1, <3>2 DEF Starting
    <3>4. QED
      BY <1>0, <1>2, <2>0, <3>1, <3>2, <3>3 DEF PhaseInv
  <2>3. CASE SetAvailable(g)
    <3>1. /\ fpc[f] = "set_available" /\ fpc'[f] = "sem_release" /\ available'[f]
          /\ UNCHANGED <<queue[f], num_next_workers[f]>>
      BY <1>0, <2>3 DEF SetAvailable, TypeOK
    <3>2. ~Unborn(f) /\ ~Owned(f) /\ queue[f] = <<>> /\ num_next_workers[f] = 0
      BY <1>0, <3>1 DEF PhaseInv, WithoutStart, Free, Busy, Starting, Finishing, Serving, FlowInv
    <3>3. Free(f)'
      BY <3>1, <3>2 DEF Free
    <3>4. QED
      BY <1>0, <1>2, <2>0, <3>1, <3>2, <3>3 DEF PhaseInv
  <2>4. CASE ReleaseSemaphore(g) \/ CheckFinished(g)
    <3>1. /\ fpc[f] \in {"sem_release", "check"} /\ fpc'[f] \in {"check", "recv"}
          /\ UNCHANGED <<queue[f], available[f], num_next_workers[f], owed[f], handled[f]>>
      BY <1>0, <2>4 DEF ReleaseSemaphore, CheckFinished, TypeOK, PhaseInv, shared, history
    <3>2. Backlog(f)' = Backlog(f)
      BY <3>1 DEF Backlog, InHand
    <3>3. ~Unborn(f)
      BY <1>0, <3>1 DEF PhaseInv, WithoutStart
    <3>4. (Busy(f) => Busy(f)') /\ (Free(f) => Free(f)') /\ ~Starting(f) /\ (Finishing(f) => Finishing(f)')
      BY <2>0, <3>1, <3>2 DEF Busy, Free, Starting, Finishing, Serving
    <3>5. QED
      BY <1>0, <1>2, <2>0, <3>1, <3>3, <3>4 DEF PhaseInv
  <2>5. CASE Receive(g)
    <3>1. /\ queue[f] # <<>> /\ queue'[f] = Tail(queue[f])
          /\ fpc[f] = "recv" /\ fpc'[f] = IF Head(queue[f]) = Empty THEN "disconnect" ELSE "handle"
          /\ UNCHANGED <<owed[f], handled[f], available[f], num_next_workers[f]>>
      BY <1>0, <2>5 DEF Receive, history, TypeOK
    <3>2. ~Unborn(f) /\ ~available[f] /\ ~Starting(f)
      BY <1>0, <3>1 DEF PhaseInv, WithoutStart, Free, Starting
    <3>3. Backlog(f) \in Nat /\ Len(queue[f]) \in Nat /\ Len(queue[f]) > 0
      BY <1>0, <3>1, TailFacts DEF FlowInv, TypeOK
    <3>4. CASE Head(queue[f]) = Empty
      <4>1. InHand(f)' = 0 /\ fpc'[f] = "disconnect"
        BY <3>1, <3>4 DEF InHand
      <4>2. Backlog(f) = 0 /\ Len(queue'[f]) = Len(queue[f]) - 1
        BY <1>0, <3>1, <3>4, <4>1, HeadOfQueue, FlowShift
      <4>3. ~Owned(f) /\ Finishing(f)
        BY <1>0, <3>2, <3>3, <4>2 DEF PhaseInv, Busy
      <4>4. Len(queue[f]) = 1
        BY <3>1, <4>2, <4>3 DEF Finishing, Serving
      <4>5. queue'[f] = <<>>
        <5>1. Tail(queue[f]) \in Seq(Nat) /\ Len(Tail(queue[f])) = 0
          BY <1>0, <3>1, <4>4, TailFacts DEF TypeOK
        <5>2. QED
          BY <3>1, <5>1, EmptyFact
      <4>6. Finishing(f)'
        BY <4>1, <4>5 DEF Finishing
      <4>7. QED
        BY <1>0, <1>2, <2>0, <3>1, <3>2, <4>3, <4>6 DEF PhaseInv
    <3>5. CASE Head(queue[f]) # Empty
      <4>1. InHand(f)' = 1 /\ fpc'[f] = "handle"
        BY <3>1, <3>5 DEF InHand
      <4>2. Backlog(f)' = Backlog(f) - 1 /\ Len(queue'[f]) = Len(queue[f]) - 1
        BY <1>0, <3>1, <3>5, <4>1, FlowShift
      <4>3. (Busy(f) => Busy(f)') /\ (Finishing(f) => Finishing(f)')
        BY <2>0, <3>1, <3>3, <4>1, <4>2 DEF Busy, Finishing, Serving
      <4>4. QED
        BY <1>0, <1>2, <2>0, <3>1, <3>2, <4>3 DEF PhaseInv
    <3>6. QED
      BY <3>4, <3>5
  <2>6. CASE Handle(g)
    <3>1. /\ handled'[f] = handled[f] + 1 /\ handled[f] \in Nat /\ owed[f] \in Nat
          /\ fpc[f] = "handle" /\ fpc'[f] = "recv"
          /\ UNCHANGED <<queue[f], owed[f], available[f], num_next_workers[f]>>
      BY <1>0, <2>6 DEF Handle, FlowInv, shared, TypeOK
    <3>2. InHand(f) = 1 /\ InHand(f)' = 0
      BY <3>1 DEF InHand
    <3>3. Backlog(f)' = Backlog(f)
      BY <3>1, <3>2 DEF Backlog
    <3>4. ~Unborn(f) /\ ~available[f] /\ ~Starting(f)
      BY <1>0, <3>1 DEF PhaseInv, WithoutStart, Free, Starting
    <3>5. (Busy(f) => Busy(f)') /\ (Finishing(f) => Finishing(f)')
      BY <2>0, <3>1, <3>3 DEF Busy, Finishing, Serving
    <3>6. QED
      BY <1>0, <1>2, <2>0, <3>1, <3>4, <3>5 DEF PhaseInv
  <2>7. CASE DisconnectAll(g)
    <3>1. /\ fpc[f] = "disconnect" /\ fpc'[f] = "set_available"
          /\ UNCHANGED <<queue[f], available[f]>>
      BY <1>0, <2>7 DEF DisconnectAll, TypeOK
    <3>2. ~Unborn(f) /\ ~Owned(f) /\ ~available[f] /\ queue[f] = <<>>
      BY <1>0, <3>1 DEF PhaseInv, WithoutStart, Free, Busy, Starting, Finishing, Serving
    <3>3. Finishing(f)'
      BY <3>1, <3>2 DEF Finishing
    <3>4. QED
      BY <1>0, <1>2, <2>0, <3>1, <3>2, <3>3 DEF PhaseInv
  <2>8. QED
    BY <2>1, <2>2, <2>3, <2>4, <2>5, <2>6, <2>7 DEF FlowThread
<1>5. QED
  BY <1>3, <1>4

-----------------------------------------------------------------------------
(* The tokens of the semaphore.                                            *)

LEMMA Finiteness ==
  /\ IsFiniteSet(Flagged) /\ Flagged \subseteq Flows
  /\ IsFiniteSet(AboutToRelease) /\ AboutToRelease \subseteq Flows
  /\ Cardinality(Flagged) \in Nat /\ Cardinality(AboutToRelease) \in Nat
  /\ Cardinality(Flagged) <= MaxFlows
  /\ (Cardinality(Flagged) = MaxFlows => Flagged = Flows)
<1>1. Flagged \subseteq Flows /\ AboutToRelease \subseteq Flows
  BY DEF Flagged, AboutToRelease
<1>2. QED
  BY <1>1, FlowsFinite, FS_Subset, FS_CardinalityType

\* A step that touches neither the flags nor the tokens.
LEMMA TokenFrame ==
  ASSUME TokenInv, UNCHANGED <<available, available_flows>>,
         \A f \in Flows : fpc'[f] = "sem_release" <=> fpc[f] = "sem_release",
         Taken' = Taken
  PROVE  TokenInv'
<1>1. Flagged' = Flagged /\ AboutToRelease' = AboutToRelease
  BY DEF Flagged, AboutToRelease
<1>2. QED
  BY <1>1 DEF TokenInv

LEMMA NextToken ==
  ASSUME IInv, [Next]_vars, Orderly, Orderly', ControlInv'
  PROVE  TokenInv'
<1> USE DEF Goto, shared, history
<1>0. /\ TypeOK /\ TypeInv /\ ControlInv /\ TokenInv
      /\ available_flows \in Nat /\ i \in Nat /\ Cardinality(Flagged) \in Nat
      /\ Cardinality(AboutToRelease) \in Nat
  BY Finiteness DEF IInv, TypeInv, TypeOK
<1>1. CASE CreateFlow
  <2>1. fpc[i] # "sem_release"
    <3>1. Unborn(i) /\ i \in Flows
      BY <1>0, <1>1, IndexFact DEF CreateFlow, Unborn, Creating, TypeInv, IndexInv
    <3>2. QED
      BY <3>1 DEF IInv, PhaseInv, WithoutStart
  <2>2. QED
    BY <1>0, <1>1, <2>1, TokenFrame DEF CreateFlow, TypeOK, Taken
<1>2. CASE SendStart
  BY <1>0, <1>2, TokenFrame DEF SendStart, Taken
<1>3. CASE CallAcquire \/ CallProcess \/ CallRelease \/ EndWithEmptyChunk \/ Destroy
  BY <1>0, <1>3, TokenFrame
  DEF CallAcquire, CallProcess, CallRelease, EndWithEmptyChunk, Destroy, Taken
<1>4. CASE AcquireSemaphore
  <2>1. Taken = 0 /\ Taken' = 1 /\ available_flows' = available_flows - 1
    BY <1>4 DEF AcquireSemaphore, Taken
  <2>2. Flagged' = Flagged /\ AboutToRelease' = AboutToRelease
    BY <1>4 DEF AcquireSemaphore, Flagged, AboutToRelease
  <2>3. QED
    BY <1>0, <2>1, <2>2 DEF TokenInv
<1>5. CASE SkipFlow
  <2>1. mpc' = "scan" /\ mpc = "scan"
    BY <1>5 DEF SkipFlow, ControlInv
  <2>2. QED
    BY <1>0, <1>5, <2>1, TokenFrame DEF SkipFlow, Taken
<1>6. CASE TakeFlow
  <2>1. i \in Flagged /\ i \in Flows
    BY <1>0, <1>6, IndexFact DEF TakeFlow, Flagged, TypeInv, IndexInv
  <2>2. Flagged' = Flagged \ {i}
    BY <1>0, <1>6, <2>1 DEF TakeFlow, Flagged, TypeOK
  <2>3. Cardinality(Flagged') = Cardinality(Flagged) - 1
    BY <2>1, <2>2, Finiteness, FS_RemoveElement
  <2>4. Taken = 1 /\ Taken' = 0 /\ available_flows' = available_flows
    BY <1>6 DEF TakeFlow, Taken
  <2>5. AboutToRelease' = AboutToRelease
    BY <1>6 DEF TakeFlow, AboutToRelease
  <2>6. QED
    BY <1>0, <2>3, <2>4, <2>5 DEF TokenInv
<1>7. CASE Connect \/ SetMetadata \/ SendChunk \/ ProcessDone
  BY <1>0, <1>7, TokenFrame DEF Connect, SetMetadata, SendChunk, ProcessDone, Taken
<1>8. CASE SendStop \/ ReleaseDone
  BY <1>0, <1>8, TokenFrame DEF SendStop, ReleaseDone, Taken
<1>9. CASE Drain
  <2>1. /\ Taken = i /\ Taken' = i + 1 /\ available_flows' = available_flows - 1
        /\ available_flows > 0
    BY <1>9 DEF Drain, Taken, Orderly, Stopping
  <2>2. Flagged' = Flagged /\ AboutToRelease' = AboutToRelease
    BY <1>9 DEF Drain, Flagged, AboutToRelease
  <2>3. QED
    BY <1>0, <2>1, <2>2 DEF TokenInv
<1>10. CASE SetSnifferFinished \/ FinishFlow \/ Join
  BY <1>10 DEF SetSnifferFinished, FinishFlow, Join, Orderly, Stopping
<1>11. ASSUME NEW f \in Flows, FlowThread(f)
       PROVE  TokenInv'
  <2>0. Taken' = Taken
    BY <1>11 DEF FlowThread, ConnectSocket, ReceiveStart, SetAvailable, ReleaseSemaphore,
                 CheckFinished, Receive, Handle, DisconnectAll, mainVars, Taken
  <2>1. CASE ConnectSocket(f) \/ ReceiveStart(f) \/ CheckFinished(f) \/ Receive(f) \/ Handle(f)
             \/ DisconnectAll(f)
    BY <1>0, <2>0, <2>1, TokenFrame
    DEF ConnectSocket, ReceiveStart, CheckFinished, Receive, Handle, DisconnectAll, TypeOK
  <2>2. CASE SetAvailable(f)
    <3>1. fpc[f] = "set_available" /\ available_flows' = available_flows
      BY <2>2 DEF SetAvailable
    <3>2. f \notin Flagged /\ f \notin AboutToRelease
      BY <3>1 DEF IInv, PhaseInv, Free, Flagged, AboutToRelease
    <3>3. Flagged' = Flagged \cup {f} /\ AboutToRelease' = AboutToRelease \cup {f}
      BY <1>0, <2>2 DEF SetAvailable, Flagged, AboutToRelease, TypeOK
    <3>4. /\ Cardinality(Flagged') = Cardinality(Flagged) + 1
          /\ Cardinality(AboutToRelease') = Cardinality(AboutToRelease) + 1
      BY <3>2, <3>3, Finiteness, FS_AddElement
    <3>5. Taken \in Nat
      BY <1>0 DEF Taken
    <3>6. QED
      BY <1>0, <2>0, <3>1, <3>4, <3>5 DEF TokenInv
  <2>3. CASE ReleaseSemaphore(f)
    <3>1. f \in AboutToRelease /\ available_flows' = available_flows + 1
      BY <2>3 DEF ReleaseSemaphore, AboutToRelease
    <3>2. Flagged' = Flagged /\ AboutToRelease' = AboutToRelease \ {f}
      BY <1>0, <2>3 DEF ReleaseSemaphore, Flagged, AboutToRelease, TypeOK
    <3>3. Cardinality(AboutToRelease') = Cardinality(AboutToRelease) - 1
      BY <3>1, <3>2, Finiteness, FS_RemoveElement
    <3>4. Taken \in Nat
      BY <1>0 DEF Taken
    <3>5. QED
      BY <1>0, <2>0, <3>1, <3>2, <3>3, <3>4 DEF TokenInv
  <2>4. QED
    BY <1>11, <2>1, <2>2, <2>3 DEF FlowThread
<1>12. CASE UNCHANGED vars
  BY <1>0, <1>12, TokenFrame DEF vars, mainVars, Taken
<1>13. QED
  BY <1>1, <1>2, <1>3, <1>4, <1>5, <1>6, <1>7, <1>8, <1>9, <1>10, <1>11, <1>12
  DEF Next, Owner, Main

\* The scan of acquire_flow never runs out: a token stands for a flag, and only
\* main clears flags.
LEMMA NextScan ==
  ASSUME IInv, [Next]_vars, Orderly, ControlInv'
  PROVE  ScanInv'
<1>0. TypeOK /\ TokenInv /\ ScanInv /\ i \in Nat
  BY DEF IInv, TypeOK
<1>1. SUFFICES ASSUME mpc' = "scan"
               PROVE  \E f \in Flows : f >= i' /\ available'[f]
  BY DEF ScanInv
<1>2. CASE AcquireSemaphore
  <2>1. /\ i' = 0 /\ available' = available /\ available_flows > 0 /\ available_flows \in Nat
        /\ Taken = 0
    BY <1>0, <1>2 DEF AcquireSemaphore, TypeOK, Taken
  <2>2. Cardinality(Flagged) > 0
    BY <1>0, <2>1, Finiteness DEF TokenInv
  <2>3. Flagged # {}
    BY <2>2, FS_EmptySet
  <2>4. PICK f \in Flows : available[f]
    BY <2>3 DEF Flagged
  <2>5. f >= 0
    BY PoolAssumption DEF Flows
  <2>6. QED
    BY <2>1, <2>4, <2>5
<1>3. CASE SkipFlow
  <2>1. PICK f \in Flows : f >= i /\ available[f]
    BY <1>0, <1>3 DEF SkipFlow, ScanInv
  <2>2. f # i /\ i' = i + 1 /\ available' = available
    BY <1>3, <2>1 DEF SkipFlow, shared
  <2>3. f \in Int
    BY PoolAssumption DEF Flows
  <2>4. f >= i'
    BY <1>0, <2>1, <2>2, <2>3
  <2>5. QED
    BY <2>1, <2>2, <2>4
<1>4. ASSUME NEW g \in Flows, FlowThread(g)
      PROVE  \E f \in Flows : f >= i' /\ available'[f]
  <2>1. mpc = "scan" /\ i' = i /\ \A f \in Flows : available[f] => available'[f]
    BY <1>0, <1>1, <1>4
    DEF FlowThread, ConnectSocket, ReceiveStart, SetAvailable, ReleaseSemaphore, CheckFinished,
        Receive, Handle, DisconnectAll, mainVars, shared, TypeOK
  <2>2. QED
    BY <1>0, <2>1 DEF ScanInv
<1>5. CASE UNCHANGED vars
  BY <1>0, <1>1, <1>5 DEF vars, mainVars, shared, ScanInv
<1>6. QED
  BY <1>1, <1>2, <1>3, <1>4, <1>5
  DEF Next, Owner, Main, CreateFlow, SendStart, CallAcquire, CallProcess, CallRelease,
      EndWithEmptyChunk, Destroy, TakeFlow, Connect, SetMetadata, SendChunk, ProcessDone, SendStop,
      ReleaseDone, Drain, SetSnifferFinished, FinishFlow, Join

\* ~flow_pool has taken as many tokens as there are flows: every flag is set.
LEMMA NextStopping ==
  ASSUME IInv, [Next]_vars, ~eof', mpc' \in Stopping
  PROVE  \A f \in Flows : available'[f]
<1>0. TypeOK
  BY DEF IInv
<1>1. CASE mpc \in Stopping
  <2>1. ~eof /\ \A f \in Flows : available[f] => available'[f]
    BY <1>0, <1>1
    DEF Next, Owner, Main, CreateFlow, SendStart, CallAcquire, CallProcess, CallRelease,
        EndWithEmptyChunk, Destroy, AcquireSemaphore, SkipFlow, TakeFlow, Connect, SetMetadata,
        SendChunk, ProcessDone, SendStop, ReleaseDone, Drain, SetSnifferFinished, FinishFlow, Join,
        FlowThread, ConnectSocket, ReceiveStart, SetAvailable, ReleaseSemaphore, CheckFinished,
        Receive, Handle, DisconnectAll, vars, mainVars, shared, Stopping, TypeOK
  <2>2. QED
    BY <1>1, <2>1 DEF IInv
<1>2. CASE mpc \notin Stopping
  <2>1. Drain /\ ~(i + 1 < MaxFlows)
    BY <1>2
    DEF Next, Owner, Main, CreateFlow, SendStart, CallAcquire, CallProcess, CallRelease,
        EndWithEmptyChunk, Destroy, AcquireSemaphore, SkipFlow, TakeFlow, Connect, SetMetadata,
        SendChunk, ProcessDone, SendStop, ReleaseDone, Drain, SetSnifferFinished, FinishFlow, Join,
        FlowThread, ConnectSocket, ReceiveStart, SetAvailable, ReleaseSemaphore, CheckFinished,
        Receive, Handle, DisconnectAll, vars, mainVars, Stopping
  <2>2. Orderly /\ available' = available /\ available_flows > 0 /\ Taken = i /\ mpc = "drain"
    BY <1>2, <2>1 DEF Drain, Orderly, Taken
  <2>3. /\ Cardinality(Flagged) = available_flows + Cardinality(AboutToRelease) + i
        /\ available_flows \in Nat /\ i \in Nat /\ i < MaxFlows
    BY <2>2 DEF IInv, TokenInv, TypeOK, IndexInv
  <2>4. Cardinality(Flagged) = MaxFlows
    BY <2>1, <2>2, <2>3, Finiteness, PoolAssumption
  <2>5. Flagged = Flows
    BY <2>4, Finiteness
  <2>6. QED
    BY <2>2, <2>5 DEF Flagged
<1>3. QED
  BY <1>1, <1>2

-----------------------------------------------------------------------------
(* The empty last chunk.                                                   *)

\* A step of a thread leaves a busy flow busy: there is no empty message for it.
LEMMA BusyKept ==
  ASSUME TypeOK, NEW g \in Flows, FlowThread(g), NEW f \in Flows, FlowInv(f),
         Busy(f), ~available[f], ~sniffer_finished[f]
  PROVE  Busy(f)' /\ ~available'[f] /\ ~sniffer_finished'[f]
<1> USE DEF Goto
<1>1. UNCHANGED mainVars /\ UNCHANGED sniffer_finished
  BY DEF FlowThread, ConnectSocket, ReceiveStart, SetAvailable, ReleaseSemaphore,
         CheckFinished, Receive, Handle, DisconnectAll, shared
<1>2. mpc' = mpc /\ i' = i
  BY <1>1 DEF mainVars
<1>3. CASE f # g
  <2>1. UNCHANGED <<queue[f], owed[f], handled[f], fpc[f], available[f], num_next_workers[f]>>
    BY <1>3
    DEF FlowThread, ConnectSocket, ReceiveStart, SetAvailable, ReleaseSemaphore, CheckFinished,
        Receive, Handle, DisconnectAll, shared, history, TypeOK
  <2>2. QED
    BY <1>1, <1>2, <2>1 DEF Busy, Backlog, InHand
<1>4. CASE f = g
  <2> USE <1>4
  <2>1. CASE ReleaseSemaphore(g) \/ CheckFinished(g)
    <3>1. /\ fpc[f] \in {"sem_release", "check"} /\ fpc'[f] \in {"check", "recv"}
          /\ UNCHANGED <<queue[f], available[f], num_next_workers[f], owed[f], handled[f]>>
      BY <2>1 DEF ReleaseSemaphore, CheckFinished, TypeOK, shared, history
    <3>2. Backlog(f)' = Backlog(f)
      BY <3>1 DEF Backlog, InHand
    <3>3. QED
      BY <1>1, <1>2, <3>1, <3>2 DEF Busy, Serving
  <2>2. CASE Receive(g)
    <3>1. /\ queue[f] # <<>> /\ queue'[f] = Tail(queue[f])
          /\ fpc[f] = "recv" /\ fpc'[f] = IF Head(queue[f]) = Empty THEN "disconnect" ELSE "handle"
          /\ UNCHANGED <<owed[f], handled[f], available[f], num_next_workers[f]>>
      BY <2>2 DEF Receive, history, TypeOK
    <3>2. Len(queue[f]) > 0 /\ Len(queue[f]) = Backlog(f)
      BY <3>1, TailFacts DEF Busy, TypeOK
    <3>3. Head(queue[f]) # Empty
      BY <3>1, <3>2, HeadOfQueue
    <3>4. InHand(f)' = 1 /\ fpc'[f] = "handle"
      BY <3>1, <3>3 DEF InHand
    <3>5. Backlog(f)' = Backlog(f) - 1 /\ Len(queue'[f]) = Len(queue[f]) - 1
      BY <3>1, <3>3, <3>4, FlowShift
    <3>6. QED
      BY <1>1, <1>2, <3>1, <3>2, <3>4, <3>5 DEF Busy, Serving
  <2>3. CASE Handle(g)
    <3>1. /\ handled'[f] = handled[f] + 1 /\ handled[f] \in Nat /\ owed[f] \in Nat
          /\ fpc[f] = "handle" /\ fpc'[f] = "recv"
          /\ UNCHANGED <<queue[f], owed[f], available[f], num_next_workers[f]>>
      BY <2>3 DEF Handle, FlowInv, shared, TypeOK
    <3>2. InHand(f) = 1 /\ InHand(f)' = 0
      BY <3>1 DEF InHand
    <3>3. Backlog(f)' = Backlog(f)
      BY <3>1, <3>2 DEF Backlog
    <3>4. QED
      BY <1>1, <1>2, <3>1, <3>3 DEF Busy, Serving
  <2>4. QED
    BY <2>1, <2>2, <2>3
    DEF FlowThread, ConnectSocket, ReceiveStart, SetAvailable, DisconnectAll, Busy, Serving
<1>5. QED
  BY <1>3, <1>4

\* Main stops holding a flow as it sends it the empty chunk; the flows further
\* along acquired_flows stay as they were.
LEMMA NextEnd ==
  ASSUME IInv, [Next]_vars, eof', NEW f \in Flows
  PROVE  EndInv(f)'
<1> SUFFICES ASSUME Held(f)'
             PROVE  ~available'[f] /\ Busy(f)' /\ ~sniffer_finished'[f]
  BY DEF EndInv
<1>0. TypeOK /\ FlowInv(f) /\ ControlInv /\ AcquiredInv /\ i \in Nat /\ mpc' \in Walking
  BY DEF IInv, TypeOK, Held
<1>1. CASE EndWithEmptyChunk
  <2>1. /\ mpc = "serve" /\ mpc' = "metadata" /\ ~eof
        /\ UNCHANGED <<acquired_flows, shared, fpc, history>>
    BY <1>0, <1>1 DEF EndWithEmptyChunk, ControlInv
  <2>2. Owned(f)
    BY <2>1 DEF Held, Owned, Positions
  <2>3. ~available[f] /\ Busy(f) /\ ~sniffer_finished[f]
    BY <2>1, <2>2 DEF IInv, PhaseInv, Orderly, Stopping
  <2>4. QED
    BY <2>1, <2>3 DEF Busy, Backlog, InHand, shared, history
<1>2. CASE SetMetadata \/ SendChunk
  <2>1. /\ eof /\ mpc \in Walking /\ MoreFlows
        /\ acquired_flows' = acquired_flows
        /\ UNCHANGED <<available, sniffer_finished, num_next_workers, fpc, handled>>
    BY <1>0, <1>2 DEF SetMetadata, SendChunk, Walking, IInv, IndexInv, MoreFlows, history
  <2>2. i' \in {i, i + 1} /\ (SendChunk => i' = i + 1)
    BY <1>0, <1>2 DEF SetMetadata, SendChunk
  <2>3. PICK k \in Positions : acquired_flows[k] = f /\ k > i'
    BY <2>1, <1>0 DEF Held, Positions
  <2>4. Positions \subseteq Nat /\ i + 1 \in Positions /\ Current \in Flows
    <3>1. Len(acquired_flows) \in Nat /\ Current \in Flows
      BY <1>0, <2>1, CurrentFact, IInvType DEF TypeOK
    <3>2. QED
      BY <1>0, <2>1, <3>1 DEF Positions, MoreFlows
  <2>5. Held(f)
    BY <1>0, <2>1, <2>2, <2>3, <2>4 DEF Held
  <2>6. Busy(f) /\ ~available[f] /\ ~sniffer_finished[f]
    BY <2>1, <2>5 DEF IInv, EndInv
  <2>7. SendChunk => f # Current
    BY <1>0, <2>2, <2>3, <2>4 DEF AcquiredInv, Current
  <2>8. UNCHANGED <<queue[f], owed[f]>>
    BY <1>0, <1>2, <2>4, <2>7 DEF SetMetadata, SendChunk, Deliver, TypeOK, history
  <2>9. QED
    BY <1>0, <2>1, <2>6, <2>8 DEF Busy, Backlog, InHand, Walking
<1>3. CASE (\E g \in Flows : FlowThread(g)) \/ UNCHANGED vars
  <2>1. UNCHANGED mainVars
    BY <1>3 DEF FlowThread, ConnectSocket, ReceiveStart, SetAvailable, ReleaseSemaphore,
                CheckFinished, Receive, Handle, DisconnectAll, vars
  <2>2. Held(f) /\ eof
    BY <2>1 DEF Held, Positions, mainVars
  <2>3. Busy(f) /\ ~available[f] /\ ~sniffer_finished[f]
    BY <2>2 DEF IInv, EndInv
  <2>4. CASE UNCHANGED vars
    BY <2>3, <2>4 DEF vars, mainVars, shared, history, Busy, Backlog, InHand
  <2>5. QED
    BY <1>0, <1>3, <2>3, <2>4, BusyKept
<1>4. QED
  BY <1>0, <1>1, <1>2, <1>3
  DEF Next, Owner, Main, CreateFlow, SendStart, CallAcquire, CallProcess, CallRelease,
      Destroy, AcquireSemaphore, SkipFlow, TakeFlow, Connect, ProcessDone, SendStop, ReleaseDone,
      Drain, SetSnifferFinished, FinishFlow, Join, Walking, ControlInv

-----------------------------------------------------------------------------
(* All conjuncts together.                                                 *)

LEMMA InitIInv == Init => IInv
<1> SUFFICES ASSUME Init
             PROVE  IInv
  OBVIOUS
<1> USE DEF Init
<1>1. TypeOK /\ IndexInv
  BY InitType DEF TypeInv
<1>2. ControlInv /\ AcquiredInv
  BY DEF ControlInv, AcquiredInv, Positions, Walking, Stopping
<1>3. ASSUME NEW f \in Flows
      PROVE  FlowInv(f) /\ PhaseInv(f)
  <2>1. f \in Int /\ f >= 0
    BY PoolAssumption DEF Flows
  <2>2. InHand(f) = 0 /\ Backlog(f) = 0 /\ ~Owned(f) /\ Unborn(f)
    BY <2>1 DEF InHand, Backlog, Owned, Positions, Unborn, Creating
  <2>3. QED
    BY <2>2 DEF FlowInv, PhaseInv, WithoutStart
<1>4. TokenInv
  <2>1. Flagged = {} /\ AboutToRelease = {} /\ Taken = 0
    BY DEF Flagged, AboutToRelease, Taken
  <2>2. QED
    BY <2>1, FS_EmptySet DEF TokenInv
<1>5. ScanInv
  BY DEF ScanInv
<1>6. QED
  BY <1>1, <1>2, <1>3, <1>4, <1>5 DEF IInv, Stopping

LEMMA NextIInv == IInv /\ [Next]_vars => IInv'
<1> SUFFICES ASSUME IInv, [Next]_vars
             PROVE  IInv'
  OBVIOUS
<1>1. TypeOK' /\ IndexInv'
  BY IInvType, NextType DEF TypeInv
<1>2. ControlInv' /\ AcquiredInv'
  BY NextControl, NextAcquired
<1>3. ASSUME NEW f \in Flows
      PROVE  FlowInv(f)'
  <2>1. CASE UNCHANGED vars
    BY <2>1, FlowFrame DEF vars, shared, history, IInv
  <2>2. QED
    BY <2>1, NextFlowMain, NextFlowThread DEF Next
<1>4. ASSUME Orderly'
      PROVE  (\A f \in Flows : PhaseInv(f)') /\ TokenInv' /\ ScanInv'
  <2>1. Orderly
    BY <1>4, OrderlyBefore
  <2>2. ASSUME NEW f \in Flows
        PROVE  PhaseInv(f)'
    <3>1. CASE UNCHANGED vars
      <4>1. PhaseInv(f) /\ (Owned(f)' <=> Owned(f)) /\ (Unborn(f)' <=> Unborn(f))
        BY <2>1, <3>1 DEF IInv, Owned, Unborn, Positions, vars, mainVars
      <4>2. QED
        BY <3>1, <4>1, PhaseFrame DEF vars, mainVars, shared, history
    <3>2. QED
      BY <1>4, <2>1, <3>1, NextPhaseMain, NextPhaseThread DEF Next
  <2>3. QED
    BY <1>2, <1>4, <2>1, <2>2, NextToken, NextScan
<1>5. ASSUME ~eof', mpc' \in Stopping
      PROVE  \A f \in Flows : available'[f]
  BY <1>5, NextStopping
<1>6. ASSUME eof', NEW f \in Flows
      PROVE  EndInv(f)'
  BY <1>6, NextEnd
<1>7. QED
  BY <1>1, <1>2, <1>3, <1>4, <1>5, <1>6 DEF IInv

\* The invariant of FlowPoolInv holds in every reachable state.
THEOREM Inductive == Spec => []IInv
  BY InitIInv, NextIInv, PTL DEF Spec

-----------------------------------------------------------------------------
(* What follows from the invariant.                                        *)

\* The exception of acquire_flow is unreachable, however the flow threads and
\* main interleave and whether or not the source ends with an empty chunk.
THEOREM ExceptionUnreachable == Spec => []NoException
<1>1. IInv => NoException
  BY DEF IInv, ControlInv, NoException
<1>2. QED
  BY <1>1, Inductive, PTL

\* The two assertions of flow.cc never fail.
THEOREM AssertionsNeverFail == Spec => []AssertionsHold
<1>1. IInv => AssertionsHold
  BY DEF IInv, FlowInv, AssertionsHold
<1>2. QED
  BY <1>1, Inductive, PTL

\* A chunk always finds the one chain of workers of its own acquisition.
THEOREM WorkersInPlace == Spec => []ChunkMeetsItsWorkers
<1>1. IInv => ChunkMeetsItsWorkers
  BY DEF IInv, FlowInv, ChunkMeetsItsWorkers
<1>2. QED
  BY <1>1, Inductive, PTL

\* A flow is available only when it has passed on every chunk sent to it.
THEOREM AvailableMeansDone == Spec => []NoWorkLost
<1>1. IInv => NoWorkLost
  <2> SUFFICES ASSUME IInv, NEW f \in Flows, available[f]
               PROVE  handled[f] = owed[f]
    BY DEF NoWorkLost
  <2>1. Backlog(f) = 0 /\ InHand(f) = 0
    BY DEF IInv, FlowInv, InHand
  <2>2. handled[f] \in Nat /\ owed[f] \in Nat
    BY DEF IInv, TypeOK
  <2>3. QED
    BY <2>1, <2>2 DEF Backlog
<1>2. QED
  BY <1>1, Inductive, PTL

\* Unless the source ends with an empty chunk, ~flow_pool does wait for all flows
\* to finish: it has taken as many tokens as there are flows, so every flag is set.
THEOREM DestructorWaits == Spec => []WaitsForAllFlows
<1>1. IInv /\ NoWorkLost => WaitsForAllFlows
  BY DEF IInv, NoWorkLost, WaitsForAllFlows, Stopping
<1>2. QED
  BY <1>1, Inductive, AvailableMeansDone, PTL

\* Chunks are handed on in the order they were sent, none twice and none left
\* out: the chunk in the hand of a flow is the one after the last it handled.
THEOREM ChunksInOrder == Spec => InOrder
<1> DEFINE Step == \A f \in Flows :
             handled'[f] # handled[f] => \/ handled'[f] = handled[f] + 1
                                         \/ available[f] /\ ~available'[f]
<1>1. ASSUME IInv, [Next]_vars
      PROVE  Step
  <2> SUFFICES ASSUME NEW f \in Flows, handled'[f] # handled[f]
               PROVE  \/ handled'[f] = handled[f] + 1
                      \/ available[f] /\ ~available'[f]
    OBVIOUS
  <2>0. TypeOK /\ FlowInv(f)
    BY <1>1 DEF IInv
  <2>1. CASE TakeFlow
    BY <2>0, <2>1 DEF TakeFlow, TypeOK
  <2>2. CASE \E g \in Flows : Handle(g)
    <3>1. Handle(f)
      BY <2>0, <2>2 DEF Handle, TypeOK
    <3>2. QED
      BY <2>0, <3>1 DEF Handle, Goto, FlowInv, TypeOK
  <2>3. QED
    BY <1>1, <2>1, <2>2
    DEF Next, Owner, Main, CreateFlow, SendStart, CallAcquire, CallProcess, CallRelease,
        EndWithEmptyChunk, Destroy, AcquireSemaphore, SkipFlow, Connect, SetMetadata,
        SendChunk, ProcessDone, SendStop, ReleaseDone, Drain, SetSnifferFinished, FinishFlow, Join,
        FlowThread, ConnectSocket, ReceiveStart, SetAvailable, ReleaseSemaphore, CheckFinished,
        Receive, DisconnectAll, vars, history
<1>2. IInv /\ [Next]_vars => [Step]_vars
  BY <1>1
<1>3. QED
  BY <1>2, Inductive, PTL DEF Spec, InOrder

-----------------------------------------------------------------------------
(* The pool implements FlowService.                                        *)

\* A step that changes neither the flags, the chunks counted nor the flows main
\* holds is invisible to the service.
LEMMA Invisible ==
  ASSUME UNCHANGED <<available, owed, handled>>,
         \A f \in Flows : Held(f)' <=> Held(f)
  PROVE  UNCHANGED Service!service
  BY DEF Service!service, status, pending

\* A step that moves one flow g from one status to another is that step of the
\* service as soon as all other flows keep theirs.
LEMMA StatusMoves ==
  ASSUME NEW g \in Flows, NEW s, status'[g] = s,
         \A f \in Flows \ {g} : status'[f] = status[f]
  PROVE  status' = [status EXCEPT ![g] = s]
  BY DEF status

LEMMA PendingMoves ==
  ASSUME NEW g \in Flows, NEW n, pending'[g] = n,
         \A f \in Flows \ {g} : pending'[f] = pending[f]
  PROVE  pending' = [pending EXCEPT ![g] = n]
  BY DEF pending

\* What main still holds is busy, however the source ends.
LEMMA HeldBusy ==
  ASSUME IInv, NEW f \in Flows, Held(f)
  PROVE  ~available[f] /\ Busy(f)
<1>1. CASE eof
  BY <1>1 DEF IInv, EndInv
<1>2. CASE ~eof
  <2>1. Owned(f)
    BY <1>2 DEF Held, Owned
  <2>2. mpc \notin Stopping
    BY <2>1 DEF IInv, ControlInv, Owned, Positions
  <2>3. QED
    BY <1>2, <2>1, <2>2 DEF IInv, Orderly, PhaseInv
<1>3. QED
  BY <1>1, <1>2

\* A flow that has nothing in hand and nothing waiting has nothing pending.
LEMMA NothingPending ==
  ASSUME IInv, NEW f \in Flows, fpc[f] \notin Serving \cup {"exited"} \/ available[f]
  PROVE  pending[f] = 0
<1>1. Backlog(f) = 0 /\ InHand(f) = 0 /\ owed[f] \in Nat /\ handled[f] \in Nat
  BY DEF IInv, TypeOK, FlowInv, InHand
<1>2. QED
  BY <1>1 DEF Backlog, pending

\* The flow that main gives up as it sends it a message that ends its work.
LEMMA HeldShrinks ==
  ASSUME IInv, MoreFlows, i' = i + 1, acquired_flows' = acquired_flows,
         \/ mpc = "release" /\ mpc' = "release"
         \/ eof /\ mpc \in Walking /\ mpc' \in Walking,
         eof' = eof
  PROVE  /\ Current \in Flows
         /\ Held(Current) <=> ~(eof /\ mpc = "release")
         /\ \A f \in Flows : Held(f)' <=> Held(f) /\ f # Current
<1>1. i \in Nat /\ Len(acquired_flows) \in Nat /\ i + 1 \in Positions /\ Positions' = Positions
  BY DEF IInv, TypeOK, MoreFlows, Positions
<1>2. Current \in Flows
  BY <1>1, CurrentFact DEF IInv, TypeOK, MoreFlows, TypeInv
<1>3. \A k \in Positions : k \in Nat /\ (acquired_flows[k] = Current <=> k = i + 1)
  BY <1>1 DEF IInv, AcquiredInv, Current, Positions
<1>4. CASE eof /\ mpc = "release"
  BY <1>2, <1>4 DEF Held, Walking
<1>5. CASE ~(eof /\ mpc = "release")
  <2>1. \A f \in Flows : Held(f) <=> \E k \in Positions : acquired_flows[k] = f /\ k > i
    BY <1>5 DEF Held, Walking
  <2>2. \A f \in Flows : Held(f)' <=> \E k \in Positions : acquired_flows[k] = f /\ k > i + 1
    BY <1>1, <1>5 DEF Held, Walking
  <2>3. Held(Current)
    BY <1>1, <1>2, <2>1 DEF Current
  <2>4. ASSUME NEW f \in Flows
        PROVE  Held(f)' <=> Held(f) /\ f # Current
    <3>1. \A k \in Positions : acquired_flows[k] = f => (k > i + 1 <=> k > i /\ f # Current)
      BY <1>1, <1>3
    <3>2. QED
      BY <1>2, <2>1, <2>2, <3>1
  <2>5. QED
    BY <1>2, <1>5, <2>3, <2>4
<1>6. QED
  BY <1>4, <1>5

LEMMA TakeRefines ==
  ASSUME IInv, TakeFlow
  PROVE  i \in Flows /\ Service!Acquire(i)
<1>0. i \in Flows /\ ~eof
  BY IndexFact DEF IInv, IndexInv, ControlInv, TypeOK, TakeFlow
<1>1. TypeOK /\ FlowInv(i) /\ mpc = "scan" /\ mpc' = "connect" /\ ~eof /\ ~eof'
  BY <1>0 DEF IInv, TakeFlow
<1>2. /\ Len(acquired_flows') = Len(acquired_flows) + 1 /\ Len(acquired_flows) \in Nat
      /\ \A k \in Positions : acquired_flows'[k] = acquired_flows[k]
      /\ acquired_flows'[Len(acquired_flows) + 1] = i
  BY <1>0, <1>1 DEF TakeFlow, Positions, TypeOK
<1>3. Positions' = Positions \cup {Len(acquired_flows) + 1}
  BY <1>2 DEF Positions
<1>4. \A f \in Flows : Held(f)' <=> Held(f) \/ f = i
  BY <1>1, <1>2, <1>3 DEF Held
<1>5. status[i] = "free" /\ status'[i] = "busy"
  BY <1>0, <1>1, <1>4 DEF TakeFlow, TypeOK, status
<1>6. \A f \in Flows \ {i} : status'[f] = status[f] /\ pending'[f] = pending[f]
  BY <1>0, <1>1, <1>4 DEF TakeFlow, TypeOK, status, pending
<1>7. pending[i] = 0
  BY <1>0, NothingPending DEF TakeFlow
<1>8. pending'[i] = 0
  BY <1>0, <1>1, ChunksFact DEF TakeFlow, TypeOK, pending
<1>9. status' = [status EXCEPT ![i] = "busy"]
  BY <1>0, <1>5, <1>6, StatusMoves
<1>10. pending' = pending
  BY <1>6, <1>7, <1>8 DEF pending
<1>11. QED
  BY <1>0, <1>5, <1>9, <1>10 DEF Service!Acquire

\* A chunk of samples is submitted; the empty one releases the flow.
LEMMA SendRefines ==
  ASSUME IInv, SendChunk
  PROVE  Current \in Flows /\ (Service!Submit(Current) \/ Service!Release(Current))
<1>1. /\ TypeOK /\ mpc = "send" /\ mpc' = "metadata" /\ MoreFlows /\ i' = i + 1
      /\ UNCHANGED <<acquired_flows, eof, running, available, handled>>
      /\ i \in Nat /\ i + 1 \in Positions
  BY DEF IInv, IndexInv, TypeOK, SendChunk, MoreFlows, Positions
<1>2. Current \in Flows
  BY <1>1, CurrentFact DEF TypeInv, IInv
<1>3. owed[Current] = IF running THEN chunks - 1 ELSE chunks
  BY <1>1 DEF IInv, AcquiredInv, Walking, Current
<1>4. owed' = [owed EXCEPT ![Current] = chunks] /\ chunks \in Nat
  BY <1>1, ChunksFact DEF SendChunk, TypeOK
<1>5. CASE ~eof
  <2>1. running
    BY <1>1, <1>5 DEF IInv, ControlInv, Walking
  <2>2. \A f \in Flows : Held(f)' <=> Held(f)
    BY <1>1, <1>5 DEF Held, Positions
  <2>3. Held(Current)
    BY <1>1, <1>2, <1>5 DEF Held, Current
  <2>4. status' = status /\ status[Current] = "busy"
    BY <1>1, <1>2, <2>2, <2>3, HeldBusy DEF status
  <2>5. pending'[Current] = pending[Current] + 1
    BY <1>1, <1>2, <1>3, <1>4, <2>1 DEF TypeOK, pending
  <2>6. \A f \in Flows \ {Current} : pending'[f] = pending[f]
    BY <1>1, <1>2, <1>4 DEF TypeOK, pending
  <2>7. pending' = [pending EXCEPT ![Current] = @ + 1]
    BY <1>2, <2>5, <2>6 DEF pending
  <2>8. QED
    BY <1>2, <2>4, <2>7 DEF Service!Submit
<1>6. CASE eof
  <2>1. ~running
    BY <1>6 DEF IInv, ControlInv
  <2>2. owed' = owed
    BY <1>1, <1>2, <1>3, <1>4, <2>1 DEF TypeOK
  <2>3. Held(Current) /\ \A f \in Flows : Held(f)' <=> Held(f) /\ f # Current
    BY <1>1, <1>6, HeldShrinks DEF Walking
  <2>4. status[Current] = "busy" /\ ~available[Current]
    BY <1>2, <2>3, HeldBusy DEF status
  <2>5. status'[Current] = "finishing" /\ \A f \in Flows \ {Current} : status'[f] = status[f]
    BY <1>1, <1>2, <2>3, <2>4 DEF status
  <2>6. status' = [status EXCEPT ![Current] = "finishing"]
    BY <1>2, <2>5, StatusMoves
  <2>7. QED
    BY <1>1, <1>2, <2>2, <2>4, <2>6 DEF Service!Release, pending
<1>7. QED
  BY <1>5, <1>6

\* The stop message releases the flow, unless the empty chunk has done so.
LEMMA StopRefines ==
  ASSUME IInv, SendStop
  PROVE  Current \in Flows /\ (Service!Release(Current) \/ UNCHANGED Service!service)
<1>1. /\ mpc = "release" /\ mpc' = "release" /\ MoreFlows /\ i' = i + 1
      /\ UNCHANGED <<acquired_flows, eof, available, owed, handled>>
  BY DEF SendStop, history
<1>0. acquired_flows' = acquired_flows /\ eof' = eof
  BY <1>1
<1>2. /\ Current \in Flows /\ (Held(Current) <=> ~(eof /\ mpc = "release"))
      /\ \A f \in Flows : Held(f)' <=> Held(f) /\ f # Current
  BY <1>0, <1>1, HeldShrinks
<1>3. CASE eof
  <2>1. \A f \in Flows : Held(f)' <=> Held(f)
    BY <1>1, <1>2, <1>3
  <2>2. QED
    BY <1>1, <1>2, <2>1, Invisible
<1>4. CASE ~eof
  <2>1. status[Current] = "busy" /\ ~available[Current]
    BY <1>1, <1>2, <1>4, HeldBusy DEF status
  <2>2. status'[Current] = "finishing" /\ \A f \in Flows \ {Current} : status'[f] = status[f]
    BY <1>1, <1>2, <2>1 DEF status
  <2>3. status' = [status EXCEPT ![Current] = "finishing"]
    BY <1>2, <2>2, StatusMoves
  <2>4. QED
    BY <1>1, <1>2, <2>1, <2>3 DEF Service!Release, pending
<1>5. QED
  BY <1>3, <1>4

LEMMA HandleRefines ==
  ASSUME IInv, NEW f \in Flows, Handle(f)
  PROVE  Service!Complete(f)
<1>1. TypeOK /\ FlowInv(f) /\ fpc[f] = "handle"
  BY DEF IInv, Handle, Goto
<1>2. UNCHANGED <<mpc, i, eof, acquired_flows, available, owed>>
  BY DEF Handle, mainVars, shared
<1>3. status' = status /\ status[f] # "free"
  BY <1>1, <1>2 DEF status, Held, Positions, FlowInv
<1>4. /\ InHand(f) = 1 /\ Backlog(f) >= 0 /\ msg[f] = handled[f] + 1
      /\ owed[f] \in Nat /\ handled[f] \in Nat
  BY <1>1 DEF FlowInv, InHand, TypeOK
<1>5. pending[f] > 0
  BY <1>4 DEF Backlog, pending
<1>6. handled'[f] = handled[f] + 1 /\ \A g \in Flows \ {f} : handled'[g] = handled[g]
  BY <1>1, <1>4 DEF Handle, TypeOK
<1>7. pending'[f] = pending[f] - 1 /\ \A g \in Flows \ {f} : pending'[g] = pending[g]
  BY <1>2, <1>4, <1>6 DEF pending
<1>8. pending' = [pending EXCEPT ![f] = @ - 1]
  BY <1>7 DEF pending
<1>9. QED
  BY <1>3, <1>5, <1>8 DEF Service!Complete

\* A flow sets its flag: it becomes free, or was so before a second stop message.
LEMMA AvailableRefines ==
  ASSUME IInv, NEW f \in Flows, SetAvailable(f)
  PROVE  Service!BecomeFree(f) \/ UNCHANGED Service!service
<1>1. TypeOK /\ fpc[f] = "set_available"
  BY DEF IInv, SetAvailable, Goto
<1>2. UNCHANGED <<mpc, i, eof, acquired_flows, owed, handled>>
  BY DEF SetAvailable, mainVars, history
<1>3. \A g \in Flows : Held(g)' <=> Held(g)
  BY <1>2 DEF Held, Positions
<1>4. CASE available[f]
  <2>1. available' = available
    BY <1>1, <1>4 DEF SetAvailable, TypeOK
  <2>2. QED
    BY <1>2, <1>3, <2>1, Invisible
<1>5. CASE ~available[f]
  <2>1. ~Held(f)
    BY <1>1, HeldBusy DEF Busy, Serving
  <2>2. status[f] = "finishing" /\ status'[f] = "free"
    BY <1>1, <1>5, <2>1 DEF SetAvailable, TypeOK, status
  <2>3. \A g \in Flows \ {f} : status'[g] = status[g]
    BY <1>1, <1>3 DEF SetAvailable, TypeOK, status
  <2>4. pending[f] = 0
    BY <1>1, NothingPending DEF Serving
  <2>5. status' = [status EXCEPT ![f] = "free"]
    BY <2>2, <2>3, StatusMoves
  <2>6. QED
    BY <1>2, <2>2, <2>4, <2>5 DEF Service!BecomeFree, pending
<1>6. QED
  BY <1>4, <1>5

\* Every other step of main leaves the service as it is.
LEMMA MainInvisible ==
  ASSUME IInv, Owner \/ Main, ~TakeFlow, ~SendChunk, ~SendStop
  PROVE  UNCHANGED Service!service
<1> USE DEF shared, history
<1>0. TypeOK /\ ControlInv /\ acquired_flows \in Seq(Flows) /\ Len(acquired_flows) \in Nat
  BY DEF IInv, TypeOK
<1>1. UNCHANGED <<available, owed, handled>>
  BY DEF Owner, Main, CreateFlow, SendStart, CallAcquire, CallProcess, CallRelease,
         EndWithEmptyChunk, Destroy, AcquireSemaphore, SkipFlow, Connect, SetMetadata,
         ProcessDone, ReleaseDone, Drain, SetSnifferFinished, FinishFlow, Join
<1>2. \A k \in Positions : k > 0
  BY DEF Positions
<1>3. CASE CallAcquire \/ CallProcess \/ CallRelease \/ Destroy \/ AcquireSemaphore \/ SkipFlow
           \/ Connect \/ EndWithEmptyChunk
  <2>1. ~eof /\ mpc # "release" /\ acquired_flows' = acquired_flows
        /\ (mpc' # "release" \/ i' = 0) /\ (eof' => mpc' \in Walking /\ i' = 0)
    BY <1>0, <1>3 DEF CallAcquire, CallProcess, CallRelease, Destroy, AcquireSemaphore, SkipFlow,
                Connect, EndWithEmptyChunk, ControlInv, Walking
  <2>2. \A f \in Flows : Held(f)' <=> Held(f)
    BY <1>2, <2>1 DEF Held, Positions
  <2>3. QED
    BY <1>1, <2>2, Invisible
<1>4. CASE SetMetadata
  <2>1. UNCHANGED <<acquired_flows, i, eof>> /\ mpc = "metadata" /\ mpc' = "send"
    BY <1>4 DEF SetMetadata
  <2>2. \A f \in Flows : Held(f)' <=> Held(f)
    BY <2>1 DEF Held, Positions, Walking
  <2>3. QED
    BY <1>1, <2>2, Invisible
<1>5. CASE ProcessDone
  <2>1. /\ UNCHANGED <<acquired_flows, eof>> /\ mpc = "metadata" /\ mpc' \in {"serve", "release"}
        /\ ~MoreFlows /\ i' = 0 /\ i \in Nat
    BY <1>0, <1>5 DEF ProcessDone, TypeOK
  <2>2. \A f \in Flows : Held(f)' <=> Held(f)
    BY <1>0, <1>2, <2>1 DEF Held, Positions, Walking, MoreFlows
  <2>3. QED
    BY <1>1, <2>2, Invisible
<1>6. CASE ReleaseDone
  <2>1. /\ mpc = "release" /\ ~MoreFlows /\ acquired_flows' = <<>> /\ i \in Nat
    BY <1>0, <1>6 DEF ReleaseDone, TypeOK
  <2>2. \A f \in Flows : ~Held(f) /\ ~Held(f)'
    BY <1>0, <2>1 DEF Held, Positions, MoreFlows
  <2>3. QED
    BY <1>1, <2>2, Invisible
<1>7. CASE CreateFlow \/ SendStart \/ Drain \/ SetSnifferFinished \/ FinishFlow \/ Join
  <2>1. /\ mpc \in {"create", "start_ack", "drain"} \cup Stopping
        /\ UNCHANGED acquired_flows
    BY <1>7 DEF CreateFlow, SendStart, Drain, SetSnifferFinished, FinishFlow, Join, Stopping
  <2>2. acquired_flows = <<>>
    BY <1>0, <2>1 DEF ControlInv
  <2>3. \A f \in Flows : ~Held(f) /\ ~Held(f)'
    BY <2>1, <2>2 DEF Held, Positions
  <2>4. QED
    BY <1>1, <2>3, Invisible
<1>8. QED
  BY <1>3, <1>4, <1>5, <1>6, <1>7 DEF Owner, Main

LEMMA StepRefines ==
  ASSUME IInv, [Next]_vars
  PROVE  Service!Next \/ UNCHANGED Service!service
<1>1. CASE TakeFlow
  BY <1>1, TakeRefines DEF Service!Next
<1>2. CASE SendChunk \/ SendStop
  BY <1>2, SendRefines, StopRefines DEF Service!Next
<1>3. CASE (Owner \/ Main) /\ ~TakeFlow /\ ~SendChunk /\ ~SendStop
  BY <1>3, MainInvisible
<1>4. ASSUME NEW f \in Flows, FlowThread(f)
      PROVE  Service!Next \/ UNCHANGED Service!service
  <2>1. CASE Handle(f)
    BY <2>1, HandleRefines DEF Service!Next
  <2>2. CASE SetAvailable(f)
    BY <2>2, AvailableRefines DEF Service!Next
  <2>3. CASE ~Handle(f) /\ ~SetAvailable(f)
    <3>1. UNCHANGED <<mpc, i, eof, acquired_flows, available, owed, handled>>
      BY <1>4, <2>3 DEF FlowThread, ConnectSocket, ReceiveStart, ReleaseSemaphore, CheckFinished,
                        Receive, DisconnectAll, mainVars, shared, history
    <3>2. \A g \in Flows : Held(g)' <=> Held(g)
      BY <3>1 DEF Held, Positions
    <3>3. QED
      BY <3>1, <3>2, Invisible
  <2>4. QED
    BY <2>1, <2>2, <2>3
<1>5. CASE UNCHANGED vars
  <2>1. \A g \in Flows : Held(g)' <=> Held(g)
    BY <1>5 DEF Held, Positions, vars, mainVars
  <2>2. QED
    BY <1>5, <2>1, Invisible DEF vars, shared, history
<1>6. QED
  BY <1>1, <1>2, <1>3, <1>4, <1>5 DEF Next

LEMMA InitRefines == Init => Service!Init
<1> SUFFICES ASSUME Init
             PROVE  Service!Init
  OBVIOUS
<1>1. \A f \in Flows : ~available[f] /\ ~Held(f) /\ owed[f] - handled[f] = 0
  BY DEF Init, Held, Positions
<1>2. QED
  BY <1>1 DEF Service!Init, status, pending

\* However the source ends, every step of the pool is a step of FlowService or
\* invisible to it: one owner per flow, no chunk lost or handed on twice, and a
\* flow is free again only when nothing is pending.
THEOREM PoolServes == Spec => Service!Init /\ [][Service!Next]_(Service!service)
<1>1. IInv /\ [Next]_vars => [Service!Next]_(Service!service)
  BY StepRefines
<1>2. QED
  BY <1>1, InitRefines, Inductive, PTL DEF Spec
=============================================================================
