---------------------------- MODULE Syncer_proofs ----------------------------
(***************************************************************************)
(* Proofs about Syncer: for all surroundings, that what is relayed is      *)
(* served and by the mappers of the cell; for regular ones, that it is     *)
(* aligned, counted and complete, and that the syncer finds its cell and   *)
(* keeps it.                                                               *)
(***************************************************************************)
EXTENDS SyncerInv, FiniteSetTheorems, TLAPS

-----------------------------------------------------------------------------
(* Arithmetic.                                                             *)

LEMMA Times ==
  /\ Half \in Nat \ {0} /\ Chunk = 2 * Half /\ Period = 5 * Half
  /\ Chunk \in Nat \ {0} /\ Period \in Nat \ {0} /\ Chunk < Period
  /\ Window \in Nat /\ MinSize \in Nat /\ Lead \in Nat /\ SsbLength \in Nat /\ BlockEnd \in Nat
  /\ MinSize < Chunk /\ Lead <= Chunk /\ BlockEnd <= Window
  /\ Nid1Width \in Nat \ {0} /\ MaxFlows \in Nat \ {0} /\ NumBwps \in Nat /\ MaxChunks \in Nat
<1>1. /\ Chunk \in Nat \ {0} /\ Period \in Nat \ {0} /\ Window \in Nat /\ MinSize \in Nat
      /\ Lead \in Nat /\ SsbLength \in Nat /\ Nid1Width \in Nat \ {0} /\ MaxFlows \in Nat \ {0}
      /\ NumBwps \in Nat /\ MaxChunks \in Nat
  BY SyncerAssumption
<1>2. QED
  BY <1>1, TimeAssumption DEF Half, BlockEnd

LEMMA MaxMin ==
  ASSUME NEW a \in Int, NEW b \in Int
  PROVE  /\ Max({a, b}) = IF a >= b THEN a ELSE b
         /\ Min({a, b}) = IF a <= b THEN a ELSE b
  BY DEF Max, Min

LEMMA Identity == \A a, b \in Nat : 3 * a + b \in Nat
  OBVIOUS

LEMMA Modulus ==
  ASSUME NEW p \in Nat \ {0}, NEW x \in Int
  PROVE  /\ x % p \in 0 .. p - 1
         /\ x % p = 0 <=> \E k \in Int : x = k * p
         /\ x \div p \in Int /\ x = p * (x \div p) + (x % p)
<1>1. x % p \in 0 .. p - 1 /\ x \div p \in Int /\ x = p * (x \div p) + (x % p)
  OBVIOUS
<1>2. \A k \in Int : (k * p) % p = 0
  OBVIOUS
<1>3. x % p = 0 => x = (x \div p) * p
  BY <1>1
<1>4. QED
  BY ONLY <1>1, <1>2, <1>3

-----------------------------------------------------------------------------
(* Type correctness.                                                       *)

\* The window of the search lies in the queue.
LEMMA WindowInQueue ==
  ASSUME TypeInv
  PROVE  /\ SearchStart \in Nat /\ SearchEnd \in Int /\ SearchEnd <= size
         /\ Searched \subseteq 0 .. size - 1
         /\ Searched # {} => SearchStart \in Searched
<1>1. waiting_for_pss \in Int /\ size \in Nat /\ in_synch \in BOOLEAN
  BY DEF TypeInv, TypeOK
<1>2. SearchStart \in Nat
  <2>1. Period - (waiting_for_pss - size) - Window \in Int
    BY <1>1, Times
  <2>2. Max({0, Period - (waiting_for_pss - size) - Window}) \in Nat
    BY <2>1, MaxMin
  <2>3. QED
    BY <2>2 DEF SearchStart
<1>3. SearchEnd \in Int /\ SearchEnd <= size
  <2>1. SearchStart + 2 * Window + 1 \in Int
    BY <1>2, Times
  <2>2. Min({size, SearchStart + 2 * Window + 1}) \in Int
        /\ Min({size, SearchStart + 2 * Window + 1}) <= size
    <3> DEFINE e == SearchStart + 2 * Window + 1
    <3>1. e \in Int /\ size \in Int
      BY <1>1, <2>1
    <3> HIDE DEF e
    <3>2. Min({size, e}) = IF size <= e THEN size ELSE e
      BY ONLY <3>1, MaxMin
    <3>3. Min({size, e}) \in Int /\ Min({size, e}) <= size
      BY ONLY <3>1, <3>2
    <3>4. QED
      BY <3>3 DEF e
  <2>3. QED
    BY <1>1, <2>2 DEF SearchEnd
<1>4. QED
  BY <1>1, <1>2, <1>3 DEF Searched

LEMMA InitType == Init => TypeInv
<1> SUFFICES ASSUME Init PROVE TypeInv
  OBVIOUS
<1>1. PICK e \in Environments : phase = e.phase /\ lossy = e.lossy /\ faults = e.faults
  BY DEF Init
<1>2. /\ Cells \subseteq [nid1 : 0 .. 335, nid2 : 0 .. 2]
      /\ \A c \in Cells : phase[c] \in 0 .. Period - 1
      /\ lossy \in BOOLEAN /\ faults \subseteq {"decoder", "overflow"}
  BY <1>1, SyncerAssumption DEF Cells
<1>3. Chunk * MaxChunks \in Nat
  BY Times
<1>4. received \in 0 .. Chunk * MaxChunks /\ first \in -Chunk .. Chunk * MaxChunks
  BY <1>3, Times DEF Init
<1>5. /\ size = 0 /\ waiting_for_pss = 0 /\ counting_samples = 0 /\ nid1 = 0 /\ nid2 = 0 /\ offset = 0
      /\ reach = 0 /\ to_acquire = 0 /\ acquired = 0 /\ finishing = 0 /\ fed = 0 /\ received = 0
      /\ first = 0
      /\ sent = [from |-> 0, len |-> 0, metadata |-> 0]
  BY DEF Init
<1>6. /\ size \in 0 .. 2 * Chunk /\ waiting_for_pss \in 0 .. Period + Chunk
      /\ counting_samples \in Nat /\ nid1 \in 0 .. Nid1Width - 1 /\ nid2 \in 0 .. 2
      /\ offset \in -Lead .. Chunk /\ reach \in 0 .. Chunk /\ to_acquire \in 0 .. NumBwps
      /\ acquired \in 0 .. MaxFlows /\ finishing \in 0 .. MaxFlows /\ fed \in Int
      /\ acquired + finishing <= MaxFlows
      /\ sent \in [from : Int, len : Nat, metadata : Nat]
      /\ first >= 0 /\ size <= Chunk /\ first + size <= received
  BY <1>5, Times
<1>7. /\ pc = "idle" /\ state = "find_pss" /\ in_synch = FALSE /\ nid_2 \in Nat
      /\ block = Noise /\ mapper_cell = None /\ running = TRUE /\ gap = FALSE /\ sss = None
  BY SyncerAssumption DEF Init
<1>8. pss_indices \in {0 .. 2} \cup {{m} : m \in 0 .. 2}
  BY <1>7 DEF Init
<1>9. QED
  BY <1>2, <1>4, <1>6, <1>7, <1>8 DEF TypeInv, TypeOK, Stages, InCall

LEMMA ProcessType ==
  ASSUME TypeInv, NEW n \in {Chunk} \cup LastSizes, process(n)
  PROVE  TypeInv'
<1>1. n \in 0 .. Chunk
  BY SyncerAssumption, Times
<1>2. Chunk * MaxChunks \in Nat
  BY Times
<1>3. waiting_for_pss' \in 0 .. Period + Chunk /\ in_synch' \in BOOLEAN
  <2>1. waiting_for_pss \in Nat /\ in_synch \in BOOLEAN
    BY DEF TypeInv, TypeOK
  <2>2. CASE in_synch /\ waiting_for_pss > Period
    <3>1. waiting_for_pss' = 0 /\ in_synch' = FALSE
      BY <2>2 DEF process
    <3>2. Period + Chunk \in Nat
      BY Times
    <3>3. 0 \in 0 .. Period + Chunk
      BY ONLY <3>2
    <3>4. QED
      BY ONLY <3>1, <3>3
  <2>3. CASE ~(in_synch /\ waiting_for_pss > Period)
    <3>1. in_synch' = in_synch
          /\ waiting_for_pss' = IF in_synch THEN waiting_for_pss + n ELSE waiting_for_pss
      BY <2>3 DEF process
    <3>2. waiting_for_pss <= Period + Chunk
      BY DEF TypeInv, TypeOK
    <3>3. in_synch' \in BOOLEAN
      BY <2>1, <3>1
    <3>4. CASE in_synch
      BY <1>1, <2>1, <2>3, <3>1, <3>4, Times
    <3>5. CASE ~in_synch
      BY <2>1, <3>1, <3>2, <3>5, Times
    <3>6. QED
      BY <3>3, <3>4, <3>5
  <2>4. QED
    BY <2>2, <2>3
<1>4. QED
  BY <1>1, <1>2, <1>3, Times
     DEF process, TypeInv, TypeOK, InCall, Stages, air, cell, ssb, flows, Cells

LEMMA FoundType ==
  ASSUME TypeInv, PssFound
  PROVE  TypeInv'
<1>1. PICK cp \in Detectable : /\ block' = cp[1] /\ offset' = cp[2] - Lead
                               /\ reach' = SearchEnd /\ nid2' = cp[1].nid2
  BY DEF PssFound
<1>2. cp[1] \in Cells /\ cp[2] \in Searched
  BY <1>1 DEF Detectable
<1>3. cp[2] \in 0 .. size - 1 /\ cp[2] < SearchEnd
  BY <1>2, WindowInQueue DEF Searched
<1>4. size <= Chunk /\ size \in Nat
  BY DEF PssFound, At, TypeInv, TypeOK, InCall
<1>5. offset' \in -Lead .. Chunk /\ reach' \in 0 .. Chunk
  BY <1>1, <1>3, <1>4, WindowInQueue, Times
<1>6. nid2' \in 0 .. 2
  BY <1>1, <1>2 DEF TypeInv
<1>7. QED
  BY <1>1, <1>2, <1>5, <1>6
     DEF PssFound, At, following, TypeInv, TypeOK, InCall, Stages, air, queue, tracking, flows,
         history, Cells

LEMMA AlarmType ==
  ASSUME TypeInv, FalseAlarm
  PROVE  TypeInv'
<1>1. SearchStart \in Searched
  BY WindowInQueue DEF FalseAlarm
<1>2. SearchStart \in 0 .. size - 1 /\ SearchStart < SearchEnd
  BY <1>1, WindowInQueue DEF Searched
<1>3. size <= Chunk /\ size \in Nat
  BY DEF FalseAlarm, At, TypeInv, TypeOK, InCall
<1>4. offset' \in -Lead .. Chunk /\ reach' \in 0 .. Chunk
  BY <1>2, <1>3, WindowInQueue, Times DEF FalseAlarm
<1>5. nid2' \in 0 .. 2
  BY DEF FalseAlarm, TypeInv, TypeOK
<1>6. QED
  BY <1>4, <1>5
     DEF FalseAlarm, At, following, TypeInv, TypeOK, InCall, Stages, air, queue, tracking, flows,
         history, Cells

\* What the SSS search stores.
LEMMA SssType ==
  ASSUME TypeInv, SearchSss
  PROVE  nid1' \in 0 .. Nid1Width - 1 /\ sss' \in {None} \cup 0 .. 335
<1>1. CASE in_synch
  BY <1>1 DEF SearchSss, TypeInv, TypeOK
<1>2. CASE ~in_synch
  <2>1. sss' \in 0 .. 335
    BY <1>2 DEF SearchSss, TypeInv, TypeOK
  <2>2. nid1' = sss' % Nid1Width
    BY <1>2 DEF SearchSss
  <2>3. sss' % Nid1Width \in 0 .. Nid1Width - 1
    <3>1. sss' \in Int /\ Nid1Width \in Nat \ {0}
      BY <2>1, Times
    <3>2. QED
      BY ONLY <3>1, Modulus
  <2>4. QED
    BY <2>1, <2>2, <2>3
<1>3. QED
  BY <1>1, <1>2

\* fine_time_sync, and what it leaves of the flows.
LEMMA MibType ==
  ASSUME TypeInv, MibFound
  PROVE  TypeInv'
<1>1. size <= Chunk /\ size \in Nat /\ first \in Nat /\ first + size <= received
      /\ received \in 0 .. Chunk * MaxChunks /\ Chunk * MaxChunks \in Nat
  BY Times DEF MibFound, TypeInv, TypeOK, InCall
<1>2. offset \in -Lead .. Chunk /\ (NumBwps > 0 => offset <= size)
  BY DEF MibFound, TypeInv, TypeOK
<1>3. /\ first' \in -Chunk .. Chunk * MaxChunks
      /\ size' \in 0 .. 2 * Chunk
      /\ counting_samples' \in Nat
      /\ sent' \in [from : Int, len : Nat, metadata : Nat]
      /\ fed' \in Int /\ gap' \in BOOLEAN
      /\ acquired' \in 0 .. MaxFlows /\ finishing' \in 0 .. MaxFlows
      /\ acquired' + finishing' <= MaxFlows
      /\ UNCHANGED <<received, running>>
  <2>1. CASE NumBwps > 0
    <3>1. fine_time_sync
      BY <2>1 DEF MibFound
    <3>2. first' = first + offset /\ size' = size - offset
      BY <3>1 DEF fine_time_sync
    <3>3. offset <= size /\ offset \in Int /\ -Lead <= offset
      BY <1>2, <2>1, Times
    <3>4. first' \in -Chunk .. Chunk * MaxChunks
      <4> DEFINE end == Chunk * MaxChunks
      <4>1. end \in Nat /\ received <= end
        BY <1>1
      <4> HIDE DEF end
      <4>2. first' \in -Chunk .. end
        BY <1>1, <3>2, <3>3, <4>1, Times
      <4>3. QED
        BY <4>2 DEF end
    <3>5. size' \in 0 .. 2 * Chunk
      BY <1>1, <3>2, <3>3, Times
    <3>6. /\ counting_samples \in Nat /\ sent \in [from : Int, len : Nat, metadata : Nat]
          /\ fed \in Int /\ gap \in BOOLEAN /\ acquired \in 0 .. MaxFlows /\ finishing \in 0 .. MaxFlows
          /\ acquired + finishing <= MaxFlows
      BY DEF TypeInv, TypeOK
    <3>7. CASE offset > 0
      <4>1. /\ sent' = [from |-> first, len |-> offset, metadata |-> counting_samples]
            /\ counting_samples' = counting_samples + offset
            /\ gap' = (gap \/ (acquired > 0 /\ first > fed))
            /\ fed' = first + offset
            /\ UNCHANGED <<received, running>>
            /\ finishing' = finishing + acquired
            /\ acquired' = 0
        BY <3>1, <3>7 DEF fine_time_sync, Send
      <4>2. offset \in Nat
        BY <3>3, <3>7
      <4>3. acquired' \in 0 .. MaxFlows /\ finishing' \in 0 .. MaxFlows /\ acquired' + finishing' <= MaxFlows
        BY <3>6, <4>1, Times
      <4>4. QED
        BY <1>1, <3>4, <3>5, <3>6, <4>1, <4>2, <4>3
    <3>8. CASE ~(offset > 0)
      BY <3>1, <3>4, <3>5, <3>6, <3>8 DEF fine_time_sync, history
    <3>9. QED
      BY <3>7, <3>8
  <2>2. CASE ~(NumBwps > 0)
    <3>1. UNCHANGED <<queue, counting_samples, history, acquired, finishing>>
      BY <2>2 DEF MibFound
    <3>2. QED
      BY <3>1 DEF queue, history, TypeInv, TypeOK
  <2>3. QED
    BY <2>1, <2>2
<1>4. nid1' \in 0 .. Nid1Width - 1 /\ sss' \in {None} \cup 0 .. 335
  BY SssType DEF MibFound
<1>5. mapper_cell' \in Nat \cup {None}
  <2>1. nid1' \in Nat /\ nid2 \in Nat /\ mapper_cell \in Nat \cup {None}
    BY <1>4, Times DEF TypeInv, TypeOK
  <2>2. 3 * nid1' + nid2 \in Nat
    BY <2>1, Identity
  <2>3. mapper_cell' = 3 * nid1' + nid2 \/ mapper_cell' = mapper_cell
    BY DEF MibFound
  <2>4. QED
    BY <2>1, <2>2, <2>3
<1>6. to_acquire' \in 0 .. NumBwps
  BY Times DEF MibFound
<1>7. pc' = "acquire" /\ UNCHANGED <<air, state, tracking, pss_indices, nid2, ssb>>
  BY DEF MibFound
<1>8. QED
  BY <1>3, <1>4, <1>5, <1>6, <1>7 DEF TypeInv, TypeOK, InCall, Stages, air, tracking, ssb, Cells

LEMMA NextType ==
  ASSUME TypeInv, [Next]_vars
  PROVE  TypeInv'
<1>1. CASE UNCHANGED vars
  BY <1>1 DEF vars, air, queue, tracking, cell, ssb, flows, history, TypeInv, TypeOK, InCall,
              Cells
<1>2. CASE Receive
  BY <1>2, ProcessType DEF Receive
<1>3. CASE Skip
  BY <1>3 DEF Skip, following, air, queue, tracking, cell, ssb, flows, history, TypeInv, TypeOK,
              InCall, Cells, Stages
<1>4. CASE Wait
  <2>1. first \in Nat /\ size \in Nat /\ counting_samples \in Nat
    BY <1>4 DEF Wait, At, TypeInv, TypeOK, InCall
  <2>2. UNCHANGED <<air, first, tracking, cell, ssb, mapper_cell, flows>> /\ pc' = "find_pss"
    BY <1>4 DEF Wait, At, following
  <2>3. CASE PssIsDue
    <3>1. state' = "find_pss" /\ UNCHANGED <<size, counting_samples, history>>
      BY <1>4, <2>3 DEF Wait
    <3>2. QED
      BY <1>4, <2>2, <3>1
         DEF Wait, At, air, tracking, cell, ssb, flows, history, TypeInv, TypeOK, InCall, Cells,
             Stages
  <2>4. CASE ~PssIsDue
    <3>1. Send(first, size) /\ size' = 0 /\ UNCHANGED state
      BY <1>4, <2>4 DEF Wait
    <3>2. /\ counting_samples' \in Nat /\ sent' \in [from : Int, len : Nat, metadata : Nat]
          /\ gap' \in BOOLEAN /\ fed' \in Int /\ UNCHANGED <<received, running>>
      BY <2>1, <3>1 DEF Send, TypeInv, TypeOK
    <3>3. size' \in 0 .. 2 * Chunk /\ size' <= Chunk /\ first' + size' <= received'
      <4>1. first + size <= received /\ received \in Int
        BY <1>4 DEF Wait, At, TypeInv, TypeOK, InCall
      <4>2. first' = first /\ received' = received /\ size' = 0
        BY <2>2, <3>1, <3>2
      <4>3. QED
        BY ONLY <2>1, <4>1, <4>2, Times
    <3>4. QED
      BY <1>4, <2>2, <3>1, <3>2, <3>3
         DEF Wait, At, air, tracking, cell, ssb, flows, TypeInv, TypeOK, InCall, Cells, Stages
  <2>5. QED
    BY <2>3, <2>4
<1>5. CASE PssFound \/ FalseAlarm
  BY <1>5, FoundType, AlarmType
<1>6. CASE PssNotFound \/ TooShort \/ FineSync
  BY <1>6 DEF PssNotFound, TooShort, FineSync, At, following, air, queue, tracking, cell, ssb,
              flows, history, TypeInv, TypeOK, InCall, Cells, Stages
<1>7. CASE SssNotFound
  BY <1>7 DEF SssNotFound, on_sync_lost, At, following, air, queue, tracking, cell, ssb, flows,
              history, TypeInv, TypeOK, InCall, Cells, Stages
<1>8. CASE MibNotFound
  <2>1. nid1' \in 0 .. Nid1Width - 1 /\ sss' \in {None} \cup 0 .. 335
    BY <1>8, SssType DEF MibNotFound
  <2>2. QED
    BY <1>8, <2>1
       DEF MibNotFound, on_sync_lost, At, following, air, queue, tracking, ssb, flows, history,
           TypeInv, TypeOK, InCall, Cells, Stages
<1>9. CASE DecodeReturnsEarly
  <2>1. nid1' \in 0 .. Nid1Width - 1 /\ sss' \in {None} \cup 0 .. 335
    BY <1>9, SssType DEF DecodeReturnsEarly
  <2>2. QED
    BY <1>9, <2>1
       DEF DecodeReturnsEarly, At, following, air, queue, tracking, ssb, flows, history,
           TypeInv, TypeOK, InCall, Cells, Stages
<1>10. CASE MibFound
  BY <1>10, MibType
<1>11. CASE CutBeyondQueue
  <2>1. nid1' \in 0 .. Nid1Width - 1 /\ sss' \in {None} \cup 0 .. 335
    BY <1>11, SssType DEF CutBeyondQueue
  <2>2. QED
    BY <1>11, <2>1
       DEF CutBeyondQueue, air, queue, tracking, ssb, flows, history, TypeInv, TypeOK, InCall,
           Cells, Stages
<1>12. CASE AcquireFlow
  <2>1. /\ acquired' = acquired + 1 /\ to_acquire' = to_acquire - 1 /\ finishing' = finishing
        /\ acquired + finishing < MaxFlows /\ to_acquire > 0
        /\ fed' = (IF acquired = 0 THEN first ELSE fed)
    BY <1>12 DEF AcquireFlow
  <2>2. /\ acquired \in 0 .. MaxFlows /\ finishing \in 0 .. MaxFlows /\ to_acquire \in 0 .. NumBwps
        /\ first \in Int /\ fed \in Int
    BY DEF TypeInv, TypeOK
  <2>3. /\ acquired' \in 0 .. MaxFlows /\ to_acquire' \in 0 .. NumBwps
        /\ acquired' + finishing' <= MaxFlows /\ fed' \in Int
    BY ONLY <2>1, <2>2, Times
  <2>4. QED
    BY <1>12, <2>3
       DEF AcquireFlow, air, queue, tracking, cell, ssb, TypeInv, TypeOK, InCall, Cells, Stages
<1>13. CASE LockCell
  BY <1>13 DEF LockCell, air, queue, ssb, flows, history, TypeInv, TypeOK, InCall, Cells, Stages
<1>14. CASE Relay
  <2>1. first \in Int /\ size \in 0 .. 2 * Chunk /\ counting_samples \in Nat
    BY DEF TypeInv, TypeOK
  <2>2. /\ UNCHANGED <<air, first, in_synch, cell, ssb, mapper_cell, flows>>
        /\ pc' = "idle" /\ state' = "wait" /\ size' = 0 /\ waiting_for_pss' = size
        /\ Send(first, size)
    BY <1>14 DEF Relay, At, following
  <2>3. /\ counting_samples' \in Nat /\ sent' \in [from : Int, len : Nat, metadata : Nat]
        /\ gap' \in BOOLEAN /\ fed' \in Int /\ UNCHANGED <<received, running>>
    BY <2>1, <2>2 DEF Send, TypeInv, TypeOK
  <2>4. size' \in 0 .. 2 * Chunk /\ waiting_for_pss' \in 0 .. Period + Chunk
    BY <2>1, <2>2, Times
  <2>5. QED
    BY <2>2, <2>3, <2>4 DEF air, cell, ssb, flows, TypeInv, TypeOK, InCall, Cells, Stages
<1>15. CASE FlowAvailable
  <2>1. finishing > 0 /\ finishing' = finishing - 1 /\ acquired' = acquired
    BY <1>15 DEF FlowAvailable
  <2>2. acquired \in 0 .. MaxFlows /\ finishing \in 0 .. MaxFlows /\ acquired + finishing <= MaxFlows
    BY DEF TypeInv, TypeOK
  <2>3. finishing' \in 0 .. MaxFlows /\ acquired' + finishing' <= MaxFlows
    BY ONLY <2>1, <2>2, Times
  <2>4. QED
    BY <1>15, <2>3
       DEF FlowAvailable, air, queue, tracking, cell, ssb, history, TypeInv, TypeOK, InCall, Cells,
           Stages
<1>16. ASSUME NEW n \in Losses, LoseSamples(n)
       PROVE  TypeInv'
  <2>1. n \in Nat
    BY SyncerAssumption, Times
  <2>2. phase' = [c \in Cells |-> (phase[c] - n) % Period]
    BY <1>16 DEF LoseSamples
  <2>3. Cells' = Cells
    BY <2>2 DEF Cells
  <2>4. ASSUME NEW c \in Cells
        PROVE  phase'[c] \in 0 .. Period - 1
    <3>1. phase[c] - n \in Int /\ Period \in Nat \ {0}
      BY <2>1, Times DEF TypeInv, TypeOK
    <3>2. (phase[c] - n) % Period \in 0 .. Period - 1
      BY ONLY <3>1, Modulus
    <3>3. QED
      BY <2>2, <3>2
  <2>5. QED
    BY <1>16, <2>3, <2>4
       DEF LoseSamples, queue, tracking, cell, ssb, flows, history, TypeInv, TypeOK, InCall, Stages
<1>17. QED
  BY <1>1, <1>2, <1>3, <1>4, <1>5, <1>6, <1>7, <1>8, <1>9, <1>10, <1>11, <1>12, <1>13, <1>14,
     <1>15, <1>16
     DEF Next, Search, Decode

\* Every variable of the syncer keeps its type, whatever is received (syncer.cc:115).
THEOREM TypeCorrect == Spec => []TypeOK
<1>1. Spec => []TypeInv
  BY InitType, NextType, PTL DEF Spec
<1>2. QED
  BY <1>1, PTL DEF TypeInv

-----------------------------------------------------------------------------
(* What is relayed is served.                                              *)

LEMMA ServedNext ==
  ASSUME TypeInv, ServedInv, [Next]_vars
  PROVE  ServedInv'
<1> USE DEF ServedInv, Served
<1>1. acquired \in Nat /\ to_acquire \in Nat /\ NumBwps \in Nat
  BY Times DEF TypeInv, TypeOK
<1>2. CASE UNCHANGED vars
  BY <1>2 DEF vars, flows
<1>3. ASSUME NEW n \in {Chunk} \cup LastSizes, process(n)
      PROVE  ServedInv'
  BY <1>3 DEF process, flows
<1>4. CASE Skip
  BY <1>4 DEF Skip, following, Stages, flows
<1>5. CASE Wait
  BY <1>5 DEF Wait, At, following, flows
<1>6. CASE Search
  BY <1>6 DEF Search, PssFound, FalseAlarm, PssNotFound, TooShort, FineSync, At, following, flows
<1>7. CASE SssNotFound \/ MibNotFound \/ DecodeReturnsEarly \/ CutBeyondQueue
  BY <1>7 DEF SssNotFound, MibNotFound, DecodeReturnsEarly, CutBeyondQueue, on_sync_lost, At,
              following, flows
<1>8. CASE MibFound
  <2>1. pc' = "acquire" /\ state' = "find_sss" /\ to_acquire' = NumBwps
    BY <1>8 DEF MibFound
  <2>2. acquired' \in Nat
    BY <1>8, MibType DEF TypeInv, TypeOK
  <2>3. ASSUME NumBwps > 0
        PROVE  mapper_cell' # None
    <3>1. nid1' \in Nat /\ nid2 \in Nat
      BY <1>8, SssType, Times DEF MibFound, TypeInv, TypeOK
    <3>2. 3 * nid1' + nid2 \in Nat
      BY <3>1, Identity
    <3>3. 3 * nid1' + nid2 # None
      BY ONLY <3>2 DEF None
    <3>4. QED
      BY <1>8, <2>3, <3>3 DEF MibFound
  <2>4. acquired' + to_acquire' >= NumBwps
    <3>1. \A m, n \in Nat : m + n >= n
      OBVIOUS
    <3>2. acquired' + NumBwps >= NumBwps
      BY <1>1, <2>2, <3>1
    <3>3. QED
      BY <2>1, <3>2
  <2>5. QED
    BY <2>1, <2>3, <2>4
<1>9. CASE AcquireFlow
  <2>1. acquired' + to_acquire' = acquired + to_acquire
    BY <1>1, <1>9 DEF AcquireFlow
  <2>2. QED
    BY <1>9, <2>1 DEF AcquireFlow
<1>10. CASE LockCell
  BY <1>1, <1>10 DEF LockCell, flows
<1>11. CASE Relay
  BY <1>11 DEF Relay, At, following, flows
<1>12. CASE FlowAvailable
  BY <1>12 DEF FlowAvailable
<1>13. ASSUME NEW n \in Losses, LoseSamples(n)
       PROVE  ServedInv'
  BY <1>13 DEF LoseSamples, flows
<1>14. QED
  BY <1>2, <1>3, <1>4, <1>5, <1>6, <1>7, <1>8, <1>9, <1>10, <1>11, <1>12, <1>13
     DEF Next, Receive, Decode

\* The syncer waits for the next block with a flow for each bandwidth part and the
\* channel mappers made, whatever was missed, lost or broken off before: the states
\* that on_mib_found goes through only take away what it then acquires.
THEOREM RelayServed == Spec => []RelayIsServed
<1>1. Init => ServedInv
  BY DEF Init, ServedInv
<1>2. TypeInv /\ ServedInv /\ [Next]_vars => ServedInv'
  BY ServedNext
<1>3. ServedInv => RelayIsServed
  BY DEF ServedInv, Served, RelayIsServed
<1>4. QED
  BY <1>1, <1>2, <1>3, InitType, NextType, PTL DEF Spec

-----------------------------------------------------------------------------
(* The mappers are those of the cell.                                      *)

LEMMA CellsStay ==
  ASSUME [Next]_vars
  PROVE  Cells' = Cells
<1>1. CASE UNCHANGED air
  BY <1>1 DEF air, Cells
<1>2. ASSUME NEW n \in Losses, LoseSamples(n)
      PROVE  Cells' = Cells
  BY <1>2 DEF LoseSamples, Cells
<1>3. UNCHANGED air \/ \E n \in Losses : LoseSamples(n)
  BY DEF vars, Next, Receive, process, Skip, Wait, Search, PssFound, FalseAlarm, PssNotFound,
         TooShort, FineSync, Decode, SssNotFound, MibNotFound, DecodeReturnsEarly, MibFound,
         CutBeyondQueue, AcquireFlow, LockCell, Relay, FlowAvailable
<1>4. QED
  BY <1>1, <1>2, <1>3

LEMMA NoiseIsNoCell ==
  ASSUME TypeInv
  PROVE  Noise \notin Cells /\ (block # Noise <=> block \in Cells)
<1>1. Noise \notin Cells
  BY DEF TypeInv, Noise
<1>2. QED
  BY <1>1 DEF TypeInv, TypeOK

\* A step after which the block, the PSS and the group are those of before.
LEMMA CellKept ==
  ASSUME CellInv, Cells' = Cells,
         UNCHANGED <<pss_indices, nid1, nid2, block, mapper_cell>>,
         (pc' # "acquire" /\ pc # "acquire") \/ pc' = pc,
         in_synch' => in_synch
  PROVE  CellInv'
  BY DEF CellInv, MappersOfCell, cell_id, Id

\* A PSS that is searched for is found, or something is taken for it.
LEMMA CellSearched ==
  ASSUME TypeInv, CellInv, Cells' = Cells, pc # "acquire", pc' # "acquire", nid2' \in pss_indices,
         block' \in Cells => nid2' = block'.nid2,
         UNCHANGED <<pss_indices, nid1, mapper_cell, in_synch>>
  PROVE  CellInv'
<1>1. ASSUME mapper_cell # None
      PROVE  nid2' = nid2
  BY <1>1 DEF CellInv
<1>2. MappersOfCell'
  BY <1>1 DEF CellInv, MappersOfCell, cell_id
<1>3. QED
  BY <1>2 DEF CellInv, Id

\* A group that is stored while the syncer is not in synch.
LEMMA CellGroup ==
  ASSUME CellInv, Cells' = Cells, pc # "acquire", pc' # "acquire", SearchSss,
         UNCHANGED <<pss_indices, nid2, block, mapper_cell, in_synch>>
  PROVE  CellInv'
<1>1. in_synch => nid1' = nid1
  BY DEF SearchSss
<1>2. MappersOfCell'
  BY <1>1 DEF CellInv, MappersOfCell, cell_id
<1>3. QED
  BY <1>2 DEF CellInv, Id

LEMMA CellNext ==
  ASSUME TypeInv, CellInv, [Next]_vars
  PROVE  CellInv'
<1>1. Cells' = Cells
  BY CellsStay
<1>2. CASE UNCHANGED vars
  BY <1>1, <1>2, CellKept DEF vars, cell, ssb, tracking
<1>3. ASSUME NEW n \in {Chunk} \cup LastSizes, process(n)
      PROVE  CellInv'
  BY <1>1, <1>3, CellKept DEF process, cell, ssb
<1>4. CASE Skip
  <2>1. pc # "acquire" /\ pc' # "acquire"
    BY <1>4 DEF Skip, following, Stages
  <2>2. QED
    BY <1>1, <1>4, <2>1, CellKept DEF Skip, cell, ssb, tracking
<1>5. CASE Wait \/ PssNotFound \/ TooShort \/ FineSync \/ SssNotFound \/ Relay
  <2>1. pc # "acquire" /\ pc' # "acquire"
    BY <1>5 DEF Wait, PssNotFound, TooShort, FineSync, SssNotFound, Relay, At, following
  <2>2. QED
    BY <1>1, <1>5, <2>1, CellKept
       DEF Wait, PssNotFound, TooShort, FineSync, SssNotFound, Relay, cell, ssb, tracking
<1>6. CASE PssFound
  <2>1. PICK cp \in Detectable : block' = cp[1] /\ nid2' = cp[1].nid2
    BY <1>6 DEF PssFound
  <2>2. nid2' \in pss_indices
    BY <2>1 DEF Detectable
  <2>3. QED
    BY <1>1, <1>6, <2>1, <2>2, CellSearched DEF PssFound, At, following, tracking
<1>7. CASE FalseAlarm
  <2>1. block' \notin Cells /\ nid2' \in pss_indices
    BY <1>7, NoiseIsNoCell DEF FalseAlarm
  <2>2. QED
    BY <1>1, <1>7, <2>1, CellSearched DEF FalseAlarm, At, following, tracking
<1>8. CASE MibNotFound \/ DecodeReturnsEarly
  BY <1>1, <1>8, CellGroup
     DEF MibNotFound, DecodeReturnsEarly, At, following, tracking, ssb
<1>9. CASE CutBeyondQueue
  BY <1>1, <1>9, CellGroup DEF CutBeyondQueue, tracking, ssb
<1>10. CASE MibFound
  <2>1. /\ block # Noise /\ 3 * nid1' + nid2 = Id(block)
        /\ UNCHANGED <<pss_indices, nid2, block, in_synch>> /\ pc = "find_sss" /\ pc' = "acquire"
        /\ mapper_cell' = IF mapper_cell = None /\ NumBwps > 0 THEN 3 * nid1' + nid2 ELSE mapper_cell
    BY <1>10 DEF MibFound, Decodable, Id, ssb, tracking
  <2>2. block \in Cells /\ nid2 = block.nid2
    BY <2>1, NoiseIsNoCell DEF CellInv
  <2>3. cell_id' = Id(block)
    BY <2>1 DEF cell_id
  <2>4. in_synch => nid1' = nid1
    BY <1>10 DEF MibFound, SearchSss
  <2>5. CASE mapper_cell' = mapper_cell
    BY <1>1, <2>1, <2>2, <2>3, <2>4, <2>5 DEF CellInv, MappersOfCell, cell_id, Id
  <2>6. CASE mapper_cell' # mapper_cell
    <3>1. mapper_cell' = Id(block) /\ mapper_cell' = cell_id'
      BY <2>1, <2>3, <2>6
    <3>2. QED
      BY <1>1, <2>1, <2>2, <2>3, <3>1 DEF CellInv, MappersOfCell, Id
  <2>7. QED
    BY <2>5, <2>6
<1>11. CASE AcquireFlow
  BY <1>1, <1>11, CellKept DEF AcquireFlow, cell, ssb, tracking
<1>12. CASE LockCell
  <2>1. /\ pc = "acquire" /\ pc' = "relay" /\ in_synch' /\ pss_indices' = {nid2}
        /\ UNCHANGED <<nid1, nid2, block, mapper_cell>>
    BY <1>12 DEF LockCell, ssb
  <2>2. block \in Cells /\ cell_id = Id(block) /\ nid2 = block.nid2
    BY <2>1 DEF CellInv
  <2>3. ASSUME mapper_cell # None
        PROVE  \E c \in Cells : mapper_cell = Id(c) /\ nid2 = c.nid2
    BY <2>3 DEF CellInv
  <2>4. MappersOfCell'
    <3>1. SUFFICES ASSUME mapper_cell # None, \A c, d \in Cells : c # d => c.nid2 # d.nid2
                   PROVE  mapper_cell = cell_id
      BY <1>1, <2>1 DEF MappersOfCell, cell_id
    <3>2. PICK c \in Cells : mapper_cell = Id(c) /\ nid2 = c.nid2
      BY <2>3, <3>1
    <3>3. c = block
      BY <2>2, <3>1, <3>2
    <3>4. QED
      BY <2>2, <3>2, <3>3
  <2>5. QED
    BY <1>1, <2>1, <2>2, <2>3, <2>4 DEF CellInv, Id
<1>13. CASE FlowAvailable
  BY <1>1, <1>13, CellKept DEF FlowAvailable, cell, ssb, tracking
<1>14. ASSUME NEW n \in Losses, LoseSamples(n)
       PROVE  CellInv'
  BY <1>1, <1>14, CellKept DEF LoseSamples, cell, ssb, tracking
<1>15. QED
  BY <1>2, <1>3, <1>4, <1>5, <1>6, <1>7, <1>8, <1>9, <1>10, <1>11, <1>12, <1>13, <1>14
     DEF Next, Receive, Search, Decode

LEMMA CellInit ==
  ASSUME Init
  PROVE  CellInv
<1>1. TypeInv
  BY InitType
<1>2. pc = "idle" /\ in_synch = FALSE /\ block = Noise /\ mapper_cell = None
  BY DEF Init
<1>3. QED
  BY <1>1, <1>2, NoiseIsNoCell DEF CellInv, MappersOfCell

\* The channel mappers, made once, are those of the cell in synch, among any cells
\* that differ in their PSS: after the first MIB only its PSS is searched for.
THEOREM MappersStayRight == Spec => []MappersOfCell
<1>1. Init => CellInv
  BY CellInit
<1>2. TypeInv /\ CellInv /\ [Next]_vars => CellInv'
  BY CellNext
<1>3. CellInv => MappersOfCell
  BY DEF CellInv
<1>4. QED
  BY <1>1, <1>2, <1>3, InitType, NextType, PTL DEF Spec

-----------------------------------------------------------------------------
(* Regular surroundings.                                                   *)

LEMMA IdsApart ==
  ASSUME NEW a \in Int, NEW b \in 0 .. 2, NEW c \in Int, NEW d \in 0 .. 2,
         3 * a + b = 3 * c + d
  PROVE  a = c /\ b = d
  OBVIOUS

LEMMA OneCell ==
  ASSUME TypeInv, Regular
  PROVE  \E c : /\ Cells = {c}
                /\ c.nid1 \in 0 .. 335 /\ c.nid2 \in 0 .. 2
                /\ phase[c] \in 0 .. Period - 1
                /\ Clear(phase[c])
<1>1. Cells \subseteq [nid1 : 0 .. 335, nid2 : 0 .. 2]
  BY DEF TypeInv
<1>2. IsFiniteSet(Cells)
  <2> DEFINE f == [c \in Cells |-> Id(c)]
  <2>1. \A c \in Cells : Id(c) \in 0 .. 1007
    <3>1. \A a \in 0 .. 335, b \in 0 .. 2 : 3 * a + b \in 0 .. 1007
      OBVIOUS
    <3>2. QED
      BY <1>1, <3>1 DEF Id
  <2>2. ASSUME NEW c \in Cells, NEW d \in Cells, Id(c) = Id(d)
        PROVE  c = d
    <3>1. /\ c \in [nid1 : 0 .. 335, nid2 : 0 .. 2]
          /\ d \in [nid1 : 0 .. 335, nid2 : 0 .. 2]
      BY <1>1
    <3>2. 3 * c.nid1 + c.nid2 = 3 * d.nid1 + d.nid2
      BY <2>2 DEF Id
    <3>3. c.nid1 \in Int /\ d.nid1 \in Int /\ c.nid2 \in 0 .. 2 /\ d.nid2 \in 0 .. 2
      BY ONLY <3>1
    <3>4. c.nid1 = d.nid1 /\ c.nid2 = d.nid2
      BY ONLY <3>2, <3>3, IdsApart
    <3>5. QED
      BY ONLY <3>1, <3>4
  <2>3. f \in Injection(Cells, 0 .. 1007)
    BY <2>1, <2>2 DEF Injection, IsInjective
  <2>4. IsFiniteSet(0 .. 1007)
    <3>1. 0 \in Int /\ 1007 \in Int
      OBVIOUS
    <3>2. PICK l \in Int, h \in Int : l = 0 /\ h = 1007
      BY <3>1
    <3>3. IsFiniteSet(l .. h)
      BY ONLY l \in Int, h \in Int, FS_Interval
    <3>4. QED
      BY <3>2, <3>3
  <2> HIDE DEF f
  <2>5. QED
    BY ONLY <2>3, <2>4, FS_Injection
<1>3. PICK c : Cells = {c}
  BY <1>2, FS_Singleton DEF Regular
<1>4. c \in Cells
  BY <1>3
<1>5. QED
  BY <1>1, <1>3, <1>4 DEF TypeInv, TypeOK, Regular

\* Nothing changes the surroundings but a loss of samples.
LEMMA RegularStays ==
  ASSUME [Next]_vars, Regular'
  PROVE  /\ Regular /\ UNCHANGED air
         /\ ~ \E n \in Losses : LoseSamples(n)
<1>1. ~ \E n \in Losses : LoseSamples(n)
  BY DEF LoseSamples, Regular
<1>2. UNCHANGED air
  BY <1>1
     DEF vars, Next, Receive, process, Skip, Wait, Search, PssFound, FalseAlarm, PssNotFound,
         TooShort, FineSync, Decode, SssNotFound, MibNotFound, DecodeReturnsEarly, MibFound,
         CutBeyondQueue, AcquireFlow, LockCell, Relay, FlowAvailable
<1>3. QED
  BY <1>1, <1>2 DEF Regular, Cells, air

LEMMA Multiple ==
  ASSUME NEW h \in Nat \ {0}, NEW j \in Int
  PROVE  /\ j * h \in Int
         /\ j <= -1 => j * h <= -h
         /\ j = 0 => j * h = 0
         /\ j = 1 => j * h = h
         /\ j >= 2 => j * h >= 2 * h
  OBVIOUS

\* Where the slot of a clear block starts, counted from the start of a chunk: the
\* chunk and the period are multiples of half a chunk.
LEMMA SlotOffset ==
  ASSUME NEW x \in Int, NEW e \in Int, NEW ph \in Int,
         x % Chunk = 0, (x + e - ph) % Period = 0, Clear(ph), -Lead <= e, e <= Chunk
  PROVE  e \in 1 .. Chunk - BlockEnd - 1
<1>1. PICK k \in Int : x = k * Chunk
  BY Modulus, Times
<1>2. PICK m \in Int : x + e - ph = m * Period
  <2>1. x + e - ph \in Int
    OBVIOUS
  <2>2. QED
    BY <2>1, Modulus, Times
<1>3. PICK q \in Int, r \in Int : ph = Half * q + r /\ r \in 1 .. Half - BlockEnd - 1
  <2>1. ph \div Half \in Int /\ ph % Half \in Int /\ ph = Half * (ph \div Half) + (ph % Half)
    BY Modulus, Times
  <2>2. ph % Half \in 1 .. Half - Lead - SsbLength - 1
    BY DEF Clear, Half
  <2>3. ph % Half \in 1 .. Half - BlockEnd - 1
    BY <2>2, Times DEF BlockEnd
  <2>4. QED
    BY <2>1, <2>3
<1> DEFINE j == q + 5 * m - 2 * k
<1>4. j \in Int
  OBVIOUS
<1>5. e = r + j * Half
  <2>1. \A hh, kk, mm, qq \in Int : mm * (5 * hh) - kk * (2 * hh) + hh * qq = (qq + 5 * mm - 2 * kk) * hh
    OBVIOUS
  <2>2. m * (5 * Half) - k * (2 * Half) + Half * q = j * Half
    BY <2>1, Times
  <2>3. Period = 5 * Half /\ Chunk = 2 * Half
    BY Times
  <2>4. m * Period - k * Chunk + Half * q = j * Half
    BY ONLY <2>2, <2>3
  <2>5. m * Period \in Int /\ k * Chunk \in Int /\ Half * q \in Int
    BY Times
  <2>6. QED
    BY ONLY <1>1, <1>2, <1>3, <2>4, <2>5, e \in Int, x \in Int
<1> HIDE DEF j
<1>6. Half \in Nat \ {0} /\ Chunk = 2 * Half /\ Lead \in Nat /\ BlockEnd \in Nat /\ Lead <= BlockEnd
  BY Times, SyncerAssumption DEF BlockEnd
<1>7. j \in {0, 1}
  <2>1. ~(j <= -1)
    BY ONLY <1>3, <1>4, <1>5, <1>6, Multiple, -Lead <= e
  <2>2. ~(j >= 2)
    BY ONLY <1>3, <1>4, <1>5, <1>6, Multiple, e <= Chunk
  <2>3. QED
    BY ONLY <1>4, <2>1, <2>2
<1>8. QED
  BY ONLY <1>3, <1>4, <1>5, <1>6, <1>7, Multiple, e \in Int

\* What the types say of the numbers.
LEMMA Numbers ==
  ASSUME TypeInv
  PROVE  /\ first \in Int /\ size \in Nat /\ size <= 2 * Chunk /\ received \in Nat
         /\ counting_samples \in Nat /\ waiting_for_pss \in Nat /\ offset \in Int /\ reach \in Nat
         /\ -Lead <= offset /\ offset <= Chunk
         /\ acquired \in Nat /\ to_acquire \in Nat /\ nid1 \in Nat /\ nid2 \in 0 .. 2 /\ fed \in Int
         /\ InCall => size <= Chunk /\ first \in Nat
         /\ \A c \in Cells : c.nid1 \in 0 .. 335 /\ c.nid2 \in 0 .. 2 /\ phase[c] \in 0 .. Period - 1
<1>1. /\ first \in Int /\ size \in 0 .. 2 * Chunk
      /\ counting_samples \in Nat /\ waiting_for_pss \in 0 .. Period + Chunk
      /\ offset \in -Lead .. Chunk /\ reach \in 0 .. Chunk
      /\ acquired \in 0 .. MaxFlows /\ to_acquire \in 0 .. NumBwps /\ nid1 \in 0 .. Nid1Width - 1
      /\ nid2 \in 0 .. 2 /\ fed \in Int
  BY DEF TypeInv, TypeOK
<1>2. received \in Nat
  <2>1. received \in 0 .. Chunk * MaxChunks
    BY DEF TypeInv, TypeOK
  <2>2. QED
    BY ONLY <2>1
<1>3. /\ InCall => size <= Chunk /\ first >= 0
      /\ \A c \in Cells : c.nid1 \in 0 .. 335 /\ c.nid2 \in 0 .. 2 /\ phase[c] \in 0 .. Period - 1
  BY DEF TypeInv, TypeOK
<1>4. QED
  BY <1>1, <1>2, <1>3, Times

\* The slots are where they were.
LEMMA SlotKept ==
  ASSUME phase' = phase, NEW x, NEW y, x = y, Slot(y)
  PROVE  \A c \in Cells' : (x - phase'[c]) % Period = 0
  BY DEF Slot, Cells

\* Whole chunks have been received at x: no block starts there.
LEMMA NoSlotAtChunk ==
  ASSUME TypeInv, Regular, NEW x \in Int, x % Chunk = 0, Slot(x)
  PROVE  FALSE
<1>1. PICK c : Cells = {c} /\ phase[c] \in 0 .. Period - 1 /\ Clear(phase[c])
  BY OneCell
<1>2. (x - phase[c]) % Period = 0
  BY <1>1 DEF Slot
<1>3. PICK e \in Int : e = 0
  OBVIOUS
<1>4. x + e - phase[c] = x - phase[c]
  BY <1>1, <1>3, Times
<1>5. (x + e - phase[c]) % Period = 0
  BY <1>2, <1>4
<1>6. -Lead <= e /\ e <= Chunk
  BY <1>3, Times
<1>7. phase[c] \in Int
  BY <1>1, Times
<1>8. e \in 1 .. Chunk - BlockEnd - 1
  BY ONLY <1>1, <1>5, <1>6, <1>7, SlotOffset, x \in Int, x % Chunk = 0, e \in Int
<1>9. QED
  BY ONLY <1>3, <1>8

\* The same, a period earlier.
LEMMA NoSlotAPeriodAgo ==
  ASSUME TypeInv, Regular, NEW x \in Int, x % Chunk = 0, Slot(x - Period)
  PROVE  FALSE
<1>1. \A c \in Cells : (x - phase[c]) % Period = 0
  <2> SUFFICES ASSUME NEW c \in Cells
               PROVE  (x - phase[c]) % Period = 0
    OBVIOUS
  <2>1. phase[c] \in Int
    BY Numbers, Times
  <2>2. (x - Period - phase[c]) % Period = 0
    BY DEF Slot
  <2>3. x - Period - phase[c] \in Int
    BY <2>1, Times
  <2>4. PICK k \in Int : x - Period - phase[c] = k * Period
    BY <2>2, <2>3, Modulus, Times
  <2>5. x - phase[c] = (k + 1) * Period
    <3>1. \A a, b \in Int : (a + 1) * b = a * b + b /\ a * b \in Int
      OBVIOUS
    <3>2. (k + 1) * Period = k * Period + Period /\ k * Period \in Int /\ Period \in Int
      BY <3>1, Times
    <3>3. QED
      BY ONLY <2>1, <2>4, <3>2, x \in Int
  <2>6. x - phase[c] \in Int /\ k + 1 \in Int
    BY <2>1
  <2>7. QED
    BY <2>5, <2>6, Modulus, Times
<1>2. QED
  BY <1>1, NoSlotAtChunk DEF Slot

LEMMA RegularInit ==
  ASSUME Init, Regular
  PROVE  RegularParts
<1>1. /\ pc = "idle" /\ state = "find_pss" /\ first = 0 /\ size = 0 /\ counting_samples = 0
      /\ in_synch = FALSE /\ acquired = 0 /\ received = 0
      /\ sent = [from |-> 0, len |-> 0, metadata |-> 0]
  BY DEF Init
<1>2. 0 % Chunk = 0
  BY Times
<1>3. StageInv /\ PositionInv /\ CountInv /\ FoundInv /\ WaitInv
  BY <1>1, <1>2 DEF StageInv, PositionInv, CountInv, FoundInv, WaitInv, Due, InCall
<1>4. LockedInv
  <2>1. \A c \in Cells : c.nid2 \in 0 .. 2
    BY InitType, Numbers
  <2>2. \A c \in Cells : c.nid2 \in pss_indices
    BY <2>1 DEF Init, Regular
  <2>3. QED
    BY <1>1, <2>2 DEF LockedInv
<1>5. QED
  BY <1>3, <1>4 DEF RegularParts

LEMMA RegularProcess ==
  ASSUME TypeInv, Regular, RegularParts, NEW n \in {Chunk} \cup LastSizes, process(n)
  PROVE  RegularParts'
<1>1. /\ pc = "idle" /\ pc' = "wait" /\ running /\ first' = received /\ size' = n
      /\ received' = received + n /\ running' = (n = Chunk)
      /\ UNCHANGED <<state, counting_samples, acquired, sent, phase, nid1, nid2, pss_indices>>
  BY DEF process, air, cell, flows
<1>2. n \in 0 .. Chunk
  BY SyncerAssumption, Times
<1>3. ~Due /\ Due' /\ InCall'
  BY <1>1 DEF Due, InCall
<1>4. received % Chunk = 0 /\ counting_samples = received
  BY <1>1, <1>3 DEF RegularParts, PositionInv, CountInv
<1>5. StageInv'
  BY <1>1 DEF RegularParts, StageInv
<1>6. PositionInv'
  <2>1. received \in Int
    BY Numbers
  <2>2. (received + Chunk) % Chunk = 0
    <3>1. PICK k \in Int : received = k * Chunk
      BY <1>4, <2>1, Modulus, Times
    <3>2. received + Chunk = (k + 1) * Chunk
      BY <3>1, Times
    <3>3. received + Chunk \in Int /\ k + 1 \in Int
      BY <2>1, Times
    <3>4. QED
      BY <3>2, <3>3, Modulus, Times
  <2>3. QED
    BY <1>1, <1>4, <2>1, <2>2 DEF PositionInv
<1>7. CountInv'
  BY <1>1, <1>3, <1>4 DEF RegularParts, CountInv
<1>8. FoundInv'
  BY <1>1 DEF FoundInv
<1>9. LockedInv'
  <2>1. in_synch' => in_synch
    BY DEF process
  <2>2. QED
    BY <1>1, <2>1 DEF RegularParts, LockedInv, Cells
<1>10. WaitInv'
  <2>1. waiting_for_pss \in Nat /\ received \in Nat /\ Period \in Nat
    BY Numbers, Times
  <2>2. state = "wait" => waiting_for_pss < Period /\ in_synch /\ Slot(received - waiting_for_pss)
    BY <1>1 DEF RegularParts, WaitInv
  <2>3. CASE in_synch /\ waiting_for_pss > Period
    <3>1. in_synch' = FALSE
      BY <2>3 DEF process
    <3>2. state' # "wait" /\ state' # "relay"
      BY <1>1, <2>1, <2>2, <2>3 DEF RegularParts, StageInv
    <3>3. QED
      BY <1>1, <3>1, <3>2 DEF WaitInv
  <2>4. CASE ~(in_synch /\ waiting_for_pss > Period)
    <3>1. /\ in_synch' = in_synch
          /\ waiting_for_pss' = IF in_synch THEN waiting_for_pss + n ELSE waiting_for_pss
      BY <2>4 DEF process
    <3>2. state = "wait" => received' - waiting_for_pss' = received - waiting_for_pss
      BY <1>1, <1>2, <2>1, <2>2, <3>1
    <3>3. state = "wait" => \A c \in Cells' : ((received' - waiting_for_pss') - phase'[c]) % Period = 0
      BY <1>1, <2>2, <3>2, SlotKept
    <3>4. state = "wait" => waiting_for_pss' - size' < Period
      BY <1>1, <1>2, <2>1, <2>2, <3>1
    <3>5. state \in {"wait", "find_pss"}
      BY <1>1 DEF RegularParts, StageInv
    <3>6. state = "find_pss" => ~in_synch
      BY <1>1, <2>4, <3>5 DEF RegularParts, WaitInv
    <3>7. QED
      BY <1>1, <2>2, <3>1, <3>3, <3>4, <3>5, <3>6 DEF WaitInv, Slot
  <2>5. QED
    BY <2>3, <2>4
<1>11. QED
  BY <1>5, <1>6, <1>7, <1>8, <1>9, <1>10 DEF RegularParts

LEMMA RegularSkip ==
  ASSUME RegularParts, Skip
  PROVE  RegularParts'
<1>1. UNCHANGED <<air, state, queue, counting_samples, tracking, cell, ssb, mapper_cell, flows, history>>
  BY DEF Skip
<1>2. \/ pc = "wait" /\ pc' = "find_pss" /\ state = "find_pss"
      \/ pc = "find_pss" /\ pc' = "fine_sync" /\ state \in {"wait", "find_pss"} /\ state # pc
      \/ pc = "fine_sync" /\ pc' = "find_sss" /\ state \in {"wait", "find_pss"}
      \/ pc = "find_sss" /\ pc' = "relay" /\ state \in {"wait", "find_pss"}
      \/ pc = "relay" /\ pc' = "idle" /\ state \in {"wait", "find_pss"}
  BY DEF Skip, Stages, following, RegularParts, StageInv
<1>3. Due' <=> Due
  BY <1>1, <1>2 DEF Due
<1>4. Due' => pc = "wait"
  BY <1>1, <1>2 DEF Due
<1>5. InCall' => InCall
  BY <1>2 DEF InCall
<1>6. StageInv'
  BY <1>1, <1>2 DEF RegularParts, StageInv
<1>7. PositionInv' /\ CountInv'
  BY <1>1, <1>2, <1>3, <1>4, <1>5 DEF RegularParts, PositionInv, CountInv, queue, history, InCall
<1>8. FoundInv'
  BY <1>1, <1>2, <1>3, <1>4 DEF FoundInv
<1>9. LockedInv'
  BY <1>1, <1>2 DEF RegularParts, LockedInv, flows, cell, ssb, air, tracking, Cells, cell_id, Id
<1>10. WaitInv'
  BY <1>1, <1>2 DEF RegularParts, WaitInv, tracking, history, queue, air, Slot, Cells
<1>11. QED
  BY <1>6, <1>7, <1>8, <1>9, <1>10 DEF RegularParts

LEMMA RegularWait ==
  ASSUME TypeInv, Regular, RegularParts, Wait
  PROVE  RegularParts'
<1>1. /\ pc = "wait" /\ state = "wait" /\ pc' = "find_pss"
      /\ UNCHANGED <<air, first, tracking, cell, ssb, mapper_cell, flows>>
  BY DEF Wait, At, following
<1>2. Due /\ InCall /\ InCall'
  BY <1>1 DEF Due, InCall
<1>3. /\ first + size = received /\ counting_samples = first /\ first % Chunk = 0
      /\ running => size = Chunk /\ received % Chunk = 0
  BY <1>2 DEF RegularParts, PositionInv, CountInv
<1>4. in_synch /\ Slot(received - waiting_for_pss) /\ waiting_for_pss - size < Period
  BY <1>1 DEF RegularParts, WaitInv
<1>5. size \in Nat /\ received \in Nat /\ waiting_for_pss \in Nat /\ first \in Int /\ Period \in Nat
      /\ size <= Chunk /\ Chunk < Period /\ Chunk \in Nat
  BY <1>2, Numbers, Times
<1>6. LockedInv'
  <2>1. state' \in {"wait", "find_pss"}
    BY <1>1 DEF Wait
  <2>2. QED
    BY <1>1, <2>1 DEF RegularParts, LockedInv, flows, cell, air, tracking, Cells
<1>7. FoundInv'
  BY <1>1 DEF FoundInv
<1>8. CASE PssIsDue
  <2>1. state' = "find_pss" /\ UNCHANGED <<size, counting_samples, history>>
    BY <1>8 DEF Wait
  <2>2. waiting_for_pss > Period
    BY <1>8 DEF PssIsDue
  <2>3. StageInv' /\ PositionInv' /\ CountInv'
    BY <1>1, <1>2, <1>3, <2>1 DEF StageInv, PositionInv, CountInv, RegularParts, history, Due
  <2>4. \A c \in Cells' : ((received' - waiting_for_pss') - phase'[c]) % Period = 0
    <3>1. received' - waiting_for_pss' = received - waiting_for_pss
      BY <1>1, <2>1 DEF history, tracking
    <3>2. QED
      BY <1>1, <1>4, <3>1, SlotKept DEF air
  <2>5. WaitInv'
    BY <1>1, <1>4, <2>1, <2>2, <2>4 DEF WaitInv, tracking, Slot
  <2>6. QED
    BY <1>6, <1>7, <2>3, <2>5 DEF RegularParts
<1>9. CASE ~PssIsDue
  <2>1. Send(first, size) /\ size' = 0 /\ state' = "wait"
    BY <1>1, <1>9 DEF Wait
  <2>2. /\ sent' = [from |-> first, len |-> size, metadata |-> counting_samples]
        /\ counting_samples' = counting_samples + size /\ UNCHANGED <<received, running>>
    BY <2>1 DEF Send
  <2>3. ~Due'
    BY <1>1, <2>1 DEF Due
  <2>4. counting_samples' = received'
    BY <1>3, <2>2
  <2>5. StageInv' /\ PositionInv'
    BY <1>1, <1>3, <2>1, <2>2, <2>3 DEF StageInv, PositionInv
  <2>6. CountInv'
    BY <1>3, <2>2, <2>3, <2>4 DEF CountInv
  <2>7. waiting_for_pss <= Period
    <3>1. waiting_for_pss > Period => waiting_for_pss - size \in 0 .. Period - 1
      BY <1>4, <1>5
    <3>2. ~(waiting_for_pss > Period)
      BY <1>9, <3>1 DEF PssIsDue
    <3>3. QED
      BY ONLY <1>5, <3>2
  <2>8. running => waiting_for_pss # Period
    BY <1>3, <1>4, <1>5, NoSlotAPeriodAgo
  <2>9. running => waiting_for_pss < Period
    BY ONLY <1>5, <2>7, <2>8
  <2>10. \A c \in Cells' : ((received' - waiting_for_pss') - phase'[c]) % Period = 0
    <3>1. received' - waiting_for_pss' = received - waiting_for_pss
      BY <1>1, <2>2 DEF tracking
    <3>2. QED
      BY <1>1, <1>4, <3>1, SlotKept DEF air
  <2>11. WaitInv'
    BY <1>1, <1>4, <2>1, <2>2, <2>9, <2>10 DEF WaitInv, tracking, Slot
  <2>12. QED
    BY <1>6, <1>7, <2>5, <2>6, <2>11 DEF RegularParts
<1>10. QED
  BY <1>8, <1>9

LEMMA RegularFound ==
  ASSUME TypeInv, Regular, RegularParts, PssFound
  PROVE  RegularParts'
<1>1. /\ pc = "find_pss" /\ state = "find_pss" /\ pc' = "fine_sync" /\ state' = "fine_sync"
      /\ UNCHANGED <<air, queue, counting_samples, tracking, pss_indices, nid1, sss, mapper_cell,
                     flows, history>>
  BY DEF PssFound, At, following
<1>2. Due /\ Due' /\ InCall /\ InCall'
  BY <1>1 DEF Due, InCall
<1>3. StageInv' /\ PositionInv' /\ CountInv'
  BY <1>1, <1>2 DEF StageInv, PositionInv, CountInv, RegularParts, history, queue
<1>4. PICK cp \in Detectable : block' = cp[1] /\ offset' = cp[2] - Lead
  BY DEF PssFound
<1>5. cp[1] \in Cells /\ cp[2] \in Searched /\ (first + cp[2] - Lead - phase[cp[1]]) % Period = 0
  BY DEF Detectable, HoldsBlock
<1>6. cp[2] \in 0 .. size - 1
  BY <1>5, WindowInQueue
<1>7. PICK u : Cells = {u} /\ phase[u] \in 0 .. Period - 1 /\ Clear(phase[u])
  BY OneCell
<1>8. first \in Int /\ size \in Nat /\ size <= Chunk /\ Lead \in Nat /\ phase[u] \in Int
      /\ cp[1] = u /\ offset' \in Int /\ first % Chunk = 0 /\ Chunk \in Nat
  BY <1>2, <1>4, <1>5, <1>6, <1>7, Numbers, Times DEF RegularParts, PositionInv
<1>9. (first + offset' - phase[u]) % Period = 0
  <2>1. first + offset' - phase[u] = first + cp[2] - Lead - phase[u]
    BY ONLY <1>4, <1>6, <1>8
  <2>2. QED
    BY <1>5, <1>8, <2>1
<1>10. -Lead <= offset' /\ offset' <= Chunk /\ offset' < size
  BY ONLY <1>4, <1>6, <1>8
<1>11. offset' \in 1 .. Chunk - BlockEnd - 1
  BY ONLY <1>7, <1>8, <1>9, <1>10, SlotOffset
<1>12. FoundInv'
  <2>1. first' = first /\ size' = size /\ phase' = phase
    BY <1>1 DEF queue, air
  <2>2. ((first + offset') - phase[u]) % Period = 0
    <3>1. (first + offset') - phase[u] = first + offset' - phase[u]
      BY ONLY <1>8
    <3>2. QED
      BY <1>9, <3>1
  <2>3. Slot(first + offset')
    BY <1>7, <2>2 DEF Slot
  <2>4. \A d \in Cells' : ((first' + offset') - phase'[d]) % Period = 0
    BY <2>1, <2>3, SlotKept
  <2>5. (offset \in 1 .. Chunk - BlockEnd - 1 /\ offset < size)'
    BY <1>10, <1>11, <2>1 DEF BlockEnd
  <2>6. QED
    BY <2>4, <2>5 DEF FoundInv, Slot
<1>13. LockedInv'
  BY <1>1 DEF RegularParts, LockedInv, flows, air, tracking, Cells
<1>14. WaitInv'
  BY <1>1 DEF RegularParts, WaitInv, tracking
<1>15. QED
  BY <1>3, <1>12, <1>13, <1>14 DEF RegularParts

LEMMA RegularAlarm ==
  ASSUME TypeInv, RegularParts, FalseAlarm
  PROVE  RegularParts'
<1>1. /\ pc = "find_pss" /\ state = "find_pss" /\ pc' = "fine_sync" /\ state' = "fine_sync"
      /\ block' = Noise
      /\ UNCHANGED <<air, queue, counting_samples, tracking, pss_indices, nid1, sss, mapper_cell,
                     flows, history>>
  BY DEF FalseAlarm, At, following
<1>2. Due /\ Due' /\ InCall /\ InCall'
  BY <1>1 DEF Due, InCall
<1>3. StageInv' /\ PositionInv' /\ CountInv' /\ FoundInv'
  BY <1>1, <1>2 DEF StageInv, PositionInv, CountInv, FoundInv, RegularParts, history, queue
<1>4. LockedInv'
  BY <1>1 DEF RegularParts, LockedInv, flows, air, tracking, Cells
<1>5. WaitInv'
  BY <1>1 DEF RegularParts, WaitInv, tracking
<1>6. QED
  BY <1>3, <1>4, <1>5 DEF RegularParts

\* A search without a result: the chunk is counted all the same.
LEMMA RegularNotFound ==
  ASSUME TypeInv, RegularParts, PssNotFound \/ TooShort
  PROVE  RegularParts'
<1>1. /\ pc = "find_pss" /\ state = "find_pss" /\ pc' = "fine_sync"
      /\ UNCHANGED <<air, state, queue, tracking, cell, ssb, mapper_cell, flows, history>>
  BY DEF PssNotFound, TooShort, At, following
<1>2. Due /\ ~Due' /\ InCall /\ InCall'
  BY <1>1 DEF Due, InCall
<1>3. counting_samples = first /\ first + size = received /\ (running => size = Chunk)
  BY <1>2 DEF RegularParts, PositionInv, CountInv
<1>4. running => counting_samples' = received
  <2>1. CASE PssNotFound
    BY <1>3, <2>1 DEF PssNotFound
  <2>2. CASE TooShort
    <3>1. ~(Chunk <= MinSize)
      BY Times
    <3>2. QED
      BY <1>3, <2>2, <3>1 DEF TooShort
  <2>3. QED
    BY <2>1, <2>2
<1>5. StageInv' /\ PositionInv' /\ CountInv' /\ FoundInv'
  BY <1>1, <1>2, <1>4 DEF StageInv, PositionInv, CountInv, FoundInv, RegularParts, history, queue, Due
<1>6. LockedInv'
  BY <1>1 DEF RegularParts, LockedInv, flows, air, tracking, cell, Cells
<1>7. WaitInv'
  BY <1>1 DEF RegularParts, WaitInv, tracking
<1>8. QED
  BY <1>5, <1>6, <1>7 DEF RegularParts

LEMMA RegularFine ==
  ASSUME TypeInv, RegularParts, FineSync
  PROVE  RegularParts'
<1>1. /\ pc = "fine_sync" /\ state = "fine_sync" /\ pc' = "find_sss" /\ state' = "find_sss"
      /\ UNCHANGED <<air, queue, counting_samples, tracking, cell, ssb, mapper_cell, flows, history>>
  BY DEF FineSync, At, following
<1>2. Due /\ Due' /\ InCall /\ InCall'
  BY <1>1 DEF Due, InCall
<1>3. StageInv' /\ PositionInv' /\ CountInv'
  BY <1>1, <1>2 DEF StageInv, PositionInv, CountInv, RegularParts, history, queue
<1>4. FoundInv'
  BY <1>1, <1>2 DEF RegularParts, FoundInv, Slot, air, ssb, queue, Cells
<1>5. LockedInv'
  BY <1>1 DEF RegularParts, LockedInv, flows, air, tracking, cell, Cells
<1>6. WaitInv'
  BY <1>1 DEF RegularParts, WaitInv, tracking
<1>7. QED
  BY <1>3, <1>4, <1>5, <1>6 DEF RegularParts

\* A decoding that fails: the chunk is counted, and a group may have been stored.
LEMMA RegularLost ==
  ASSUME TypeInv, RegularParts, SssNotFound \/ MibNotFound
  PROVE  RegularParts'
<1>1. /\ pc = "find_sss" /\ state = "find_sss" /\ pc' = "relay" /\ state' = "find_pss"
      /\ counting_samples' = counting_samples + size
      /\ UNCHANGED <<air, queue, tracking, pss_indices, nid2, ssb, mapper_cell, flows, history>>
  BY DEF SssNotFound, MibNotFound, on_sync_lost, At, following, cell
<1>2. in_synch => nid1' = nid1
  BY DEF SssNotFound, MibNotFound, SearchSss
<1>3. Due /\ ~Due' /\ InCall /\ ~InCall'
  BY <1>1 DEF Due, InCall
<1>4. counting_samples' = received
  BY <1>1, <1>3 DEF RegularParts, PositionInv, CountInv
<1>5. StageInv' /\ PositionInv' /\ CountInv' /\ FoundInv'
  BY <1>1, <1>3, <1>4 DEF StageInv, PositionInv, CountInv, FoundInv, RegularParts, history, queue
<1>6. LockedInv'
  BY <1>1, <1>2 DEF RegularParts, LockedInv, flows, air, tracking, Cells
<1>7. WaitInv'
  BY <1>1 DEF RegularParts, WaitInv, tracking
<1>8. QED
  BY <1>5, <1>6, <1>7 DEF RegularParts

LEMMA RegularMib ==
  ASSUME NumBwps > 0, TypeInv, RegularParts, MibFound
  PROVE  RegularParts'
<1>1. /\ pc = "find_sss" /\ state = "find_sss" /\ pc' = "acquire" /\ fine_time_sync
      /\ 3 * nid1' + nid2 = Id(block) /\ block # Noise /\ to_acquire' = NumBwps
      /\ UNCHANGED <<air, state, tracking, pss_indices, nid2, ssb>>
  BY DEF MibFound, Decodable, Id
<1>2. Due /\ Due' /\ InCall /\ ~InCall'
  BY <1>1 DEF Due, InCall
<1>3. Slot(first + offset) /\ offset \in 1 .. Chunk - BlockEnd - 1 /\ first + size = received
      /\ counting_samples = first
  BY <1>1, <1>2 DEF RegularParts, FoundInv, PositionInv, CountInv
<1>4. /\ first' = first + offset /\ size' = size - offset
      /\ sent' = [from |-> first, len |-> offset, metadata |-> counting_samples]
      /\ counting_samples' = counting_samples + offset
      /\ UNCHANGED <<received, running>>
      /\ acquired' = 0
  <2>1. offset > 0
    BY <1>3, Times
  <2>2. QED
    BY <1>1, <2>1 DEF fine_time_sync, Send
<1>5. first \in Int /\ size \in Nat /\ offset \in Int /\ NumBwps \in Nat
  BY Numbers, Times
<1>6. first' + size' = received' /\ counting_samples' = first' /\ acquired' + to_acquire' = NumBwps
  BY <1>1, <1>3, <1>4, <1>5
<1>7. StageInv' /\ PositionInv' /\ CountInv' /\ FoundInv'
  BY <1>1, <1>2, <1>3, <1>4, <1>6 DEF StageInv, PositionInv, CountInv, FoundInv, RegularParts
<1>8. LockedInv'
  <2>1. \A c \in Cells' : (first' - phase'[c]) % Period = 0
    BY <1>1, <1>3, <1>4, SlotKept DEF air
  <2>2. block' \in Cells' /\ cell_id' = Id(block')
    BY <1>1, NoiseIsNoCell DEF ssb, air, Cells, cell_id
  <2>3. in_synch => nid1' = nid1
    BY DEF MibFound, SearchSss
  <2>4. QED
    BY <1>1, <1>6, <2>1, <2>2, <2>3 DEF RegularParts, LockedInv, Slot, tracking, air, Cells
<1>9. WaitInv'
  BY <1>1 DEF RegularParts, WaitInv, tracking
<1>10. QED
  BY <1>7, <1>8, <1>9 DEF RegularParts

LEMMA RegularAcquire ==
  ASSUME TypeInv, RegularParts, AcquireFlow
  PROVE  RegularParts'
<1>1. /\ pc = "acquire" /\ pc' = pc /\ acquired' = acquired + 1 /\ to_acquire' = to_acquire - 1
      /\ UNCHANGED <<air, state, queue, counting_samples, tracking, cell, ssb, mapper_cell,
                     received, running, sent>>
  BY DEF AcquireFlow
<1>2. Due /\ Due' /\ ~InCall /\ ~InCall'
  BY <1>1 DEF Due, InCall
<1>3. StageInv' /\ PositionInv' /\ CountInv' /\ FoundInv'
  BY <1>1, <1>2 DEF StageInv, PositionInv, CountInv, FoundInv, RegularParts, queue
<1>4. acquired' + to_acquire' = acquired + to_acquire
  BY <1>1, Numbers
<1>5. LockedInv'
  BY <1>1, <1>4 DEF RegularParts, StageInv, LockedInv, Slot, air, tracking, cell, queue, ssb, Cells,
                    cell_id
<1>6. WaitInv'
  BY <1>1 DEF RegularParts, StageInv, WaitInv, tracking
<1>7. QED
  BY <1>3, <1>5, <1>6 DEF RegularParts

LEMMA RegularLock ==
  ASSUME TypeInv, Regular, RegularParts, LockCell
  PROVE  RegularParts'
<1>1. /\ pc = "acquire" /\ to_acquire = 0 /\ in_synch' = TRUE /\ pss_indices' = {nid2}
      /\ state' = "relay" /\ pc' = "relay"
      /\ UNCHANGED <<air, queue, counting_samples, waiting_for_pss, nid1, nid2, sss, ssb,
                     mapper_cell, flows, history>>
  BY DEF LockCell
<1>2. Due /\ Due' /\ ~InCall /\ ~InCall'
  BY <1>1 DEF Due, InCall
<1>3. StageInv' /\ PositionInv' /\ CountInv' /\ FoundInv'
  BY <1>1, <1>2 DEF StageInv, PositionInv, CountInv, FoundInv, RegularParts, queue, history
<1>4. PICK c : Cells = {c} /\ c.nid1 \in 0 .. 335 /\ c.nid2 \in 0 .. 2
  BY OneCell
<1>5. block = c /\ cell_id = Id(c) /\ acquired = NumBwps /\ Slot(first)
  <2>1. acquired \in Nat
    BY Numbers
  <2>2. QED
    BY <1>1, <1>4, <2>1 DEF RegularParts, LockedInv
<1>6. nid1 = c.nid1 /\ nid2 = c.nid2
  <2>1. nid1 \in Int /\ nid2 \in 0 .. 2 /\ c.nid1 \in Int
    BY <1>4, Numbers
  <2>2. 3 * nid1 + nid2 = 3 * c.nid1 + c.nid2
    BY <1>5 DEF cell_id, Id
  <2>3. QED
    BY ONLY <1>4, <2>1, <2>2, IdsApart
<1>7. LockedInv'
  BY <1>1, <1>4, <1>5, <1>6 DEF LockedInv, Slot, air, queue, ssb, flows, Cells, cell_id
<1>8. WaitInv'
  BY <1>1 DEF WaitInv
<1>9. QED
  BY <1>3, <1>7, <1>8 DEF RegularParts

LEMMA RegularRelay ==
  ASSUME TypeInv, RegularParts, Relay
  PROVE  RegularParts'
<1>1. /\ pc = "relay" /\ state = "relay" /\ pc' = "idle" /\ state' = "wait"
      /\ waiting_for_pss' = size /\ size' = 0
      /\ sent' = [from |-> first, len |-> size, metadata |-> counting_samples]
      /\ counting_samples' = counting_samples + size
      /\ UNCHANGED <<received, running, air, first, in_synch, cell, ssb, mapper_cell, flows>>
  BY DEF Relay, At, following, Send
<1>2. Due /\ ~Due' /\ ~InCall /\ ~InCall'
  BY <1>1 DEF Due, InCall
<1>3. first + size = received /\ counting_samples = first /\ Slot(first) /\ in_synch
  BY <1>1, <1>2 DEF RegularParts, PositionInv, CountInv, LockedInv, WaitInv
<1>4. StageInv' /\ PositionInv' /\ CountInv' /\ FoundInv'
  BY <1>1, <1>2, <1>3 DEF StageInv, PositionInv, CountInv, FoundInv, RegularParts
<1>5. LockedInv'
  BY <1>1 DEF RegularParts, LockedInv, air, cell, flows, Cells
<1>6. \A c \in Cells' : ((received' - waiting_for_pss') - phase'[c]) % Period = 0
  <2>1. received' - waiting_for_pss' = first
    BY <1>1, <1>3, Numbers
  <2>2. QED
    BY <1>1, <1>3, <2>1, SlotKept DEF air
<1>7. waiting_for_pss' < Period
  BY <1>1, Numbers, Times
<1>8. WaitInv'
  BY <1>1, <1>3, <1>6, <1>7 DEF WaitInv, Slot
<1>9. QED
  BY <1>4, <1>5, <1>8 DEF RegularParts

\* A step that changes nothing the regular invariant speaks of.
LEMMA RegularKept ==
  ASSUME RegularParts,
         UNCHANGED <<air, pc, state, queue, counting_samples, tracking, cell, ssb, to_acquire,
                     acquired, received, running, sent>>
  PROVE  RegularParts'
<1>1. (Due' <=> Due) /\ (InCall' <=> InCall)
  BY DEF Due, InCall
<1>2. StageInv' /\ PositionInv' /\ CountInv'
  BY <1>1 DEF StageInv, PositionInv, CountInv, RegularParts, queue
<1>3. FoundInv'
  BY <1>1 DEF RegularParts, FoundInv, Slot, air, ssb, queue, Cells
<1>4. LockedInv'
  BY DEF RegularParts, LockedInv, Slot, air, cell, ssb, queue, tracking, Cells, cell_id
<1>5. WaitInv'
  BY DEF RegularParts, WaitInv, Slot, air, queue, tracking, Cells
<1>6. QED
  BY <1>2, <1>3, <1>4, <1>5 DEF RegularParts

LEMMA RegularNext ==
  ASSUME NumBwps > 0, TypeInv, RegularInv, [Next]_vars
  PROVE  RegularInv'
<1> SUFFICES ASSUME Regular'
             PROVE  RegularParts'
  BY DEF RegularInv
<1>1. Regular /\ RegularParts /\ UNCHANGED air /\ ~ \E n \in Losses : LoseSamples(n)
  BY RegularStays DEF RegularInv
<1>2. CASE UNCHANGED vars
  BY <1>1, <1>2, RegularKept DEF vars, flows, history
<1>3. CASE Receive
  BY <1>1, <1>3, RegularProcess DEF Receive
<1>4. CASE Skip \/ Wait \/ Relay
  BY <1>1, <1>4, RegularSkip, RegularWait, RegularRelay
<1>5. CASE Search
  BY <1>1, <1>5, RegularFound, RegularAlarm, RegularNotFound, RegularFine DEF Search
<1>6. CASE SssNotFound \/ MibNotFound
  BY <1>1, <1>6, RegularLost
<1>7. CASE DecodeReturnsEarly
  BY <1>1, <1>7 DEF DecodeReturnsEarly, Regular
<1>8. CASE MibFound
  BY <1>1, <1>8, RegularMib
<1>9. CASE CutBeyondQueue
  <2>1. pc = "find_sss" /\ state = "find_sss" /\ offset > size /\ block # Noise
    BY <1>9 DEF CutBeyondQueue, Decodable
  <2>2. offset < size
    BY <1>1, <2>1 DEF RegularParts, FoundInv, Due
  <2>3. QED
    BY <2>1, <2>2, Numbers
<1>10. CASE AcquireFlow \/ LockCell
  BY <1>1, <1>10, RegularAcquire, RegularLock
<1>11. CASE FlowAvailable
  BY <1>1, <1>11, RegularKept DEF FlowAvailable, history
<1>12. QED
  BY <1>1, <1>2, <1>3, <1>4, <1>5, <1>6, <1>7, <1>8, <1>9, <1>10, <1>11 DEF Next, Decode

LEMMA RegularAlways ==
  ASSUME NumBwps > 0
  PROVE  Spec => [](TypeInv /\ RegularInv)
<1>1. Init => TypeInv /\ RegularInv
  BY InitType, RegularInit DEF RegularInv
<1>2. TypeInv /\ RegularInv /\ [Next]_vars => (TypeInv /\ RegularInv)'
  BY NextType, RegularNext
<1>3. QED
  BY <1>1, <1>2, PTL DEF Spec

\* What is relayed after a synchronization starts at the slot of a block of the cell, and
\* the physical-layer state names that cell: for every chunk size, phase and number of
\* chunks in which a clear block can be found.
THEOREM RelayAligned ==
  ASSUME NumBwps > 0
  PROVE  Spec => []RelaysAligned
<1>1. TypeInv /\ RegularInv => RelaysAligned
  <2> SUFFICES ASSUME TypeInv, RegularInv, pc = "relay", state = "relay", Regular
               PROVE  \E c \in Cells : (first - phase[c]) % Period = 0 /\ cell_id = 3 * c.nid1 + c.nid2
    BY DEF RelaysAligned
  <2>1. PICK c : Cells = {c}
    BY OneCell
  <2>2. QED
    BY <2>1 DEF RegularInv, RegularParts, LockedInv, Slot, Id
<1>2. QED
  BY <1>1, RegularAlways, PTL

\* The metadata of what is sent is its position in the stream: every way through process
\* counts the chunk once, what is cut off in fine_time_sync included.
THEOREM MetadataCounts ==
  ASSUME NumBwps > 0
  PROVE  Spec => []MetadataIsPosition
<1>1. RegularInv => MetadataIsPosition
  BY DEF RegularInv, RegularParts, CountInv, MetadataIsPosition
<1>2. QED
  BY <1>1, RegularAlways, PTL

\* Between two blocks the syncer holds one flow for each bandwidth part, those of the
\* synchronization before released (syncer.cc:427, 511).
THEOREM FlowsMatchBwps ==
  ASSUME NumBwps > 0
  PROVE  Spec => []OneFlowPerBwp
<1>1. RegularInv => OneFlowPerBwp
  BY DEF RegularInv, RegularParts, LockedInv, OneFlowPerBwp
<1>2. QED
  BY <1>1, RegularAlways, PTL

\* It waits for a block only when it is in synch: the time since the last one never is
\* exactly a period at the end of a chunk, after which no chunk would be searched
\* (syncer.cc:152).
THEOREM WaitsInSynch ==
  ASSUME NumBwps > 0
  PROVE  Spec => []NeverIdlesUnsynced
<1>1. RegularInv => NeverIdlesUnsynced
  BY DEF RegularInv, RegularParts, WaitInv, NeverIdlesUnsynced
<1>2. QED
  BY <1>1, RegularAlways, PTL

-----------------------------------------------------------------------------
(* When no block is missed.                                                *)

\* Two slots of the cell that are less than a period apart are the same.
LEMMA SameSlot ==
  ASSUME TypeInv, Regular, NEW x \in Int, NEW y \in Int, Slot(x), Slot(y),
         x - y < Period, y - x < Period
  PROVE  x = y
<1>1. PICK u : Cells = {u} /\ phase[u] \in 0 .. Period - 1
  BY OneCell
<1>2. phase[u] \in Int /\ x - phase[u] \in Int /\ y - phase[u] \in Int
  BY <1>1, Times
<1>3. (x - phase[u]) % Period = 0 /\ (y - phase[u]) % Period = 0
  BY <1>1 DEF Slot
<1>4. PICK k \in Int : x - phase[u] = k * Period
  BY <1>2, <1>3, Modulus, Times
<1>5. PICK l \in Int : y - phase[u] = l * Period
  BY <1>2, <1>3, Modulus, Times
<1>6. x - y = (k - l) * Period
  <2>1. \A a, b, p \in Int : (a - b) * p = a * p - b * p /\ a * p \in Int
    OBVIOUS
  <2>2. (k - l) * Period = k * Period - l * Period /\ k * Period \in Int /\ l * Period \in Int
    BY <2>1, Times
  <2>3. QED
    BY ONLY <1>2, <1>4, <1>5, <2>2, x \in Int, y \in Int
<1>7. k - l = 0
  <2> DEFINE j == k - l
  <2>1. j \in Int /\ Period \in Nat \ {0}
    BY Times
  <2> HIDE DEF j
  <2>2. x - y = j * Period
    BY <1>6 DEF j
  <2>3. /\ j * Period \in Int /\ (j <= -1 => j * Period <= -Period)
        /\ (j = 1 => j * Period = Period) /\ (j >= 2 => j * Period >= 2 * Period)
    BY <2>1, Multiple
  <2>4. j = 0
    BY ONLY <2>1, <2>2, <2>3, x \in Int, y \in Int, x - y < Period, y - x < Period
  <2>5. QED
    BY <2>4 DEF j
<1>8. QED
  BY ONLY <1>6, <1>7, Times, x \in Int, y \in Int

\* A block whose PSS is in the window is detectable.
LEMMA InWindow ==
  ASSUME TypeInv, Regular, RegularParts, NEW e \in Int, Slot(first + e),
         SearchStart <= e, e + BlockEnd < SearchEnd
  PROVE  Detectable # {}
<1>1. PICK u : Cells = {u} /\ phase[u] \in 0 .. Period - 1
  BY OneCell
<1>2. first \in Int /\ SearchStart \in Int /\ SearchEnd \in Int /\ Lead \in Nat /\ BlockEnd \in Nat
      /\ Lead <= BlockEnd /\ phase[u] \in Int
  BY <1>1, Numbers, WindowInQueue, Times, SyncerAssumption DEF BlockEnd
<1>3. ((first + e) - phase[u]) % Period = 0
  BY <1>1 DEF Slot
<1>4. PICK p \in Int : p = e + Lead
  BY <1>2
<1>5. p \in Searched
  BY ONLY <1>2, <1>4, e \in Int, SearchStart <= e, e + BlockEnd < SearchEnd DEF Searched
<1>6. HoldsBlock(u, p)
  <2>1. (first + e) - phase[u] = first + p - Lead - phase[u]
    BY ONLY <1>2, <1>4, e \in Int
  <2>2. QED
    BY <1>3, <2>1 DEF HoldsBlock
<1>7. u \in Cells /\ u.nid2 \in pss_indices
  BY <1>1 DEF RegularParts, LockedInv
<1>8. <<u, p>> \in Detectable
  BY <1>5, <1>6, <1>7 DEF Detectable
<1>9. QED
  BY <1>8

\* The window is around the block that is due, wide enough to hold all of it.
LEMMA Tracked ==
  ASSUME TypeInv, Regular, RegularParts, pc = "find_pss", state = "find_pss", in_synch, running
  PROVE  \E e \in Int : /\ e \in 0 .. Chunk /\ Slot(first + e)
                        /\ SearchStart <= e /\ e + BlockEnd < SearchEnd
<1>1. Due /\ InCall
  BY DEF Due, InCall
<1>2. first + size = received /\ size = Chunk /\ first % Chunk = 0
  BY <1>1 DEF RegularParts, PositionInv
<1>3. waiting_for_pss > Period /\ waiting_for_pss - size < Period /\ Slot(received - waiting_for_pss)
  BY DEF RegularParts, WaitInv
<1>4. first \in Int /\ received \in Int /\ waiting_for_pss \in Int /\ Chunk \in Nat /\ Period \in Nat
      /\ Window \in Nat /\ BlockEnd \in Nat /\ Lead \in Nat /\ BlockEnd <= Window /\ size \in Int
  BY Numbers, Times
<1>5. PICK e \in Int : e = Period - (waiting_for_pss - size)
  BY <1>4
<1>6. e \in 1 .. Chunk
  BY ONLY <1>2, <1>3, <1>4, <1>5
<1>7. first + e = (received - waiting_for_pss) + Period
  BY ONLY <1>2, <1>4, <1>5
<1>8. PICK u : Cells = {u} /\ phase[u] \in 0 .. Period - 1 /\ Clear(phase[u])
  BY OneCell
<1>9. phase[u] \in Int
  BY <1>8, Times
<1>10. (first + e - phase[u]) % Period = 0
  <2>1. ((received - waiting_for_pss) - phase[u]) % Period = 0
    BY <1>3, <1>8 DEF Slot
  <2>2. (received - waiting_for_pss) - phase[u] \in Int
    BY <1>4, <1>9
  <2>3. PICK k \in Int : (received - waiting_for_pss) - phase[u] = k * Period
    BY <2>1, <2>2, Modulus, Times
  <2>4. (k + 1) * Period = k * Period + Period /\ k * Period \in Int
    <3>1. \A a, b \in Int : (a + 1) * b = a * b + b /\ a * b \in Int
      OBVIOUS
    <3>2. QED
      BY <1>4, <3>1
  <2>5. first + e - phase[u] = (k + 1) * Period
    BY ONLY <1>4, <1>5, <1>7, <1>9, <2>3, <2>4
  <2>6. first + e - phase[u] \in Int /\ k + 1 \in Int
    BY <1>4, <1>9
  <2>7. QED
    BY <2>5, <2>6, Modulus, Times
<1>11. e \in 1 .. Chunk - BlockEnd - 1
  <2>1. -Lead <= e /\ e <= Chunk
    BY <1>4, <1>6
  <2>2. QED
    BY ONLY <1>2, <1>4, <1>8, <1>9, <1>10, <2>1, SlotOffset
<1>12. Slot(first + e)
  <2>1. (first + e) - phase[u] = first + e - phase[u]
    BY <1>4, <1>9
  <2>2. QED
    BY <1>8, <1>10, <2>1 DEF Slot
<1>13. SearchStart <= e /\ e - Window <= SearchStart
  <2>1. SearchStart = Max({0, e - Window})
    BY <1>5 DEF SearchStart
  <2>2. SearchStart = IF 0 >= e - Window THEN 0 ELSE e - Window
    <3>1. PICK z \in Int, w \in Int : z = 0 /\ w = e - Window
      BY <1>4
    <3>2. Max({z, w}) = IF z >= w THEN z ELSE w
      BY ONLY <3>1, z \in Int, w \in Int, MaxMin
    <3>3. QED
      BY <2>1, <3>1, <3>2
  <2>3. QED
    BY <1>4, <1>11, <2>2
<1>14. e + BlockEnd < SearchEnd
  <2> DEFINE w == SearchStart + 2 * Window + 1
  <2>1. SearchStart \in Int
    BY WindowInQueue
  <2>2. w \in Int /\ e + BlockEnd < w
    BY <1>4, <1>13, <2>1
  <2>3. e + BlockEnd < size
    BY <1>2, <1>4, <1>11
  <2>4. SearchEnd = Min({size, w})
    BY DEF SearchEnd
  <2> HIDE DEF w
  <2>5. Min({size, w}) = IF size <= w THEN size ELSE w
    BY <1>4, <2>2, MaxMin
  <2>6. QED
    BY <2>2, <2>3, <2>4, <2>5
<1>15. QED
  BY <1>6, <1>12, <1>13, <1>14

\* In synch, with samples still to come, the block that is due is found and is whole.
LEMMA TrackedFound ==
  ASSUME TypeInv, Regular, RegularParts, PssFound, in_synch, running
  PROVE  Whole'
<1>1. /\ pc = "find_pss" /\ state = "find_pss" /\ pc' = "fine_sync" /\ state' = "fine_sync"
      /\ reach' = SearchEnd /\ UNCHANGED <<air, queue>>
  BY DEF PssFound, At, following
<1>2. PICK e \in Int : e \in 0 .. Chunk /\ Slot(first + e) /\ e + BlockEnd < SearchEnd
  BY <1>1, Tracked
<1>3. Due' /\ block' \in Cells'
  BY <1>1 DEF Due, PssFound, Detectable, air, Cells
<1>4. RegularParts'
  BY RegularFound
<1>5. Slot(first + offset)' /\ (offset \in 1 .. Chunk - BlockEnd - 1)'
  <2>1. block' # Noise
    BY <1>1, <1>3, NoiseIsNoCell DEF air, Cells
  <2>2. (block # Noise)'
    BY <2>1 DEF Noise
  <2>3. QED
    BY <1>1, <1>3, <1>4, <2>2 DEF RegularParts, FoundInv
<1>6. offset' \in 1 .. Chunk - BlockEnd - 1
  BY <1>5 DEF BlockEnd
<1>7. Slot(first + offset')
  <2>1. first' = first /\ phase' = phase /\ Cells' = Cells
    BY <1>1 DEF queue, air, Cells
  <2>2. QED
    BY <1>5, <2>1 DEF Slot
<1>8. offset' = e
  <2>1. first \in Int /\ Chunk \in Int /\ Period \in Int /\ Chunk < Period /\ BlockEnd \in Nat
    BY Numbers, Times
  <2>2. PICK o \in Int : o = offset' /\ o \in 1 .. Chunk - BlockEnd - 1
    BY <1>6
  <2>3. e \in 0 .. Chunk
    BY <1>2
  <2>4. first + o \in Int /\ first + e \in Int
        /\ (first + o) - (first + e) < Period /\ (first + e) - (first + o) < Period
    <3>1. 0 <= e /\ e <= Chunk /\ 1 <= o /\ o <= Chunk
      BY ONLY <2>1, <2>2, <2>3, o \in Int, e \in Int
    <3>2. \A a, b, f, p \in Int : (f + a) - (f + b) = a - b /\ f + a \in Int
      OBVIOUS
    <3>3. /\ (first + o) - (first + e) = o - e /\ (first + e) - (first + o) = e - o
          /\ first + o \in Int /\ first + e \in Int
      BY ONLY <2>1, <3>2, o \in Int, e \in Int
    <3>4. o - e < Period /\ e - o < Period
      BY ONLY <2>1, <3>1, o \in Int, e \in Int
    <3>5. QED
      BY ONLY <3>3, <3>4
  <2>5. first + o = first + e
    BY <1>2, <1>7, <2>2, <2>4, SameSlot
  <2>6. QED
    <3>1. \A a, b, f \in Int : f + a = f + b => a = b
      OBVIOUS
    <3>2. o = e
      BY ONLY <2>1, <2>5, <3>1, e \in Int, o \in Int
    <3>3. QED
      BY <2>2, <3>2
<1>9. QED
  BY <1>1, <1>2, <1>3, <1>8 DEF Whole, BlockEnd

\* Nor is there a false alarm, or no result, while a block is due.
LEMMA TrackedDetectable ==
  ASSUME TypeInv, Regular, RegularParts, pc = "find_pss", state = "find_pss", in_synch, running
  PROVE  Detectable # {}
<1>1. PICK e \in Int : Slot(first + e) /\ SearchStart <= e /\ e + BlockEnd < SearchEnd
  BY Tracked
<1>2. QED
  BY <1>1, InWindow

\* A block that is whole is decoded, its group being one that fits.
LEMMA WholeDecodes ==
  ASSUME TypeInv, CellInv, Whole, SearchSss,
         nid1' = block.nid1
  PROVE  Decodable /\ ~Truncated
<1>1. block \in Cells /\ offset + BlockEnd < reach /\ nid2 = block.nid2
  BY DEF Whole, CellInv
<1>2. Lead \in Nat /\ SsbLength \in Nat /\ offset \in Int /\ reach \in Int
  BY Numbers, Times
<1>3. offset + Lead + SsbLength < reach
  BY <1>1, <1>2 DEF BlockEnd
<1>4. block # Noise
  BY <1>1, NoiseIsNoCell
<1>5. offset + Lead + SsbLength <= reach /\ ~(offset + Lead + SsbLength >= reach)
  BY <1>2, <1>3
<1>6. QED
  BY <1>1, <1>4, <1>5 DEF Decodable, Truncated

\* What a failed decoding says, when no block is missed.
LEMMA LostIsNotWhole ==
  ASSUME TypeInv, CellInv, Regular, RegularParts, ~lossy, SssNotFound \/ MibNotFound,
         in_synch \/ \A c \in Cells : c.nid1 < Nid1Width
  PROVE  ~Whole
<1> SUFFICES ASSUME Whole PROVE FALSE
  OBVIOUS
<1>1. block \in Cells /\ block # Noise
  BY NoiseIsNoCell DEF Whole
<1>2. ~Truncated
  <2>1. Lead \in Nat /\ SsbLength \in Nat /\ offset \in Int /\ reach \in Int
    BY Numbers, Times
  <2>2. QED
    BY <2>1 DEF Truncated, Whole, BlockEnd
<1>3. CASE SssNotFound
  BY <1>1, <1>2, <1>3 DEF SssNotFound
<1>4. CASE MibNotFound
  <2>1. SearchSss /\ ~Decodable
    BY <1>2, <1>4 DEF MibNotFound
  <2>2. nid1' = block.nid1
    <3>1. CASE in_synch
      BY <1>1, <2>1, <3>1 DEF SearchSss, RegularParts, LockedInv
    <3>2. CASE ~in_synch
      <4>1. nid1' = block.nid1 % Nid1Width
        BY <1>1, <2>1, <3>2 DEF SearchSss
      <4>2. block.nid1 \in 0 .. 335 /\ block.nid1 < Nid1Width /\ Nid1Width \in Nat \ {0}
        BY <1>1, <3>2, Numbers, Times
      <4>3. \A x, p \in Nat : x < p => x % p = x
        OBVIOUS
      <4>4. block.nid1 \in Nat /\ Nid1Width \in Nat
        BY <4>2
      <4>5. QED
        BY <4>1, <4>2, <4>3, <4>4
    <3>3. QED
      BY <3>1, <3>2
  <2>3. QED
    BY <2>1, <2>2, WholeDecodes
<1>5. QED
  BY <1>3, <1>4

LEMMA FedNext ==
  ASSUME NumBwps > 0, TypeInv, CellInv, Regular, RegularParts, ~lossy, FedInv, RegularParts',
         [Next]_vars, ~ \E n \in Losses : LoseSamples(n)
  PROVE  FedInv'
<1>1. CASE UNCHANGED vars
  BY <1>1 DEF vars, air, queue, tracking, ssb, flows, history, FedInv, Due, Whole, Cells
<1>2. CASE Receive
  <2>1. PICK n \in {Chunk} \cup LastSizes : process(n)
    BY <1>2 DEF Receive
  <2>2. /\ pc = "idle" /\ running
        /\ UNCHANGED <<state, counting_samples, acquired, fed, gap>>
    BY <2>1 DEF process, flows
  <2>3. state # "relay" /\ (acquired > 0 => state = "wait" /\ fed = counting_samples)
    BY <2>2 DEF FedInv, RegularParts, StageInv
  <2>4. QED
    BY <2>2, <2>3 DEF FedInv
<1>3. CASE Skip
  <2>1. UNCHANGED <<state, counting_samples, acquired, fed, gap, running>> /\ state # pc
        /\ pc \in Stages
    BY <1>3 DEF Skip, flows, history
  <2>2. Due' => Due
    BY <1>3 DEF Skip, following, Stages, Due, RegularParts, StageInv
  <2>3. acquired > 0 /\ running => state \in {"wait", "relay"}
    BY <2>1 DEF FedInv, Stages
  <2>4. QED
    BY <2>1, <2>2, <2>3 DEF FedInv
<1>4. CASE Wait
  <2>1. /\ pc = "wait" /\ state = "wait" /\ pc' = "find_pss" /\ acquired' = acquired
        /\ in_synch' = in_synch /\ in_synch
    BY <1>4 DEF Wait, At, following, flows, tracking, RegularParts, WaitInv
  <2>2. Due /\ counting_samples = first /\ (acquired > 0 => fed = counting_samples)
    BY <2>1 DEF Due, FedInv, RegularParts, CountInv
  <2>3. CASE PssIsDue
    <3>1. state' = "find_pss" /\ UNCHANGED <<counting_samples, fed, gap>>
      BY <1>4, <2>3 DEF Wait, history
    <3>2. QED
      BY <2>1, <2>2, <3>1 DEF FedInv
  <2>4. CASE ~PssIsDue
    <3>1. /\ state' = "wait" /\ counting_samples' = counting_samples + size
          /\ fed' = first + size /\ gap' = (gap \/ (acquired > 0 /\ first > fed))
      BY <1>4, <2>1, <2>4 DEF Wait, Send
    <3>2. ~(first > first)
      BY Numbers
    <3>3. ~gap'
      BY <2>2, <3>1, <3>2 DEF FedInv
    <3>4. QED
      BY <2>1, <2>2, <3>1, <3>3 DEF FedInv
  <2>5. QED
    BY <2>3, <2>4
<1>5. CASE PssFound
  <2>1. /\ pc = "find_pss" /\ state = "find_pss" /\ pc' = "fine_sync" /\ state' = "fine_sync"
        /\ UNCHANGED <<counting_samples, acquired, fed, gap, running, in_synch>>
    BY <1>5 DEF PssFound, At, following, flows, history, tracking
  <2>2. Due
    BY <2>1 DEF Due
  <2>3. acquired > 0 /\ running => in_synch
    BY <2>1 DEF FedInv
  <2>4. acquired > 0 /\ running => Whole'
    BY <1>5, <2>3, TrackedFound
  <2>5. QED
    BY <2>1, <2>2, <2>3, <2>4 DEF FedInv
<1>6. CASE FalseAlarm \/ PssNotFound
  <2>1. /\ pc = "find_pss" /\ state = "find_pss" /\ Detectable = {}
        /\ UNCHANGED <<acquired, fed, gap, running, in_synch>>
    BY <1>6 DEF FalseAlarm, PssNotFound, At, flows, history, tracking
  <2>2. ~(acquired > 0 /\ running)
    BY <2>1, TrackedDetectable DEF FedInv
  <2>3. FalseAlarm => UNCHANGED counting_samples
    BY DEF FalseAlarm
  <2>4. PssNotFound => ~Due'
    BY DEF PssNotFound, At, following, Due
  <2>5. Due
    BY <2>1 DEF Due
  <2>6. QED
    BY <1>6, <2>1, <2>2, <2>3, <2>4, <2>5 DEF FedInv
<1>7. CASE TooShort
  <2>1. /\ pc = "find_pss" /\ state = "find_pss" /\ pc' = "fine_sync" /\ size <= MinSize
        /\ UNCHANGED <<state, counting_samples, acquired, fed, gap, running>>
    BY <1>7 DEF TooShort, At, following, flows, history
  <2>2. ~Due' /\ Due /\ InCall
    BY <2>1 DEF Due, InCall
  <2>3. ~running
    <3>1. running => size = Chunk
      BY <2>2 DEF RegularParts, PositionInv
    <3>2. ~(Chunk <= MinSize)
      BY Times
    <3>3. QED
      BY <2>1, <3>1, <3>2
  <2>4. QED
    BY <2>1, <2>2, <2>3 DEF FedInv
<1>8. CASE FineSync
  BY <1>8 DEF FineSync, At, following, FedInv, Due, Whole, air, queue, tracking, ssb, flows,
              history, Cells
<1>9. CASE SssNotFound \/ MibNotFound
  <2>1. /\ pc = "find_sss" /\ state = "find_sss" /\ pc' = "relay" /\ state' = "find_pss"
        /\ UNCHANGED <<acquired, fed, gap, running>>
    BY <1>9 DEF SssNotFound, MibNotFound, on_sync_lost, At, following, flows, history
  <2>2. acquired > 0 /\ running => in_synch /\ Whole
    BY <2>1 DEF FedInv
  <2>3. ~(acquired > 0 /\ running)
    BY <1>9, <2>2, LostIsNotWhole
  <2>4. ~Due'
    BY <2>1 DEF Due
  <2>5. QED
    BY <2>1, <2>3, <2>4 DEF FedInv
<1>10. CASE DecodeReturnsEarly
  BY <1>10 DEF DecodeReturnsEarly, Regular
<1>11. CASE MibFound
  <2>1. /\ pc = "find_sss" /\ state = "find_sss" /\ block # Noise /\ fine_time_sync
        /\ pc' = "acquire"
    BY <1>11 DEF MibFound, Decodable
  <2>2. Due
    BY <2>1 DEF Due
  <2>3. offset > 0 /\ counting_samples = first
    <3>1. offset \in 1 .. Chunk - BlockEnd - 1
      BY <2>1, <2>2 DEF RegularParts, FoundInv
    <3>2. QED
      BY <2>2, <3>1, Numbers, Times DEF RegularParts, CountInv
  <2>4. /\ acquired' = 0 /\ gap' = (gap \/ (acquired > 0 /\ first > fed))
    BY <2>1, <2>3 DEF fine_time_sync, Send
  <2>5. ~(first > first)
    BY Numbers
  <2>6. ~gap'
    BY <2>2, <2>3, <2>4, <2>5 DEF FedInv
  <2>7. QED
    BY <2>1, <2>4, <2>6 DEF FedInv
<1>12. CASE CutBeyondQueue
  <2>1. pc' = "undefined"
    BY <1>12 DEF CutBeyondQueue
  <2>2. QED
    BY <2>1 DEF RegularParts, StageInv
<1>13. CASE AcquireFlow
  <2>1. /\ pc = "acquire" /\ pc' = "acquire" /\ fed' = (IF acquired = 0 THEN first ELSE fed)
        /\ acquired' = acquired + 1 /\ UNCHANGED <<counting_samples, gap, running>>
    BY <1>13 DEF AcquireFlow
  <2>2. Due /\ counting_samples = first
    BY <2>1 DEF Due, RegularParts, CountInv
  <2>3. fed' = counting_samples'
    <3>1. acquired = 0 \/ acquired > 0
      BY Numbers
    <3>2. QED
      BY <2>1, <2>2, <3>1 DEF FedInv
  <2>4. QED
    BY <2>1, <2>3 DEF FedInv
<1>14. CASE LockCell
  BY <1>14 DEF LockCell, FedInv, Due, flows, history
<1>15. CASE Relay
  <2>1. /\ pc = "relay" /\ state = "relay" /\ state' = "wait" /\ acquired' = acquired
        /\ counting_samples' = counting_samples + size
        /\ fed' = first + size /\ gap' = (gap \/ (acquired > 0 /\ first > fed))
    BY <1>15 DEF Relay, At, Send, flows
  <2>2. Due /\ counting_samples = first
    BY <2>1 DEF Due, RegularParts, CountInv
  <2>3. ~(first > first)
    BY Numbers
  <2>4. ~gap'
    BY <2>1, <2>2, <2>3 DEF FedInv
  <2>5. QED
    BY <2>1, <2>2, <2>4 DEF FedInv
<1>16. CASE FlowAvailable
  BY <1>16 DEF FlowAvailable, air, queue, tracking, ssb, history, FedInv, Due, Whole, Cells
<1>17. QED
  BY <1>1, <1>2, <1>3, <1>4, <1>5, <1>6, <1>7, <1>8, <1>9, <1>10, <1>11, <1>12, <1>13, <1>14,
     <1>15, <1>16
     DEF Next, Search, Decode

\* The first search covers the chunk: it leaves out no block that starts in it.
LEMMA FirstDetectable ==
  ASSUME TypeInv, Regular, RegularParts, pc = "find_pss", state = "find_pss", ~in_synch, running,
         NEW c \in Cells, first <= phase[c], phase[c] < received
  PROVE  Detectable # {}
<1>1. Due /\ InCall
  BY DEF Due, InCall
<1>2. first + size = received /\ size = Chunk /\ first % Chunk = 0
  BY <1>1 DEF RegularParts, PositionInv
<1>3. first \in Int /\ received \in Int /\ Chunk \in Nat /\ phase[c] \in Int /\ BlockEnd \in Nat
      /\ Lead \in Nat
  BY Numbers, Times
<1>4. PICK e \in Int : e = phase[c] - first
  BY <1>3
<1>5. (first + e) - phase[c] = 0 /\ first + e - phase[c] = 0
  BY ONLY <1>3, <1>4
<1>6. 0 % Period = 0
  BY Times
<1>7. PICK u : Cells = {u} /\ Clear(phase[u])
  BY OneCell
<1>8. c = u
  BY <1>7
<1>9. e \in 1 .. Chunk - BlockEnd - 1
  <2>1. -Lead <= e /\ e <= Chunk
    BY ONLY <1>2, <1>3, <1>4, first <= phase[c], phase[c] < received
  <2>2. (first + e - phase[c]) % Period = 0
    BY <1>5, <1>6
  <2>3. Clear(phase[c])
    BY <1>7, <1>8
  <2>4. QED
    BY ONLY <1>2, <1>3, <2>1, <2>2, <2>3, SlotOffset, e \in Int
<1>10. Slot(first + e)
  BY <1>5, <1>6, <1>7, <1>8 DEF Slot
<1>11. SearchStart = 0 /\ SearchEnd = size
  BY DEF SearchStart, SearchEnd
<1>12. SearchStart <= e /\ e + BlockEnd < SearchEnd
  BY ONLY <1>2, <1>3, <1>9, <1>11, e \in Int
<1>13. QED
  BY <1>10, <1>12, InWindow

\* What it finds is whole.
LEMMA FirstFound ==
  ASSUME TypeInv, Regular, RegularParts, PssFound, ~in_synch, running
  PROVE  Whole'
<1>1. /\ pc = "find_pss" /\ state = "find_pss" /\ pc' = "fine_sync" /\ state' = "fine_sync"
      /\ reach' = SearchEnd /\ UNCHANGED <<air, queue>>
  BY DEF PssFound, At, following
<1>2. Due /\ InCall /\ Due' /\ block' \in Cells /\ block' \in Cells'
  BY <1>1 DEF Due, InCall, PssFound, Detectable, air, Cells
<1>3. (block # Noise)'
  <2>1. block' # Noise
    BY <1>2, NoiseIsNoCell
  <2>2. QED
    BY <2>1 DEF Noise
<1>4. offset' \in 1 .. Chunk - BlockEnd - 1
  <2>1. (offset \in 1 .. Chunk - BlockEnd - 1)'
    BY <1>1, <1>2, <1>3, RegularFound DEF RegularParts, FoundInv
  <2>2. QED
    BY <2>1 DEF BlockEnd
<1>5. reach' = Chunk
  BY <1>1, <1>2 DEF SearchEnd, RegularParts, PositionInv
<1>6. Chunk \in Nat /\ BlockEnd \in Nat
  BY Times
<1>7. offset' + BlockEnd < reach'
  <2>1. PICK o \in Int : o = offset' /\ 1 <= o /\ o <= Chunk - BlockEnd - 1
    BY <1>4, <1>6
  <2>2. o + BlockEnd < Chunk
    <3>1. PICK b \in Nat, n \in Nat : b = BlockEnd /\ n = Chunk
      BY <1>6
    <3>2. o <= n - b - 1
      BY <2>1, <3>1
    <3>3. o + b < n
      BY ONLY <3>2, o \in Int, b \in Nat, n \in Nat
    <3>4. QED
      BY <3>1, <3>3
  <2>3. QED
    BY <1>5, <2>1, <2>2
<1>8. QED
  BY <1>2, <1>7 DEF Whole, BlockEnd

LEMMA FirstNext ==
  ASSUME NumBwps > 0, TypeInv, CellInv, Regular, RegularParts, ~lossy, FirstInv, RegularParts',
         \A c \in Cells : c.nid1 < Nid1Width,
         [Next]_vars, UNCHANGED air, ~ \E n \in Losses : LoseSamples(n)
  PROVE  FirstInv'
<1> SUFFICES ASSUME acquired' = 0, running', pc' # "acquire"
             PROVE  /\ ~in_synch'
                    /\ state' \notin {"wait", "relay"}
                    /\ ~Due' => \A c \in Cells : received' <= phase[c]
                    /\ Due' => \A c \in Cells : first' <= phase[c]
                    /\ Due' /\ pc' \in {"fine_sync", "find_sss"} =>
                         Whole' \/ \A c \in Cells : received' <= phase[c]
  BY DEF FirstInv, air, Cells
<1> DEFINE Before == /\ ~in_synch /\ state \notin {"wait", "relay"}
                     /\ ~Due => \A c \in Cells : received <= phase[c]
                     /\ Due => \A c \in Cells : first <= phase[c]
                     /\ Due /\ pc \in {"fine_sync", "find_sss"} =>
                          Whole \/ \A c \in Cells : received <= phase[c]
<1>0. acquired = 0 /\ running /\ pc # "acquire" => Before
  BY DEF FirstInv
<1> HIDE DEF Before
<1>1. CASE UNCHANGED vars
  BY <1>0, <1>1 DEF Before, vars, air, queue, tracking, ssb, flows, history, Due, Whole, Cells
<1>2. CASE Receive
  <2>1. PICK n \in {Chunk} \cup LastSizes : process(n)
    BY <1>2 DEF Receive
  <2>2. /\ pc = "idle" /\ running /\ acquired' = acquired /\ state' = state /\ pc' = "wait"
        /\ first' = received
    BY <2>1 DEF process, flows
  <2>3. Before /\ ~Due /\ Due'
    BY <1>0, <2>2 DEF Due
  <2>4. ~in_synch'
    BY <2>1, <2>3 DEF process, Before
  <2>5. QED
    BY <2>2, <2>3, <2>4 DEF Before
<1>3. CASE Skip
  <2>1. UNCHANGED <<state, first, acquired, running, received, in_synch>> /\ pc # "acquire"
    BY <1>3 DEF Skip, Stages, queue, tracking, flows, history
  <2>2. (Due' <=> Due) /\ (Due' => pc' = "find_pss")
    BY <1>3 DEF Skip, following, Stages, Due, RegularParts, StageInv
  <2>3. QED
    BY <1>0, <2>1, <2>2 DEF Before
<1>4. CASE Wait
  BY <1>0, <1>4 DEF Wait, At, Before, flows, history, Send
<1>5. CASE PssFound
  <2>1. /\ pc = "find_pss" /\ state = "find_pss" /\ pc' = "fine_sync" /\ state' = "fine_sync"
        /\ UNCHANGED <<first, acquired, running, received, in_synch>>
    BY <1>5 DEF PssFound, At, following, flows, history, tracking, queue
  <2>2. Before /\ Due /\ Due'
    BY <1>0, <2>1 DEF Due
  <2>3. Whole'
    BY <1>5, <2>1, <2>2, FirstFound DEF Before
  <2>4. QED
    BY <2>1, <2>2, <2>3 DEF Before
<1>6. CASE FalseAlarm \/ PssNotFound
  <2>1. /\ pc = "find_pss" /\ state = "find_pss" /\ Detectable = {} /\ pc' = "fine_sync"
        /\ state' \in {"find_pss", "fine_sync"}
        /\ UNCHANGED <<first, acquired, running, received, in_synch>>
    BY <1>6 DEF FalseAlarm, PssNotFound, At, following, flows, history, tracking, queue
  <2>2. Before /\ Due
    BY <1>0, <2>1 DEF Due
  <2>3. ASSUME NEW c \in Cells
        PROVE  received <= phase[c]
    <3>1. ~(phase[c] < received)
      BY <2>1, <2>2, FirstDetectable DEF Before
    <3>2. QED
      BY <3>1, Numbers
  <2>4. QED
    BY <2>1, <2>2, <2>3 DEF Before
<1>7. CASE TooShort
  <2>1. pc = "find_pss" /\ state = "find_pss" /\ size <= MinSize /\ running
    BY <1>7 DEF TooShort, At, history
  <2>2. size = Chunk
    BY <2>1 DEF RegularParts, PositionInv, Due, InCall
  <2>3. ~(Chunk <= MinSize)
    BY Times
  <2>4. QED
    BY <2>1, <2>2, <2>3
<1>8. CASE FineSync
  <2>1. /\ pc = "fine_sync" /\ state = "fine_sync" /\ pc' = "find_sss" /\ state' = "find_sss"
        /\ UNCHANGED <<first, acquired, running, received, in_synch>>
    BY <1>8 DEF FineSync, At, following, flows, history, tracking, queue
  <2>2. Before /\ Due /\ Due' /\ (Whole' <=> Whole)
    BY <1>0, <1>8, <2>1 DEF Due, FineSync, Whole, ssb, air, Cells
  <2>3. QED
    BY <2>1, <2>2 DEF Before
<1>9. CASE SssNotFound \/ MibNotFound
  <2>1. /\ pc = "find_sss" /\ state = "find_sss" /\ pc' = "relay" /\ state' = "find_pss"
        /\ UNCHANGED <<first, acquired, running, received, in_synch>>
    BY <1>9 DEF SssNotFound, MibNotFound, on_sync_lost, At, following, flows, history, tracking,
                queue
  <2>2. Before /\ Due /\ ~Due'
    BY <1>0, <2>1 DEF Due
  <2>3. ~Whole
    BY <1>9, LostIsNotWhole
  <2>4. QED
    BY <2>1, <2>2, <2>3 DEF Before
<1>10. CASE DecodeReturnsEarly
  BY <1>10 DEF DecodeReturnsEarly, Regular
<1>11. CASE MibFound \/ AcquireFlow
  BY <1>11 DEF MibFound, AcquireFlow
<1>12. CASE CutBeyondQueue
  <2>1. pc' = "undefined"
    BY <1>12 DEF CutBeyondQueue
  <2>2. QED
    BY <2>1 DEF RegularParts, StageInv
<1>13. CASE LockCell \/ Relay
  <2>1. state' \in {"relay", "wait"}
    BY <1>13 DEF LockCell, Relay
  <2>2. acquired' = NumBwps
    BY <2>1 DEF RegularParts, LockedInv
  <2>3. QED
    BY <2>2, Times
<1>14. CASE FlowAvailable
  BY <1>0, <1>14 DEF FlowAvailable, Before, queue, tracking, ssb, history, air, Due, Whole, Cells
<1>15. QED
  BY <1>1, <1>2, <1>3, <1>4, <1>5, <1>6, <1>7, <1>8, <1>9, <1>10, <1>11, <1>12, <1>13, <1>14
     DEF Next, Search, Decode

LEMMA TrackAlways ==
  ASSUME NumBwps > 0
  PROVE  Spec => [](TypeInv /\ CellInv /\ RegularInv /\ TrackInv)
<1>1. Init => TypeInv /\ CellInv /\ RegularInv /\ TrackInv
  <2> SUFFICES ASSUME Init
               PROVE  CellInv /\ TrackInv
    BY InitType, RegularInit DEF RegularInv
  <2>1. CellInv
    BY CellInit
  <2>2. FedInv
    BY DEF Init, FedInv
  <2>3. FirstInv
    <3>1. \A c \in Cells : phase[c] \in Nat
      BY InitType, Numbers
    <3>2. pc = "idle" /\ received = 0 /\ ~in_synch /\ state = "find_pss"
      BY DEF Init
    <3>3. ~Due
      BY <3>2 DEF Due
    <3>4. QED
      BY <3>1, <3>2, <3>3 DEF FirstInv
  <2>4. QED
    BY <2>1, <2>2, <2>3 DEF TrackInv
<1>2. TypeInv /\ CellInv /\ RegularInv /\ TrackInv /\ [Next]_vars =>
        (TypeInv /\ CellInv /\ RegularInv /\ TrackInv)'
  <2> SUFFICES ASSUME TypeInv, CellInv, RegularInv, TrackInv, [Next]_vars
               PROVE  (TypeInv /\ CellInv /\ RegularInv /\ TrackInv)'
    OBVIOUS
  <2>1. TypeInv' /\ CellInv' /\ RegularInv'
    BY NextType, CellNext, RegularNext
  <2>2. ASSUME Regular', ~lossy'
        PROVE  FedInv' /\ ((\A c \in Cells : c.nid1 < Nid1Width)' => FirstInv')
    <3>1. Regular /\ UNCHANGED air /\ ~ \E n \in Losses : LoseSamples(n)
      BY <2>2, RegularStays
    <3>2. RegularParts /\ RegularParts' /\ ~lossy
      BY <2>1, <2>2, <3>1 DEF RegularInv, air
    <3>3. FedInv'
      BY <3>1, <3>2, FedNext DEF TrackInv
    <3>4. ASSUME (\A c \in Cells : c.nid1 < Nid1Width)'
          PROVE  FirstInv'
      <4>1. \A c \in Cells : c.nid1 < Nid1Width
        BY <3>1, <3>4 DEF air, Cells
      <4>2. QED
        BY <3>1, <3>2, <4>1, FirstNext DEF TrackInv
    <3>5. QED
      BY <3>3, <3>4
  <2>3. QED
    BY <2>1, <2>2 DEF TrackInv
<1>3. QED
  BY <1>1, <1>2, PTL DEF Spec

\* When no block is missed, no flow misses samples: the window of the search is around the
\* next block in the chunk that is searched, and what is found there is decoded.
THEOREM FlowsFedWithoutGap ==
  ASSUME NumBwps > 0
  PROVE  Spec => []NoGap
<1>1. TrackInv => NoGap
  BY DEF TrackInv, FedInv, NoGap
<1>2. QED
  BY <1>1, TrackAlways, PTL

\* When no block is missed, a period of samples is enough to be in synch (find_pss,
\* syncer.cc:233).
THEOREM FoundWithinPeriod ==
  ASSUME NumBwps > 0
  PROVE  Spec => []FoundInTime
<1>1. TypeInv /\ RegularInv /\ TrackInv => FoundInTime
  <2> SUFFICES ASSUME TypeInv, RegularInv, TrackInv, Regular, ~lossy,
                      \A c \in Cells : c.nid1 < Nid1Width,
                      pc = "idle", running, received >= Period
               PROVE  in_synch
    BY DEF FoundInTime
  <2>1. ~Due
    BY DEF Due
  <2>2. acquired # 0
    <3>1. PICK u : u \in Cells /\ phase[u] \in 0 .. Period - 1
      BY OneCell
    <3>2. ~(received <= phase[u])
      BY <3>1, Numbers, Times
    <3>3. QED
      BY <2>1, <3>1, <3>2 DEF TrackInv, FirstInv
  <2>3. acquired > 0
    BY <2>2, Numbers
  <2>4. state \in {"wait", "relay"}
    BY <2>3 DEF TrackInv, FedInv
  <2>5. QED
    BY <2>4 DEF RegularInv, RegularParts, WaitInv
<1>2. QED
  BY <1>1, TrackAlways, PTL
=============================================================================
