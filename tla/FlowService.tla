----------------------------- MODULE FlowService -----------------------------
(***************************************************************************)
(* What the pool promises about each flow, without queues, semaphores or   *)
(* start and stop messages.  A flow is free, or busy with the chunks of    *)
(* its one owner, or finishing the chunks it had when the owner let go of  *)
(* it.  It becomes free again only when no chunk is pending, and it does.  *)
(***************************************************************************)
EXTENDS Naturals

CONSTANT Flows

VARIABLES
  status,    \* "free", "busy" or "finishing"
  pending    \* chunks submitted to the flow and not completed

service == <<status, pending>>

Init ==
  /\ status = [f \in Flows |-> "finishing"]
  /\ pending = [f \in Flows |-> 0]

Acquire(f) ==
  /\ status[f] = "free"
  /\ status' = [status EXCEPT ![f] = "busy"]
  /\ UNCHANGED pending

Submit(f) ==
  /\ status[f] = "busy"
  /\ pending' = [pending EXCEPT ![f] = @ + 1]
  /\ UNCHANGED status

Complete(f) ==
  /\ status[f] # "free"
  /\ pending[f] > 0
  /\ pending' = [pending EXCEPT ![f] = @ - 1]
  /\ UNCHANGED status

Release(f) ==
  /\ status[f] = "busy"
  /\ status' = [status EXCEPT ![f] = "finishing"]
  /\ UNCHANGED pending

BecomeFree(f) ==
  /\ status[f] = "finishing"
  /\ pending[f] = 0
  /\ status' = [status EXCEPT ![f] = "free"]
  /\ UNCHANGED pending

Next == \E f \in Flows : Acquire(f) \/ Submit(f) \/ Complete(f) \/ Release(f) \/ BecomeFree(f)

\* A chunk is completed in the end, and a flow that finishes gets there.
Fairness == \A f \in Flows : WF_service(Complete(f)) /\ WF_service(BecomeFree(f))

Spec == Init /\ [][Next]_service /\ Fairness
=============================================================================
