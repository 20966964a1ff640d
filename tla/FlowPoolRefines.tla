--------------------------- MODULE FlowPoolRefines ---------------------------
(***************************************************************************)
(* The pool implements FlowService: a flow whose flag is set is free, one  *)
(* that main holds and has sent neither the stop message nor an empty      *)
(* chunk is busy, any other one is finishing (or has not started yet).     *)
(***************************************************************************)
EXTENDS FlowPoolInv

status ==
  [f \in Flows |-> IF available[f] THEN "free" ELSE IF Held(f) THEN "busy" ELSE "finishing"]

pending == [f \in Flows |-> owed[f] - handled[f]]

Service == INSTANCE FlowService WITH Flows <- Flows, status <- status, pending <- pending

\* The pool, with its queues, its semaphore, its in-band start and stop messages
\* and its threads, does to every flow what the service promises: one owner, no
\* chunk lost or passed on twice, free again only with no chunk pending.  An empty
\* last chunk releases the flows it is sent to; a second stop message changes
\* nothing.  As long as there is no such chunk, every chunk is passed on in the
\* end and every flow that was released becomes free.
ImplementsService ==
  /\ Service!Init
  /\ [][Service!Next]_(Service!service)
  /\ []~eof => Service!Fairness
=============================================================================
