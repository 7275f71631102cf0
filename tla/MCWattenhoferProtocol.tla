------------------------ MODULE MCWattenhoferProtocol ------------------------
(***************************************************************************)
(* A graph small enough for TLC, under two schedules: one worker, with     *)
(* which a tick ends before the next begins, and every interleaving of the *)
(* ticks, in which no endpoint commits during the run.                     *)
(***************************************************************************)
EXTENDS WattenhoferProtocol

CONSTANT Schedules  \* those of "one" and "any" that a run may have

VARIABLE schedule

PathEdges == {{1, 2}, {2, 3}}
UnitWeight == [e \in Edges |-> 1]

OneWorkerStep(n) ==
  /\ \A m \in Nodes \ {n} : step[m] = "idle" /\ outbox[m] = {}
  /\ NodeStep(n)

OneWorkerNext ==
  (\E n \in Nodes : OneWorkerStep(n) \/ IdleTick(n)) \/ Terminated

MCInit == Init /\ schedule \in Schedules

MCNext ==
  /\ \/ schedule = "one" /\ OneWorkerNext
     \/ schedule = "any" /\ Next /\ UNCHANGED matchedTo
  /\ UNCHANGED schedule

MCSpec ==
  /\ MCInit /\ [][MCNext]_<<vars, schedule>>
  /\ \A n \in Nodes : WF_<<vars, schedule>>(OneWorkerStep(n) /\ UNCHANGED schedule)

\* Interleavings are followed until an advisor has left the first round.
InterleavedBound ==
  schedule = "any" => \A n \in Nodes : advisor[n].at.round = 0

=============================================================================
