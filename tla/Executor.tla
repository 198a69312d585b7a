------------------------------ MODULE Executor ------------------------------
(***************************************************************************)
(* What a dispatch queue promises its callers, whatever its threads do: a  *)
(* job is accepted once, jobs start in the order they were accepted, at    *)
(* most Width run at a time, each starts and finishes once, and a          *)
(* synchronous caller gets control back only after its job has finished.   *)
(***************************************************************************)
EXTENDS Naturals, Sequences, FiniteSets

CONSTANTS Jobs, Width

VARIABLES accepted, waiting, running, finished, returned
vars == <<accepted, waiting, running, finished, returned>>

Init ==
  /\ accepted = {} /\ waiting = <<>>
  /\ running = {} /\ finished = {} /\ returned = {}

Accept(j) ==
  /\ j \notin accepted
  /\ accepted' = accepted \cup {j}
  /\ waiting' = Append(waiting, j)
  /\ UNCHANGED <<running, finished, returned>>

Start ==
  /\ waiting # <<>>
  /\ Cardinality(running) < Width
  /\ running' = running \cup {Head(waiting)}
  /\ waiting' = Tail(waiting)
  /\ UNCHANGED <<accepted, finished, returned>>

Finish(j) ==
  /\ j \in running
  /\ running' = running \ {j}
  /\ finished' = finished \cup {j}
  /\ UNCHANGED <<accepted, waiting, returned>>

Return(j) ==
  /\ j \in finished \ returned
  /\ returned' = returned \cup {j}
  /\ UNCHANGED <<accepted, waiting, running, finished>>

Next == Start \/ \E j \in Jobs : Accept(j) \/ Finish(j) \/ Return(j)

Spec == Init /\ [][Next]_vars
=============================================================================
