--------------------------- MODULE SequentialWalk ---------------------------
(***************************************************************************)
(* buildTree with concurrency <= 1, "exactly the sequential walk": every   *)
(* child's object comes from one Get issued when the loop asks for it.     *)
(* This is the reference that the parallel walk of TreeWalk implements.    *)
(***************************************************************************)
EXTENDS Walk

\* childFetcher.get with no prefetching: the Get itself.
Get == Fetched

Init == WalkInit

Next == LoopStep \/ Get \/ Cancel

Safety == Init /\ [][Next]_walkVars

\* The walk is one goroutine that is never parked: its Gets return, at the
\* latest when the request times out.
Spec == Safety /\ WF_walkVars(LoopStep \/ Get)

\* Every walk ends, on a cyclic composition too.
Termination == <>Done
=============================================================================
