----------------------------- MODULE MCJobQueue -----------------------------
(***************************************************************************)
(* Small instances of JobQueue, with two equal jobs.                       *)
(***************************************************************************)
EXTENDS JobQueue

CONSTANTS j1, j2, j3

MCJobs == {j1, j2, j3}
MCTwoEqual == [j \in MCJobs |-> IF j = j2 THEN j1 ELSE j]
MCSymmetry == Permutations(Workers)
MCPriorities == {1}

=============================================================================
