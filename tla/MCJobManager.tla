---------------------------- MODULE MCJobManager ----------------------------
(***************************************************************************)
(* Small instances of JobManager.  Jobs and threads are interchangeable,   *)
(* so their permutations are a symmetry of the safety runs.                *)
(***************************************************************************)
EXTENDS JobManagerService, TLC

MCSymmetry == Permutations(Jobs) \cup Permutations(Workers)

\* The pausable priority and the one above it: 1 and 2 of the 4 threads.
MCTwoPriorities == {0, 1}
MCPausable == {0}

=============================================================================
