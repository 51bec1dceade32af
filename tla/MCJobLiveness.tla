----------------------------- MODULE MCJobLiveness -----------------------------
(***************************************************************************)
(* A small instance of JobManager with clients of its own, and one whose   *)
(* only client is a CJobQueue, in one run: part says which of them a       *)
(* behaviour is about.                                                     *)
(***************************************************************************)
EXTENDS JobQueue

CONSTANTS j1, j2

MCJobs == {j1, j2}
MCDistinct == [j \in MCJobs |-> j]

\* The pausable priority and the one above it: 1 and 2 of the 4 threads.
MCTwoPriorities == {0, 1}

VARIABLE part

mcVars == <<allVars, part>>

MCInit == QueueInit /\ part \in {"manager", "queue"}

MCNext ==
  /\ \/ part = "manager" /\ Next /\ UNCHANGED queueVars
     \/ part = "queue" /\ QueueNext
  /\ UNCHANGED part

MCSpec ==
  /\ MCInit /\ [][MCNext]_mcVars
  /\ \/ part = "manager" /\ Fairness
     \/ part = "queue" /\ QueueFairness

=============================================================================
