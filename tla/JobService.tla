----------------------------- MODULE JobService -----------------------------
(***************************************************************************)
(* What CJobManager promises the rest of the program (JobManager.h), with  *)
(* no worker thread, no event and no queue in sight: a job is accepted or  *)
(* refused, started at most once within the slots of its priority, and     *)
(* its client hears of it at most once, never after it withdrew.           *)
(***************************************************************************)
EXTENDS Integers, FiniteSets

CONSTANTS Jobs, Priorities,
          Pausable,  \* the priority PauseJobs holds back
          Slots      \* Slots[p]: jobs at or below p that may run at once

VARIABLES
  phase,      \* "open", "closing" (CancelJobs was called), "closed" (it returned)
  paused,
  status,     \* of each job: "fresh", "refused", "queued", "running", "notifying"
              \* (its client), "ending" or "gone"
  priority,   \* of each accepted job
  attached,   \* the job's client is still to be notified
  reporting   \* jobs with a progress call to their client under way

vars == <<phase, paused, status, priority, attached, reporting>>

In(s) == {j \in Jobs : status[j] \in s}
Occupying == In({"running", "notifying", "ending"})

Init ==
  /\ phase = "open"
  /\ paused = FALSE
  /\ status = [j \in Jobs |-> "fresh"]
  /\ priority = [j \in Jobs |-> Pausable]
  /\ attached = {}
  /\ reporting = {}

Accept(j, p) ==
  /\ phase = "open"
  /\ status[j] = "fresh"
  /\ status' = [status EXCEPT ![j] = "queued"]
  /\ priority' = [priority EXCEPT ![j] = p]
  /\ attached' \in {attached, attached \cup {j}}
  /\ UNCHANGED <<phase, paused, reporting>>

Refuse(j) ==
  /\ phase # "open"
  /\ status[j] = "fresh"
  /\ status' = [status EXCEPT ![j] = "refused"]
  /\ UNCHANGED <<phase, paused, priority, attached, reporting>>

\* A queued job is withdrawn: it never runs and nobody is told.
Withdraw(j) ==
  /\ status[j] = "queued"
  /\ status' = [status EXCEPT ![j] = "gone"]
  /\ attached' = attached \ {j}
  /\ UNCHANGED <<phase, paused, priority, reporting>>

\* A running job is withdrawn: it runs to its end, but nobody is told.
Detach(j) ==
  /\ status[j] = "running"
  /\ attached' = attached \ {j}
  /\ UNCHANGED <<phase, paused, status, priority, reporting>>

SetPaused(b) ==
  /\ paused' = b
  /\ UNCHANGED <<phase, status, priority, attached, reporting>>

\* A job starts within the slots of its priority, the most urgent first.
Start(j) ==
  /\ status[j] = "queued"
  /\ ~(paused /\ priority[j] = Pausable)
  /\ \A k \in In({"queued"}) : priority[k] <= priority[j]
  /\ Cardinality({k \in Occupying : priority[k] <= priority[j]}) < Slots[priority[j]]
  /\ status' = [status EXCEPT ![j] = "running"]
  /\ UNCHANGED <<phase, paused, priority, attached, reporting>>

Report(j) ==
  /\ status[j] = "running"
  /\ j \in attached \ reporting
  /\ reporting' = reporting \cup {j}
  /\ UNCHANGED <<phase, paused, status, priority, attached>>

ReportReturns(j) ==
  /\ j \in reporting
  /\ reporting' = reporting \ {j}
  /\ UNCHANGED <<phase, paused, status, priority, attached>>

\* The job is done; its client is called if it is still attached.
Finish(j) ==
  /\ status[j] = "running"
  /\ j \notin reporting
  /\ status' = [status EXCEPT ![j] = IF j \in attached THEN "notifying" ELSE "ending"]
  /\ attached' = attached \ {j}
  /\ UNCHANGED <<phase, paused, priority, reporting>>

NotifyReturns(j) ==
  /\ status[j] = "notifying"
  /\ status' = [status EXCEPT ![j] = "ending"]
  /\ UNCHANGED <<phase, paused, priority, attached, reporting>>

\* The slot is released.
Leave(j) ==
  /\ status[j] = "ending"
  /\ status' = [status EXCEPT ![j] = "gone"]
  /\ UNCHANGED <<phase, paused, priority, attached, reporting>>

\* CancelJobs: every queued job is withdrawn and every running one detached.
Close ==
  /\ phase # "closing"
  /\ phase' = "closing"
  /\ status' = [j \in Jobs |-> IF status[j] = "queued" THEN "gone" ELSE status[j]]
  /\ attached' = {}
  /\ UNCHANGED <<paused, priority, reporting>>

\* CancelJobs returns only when no client can be called any more.
Closed ==
  /\ phase = "closing"
  /\ Occupying = {}
  /\ phase' = "closed"
  /\ UNCHANGED <<paused, status, priority, attached, reporting>>

Reopen ==
  /\ phase = "closed"
  /\ phase' = "open"
  /\ UNCHANGED <<paused, status, priority, attached, reporting>>

Next ==
  \/ \E j \in Jobs :
       \/ \E p \in Priorities : Accept(j, p)
       \/ Refuse(j)
       \/ Withdraw(j)
       \/ Detach(j)
       \/ Start(j)
       \/ Report(j)
       \/ ReportReturns(j)
       \/ Finish(j)
       \/ NotifyReturns(j)
       \/ Leave(j)
  \/ \E b \in BOOLEAN : SetPaused(b)
  \/ Close
  \/ Closed
  \/ Reopen

Spec == Init /\ [][Next]_vars

=============================================================================
