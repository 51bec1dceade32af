------------------------- MODULE JobManagerService --------------------------
(***************************************************************************)
(* CJobManager implements JobService: the state of the service read off    *)
(* the queues, m_processing and the places of the worker threads.          *)
(***************************************************************************)
EXTENDS JobManager

WorkerAt(j, pcs) == \E w \in Workers : wjob[w] = j /\ wpc[w] \in pcs
Notifying(j) == \E w \in Workers : wjob[w] = j /\ wpc[w] = "callback" /\ wcallback[w]

Status(j) ==
  CASE heap[j] = "new" -> "fresh"
    [] heap[j] = "refused" -> "refused"
    [] heap[j] = "owned" /\ j \in Queued -> "queued"
    [] WorkerAt(j, {"work", "progress", "complete"}) -> "running"
    [] Notifying(j) -> "notifying"
    [] WorkerAt(j, {"callback", "erase"}) /\ ~Notifying(j) -> "ending"
    [] OTHER -> "gone"

Service == INSTANCE JobService WITH
  Pausable <- PRIORITY_LOW_PAUSABLE,
  Slots <- [p \in Priorities |-> GetMaxWorkers(p)],
  phase <- CASE m_running -> "open"
             [] stopper = "spinning" -> "closing"
             [] OTHER -> "closed",
  paused <- m_pauseJobs,
  status <- [j \in Jobs |-> Status(j)],
  priority <- jobPriority,
  attached <- {j \in Jobs : jobCallback[j] /\ Status(j) \in {"queued", "running"}},
  reporting <- {wjob[w] : w \in {v \in Workers : wpc[v] = "progress"}}

(***************************************************************************)
(* Every step of the manager is a step of the service or changes nothing   *)
(* a client can tell: a job runs at most once, its client is called        *)
(* without m_section yet never after CancelJob found the job in a queue or *)
(* before the work item was copied, and CancelJobs returns only when every *)
(* such call has ended.                                                    *)
(***************************************************************************)
ImplementsService == Service!Spec

=============================================================================
