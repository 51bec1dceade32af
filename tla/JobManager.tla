----------------------------- MODULE JobManager -----------------------------
(***************************************************************************)
(* CJobManager (xbmc/utils/JobManager.cpp): a pool of worker threads that  *)
(* runs CJob objects taken from four priority queues.                      *)
(*                                                                         *)
(* Every member function of the manager runs inside m_section, so one      *)
(* critical section is one action.  What happens between two critical      *)
(* sections (waiting on m_jobEvent, DoWork, the client's callbacks,        *)
(* deleting the job) is a program-counter value of the worker thread.      *)
(*                                                                         *)
(* The fields of a CWorkItem are functions of the job it points to         *)
(* (jobId, jobPriority, jobCallback); the queues and m_processing hold     *)
(* the job pointers.                                                       *)
(*                                                                         *)
(* Definitions marked "Mistake" are not part of the model: each is a       *)
(* plausible error in the definition after it.                             *)
(***************************************************************************)
EXTENDS Integers, Sequences, FiniteSets

CONSTANTS Jobs,            \* the CJob objects clients will ever allocate
          NoJob,           \* a worker's job pointer when it has none
          Workers,         \* identities for CJobWorker objects
          MaxWorkers,      \* max_workers of GetMaxWorkers, 5 in the code
          IdModulus,       \* 2^32: the width of m_jobCounter
          FirstCounters,   \* m_jobCounter when the modelled part of a run begins
          UsedPriorities   \* the priorities clients pass to AddJob

PRIORITY_LOW_PAUSABLE == 0
PRIORITY_HIGH == 3
Priorities == PRIORITY_LOW_PAUSABLE .. PRIORITY_HIGH

ASSUME JobsAssumption == IsFiniteSet(Jobs) /\ NoJob \notin Jobs
ASSUME WorkersAssumption == IsFiniteSet(Workers)
ASSUME MaxWorkersAssumption == MaxWorkers \in Nat /\ MaxWorkers > PRIORITY_HIGH
ASSUME IdModulusAssumption == IdModulus \in Nat /\ IdModulus > 1
ASSUME FirstCountersAssumption == FirstCounters \subseteq 0 .. IdModulus - 1
ASSUME PrioritiesAssumption == UsedPriorities # {} /\ UsedPriorities \subseteq Priorities

VARIABLES
  m_running,     \* BOOLEAN, cleared by CancelJobs, set by Restart
  m_pauseJobs,   \* BOOLEAN
  m_jobCounter,  \* the last job id handed out, modulo IdModulus
  m_jobQueue,    \* priority -> sequence of queued jobs, front first
  m_processing,  \* the jobs some worker has popped and not yet completed
  m_workers,     \* the worker threads the manager knows
  m_jobEvent,    \* the signaled flag of the auto-reset CEvent
  jobId,         \* CWorkItem::m_id of each job
  jobPriority,   \* CWorkItem::m_priority of each job
  jobCallback,   \* CWorkItem::m_callback # NULL
  heap,          \* "new", "owned" by the manager, "refused", or "freed"
  wpc,           \* where each worker thread is
  wjob,          \* the job a worker thread holds
  wcallback,     \* the callback in the worker's own copy of the CWorkItem
  stopper        \* the thread inside CancelJobs: "idle", "spinning", "returned"

itemVars == <<jobId, jobPriority, jobCallback>>
workerVars == <<wpc, wjob, wcallback>>
vars == <<m_running, m_pauseJobs, m_jobCounter, m_jobQueue, m_processing,
          m_workers, m_jobEvent, itemVars, heap, workerVars, stopper>>

(***************************************************************************)
(* "next"     about to enter the critical section of GetNextJob            *)
(* "enter"    PopJob found nothing; m_section left, m_jobEvent not yet     *)
(*            waited on                                                    *)
(* "blocked"  inside m_jobEvent.WaitMSec, counted by its numWaits          *)
(* "expired"  WaitMSec returned false                                      *)
(* "work"     in CJob::DoWork                                              *)
(* "progress" in CJobManager::OnJobProgress, m_section left again          *)
(* "complete" DoWork returned, about to enter OnJobComplete                *)
(* "callback" in OnJobComplete, m_section left, the client is called       *)
(* "erase"    the client returned, about to re-enter m_section             *)
(* "free"     m_section left for good, about to delete the job             *)
(***************************************************************************)
WorkerPC == {"none", "next", "enter", "blocked", "expired", "work",
             "progress", "complete", "callback", "erase", "free"}

\* The places of a worker that has a job in m_processing.
Busy == {"work", "progress", "complete", "callback", "erase"}

TypeOK ==
  /\ m_running \in BOOLEAN
  /\ m_pauseJobs \in BOOLEAN
  /\ m_jobCounter \in 0 .. IdModulus - 1
  /\ m_jobQueue \in [Priorities -> Seq(Jobs)]
  /\ m_processing \in SUBSET Jobs
  /\ m_workers \in SUBSET Workers
  /\ m_jobEvent \in BOOLEAN
  /\ jobId \in [Jobs -> 0 .. IdModulus - 1]
  /\ jobPriority \in [Jobs -> Priorities]
  /\ jobCallback \in [Jobs -> BOOLEAN]
  /\ heap \in [Jobs -> {"new", "owned", "refused", "freed"}]
  /\ wpc \in [Workers -> WorkerPC]
  /\ wjob \in [Workers -> Jobs \cup {NoJob}]
  /\ wcallback \in [Workers -> BOOLEAN]
  /\ stopper \in {"idle", "spinning", "returned"}

(***************************************************************************)
(* The constructor's state, but for the counter: it may be anywhere when   *)
(* the process has been up for a while and all earlier jobs are gone.      *)
(***************************************************************************)
Init ==
  /\ m_running = TRUE
  /\ m_pauseJobs = FALSE
  /\ m_jobCounter \in FirstCounters
  /\ m_jobQueue = [p \in Priorities |-> <<>>]
  /\ m_processing = {}
  /\ m_workers = {}
  /\ m_jobEvent = FALSE
  /\ jobId = [j \in Jobs |-> 0]
  /\ jobPriority = [j \in Jobs |-> PRIORITY_LOW_PAUSABLE]
  /\ jobCallback = [j \in Jobs |-> FALSE]
  /\ heap = [j \in Jobs |-> "new"]
  /\ wpc = [w \in Workers |-> "none"]
  /\ wjob = [w \in Workers |-> NoJob]
  /\ wcallback = [w \in Workers |-> FALSE]
  /\ stopper = "idle"

-----------------------------------------------------------------------------
GetMaxWorkers(p) == MaxWorkers - (PRIORITY_HIGH - p)

QueuedIn(p) == {m_jobQueue[p][i] : i \in DOMAIN m_jobQueue[p]}
Queued == UNION {QueuedIn(p) : p \in Priorities}

Blocked == {w \in Workers : wpc[w] = "blocked"}

\* Mistake: the invalid id not skipped.
NextIdZero == (m_jobCounter + 1) % IdModulus

\* ++m_jobCounter, once more if that wrapped to the invalid id 0.
NextId == LET c == (m_jobCounter + 1) % IdModulus IN IF c = 0 THEN 1 ELSE c

(***************************************************************************)
(* StartWorkers: nothing when the priority has no free slot; otherwise     *)
(* wake the sleepers, or start a thread when every worker is busy.         *)
(***************************************************************************)
StartWorkers(p) ==
  \/ /\ Cardinality(m_processing) >= GetMaxWorkers(p)
     /\ UNCHANGED <<m_jobEvent, m_workers, wpc>>
  \/ /\ Cardinality(m_processing) < GetMaxWorkers(p)
     /\ Cardinality(m_processing) < Cardinality(m_workers)
     /\ m_jobEvent' = TRUE
     /\ UNCHANGED <<m_workers, wpc>>
  \/ /\ Cardinality(m_processing) < GetMaxWorkers(p)
     /\ Cardinality(m_processing) >= Cardinality(m_workers)
     /\ \E w \in Workers \ m_workers :
          /\ m_workers' = m_workers \cup {w}
          /\ wpc' = [wpc EXCEPT ![w] = "next"]
     /\ UNCHANGED m_jobEvent

\* AddJob on a running manager: a new work item at the back of its queue.
AddJobAccepted(j, p, cb) ==
  /\ m_running
  /\ heap[j] = "new"
  /\ m_jobCounter' = NextId
  /\ jobId' = [jobId EXCEPT ![j] = NextId]
  /\ jobPriority' = [jobPriority EXCEPT ![j] = p]
  /\ jobCallback' = [jobCallback EXCEPT ![j] = cb]
  /\ heap' = [heap EXCEPT ![j] = "owned"]
  /\ m_jobQueue' = [m_jobQueue EXCEPT ![p] = Append(@, j)]
  /\ StartWorkers(p)
  /\ UNCHANGED <<m_running, m_pauseJobs, m_processing, wjob, wcallback, stopper>>

\* AddJob on a cancelled manager returns 0 and never owns the job.
AddJobRefused(j) ==
  /\ ~m_running
  /\ heap[j] = "new"
  /\ heap' = [heap EXCEPT ![j] = "refused"]
  /\ UNCHANGED <<m_running, m_pauseJobs, m_jobCounter, m_jobQueue, m_processing,
                 m_workers, m_jobEvent, itemVars, workerVars, stopper>>

DropAt(s, i) == SubSeq(s, 1, i - 1) \o SubSeq(s, i + 1, Len(s))

\* CancelJob finds the id in a queue: delete the job, erase the item.
CancelQueuedJob(id) ==
  /\ \E p \in Priorities : \E i \in DOMAIN m_jobQueue[p] :
       /\ jobId[m_jobQueue[p][i]] = id
       /\ heap' = [heap EXCEPT ![m_jobQueue[p][i]] = "freed"]
       /\ m_jobQueue' = [m_jobQueue EXCEPT ![p] = DropAt(@, i)]
  /\ UNCHANGED <<m_running, m_pauseJobs, m_jobCounter, m_processing, m_workers,
                 m_jobEvent, itemVars, workerVars, stopper>>

\* Mistake: a job in progress is deleted as a queued one is.
CancelProcessingJobDeletes(id) ==
  /\ \E j \in m_processing :
       /\ jobId[j] = id
       /\ heap' = [heap EXCEPT ![j] = "freed"]
       /\ m_processing' = m_processing \ {j}
  /\ UNCHANGED <<m_running, m_pauseJobs, m_jobCounter, m_jobQueue, m_workers,
                 m_jobEvent, itemVars, workerVars, stopper>>

\* CancelJob finds the id in m_processing: only the callback can be removed.
CancelProcessingJob(id) ==
  /\ \A j \in Queued : jobId[j] # id
  /\ \E j \in m_processing :
       /\ jobId[j] = id
       /\ jobCallback' = [jobCallback EXCEPT ![j] = FALSE]
  /\ UNCHANGED <<m_running, m_pauseJobs, m_jobCounter, m_jobQueue, m_processing,
                 m_workers, m_jobEvent, jobId, jobPriority, heap, workerVars, stopper>>

CancelJob(id) == CancelQueuedJob(id) \/ CancelProcessingJob(id)

PauseJobs ==
  /\ ~m_pauseJobs
  /\ m_pauseJobs' = TRUE
  /\ UNCHANGED <<m_running, m_jobCounter, m_jobQueue, m_processing, m_workers,
                 m_jobEvent, itemVars, heap, workerVars, stopper>>

UnPauseJobs ==
  /\ m_pauseJobs
  /\ m_pauseJobs' = FALSE
  /\ UNCHANGED <<m_running, m_jobCounter, m_jobQueue, m_processing, m_workers,
                 m_jobEvent, itemVars, heap, workerVars, stopper>>

-----------------------------------------------------------------------------
\* Mistake: the jobs in progress keep their callbacks.
CancelJobsLoud ==
  /\ stopper # "spinning"
  /\ m_running' = FALSE
  /\ heap' = [j \in Jobs |-> IF j \in Queued THEN "freed" ELSE heap[j]]
  /\ m_jobQueue' = [p \in Priorities |-> <<>>]
  /\ stopper' = "spinning"
  /\ UNCHANGED <<m_pauseJobs, m_jobCounter, m_processing, m_workers, m_jobEvent,
                 itemVars, workerVars>>

(***************************************************************************)
(* CancelJobs: the first critical section empties the queues and silences  *)
(* the jobs in progress; then the caller sets the event and yields until   *)
(* no worker is left.                                                      *)
(***************************************************************************)
CancelJobs ==
  /\ stopper # "spinning"
  /\ m_running' = FALSE
  /\ heap' = [j \in Jobs |-> IF j \in Queued THEN "freed" ELSE heap[j]]
  /\ m_jobQueue' = [p \in Priorities |-> <<>>]
  /\ jobCallback' = [j \in Jobs |-> jobCallback[j] /\ j \notin m_processing]
  /\ stopper' = "spinning"
  /\ UNCHANGED <<m_pauseJobs, m_jobCounter, m_processing, m_workers, m_jobEvent,
                 jobId, jobPriority, workerVars>>

CancelJobsWake ==
  /\ stopper = "spinning"
  /\ m_workers # {}
  /\ m_jobEvent' = TRUE
  /\ UNCHANGED <<m_running, m_pauseJobs, m_jobCounter, m_jobQueue, m_processing,
                 m_workers, itemVars, heap, workerVars, stopper>>

\* Mistake: the workers are signaled but not waited for.
CancelJobsReturnAtOnce ==
  /\ stopper = "spinning"
  /\ stopper' = "returned"
  /\ UNCHANGED <<m_running, m_pauseJobs, m_jobCounter, m_jobQueue, m_processing,
                 m_workers, m_jobEvent, itemVars, heap, workerVars>>

CancelJobsReturn ==
  /\ stopper = "spinning"
  /\ m_workers = {}
  /\ stopper' = "returned"
  /\ UNCHANGED <<m_running, m_pauseJobs, m_jobCounter, m_jobQueue, m_processing,
                 m_workers, m_jobEvent, itemVars, heap, workerVars>>

\* Restart is called after CancelJobs, by the thread that called it.
Restart ==
  /\ ~m_running
  /\ stopper = "returned"
  /\ m_running' = TRUE
  /\ stopper' = "idle"
  /\ UNCHANGED <<m_pauseJobs, m_jobCounter, m_jobQueue, m_processing, m_workers,
                 m_jobEvent, itemVars, heap, workerVars>>

-----------------------------------------------------------------------------
\* Mistake: one thread too many for each priority.
EligibleOneMore(p) ==
  /\ ~(p = PRIORITY_LOW_PAUSABLE /\ m_pauseJobs)
  /\ m_jobQueue[p] # <<>>
  /\ Cardinality(m_processing) <= GetMaxWorkers(p)

\* PopJob looks at the priorities from high to low.
Eligible(p) ==
  /\ ~(p = PRIORITY_LOW_PAUSABLE /\ m_pauseJobs)
  /\ m_jobQueue[p] # <<>>
  /\ Cardinality(m_processing) < GetMaxWorkers(p)

PopFails == \A p \in Priorities : ~Eligible(p)

\* Mistakes: the priorities in the wrong order; the front is not popped.
PopJobLowFirst(w, p) ==
  LET j == Head(m_jobQueue[p]) IN
  /\ Eligible(p)
  /\ \A q \in Priorities : q < p => ~Eligible(q)
  /\ m_jobQueue' = [m_jobQueue EXCEPT ![p] = Tail(@)]
  /\ m_processing' = m_processing \cup {j}
  /\ wjob' = [wjob EXCEPT ![w] = j]
  /\ wpc' = [wpc EXCEPT ![w] = "work"]
  /\ UNCHANGED <<m_running, m_pauseJobs, m_jobCounter, m_workers, m_jobEvent,
                 itemVars, heap, wcallback, stopper>>

PopJobLeavesFront(w, p) ==
  /\ Eligible(p)
  /\ \A q \in Priorities : q > p => ~Eligible(q)
  /\ m_processing' = m_processing \cup {Head(m_jobQueue[p])}
  /\ wjob' = [wjob EXCEPT ![w] = Head(m_jobQueue[p])]
  /\ wpc' = [wpc EXCEPT ![w] = "work"]
  /\ UNCHANGED <<m_running, m_pauseJobs, m_jobCounter, m_jobQueue, m_workers,
                 m_jobEvent, itemVars, heap, wcallback, stopper>>

PopJob(w, p) ==
  LET j == Head(m_jobQueue[p]) IN
  /\ Eligible(p)
  /\ \A q \in Priorities : q > p => ~Eligible(q)
  /\ m_jobQueue' = [m_jobQueue EXCEPT ![p] = Tail(@)]
  /\ m_processing' = m_processing \cup {j}
  /\ wjob' = [wjob EXCEPT ![w] = j]
  /\ wpc' = [wpc EXCEPT ![w] = "work"]
  /\ UNCHANGED <<m_running, m_pauseJobs, m_jobCounter, m_workers, m_jobEvent,
                 itemVars, heap, wcallback, stopper>>

\* One turn of GetNextJob's loop, or its last try after a timeout.
GetNextJob(w) ==
  /\ wpc[w] \in {"next", "expired"}
  /\ \E p \in Priorities : PopJob(w, p)

\* No job in GetNextJob's loop: leave m_section to wait for one.
GetNextJobSleeps(w) ==
  /\ wpc[w] = "next"
  /\ m_running
  /\ PopFails
  /\ wpc' = [wpc EXCEPT ![w] = "enter"]
  /\ UNCHANGED <<m_running, m_pauseJobs, m_jobCounter, m_jobQueue, m_processing,
                 m_workers, m_jobEvent, itemVars, heap, wjob, wcallback, stopper>>

\* Mistakes: the queues are not tried again after the timeout; RemoveWorker is
\* not called.
GetNextJobQuitsUnchecked(w) ==
  /\ wpc[w] \in {"next", "expired"}
  /\ wpc[w] = "next" => ~m_running
  /\ m_workers' = m_workers \ {w}
  /\ wpc' = [wpc EXCEPT ![w] = "none"]
  /\ UNCHANGED <<m_running, m_pauseJobs, m_jobCounter, m_jobQueue, m_processing,
                 m_jobEvent, itemVars, heap, wjob, wcallback, stopper>>

GetNextJobQuitsUnknown(w) ==
  /\ wpc[w] \in {"next", "expired"}
  /\ wpc[w] = "next" => ~m_running
  /\ PopFails
  /\ wpc' = [wpc EXCEPT ![w] = "none"]
  /\ UNCHANGED <<m_running, m_pauseJobs, m_jobCounter, m_jobQueue, m_processing,
                 m_workers, m_jobEvent, itemVars, heap, wjob, wcallback, stopper>>

\* No job after the loop: RemoveWorker, and the thread ends.
GetNextJobQuits(w) ==
  /\ wpc[w] \in {"next", "expired"}
  /\ wpc[w] = "next" => ~m_running
  /\ PopFails
  /\ m_workers' = m_workers \ {w}
  /\ wpc' = [wpc EXCEPT ![w] = "none"]
  /\ UNCHANGED <<m_running, m_pauseJobs, m_jobCounter, m_jobQueue, m_processing,
                 m_jobEvent, itemVars, heap, wjob, wcallback, stopper>>

(***************************************************************************)
(* CEvent::WaitMSec.  A thread that finds the event signaled returns true; *)
(* the flag is reset only when no other thread is still counted in         *)
(* numWaits, so one Set() releases every thread that was blocked.          *)
(***************************************************************************)
WaitBlocks(w) ==
  /\ wpc[w] = "enter"
  /\ ~m_jobEvent
  /\ wpc' = [wpc EXCEPT ![w] = "blocked"]
  /\ UNCHANGED <<m_running, m_pauseJobs, m_jobCounter, m_jobQueue, m_processing,
                 m_workers, m_jobEvent, itemVars, heap, wjob, wcallback, stopper>>

WaitReturns(w) ==
  /\ wpc[w] \in {"enter", "blocked"}
  /\ m_jobEvent
  /\ m_jobEvent' = (Blocked \ {w} # {})
  /\ wpc' = [wpc EXCEPT ![w] = "next"]
  /\ UNCHANGED <<m_running, m_pauseJobs, m_jobCounter, m_jobQueue, m_processing,
                 m_workers, itemVars, heap, wjob, wcallback, stopper>>

WaitExpires(w) ==
  /\ wpc[w] = "blocked"
  /\ ~m_jobEvent
  /\ wpc' = [wpc EXCEPT ![w] = "expired"]
  /\ UNCHANGED <<m_running, m_pauseJobs, m_jobCounter, m_jobQueue, m_processing,
                 m_workers, m_jobEvent, itemVars, heap, wjob, wcallback, stopper>>

-----------------------------------------------------------------------------
(***************************************************************************)
(* ShouldCancel -> OnJobProgress: copy the work item under m_section, then *)
(* call the client without it.  With no callback left ShouldCancel is true *)
(* and no client is called.                                                *)
(***************************************************************************)
OnJobProgress(w) ==
  /\ wpc[w] = "work"
  /\ wjob[w] \in m_processing
  /\ jobCallback[wjob[w]]
  /\ wcallback' = [wcallback EXCEPT ![w] = TRUE]
  /\ wpc' = [wpc EXCEPT ![w] = "progress"]
  /\ UNCHANGED <<m_running, m_pauseJobs, m_jobCounter, m_jobQueue, m_processing,
                 m_workers, m_jobEvent, itemVars, heap, wjob, stopper>>

OnJobProgressReturns(w) ==
  /\ wpc[w] = "progress"
  /\ wcallback' = [wcallback EXCEPT ![w] = FALSE]
  /\ wpc' = [wpc EXCEPT ![w] = "work"]
  /\ UNCHANGED <<m_running, m_pauseJobs, m_jobCounter, m_jobQueue, m_processing,
                 m_workers, m_jobEvent, itemVars, heap, wjob, stopper>>

\* DoWork returns or throws; both lead to OnJobComplete.
DoWorkReturns(w) ==
  /\ wpc[w] = "work"
  /\ wpc' = [wpc EXCEPT ![w] = "complete"]
  /\ UNCHANGED <<m_running, m_pauseJobs, m_jobCounter, m_jobQueue, m_processing,
                 m_workers, m_jobEvent, itemVars, heap, wjob, wcallback, stopper>>

\* OnJobComplete, first critical section: copy the work item and leave.
OnJobCompleteCopies(w) ==
  /\ wpc[w] = "complete"
  /\ wjob[w] \in m_processing
  /\ wcallback' = [wcallback EXCEPT ![w] = jobCallback[wjob[w]]]
  /\ wpc' = [wpc EXCEPT ![w] = "callback"]
  /\ UNCHANGED <<m_running, m_pauseJobs, m_jobCounter, m_jobQueue, m_processing,
                 m_workers, m_jobEvent, itemVars, heap, wjob, stopper>>

\* The client's OnJobComplete, if the copy has a callback, returns or throws.
OnJobCompleteCalls(w) ==
  /\ wpc[w] = "callback"
  /\ wcallback' = [wcallback EXCEPT ![w] = FALSE]
  /\ wpc' = [wpc EXCEPT ![w] = "erase"]
  /\ UNCHANGED <<m_running, m_pauseJobs, m_jobCounter, m_jobQueue, m_processing,
                 m_workers, m_jobEvent, itemVars, heap, wjob, stopper>>

\* OnJobComplete, second critical section: the job leaves m_processing.
OnJobCompleteErases(w) ==
  /\ wpc[w] = "erase"
  /\ m_processing' = m_processing \ {wjob[w]}
  /\ wpc' = [wpc EXCEPT ![w] = "free"]
  /\ UNCHANGED <<m_running, m_pauseJobs, m_jobCounter, m_jobQueue, m_workers,
                 m_jobEvent, itemVars, heap, wjob, wcallback, stopper>>

\* FreeJob outside m_section, then back to GetNextJob.
OnJobCompleteFrees(w) ==
  /\ wpc[w] = "free"
  /\ heap' = [heap EXCEPT ![wjob[w]] = "freed"]
  /\ wjob' = [wjob EXCEPT ![w] = NoJob]
  /\ wpc' = [wpc EXCEPT ![w] = "next"]
  /\ UNCHANGED <<m_running, m_pauseJobs, m_jobCounter, m_jobQueue, m_processing,
                 m_workers, m_jobEvent, itemVars, wcallback, stopper>>

-----------------------------------------------------------------------------
\* What CJobWorker::Process does between two of its waits.
WorkerStep(w) ==
  \/ GetNextJob(w)
  \/ GetNextJobSleeps(w)
  \/ GetNextJobQuits(w)
  \/ WaitBlocks(w)
  \/ WaitReturns(w)
  \/ WaitExpires(w)
  \/ OnJobProgress(w)
  \/ OnJobProgressReturns(w)
  \/ DoWorkReturns(w)
  \/ OnJobCompleteCopies(w)
  \/ OnJobCompleteCalls(w)
  \/ OnJobCompleteErases(w)
  \/ OnJobCompleteFrees(w)

AddJob(j) ==
  \/ \E p \in UsedPriorities, cb \in BOOLEAN : AddJobAccepted(j, p, cb)
  \/ AddJobRefused(j)

Shutdown == CancelJobs \/ CancelJobsWake \/ CancelJobsReturn \/ Restart

Next ==
  \/ \E j \in Jobs : AddJob(j)
  \/ \E id \in 1 .. IdModulus - 1 : CancelJob(id)
  \/ PauseJobs
  \/ UnPauseJobs
  \/ Shutdown
  \/ \E w \in Workers : WorkerStep(w)

Spec == Init /\ [][Next]_vars

(***************************************************************************)
(* A worker thread is scheduled, its 30 s wait expires, the spinning       *)
(* caller of CancelJobs is scheduled, and a job's DoWork returns after     *)
(* finitely many progress reports.  Clients owe nothing.                   *)
(***************************************************************************)
Fairness ==
  /\ \A w \in Workers : WF_vars(WorkerStep(w)) /\ SF_vars(DoWorkReturns(w))
  /\ WF_vars(CancelJobsWake)
  /\ WF_vars(CancelJobsReturn)

FairSpec == Spec /\ Fairness

-----------------------------------------------------------------------------
(***************************************************************************)
(* Safety                                                                  *)
(***************************************************************************)
AtMost(p) == {j \in m_processing : jobPriority[j] <= p}

(***************************************************************************)
(* "Lower priority jobs are executed only if there are sufficient spare    *)
(* worker threads free to allow for higher priority jobs that may arise"   *)
(* (JobManager.h): the jobs in progress at priority p or below never take  *)
(* more than GetMaxWorkers(p) threads, whatever order jobs come and go in. *)
(***************************************************************************)
RoomForHigherPriority ==
  \A p \in Priorities : Cardinality(AtMost(p)) <= GetMaxWorkers(p)

(***************************************************************************)
(* StartWorkers starts a thread only when every one is busy, so the pool   *)
(* never outgrows the threads the most urgent priority in use is allowed,  *)
(* and m_processing never outgrows the pool, although jobs are popped,     *)
(* completed and cancelled concurrently.                                   *)
(***************************************************************************)
PoolIsBounded ==
  /\ \E p \in UsedPriorities : Cardinality(m_workers) <= GetMaxWorkers(p)
  /\ Cardinality(m_processing) <= Cardinality(m_workers)

(***************************************************************************)
(* A job pointer reachable from a queue, from m_processing or from a       *)
(* worker that still uses it is never one that was deleted, so no path of  *)
(* CancelJob, CancelJobs and OnJobComplete deletes a job twice or lets a   *)
(* worker run on a deleted one.                                            *)
(***************************************************************************)
NoDanglingJob ==
  /\ \A j \in Queued \cup m_processing : heap[j] = "owned"
  /\ \A w \in Workers : wpc[w] \in Busy \cup {"free"} => heap[wjob[w]] = "owned"

(***************************************************************************)
(* A job is in one place: at one position of one queue, or with one worker *)
(* thread.  m_processing is exactly what the busy workers hold.            *)
(***************************************************************************)
OneOwner ==
  /\ \A p, q \in Priorities : \A i \in DOMAIN m_jobQueue[p], k \in DOMAIN m_jobQueue[q] :
       m_jobQueue[p][i] = m_jobQueue[q][k] => p = q /\ i = k
  /\ Queued \cap m_processing = {}
  /\ m_processing = {wjob[w] : w \in {v \in Workers : wpc[v] \in Busy}}
  /\ \A v, w \in Workers :
       wpc[v] \in Busy \cup {"free"} /\ wpc[w] \in Busy \cup {"free"} /\ wjob[v] = wjob[w]
         => v = w

\* A worker that will look at the queues again without waiting for a signal.
Awake(w) == wpc[w] \notin {"none", "enter", "blocked"}

(***************************************************************************)
(* No lost wakeup: while a job that may run is queued, some worker is on   *)
(* its way to PopJob, or the event is set and somebody is waiting for it.  *)
(* The gap between PopJob finding nothing and WaitMSec, one Set() for two  *)
(* AddJob calls and StartWorkers' early return never strand a job on the   *)
(* 30 s timeout.                                                           *)
(***************************************************************************)
NoStrandedJob ==
  (\E p \in Priorities : p # PRIORITY_LOW_PAUSABLE /\ m_jobQueue[p] # <<>>) =>
    \/ \E w \in Workers : Awake(w)
    \/ m_jobEvent /\ \E w \in Workers : wpc[w] \in {"enter", "blocked"}

(***************************************************************************)
(* "Should be called prior to destroying any objects that may be being     *)
(* used as callbacks" (JobManager.h): once CancelJobs has returned and     *)
(* until Restart, no thread can call a client any more, and nothing is     *)
(* left queued or in progress.                                             *)
(***************************************************************************)
QuietAfterCancelJobs ==
  stopper = "returned" =>
    /\ \A w \in Workers : wpc[w] = "none"
    /\ Queued = {}
    /\ m_processing = {}

\* An id handed out is valid (not 0), although m_jobCounter wraps around, and
\* no other live job has it, so CancelJob(id) can only hit the caller's job.
IdsIdentifyJobs ==
  LET live == Queued \cup m_processing IN
  /\ \A j \in live : jobId[j] # 0
  /\ \A i, j \in live : jobId[i] = jobId[j] => i = j

(***************************************************************************)
(* PopJob never takes a job while a more urgent one is queued: the caps    *)
(* grow with the priority, so a free slot for the lower one is a free slot *)
(* for the higher one.  Within a priority jobs start in the order of their *)
(* AddJob calls, whatever was cancelled in between.                        *)
(***************************************************************************)
MostUrgentFirst ==
  [][\A j \in Jobs : j \in m_processing' \ m_processing =>
       /\ \A p \in Priorities : p > jobPriority[j] => m_jobQueue[p] = <<>>
       /\ j = Head(m_jobQueue[jobPriority[j]])]_vars

(***************************************************************************)
(* Liveness                                                                *)
(***************************************************************************)
\* Every job that is queued with a priority that PauseJobs does not hold back
\* is eventually run or deleted.
QueuedJobsLeaveTheQueue ==
  \A j \in Jobs :
    j \in Queued /\ jobPriority[j] # PRIORITY_LOW_PAUSABLE ~> j \notin Queued

\* CancelJobs returns: setting the event again and again ends every worker.
CancelJobsTerminates == stopper = "spinning" ~> stopper # "spinning"

(***************************************************************************)
(* What a comment of JobManager.h says, and the code does not do.          *)
(***************************************************************************)
\* UnPauseJobs: "Resumes queueing of (previously paused) jobs with priority
\* PRIORITY_LOW_PAUSABLE": once it is called, a job it held back is run unless
\* it is paused or cancelled again.
UnPausedJobsResume ==
  \A j \in Jobs :
    j \in Queued /\ ~m_pauseJobs ~> j \notin Queued \/ m_pauseJobs

=============================================================================
