------------------------------ MODULE JobQueue ------------------------------
(***************************************************************************)
(* CJobQueue (xbmc/utils/JobManager.cpp) on top of CJobManager: a queue of *)
(* unique jobs that hands at most JobsAtOnce of them to the manager and is *)
(* the callback of each.                                                   *)
(*                                                                         *)
(* CJobQueue has a critical section of its own, taken before the manager's *)
(* and held across the calls it makes to it.  Every operation but          *)
(* CancelJobs makes at most one such call and is one action.               *)
(***************************************************************************)
EXTENDS JobManager, SequencesExt

CONSTANTS Content,        \* job -> what CJob::operator== compares
          JobsAtOnce,     \* m_jobsAtOnce
          QueuePriority,  \* m_priority
          Lifo,           \* m_lifo
          CancelContents  \* what clients pass to CancelJob

Contents == {Content[j] : j \in Jobs}

ASSUME ContentAssumption == DOMAIN Content = Jobs
ASSUME QueueAssumption ==
  /\ JobsAtOnce \in Nat \ {0}
  /\ QueuePriority \in UsedPriorities
  /\ Lifo \in BOOLEAN
  /\ CancelContents \subseteq Contents

VARIABLES
  queue,       \* m_jobQueue; the back is handed over next
  processing,  \* m_processing: the jobs handed over
  cancelAt,    \* 0, or the entry of m_processing CancelJobs is to cancel next
  handled,     \* worker -> it has been through OnJobComplete of the queue
  revoked      \* history: the jobs CancelJob and CancelJobs have removed

queueVars == <<queue, processing, cancelAt, handled, revoked>>
allVars == <<vars, queueVars>>

\* m_section is free: its only holder across several steps is CancelJobs.
SectionFree == cancelAt = 0

QueueTypeOK ==
  /\ queue \in Seq(Jobs)
  /\ processing \in Seq(Jobs) /\ Len(processing) <= JobsAtOnce
  /\ cancelAt \in 0 .. Len(processing) + 1
  /\ handled \in [Workers -> BOOLEAN]
  /\ revoked \in SUBSET Jobs

QueueInit ==
  /\ Init
  /\ queue = <<>>
  /\ processing = <<>>
  /\ cancelAt = 0
  /\ handled = [w \in Workers |-> FALSE]
  /\ revoked = {}

-----------------------------------------------------------------------------
(***************************************************************************)
(* find() over a list of CJobPointers: the places it may return, 0 when    *)
(* there is none.  Comparing with a job that was deleted may give either   *)
(* result.                                                                 *)
(***************************************************************************)
MayEqual(j, c) == heap[j] = "freed" \/ Content[j] = c
MayDiffer(j, c) == heap[j] = "freed" \/ Content[j] # c

Find(s, c) ==
  {i \in DOMAIN s : MayEqual(s[i], c) /\ \A k \in 1 .. i - 1 : MayDiffer(s[k], c)}
  \cup {i \in {0} : \A k \in DOMAIN s : MayDiffer(s[k], c)}

\* CJobPointer::m_id: AddJob of a cancelled manager returned 0.
PointerId(j) == IF heap[j] = "refused" THEN 0 ELSE jobId[j]

\* CJobManager::CancelJob, an id that is not known included.
ManagerCancels(id) ==
  \/ CancelJob(id)
  \/ /\ \A j \in Queued \cup m_processing : jobId[j] # id
     /\ UNCHANGED vars

\* delete a job the manager has never seen.
FreeJobs(js) ==
  /\ heap' = [j \in Jobs |-> IF j \in js THEN "freed" ELSE heap[j]]
  /\ UNCHANGED <<m_running, m_pauseJobs, m_jobCounter, m_jobQueue, m_processing,
                 m_workers, m_jobEvent, itemVars, workerVars, stopper>>

\* The last act of AddJob and OnJobComplete, on lists q and p.
QueueNextJob(q, p) ==
  \/ /\ q # <<>> /\ Len(p) < JobsAtOnce
     /\ AddJobAccepted(Last(q), QueuePriority, TRUE) \/ AddJobRefused(Last(q))
     /\ queue' = Front(q)
     /\ processing' = Append(p, Last(q))
  \/ /\ q = <<>> \/ Len(p) >= JobsAtOnce
     /\ queue' = q
     /\ processing' = p
     /\ UNCHANGED vars

\* Mistake: only the waiting jobs are searched for an equal one.
QueueAddsJobUnsearched(j) ==
  /\ SectionFree
  /\ heap[j] = "new" /\ j \notin ToSet(queue)
  /\ 0 \in Find(queue, Content[j])
  /\ QueueNextJob(IF Lifo THEN Append(queue, j) ELSE <<j>> \o queue, processing)
  /\ UNCHANGED <<cancelAt, handled, revoked>>

QueueAddsJob(j) ==
  /\ SectionFree
  /\ heap[j] = "new" /\ j \notin ToSet(queue)
  /\ 0 \in Find(queue, Content[j])
  /\ 0 \in Find(processing, Content[j])
  /\ QueueNextJob(IF Lifo THEN Append(queue, j) ELSE <<j>> \o queue, processing)
  /\ UNCHANGED <<cancelAt, handled, revoked>>

QueueHasJob(j) ==
  /\ SectionFree
  /\ heap[j] = "new" /\ j \notin ToSet(queue)
  /\ Find(queue, Content[j]) \cup Find(processing, Content[j]) # {0}
  /\ FreeJobs({j})
  /\ UNCHANGED queueVars

\* Mistake: the entry stays in m_processing.
QueueCancelsProcessingKeeps(c) ==
  /\ SectionFree
  /\ \E i \in Find(processing, c) \ {0} :
       /\ ManagerCancels(PointerId(processing[i]))
       /\ revoked' = revoked \cup {processing[i]}
  /\ UNCHANGED <<queue, processing, cancelAt, handled>>

\* CancelJob of a job handed over: no other job is handed over in its place.
QueueCancelsProcessing(c) ==
  /\ SectionFree
  /\ \E i \in Find(processing, c) \ {0} :
       /\ ManagerCancels(PointerId(processing[i]))
       /\ processing' = DropAt(processing, i)
       /\ revoked' = revoked \cup {processing[i]}
  /\ UNCHANGED <<queue, cancelAt, handled>>

QueueCancelsQueued(c) ==
  /\ SectionFree
  /\ 0 \in Find(processing, c)
  /\ \E i \in Find(queue, c) \ {0} :
       /\ FreeJobs({queue[i]})
       /\ queue' = DropAt(queue, i)
       /\ revoked' = revoked \cup {queue[i]}
  /\ UNCHANGED <<processing, cancelAt, handled>>

(***************************************************************************)
(* CancelJobs cancels the entries of m_processing one by one, each in a    *)
(* critical section of the manager; the worker threads run in between.     *)
(***************************************************************************)
QueueCancelJobs ==
  /\ SectionFree
  /\ queue # <<>> \/ processing # <<>>
  /\ cancelAt' = 1
  /\ UNCHANGED <<vars, queue, processing, handled, revoked>>

QueueCancelsNext ==
  /\ cancelAt \in DOMAIN processing
  /\ ManagerCancels(PointerId(processing[cancelAt]))
  /\ cancelAt' = cancelAt + 1
  /\ UNCHANGED <<queue, processing, handled, revoked>>

QueueCancelJobsReturns ==
  /\ cancelAt = Len(processing) + 1
  /\ FreeJobs(ToSet(queue))
  /\ revoked' = revoked \cup ToSet(queue) \cup ToSet(processing)
  /\ queue' = <<>>
  /\ processing' = <<>>
  /\ cancelAt' = 0
  /\ UNCHANGED handled

\* Mistakes: no entry is erased; no other job is handed over.
QueueOnJobCompleteKeeps(w) ==
  /\ SectionFree
  /\ wpc[w] = "callback" /\ wcallback[w] /\ ~handled[w]
  /\ QueueNextJob(queue, processing)
  /\ handled' = [handled EXCEPT ![w] = TRUE]
  /\ UNCHANGED <<cancelAt, revoked>>

QueueOnJobCompleteIdle(w) ==
  /\ SectionFree
  /\ wpc[w] = "callback" /\ wcallback[w] /\ ~handled[w]
  /\ \E i \in Find(processing, Content[wjob[w]]) :
       processing' = IF i = 0 THEN processing ELSE DropAt(processing, i)
  /\ handled' = [handled EXCEPT ![w] = TRUE]
  /\ UNCHANGED <<vars, queue, cancelAt, revoked>>

\* A worker thread runs the queue's OnJobComplete on its copy of the callback.
QueueOnJobComplete(w) ==
  /\ SectionFree
  /\ wpc[w] = "callback" /\ wcallback[w] /\ ~handled[w]
  /\ \E i \in Find(processing, Content[wjob[w]]) :
       QueueNextJob(queue, IF i = 0 THEN processing ELSE DropAt(processing, i))
  /\ handled' = [handled EXCEPT ![w] = TRUE]
  /\ UNCHANGED <<cancelAt, revoked>>

\* A step of the manager's worker; it returns from the client's OnJobComplete
\* only when that is done.
QueueWorkerStep(w) ==
  /\ WorkerStep(w)
  /\ wpc[w] = "callback" /\ wcallback[w] => handled[w]
  /\ handled' = [handled EXCEPT ![w] = @ /\ wpc'[w] = "callback"]
  /\ UNCHANGED <<queue, processing, cancelAt, revoked>>

QueueNext ==
  \/ \E j \in Jobs : QueueAddsJob(j) \/ QueueHasJob(j)
  \/ \E c \in CancelContents : QueueCancelsProcessing(c) \/ QueueCancelsQueued(c)
  \/ QueueCancelJobs
  \/ QueueCancelsNext
  \/ QueueCancelJobsReturns
  \/ \E w \in Workers : QueueOnJobComplete(w) \/ QueueWorkerStep(w)

QueueSpec == QueueInit /\ [][QueueNext]_allVars

(***************************************************************************)
(* The worker threads and the caller of CancelJobs are scheduled, and a    *)
(* thread that waits for m_section gets it.                                *)
(***************************************************************************)
QueueFairness ==
  /\ \A w \in Workers :
       /\ WF_allVars(QueueWorkerStep(w))
       /\ SF_allVars(DoWorkReturns(w) /\ QueueWorkerStep(w))
       /\ SF_allVars(QueueOnJobComplete(w))
  /\ WF_allVars(QueueCancelsNext)
  /\ WF_allVars(QueueCancelJobsReturns)

QueueFairSpec == QueueSpec /\ QueueFairness

-----------------------------------------------------------------------------
(***************************************************************************)
(* Safety                                                                  *)
(***************************************************************************)
\* Withdrawn, by a call that returned or by CancelJobs so far.
Withdrawn == revoked \cup {processing[i] : i \in {k \in DOMAIN processing : k < cancelAt}}

\* The jobs the manager holds for the queue: not withdrawn, not yet reported.
InFlight ==
  {j \in (Queued \cup m_processing) \ Withdrawn :
     \A w \in Workers : wjob[w] = j => ~handled[w] /\ wpc[w] # "erase"}

\* The entries of m_processing that are not about to be cleared.
Listed == {processing[i] : i \in {k \in DOMAIN processing : k >= cancelAt}}

(***************************************************************************)
(* Each entry of m_processing is a job the manager still has, and whose    *)
(* completion is still to come: find() never compares with a deleted job,  *)
(* and no entry is left that nothing will ever remove, although completion *)
(* removes whichever entry has equal contents.  Conversely, but for what   *)
(* the late completion of a withdrawn job does to an equal one, what the   *)
(* manager holds is listed, so JobsAtOnce bounds it and CancelJobs, which  *)
(* walks m_processing, reaches all of it.                                  *)
(***************************************************************************)
EntriesAreInFlight ==
  /\ QueueTypeOK
  /\ Listed \subseteq InFlight
  /\ \A j \in InFlight \ Listed : \E k \in revoked \ {j} : Content[k] = Content[j]

(***************************************************************************)
(* "Jobs are unique, so queueing multiple copies of the same job (based on *)
(* the CJob::operator==) will not add additional jobs": no two jobs that   *)
(* wait or are listed as handed over are equal, however additions,         *)
(* cancellations and completions interleave.                               *)
(***************************************************************************)
JobsAreUnique ==
  LET all == queue \o processing IN
  \A i, k \in DOMAIN all : Content[all[i]] = Content[all[k]] => i = k

HasRoom == queue # <<>> /\ Len(processing) < JobsAtOnce

(***************************************************************************)
(* A job waits only while JobsAtOnce others are handed over, and only      *)
(* CancelJob makes room without using it: no order of additions,           *)
(* completions, late completions of withdrawn jobs and CancelJobs does.    *)
(***************************************************************************)
RoomIsUsed == [][HasRoom' /\ ~HasRoom => revoked' # revoked]_allVars

(***************************************************************************)
(* Liveness                                                                *)
(***************************************************************************)
\* IsProcessing() does not stay true by itself: every job that was added is
\* handed over or deleted, and what was handed over completes.
QueueDrains ==
  /\ \A j \in Jobs : j \in ToSet(queue) ~> j \notin ToSet(queue)
  /\ processing # <<>> ~> processing = <<>>

(***************************************************************************)
(* What a comment of JobManager.h says of the class, and the code does     *)
(* not do.                                                                 *)
(***************************************************************************)
\* "jobsAtOnce number of jobs at once to process": of the jobs that were not
\* cancelled, no more than that are with the manager.
AtMostJobsAtOnce == Cardinality(InFlight) <= JobsAtOnce

=============================================================================
