-------------------------- MODULE JobManagerProofs --------------------------
(***************************************************************************)
(* Theorems about CJobManager, for every number of jobs, threads and       *)
(* priorities in use, with their proofs: its invariants, and that every    *)
(* step of it is a step of JobService, or one no client can tell.          *)
(***************************************************************************)
EXTENDS JobManagerService, FiniteSetTheorems, SequenceTheorems, TLAPS

\* The four priorities are natural numbers; the pausable one is among them.
LEMMA PrioritiesAreNat == Priorities \subseteq Nat /\ PRIORITY_LOW_PAUSABLE \in Priorities
BY DEF Priorities, PRIORITY_LOW_PAUSABLE, PRIORITY_HIGH

\* Erasing one element leaves a sequence of the same elements.
LEMMA DropAtType ==
  ASSUME NEW S, NEW s \in Seq(S), NEW i \in DOMAIN s
  PROVE  DropAt(s, i) \in Seq(S)
BY DEF DropAt

\* The counter stays within its width when it wraps and skips 0.
LEMMA NextIdType ==
  ASSUME m_jobCounter \in 0 .. IdModulus - 1
  PROVE  NextId \in 0 .. IdModulus - 1
BY IdModulusAssumption DEF NextId

\* The types are inductive: one step per action of the manager.
LEMMA NextTypeOK ==
  ASSUME TypeOK, [Next]_vars
  PROVE  TypeOK'
<1> USE DEF TypeOK, itemVars, workerVars, WorkerPC
<1>1. ASSUME NEW j \in Jobs, NEW p \in UsedPriorities, NEW cb \in BOOLEAN,
             AddJobAccepted(j, p, cb)
      PROVE  TypeOK'
  <2>1. p \in Priorities
    BY PrioritiesAssumption
  <2>2. m_jobQueue' \in [Priorities -> Seq(Jobs)]
    BY <1>1, <2>1 DEF AddJobAccepted
  <2>3. m_jobCounter' \in 0 .. IdModulus - 1 /\ jobId' \in [Jobs -> 0 .. IdModulus - 1]
    BY <1>1, NextIdType DEF AddJobAccepted
  <2>4. /\ m_jobEvent' \in BOOLEAN
        /\ m_workers' \in SUBSET Workers
        /\ wpc' \in [Workers -> WorkerPC]
    BY <1>1 DEF AddJobAccepted, StartWorkers
  <2> QED
    BY <1>1, <2>1, <2>2, <2>3, <2>4 DEF AddJobAccepted
<1>2. ASSUME NEW j \in Jobs, AddJobRefused(j) PROVE TypeOK'
  BY <1>2 DEF AddJobRefused
<1>3. ASSUME NEW id \in 1 .. IdModulus - 1, CancelQueuedJob(id) PROVE TypeOK'
  <2>0. PICK p \in Priorities : \E i \in DOMAIN m_jobQueue[p] :
          /\ heap' = [heap EXCEPT ![m_jobQueue[p][i]] = "freed"]
          /\ m_jobQueue' = [m_jobQueue EXCEPT ![p] = DropAt(@, i)]
    BY <1>3 DEF CancelQueuedJob
  <2>1. PICK i \in DOMAIN m_jobQueue[p] :
          /\ heap' = [heap EXCEPT ![m_jobQueue[p][i]] = "freed"]
          /\ m_jobQueue' = [m_jobQueue EXCEPT ![p] = DropAt(@, i)]
    BY <2>0
  <2>2. m_jobQueue' \in [Priorities -> Seq(Jobs)]
    BY <2>1, DropAtType
  <2> QED
    BY <1>3, <2>1, <2>2 DEF CancelQueuedJob
<1>4. ASSUME NEW id \in 1 .. IdModulus - 1, CancelProcessingJob(id) PROVE TypeOK'
  BY <1>4 DEF CancelProcessingJob
<1>5. CASE PauseJobs \/ UnPauseJobs
  BY <1>5 DEF PauseJobs, UnPauseJobs
<1>6. CASE Shutdown
  <2>1. CASE CancelJobs
    <3>1. m_jobQueue' \in [Priorities -> Seq(Jobs)]
      BY <2>1 DEF CancelJobs
    <3>2. /\ heap' \in [Jobs -> {"new", "owned", "refused", "freed"}]
          /\ jobCallback' \in [Jobs -> BOOLEAN]
      BY <2>1, Zenon DEF CancelJobs
    <3> QED
      BY <2>1, <3>1, <3>2 DEF CancelJobs
  <2>2. CASE CancelJobsWake \/ CancelJobsReturn \/ Restart
    BY <2>2 DEF CancelJobsWake, CancelJobsReturn, Restart
  <2> QED
    BY <1>6, <2>1, <2>2 DEF Shutdown
<1>7. ASSUME NEW w \in Workers, WorkerStep(w) PROVE TypeOK'
  <2>1. CASE GetNextJob(w)
    BY <2>1 DEF GetNextJob, PopJob, Eligible
  <2>2. CASE GetNextJobSleeps(w) \/ GetNextJobQuits(w)
    BY <2>2 DEF GetNextJobSleeps, GetNextJobQuits
  <2>3. CASE WaitBlocks(w) \/ WaitReturns(w) \/ WaitExpires(w)
    BY <2>3 DEF WaitBlocks, WaitReturns, WaitExpires
  <2>4. CASE OnJobProgress(w) \/ OnJobProgressReturns(w) \/ DoWorkReturns(w)
    BY <2>4 DEF OnJobProgress, OnJobProgressReturns, DoWorkReturns
  <2>5. CASE OnJobCompleteCopies(w) \/ OnJobCompleteCalls(w)
    BY <2>5 DEF OnJobCompleteCopies, OnJobCompleteCalls
  <2>6. CASE OnJobCompleteErases(w) \/ OnJobCompleteFrees(w)
    BY <2>6 DEF OnJobCompleteErases, OnJobCompleteFrees
  <2> QED
    BY <1>7, <2>1, <2>2, <2>3, <2>4, <2>5, <2>6 DEF WorkerStep
<1>8. CASE UNCHANGED vars
  BY <1>8 DEF vars
<1> QED
  BY <1>1, <1>2, <1>3, <1>4, <1>5, <1>6, <1>7, <1>8 DEF Next, AddJob, CancelJob

\* The constructor's state is of these types.
LEMMA InitTypeOK == Init => TypeOK
<1> SUFFICES ASSUME Init PROVE TypeOK
  OBVIOUS
<1>1. m_jobQueue \in [Priorities -> Seq(Jobs)]
  BY DEF Init
<1>2. /\ m_jobCounter \in 0 .. IdModulus - 1
      /\ jobId \in [Jobs -> 0 .. IdModulus - 1]
  BY FirstCountersAssumption, IdModulusAssumption DEF Init
<1>3. jobPriority \in [Jobs -> Priorities]
  BY PrioritiesAreNat DEF Init
<1> QED
  BY <1>1, <1>2, <1>3 DEF Init, TypeOK, WorkerPC

\* Every variable keeps its type, whatever the clients and threads do.
THEOREM TypeCorrect == Spec => []TypeOK
BY InitTypeOK, NextTypeOK, PTL DEF Spec

-----------------------------------------------------------------------------
(***************************************************************************)
(* Where a job may be.  The invariant that makes RoomForHigherPriority,    *)
(* NoDanglingJob and OneOwner inductive: a worker between OnJobComplete's  *)
(* last critical section and FreeJob still holds its job, so that nobody   *)
(* else may delete it.                                                     *)
(***************************************************************************)
Holds(w) == wpc[w] \in Busy \cup {"free"}

QueuedJobsAreOwned ==
  \A p \in Priorities : \A i \in DOMAIN m_jobQueue[p] :
    heap[m_jobQueue[p][i]] = "owned" /\ jobPriority[m_jobQueue[p][i]] = p

QueuedOnce ==
  \A p, q \in Priorities : \A i \in DOMAIN m_jobQueue[p], k \in DOMAIN m_jobQueue[q] :
    m_jobQueue[p][i] = m_jobQueue[q][k] => p = q /\ i = k

HeldJobsAreOwned ==
  \A w \in Workers : Holds(w) =>
    /\ wjob[w] \in Jobs
    /\ heap[wjob[w]] = "owned"
    /\ \A p \in Priorities : \A i \in DOMAIN m_jobQueue[p] : m_jobQueue[p][i] # wjob[w]

HeldOnce == \A v, w \in Workers : Holds(v) /\ Holds(w) /\ wjob[v] = wjob[w] => v = w

ProcessingIsHeld ==
  \A j \in Jobs : j \in m_processing <=> \E w \in Workers : wpc[w] \in Busy /\ wjob[w] = j

PoolIsAlive == \A w \in Workers : w \in m_workers <=> wpc[w] # "none"

Placement ==
  /\ QueuedJobsAreOwned
  /\ QueuedOnce
  /\ HeldJobsAreOwned
  /\ HeldOnce
  /\ ProcessingIsHeld
  /\ PoolIsAlive

\* The elements of a queue after AddJob, CancelJob and PopJob.
LEMMA AppendElements ==
  ASSUME NEW S, NEW s \in Seq(S), NEW x \in S
  PROVE  /\ DOMAIN Append(s, x) = 1 .. Len(s) + 1
         /\ \A i \in DOMAIN s : i \in DOMAIN Append(s, x) /\ Append(s, x)[i] = s[i]
         /\ \A i \in DOMAIN Append(s, x) :
              Append(s, x)[i] = IF i \in DOMAIN s THEN s[i] ELSE x
OBVIOUS

\* What CancelJob leaves of a queue: each element moved by at most one place,
\* the erased one gone.
LEMMA DropAtElements ==
  ASSUME NEW S, NEW s \in Seq(S), NEW i \in DOMAIN s
  PROVE  /\ DOMAIN DropAt(s, i) = 1 .. Len(s) - 1
         /\ \A k \in DOMAIN DropAt(s, i) :
              DropAt(s, i)[k] = IF k < i THEN s[k] ELSE s[k + 1]
<1> DEFINE a == SubSeq(s, 1, i - 1)
           b == SubSeq(s, i + 1, Len(s))
<1>1. /\ a \in Seq(S) /\ Len(a) = i - 1
      /\ \A k \in 1 .. i - 1 : a[k] = s[k]
  OBVIOUS
<1>2. /\ b \in Seq(S) /\ Len(b) = Len(s) - i
      /\ \A k \in 1 .. Len(s) - i : b[k] = s[i + k]
  OBVIOUS
<1>3. DropAt(s, i) = a \o b
  BY DEF DropAt
<1> HIDE DEF a, b
<1>4. /\ Len(a \o b) = Len(s) - 1
      /\ a \o b \in Seq(S)
      /\ \A k \in 1 .. Len(s) - 1 :
           (a \o b)[k] = IF k < i THEN a[k] ELSE b[k - (i - 1)]
  <2>1. /\ a \o b \in Seq(S)
        /\ Len(a \o b) = Len(a) + Len(b)
        /\ \A k \in 1 .. Len(a) + Len(b) :
             (a \o b)[k] = IF k <= Len(a) THEN a[k] ELSE b[k - Len(a)]
    BY <1>1, <1>2, ConcatProperties
  <2>2. Len(a) + Len(b) = Len(s) - 1
    BY <1>1, <1>2
  <2>3. \A k \in 1 .. Len(s) - 1 : k <= Len(a) <=> k < i
    BY <1>1
  <2> QED
    BY <1>1, <2>1, <2>2, <2>3
<1>5. ASSUME NEW k \in 1 .. Len(s) - 1, k >= i
      PROVE  b[k - (i - 1)] = s[k + 1]
  <2>1. k - (i - 1) \in 1 .. Len(s) - i /\ i + (k - (i - 1)) = k + 1
    BY <1>5
  <2> QED
    BY <2>1, <1>2
<1>6. DOMAIN (a \o b) = 1 .. Len(s) - 1
  BY <1>4
<1>7. ASSUME NEW k \in 1 .. Len(s) - 1
      PROVE  (a \o b)[k] = IF k < i THEN s[k] ELSE s[k + 1]
  <2>1. k \in Int /\ i \in Int
    OBVIOUS
  <2>2. CASE k < i
    <3>1. k \in 1 .. i - 1
      BY <2>1, <2>2
    <3> QED
      BY <2>2, <3>1, <1>1, <1>4
  <2>3. CASE k >= i
    <3>1. b[k - (i - 1)] = s[k + 1]
      BY <2>3, <1>5
    <3>2. (a \o b)[k] = b[k - (i - 1)]
      BY <2>1, <2>3, <1>4
    <3>3. ~(k < i)
      BY <2>1, <2>3
    <3> QED
      BY <3>1, <3>2, <3>3, Zenon
  <2>4. k < i \/ k >= i
    BY <2>1
  <2> QED
    BY <2>2, <2>3, <2>4, Zenon
<1> QED
  BY <1>3, <1>6, <1>7

\* What PopJob leaves of a queue: each element one place further to the front.
LEMMA TailElements ==
  ASSUME NEW S, NEW s \in Seq(S), s # <<>>
  PROVE  /\ Tail(s) \in Seq(S)
         /\ DOMAIN Tail(s) = 1 .. Len(s) - 1
         /\ \A k \in DOMAIN Tail(s) : Tail(s)[k] = s[k + 1]
         /\ 1 \in DOMAIN s /\ Head(s) = s[1]
OBVIOUS

-----------------------------------------------------------------------------
\* StartWorkers starts an idle thread or none.
LEMMA StartWorkersPool ==
  ASSUME TypeOK, PoolIsAlive, NEW p \in Priorities, StartWorkers(p)
  PROVE  /\ \A w \in Workers : wpc'[w] = wpc[w] \/ (wpc[w] = "none" /\ wpc'[w] = "next")
         /\ PoolIsAlive'
BY DEF StartWorkers, TypeOK, PoolIsAlive

\* Steps that move a thread without touching a queue, a job or m_processing.
LEMMA QuietStepPlacement ==
  ASSUME Placement, PoolIsAlive',
         UNCHANGED <<m_jobQueue, heap, jobPriority, wjob, m_processing>>,
         \A w \in Workers : /\ wpc'[w] \in Busy <=> wpc[w] \in Busy
                            /\ wpc'[w] = "free" <=> wpc[w] = "free"
  PROVE  Placement'
BY DEF Placement, QueuedJobsAreOwned, QueuedOnce, HeldJobsAreOwned, HeldOnce,
       ProcessingIsHeld, Holds

\* AddJob puts a job that was nowhere at one place of one queue.
LEMMA AddJobAcceptedPlacement ==
  ASSUME TypeOK, Placement,
         NEW j \in Jobs, NEW p \in UsedPriorities, NEW cb \in BOOLEAN,
         AddJobAccepted(j, p, cb)
  PROVE  Placement'
<1> USE DEF Placement
<1>1. p \in Priorities /\ m_jobQueue[p] \in Seq(Jobs)
  BY PrioritiesAssumption DEF TypeOK
<1>2. /\ \A q \in Priorities : \A i \in DOMAIN m_jobQueue[q] : m_jobQueue[q][i] \in Jobs \ {j}
      /\ \A w \in Workers : Holds(w) => wjob[w] # j
  BY DEF AddJobAccepted, TypeOK, QueuedJobsAreOwned, HeldJobsAreOwned
<1>3. /\ \A q \in Priorities \ {p} : m_jobQueue'[q] = m_jobQueue[q]
      /\ m_jobQueue'[p] = Append(m_jobQueue[p], j)
  BY <1>1 DEF AddJobAccepted, TypeOK
<1>4. /\ heap'[j] = "owned" /\ jobPriority'[j] = p
      /\ \A k \in Jobs \ {j} : heap'[k] = heap[k] /\ jobPriority'[k] = jobPriority[k]
  BY <1>1 DEF AddJobAccepted, TypeOK
<1>5. /\ PoolIsAlive'
      /\ \A w \in Workers : wpc'[w] = wpc[w] \/ (wpc[w] = "none" /\ wpc'[w] = "next")
  BY <1>1, StartWorkersPool DEF AddJobAccepted
<1>6. /\ wjob' = wjob /\ m_processing' = m_processing
      /\ \A w \in Workers : (wpc'[w] \in Busy <=> wpc[w] \in Busy) /\ (Holds(w)' <=> Holds(w))
  BY <1>5 DEF AddJobAccepted, Busy, Holds
<1>7. \A q \in Priorities : \A i \in DOMAIN m_jobQueue'[q] :
        \/ i \in DOMAIN m_jobQueue[q] /\ m_jobQueue'[q][i] = m_jobQueue[q][i]
        \/ q = p /\ i = Len(m_jobQueue[p]) + 1 /\ m_jobQueue'[q][i] = j
  BY <1>1, <1>3, AppendElements
<1>8. QueuedJobsAreOwned'
  BY <1>2, <1>4, <1>7 DEF QueuedJobsAreOwned
<1>9. QueuedOnce'
  BY <1>2, <1>7 DEF QueuedOnce
<1>10. HeldJobsAreOwned'
  BY <1>2, <1>4, <1>6, <1>7 DEF HeldJobsAreOwned
<1>11. HeldOnce' /\ ProcessingIsHeld'
  BY <1>6 DEF HeldOnce, ProcessingIsHeld
<1> QED
  BY <1>5, <1>8, <1>9, <1>10, <1>11


\* A refused job was nowhere and stays nowhere.
LEMMA AddJobRefusedPlacement ==
  ASSUME TypeOK, Placement, NEW j \in Jobs, AddJobRefused(j)
  PROVE  Placement'
<1> USE DEF Placement, TypeOK
<1>1. /\ \A k \in Jobs \ {j} : heap'[k] = heap[k]
      /\ heap[j] # "owned"
      /\ UNCHANGED <<m_jobQueue, m_processing, m_workers, jobPriority, wpc, wjob>>
  BY DEF AddJobRefused, itemVars, workerVars
<1>2. QueuedJobsAreOwned'
  BY <1>1 DEF QueuedJobsAreOwned
<1>3. HeldJobsAreOwned'
  BY <1>1 DEF HeldJobsAreOwned, Holds
<1>4. QueuedOnce' /\ HeldOnce' /\ ProcessingIsHeld' /\ PoolIsAlive'
  BY <1>1 DEF QueuedOnce, HeldOnce, ProcessingIsHeld, PoolIsAlive, Holds
<1> QED
  BY <1>2, <1>3, <1>4

\* The job CancelJob deletes is in no other place of a queue and with no thread.
LEMMA CancelQueuedJobPlacement ==
  ASSUME TypeOK, Placement, NEW id \in 1 .. IdModulus - 1, CancelQueuedJob(id)
  PROVE  Placement'
<1> USE DEF Placement
<1>1. PICK p \in Priorities : \E i \in DOMAIN m_jobQueue[p] :
        /\ heap' = [heap EXCEPT ![m_jobQueue[p][i]] = "freed"]
        /\ m_jobQueue' = [m_jobQueue EXCEPT ![p] = DropAt(@, i)]
  BY DEF CancelQueuedJob
<1>2. PICK i \in DOMAIN m_jobQueue[p] :
        /\ heap' = [heap EXCEPT ![m_jobQueue[p][i]] = "freed"]
        /\ m_jobQueue' = [m_jobQueue EXCEPT ![p] = DropAt(@, i)]
  BY <1>1
<1>3. UNCHANGED <<m_processing, m_workers, jobPriority, wpc, wjob>>
  BY DEF CancelQueuedJob, itemVars, workerVars
<1>4. /\ m_jobQueue[p] \in Seq(Jobs) /\ i \in 1 .. Len(m_jobQueue[p])
      /\ m_jobQueue[p][i] \in Jobs
  BY DEF TypeOK
<1>5. \A k \in Jobs \ {m_jobQueue[p][i]} : heap'[k] = heap[k]
  BY <1>2, <1>4 DEF TypeOK
<1>6. DEFINE old(k) == IF k < i THEN k ELSE k + 1
<1>7. \A k \in DOMAIN m_jobQueue'[p] :
        /\ old(k) \in DOMAIN m_jobQueue[p] /\ old(k) # i
        /\ m_jobQueue'[p][k] = m_jobQueue[p][old(k)]
  <2>1. m_jobQueue'[p] = DropAt(m_jobQueue[p], i)
    BY <1>2 DEF TypeOK
  <2> QED
    BY <2>1, <1>4, DropAtElements
<1>8. \A q \in Priorities \ {p} : m_jobQueue'[q] = m_jobQueue[q]
  BY <1>2 DEF TypeOK
<1>9. \A k, l \in DOMAIN m_jobQueue'[p] : old(k) = old(l) => k = l
  <2>1. DOMAIN m_jobQueue'[p] \subseteq Int
    BY <1>2, <1>4, DropAtElements DEF TypeOK
  <2> QED
    BY <2>1, <1>4
<1> HIDE DEF old
<1>10. \A q \in Priorities : \A k \in DOMAIN m_jobQueue'[q] :
         \E l \in DOMAIN m_jobQueue[q] :
           /\ q = p => l # i /\ l = old(k)
           /\ q # p => l = k
           /\ m_jobQueue'[q][k] = m_jobQueue[q][l]
           /\ m_jobQueue[q][l] \in Jobs \ {m_jobQueue[p][i]}
  <2>1. \A q \in Priorities : \A l \in DOMAIN m_jobQueue[q] : m_jobQueue[q][l] \in Jobs
    BY DEF TypeOK
  <2>2. QueuedOnce
    OBVIOUS
  <2>3. ASSUME NEW q \in Priorities, NEW l \in DOMAIN m_jobQueue[q], q = p => l # i
        PROVE  m_jobQueue[q][l] # m_jobQueue[p][i]
    BY ONLY <2>2, <2>3, q \in Priorities, l \in DOMAIN m_jobQueue[q],
            p \in Priorities, i \in DOMAIN m_jobQueue[p] DEF QueuedOnce
  <2>4. ASSUME NEW k \in DOMAIN m_jobQueue'[p]
        PROVE  \E l \in DOMAIN m_jobQueue[p] :
                 /\ l # i /\ l = old(k)
                 /\ m_jobQueue'[p][k] = m_jobQueue[p][l]
                 /\ m_jobQueue[p][l] \in Jobs \ {m_jobQueue[p][i]}
    BY <1>7, <2>1, <2>3
  <2>5. ASSUME NEW q \in Priorities, q # p, NEW k \in DOMAIN m_jobQueue'[q]
        PROVE  /\ k \in DOMAIN m_jobQueue[q]
               /\ m_jobQueue'[q][k] = m_jobQueue[q][k]
               /\ m_jobQueue[q][k] \in Jobs \ {m_jobQueue[p][i]}
    BY <1>8, <2>1, <2>3, <2>5
  <2> QED
    BY <2>4, <2>5
<1>11. QueuedJobsAreOwned'
  BY <1>3, <1>5, <1>10 DEF QueuedJobsAreOwned
<1>12. QueuedOnce'
  <2> SUFFICES ASSUME NEW q \in Priorities, NEW r \in Priorities,
                      NEW k \in DOMAIN m_jobQueue'[q], NEW l \in DOMAIN m_jobQueue'[r],
                      m_jobQueue'[q][k] = m_jobQueue'[r][l]
               PROVE  q = r /\ k = l
    BY DEF QueuedOnce
  <2>1. PICK a \in DOMAIN m_jobQueue[q] :
          /\ q = p => a = old(k)
          /\ q # p => a = k
          /\ m_jobQueue'[q][k] = m_jobQueue[q][a]
    BY <1>10
  <2>2. PICK b \in DOMAIN m_jobQueue[r] :
          /\ r = p => b = old(l)
          /\ r # p => b = l
          /\ m_jobQueue'[r][l] = m_jobQueue[r][b]
    BY <1>10
  <2>3. q = r /\ a = b
    <3>1. m_jobQueue[q][a] = m_jobQueue[r][b]
      BY <2>1, <2>2
    <3>2. QueuedOnce
      OBVIOUS
    <3> QED
      BY ONLY <3>1, <3>2, q \in Priorities, r \in Priorities,
              a \in DOMAIN m_jobQueue[q], b \in DOMAIN m_jobQueue[r] DEF QueuedOnce
  <2> QED
    BY <2>1, <2>2, <2>3, <1>9
<1>13. HeldJobsAreOwned'
  <2>1. \A w \in Workers : Holds(w) => wjob[w] # m_jobQueue[p][i]
    BY <1>4 DEF HeldJobsAreOwned
  <2> QED
    BY <2>1, <1>3, <1>5, <1>10 DEF HeldJobsAreOwned, Holds
<1>14. HeldOnce' /\ ProcessingIsHeld' /\ PoolIsAlive'
  BY <1>3 DEF HeldOnce, ProcessingIsHeld, PoolIsAlive, Holds
<1> QED
  BY <1>11, <1>12, <1>13, <1>14

\* CancelJobs deletes what is queued, and no thread holds a queued job.
LEMMA CancelJobsPlacement ==
  ASSUME TypeOK, Placement, CancelJobs
  PROVE  Placement'
<1> USE DEF Placement
<1>1. /\ m_jobQueue' = [p \in Priorities |-> <<>>]
      /\ \A j \in Jobs : heap'[j] = IF j \in Queued THEN "freed" ELSE heap[j]
      /\ UNCHANGED <<m_processing, m_workers, wpc, wjob>>
  BY DEF CancelJobs, workerVars
<1>2. \A p \in Priorities : DOMAIN m_jobQueue'[p] = {}
  BY <1>1
<1>3. QueuedJobsAreOwned' /\ QueuedOnce'
  BY <1>2 DEF QueuedJobsAreOwned, QueuedOnce
<1>4. \A w \in Workers : Holds(w) => wjob[w] \in Jobs /\ wjob[w] \notin Queued
  BY DEF HeldJobsAreOwned, Queued, QueuedIn
<1>5. HeldJobsAreOwned'
  BY <1>1, <1>2, <1>4 DEF HeldJobsAreOwned, Holds
<1>6. HeldOnce' /\ ProcessingIsHeld' /\ PoolIsAlive'
  BY <1>1 DEF HeldOnce, ProcessingIsHeld, PoolIsAlive, Holds
<1> QED
  BY <1>3, <1>5, <1>6

\* The job moves from the front of its queue to the thread.
LEMMA PopJobPlacement ==
  ASSUME TypeOK, Placement, NEW w \in Workers, wpc[w] \in {"next", "expired"},
         NEW p \in Priorities, PopJob(w, p)
  PROVE  Placement'
<1> DEFINE s == m_jobQueue[p]
           j == Head(m_jobQueue[p])
<1> USE DEF Placement
<1>1. /\ s \in Seq(Jobs) /\ s # <<>>
      /\ 1 \in DOMAIN s /\ j = s[1] /\ j \in Jobs
  BY DEF PopJob, Eligible, TypeOK
<1>2. /\ m_jobQueue'[p] = Tail(s)
      /\ \A q \in Priorities \ {p} : m_jobQueue'[q] = m_jobQueue[q]
      /\ m_processing' = m_processing \cup {j}
      /\ wjob'[w] = j /\ wpc'[w] = "work"
      /\ \A v \in Workers \ {w} : wjob'[v] = wjob[v] /\ wpc'[v] = wpc[v]
      /\ UNCHANGED <<m_workers, jobPriority, heap>>
  BY DEF PopJob, TypeOK, itemVars
<1>3. \A q \in Priorities : \A k \in DOMAIN m_jobQueue'[q] :
        \E l \in DOMAIN m_jobQueue[q] :
          /\ q = p => l # 1 /\ l = k + 1
          /\ q # p => l = k
          /\ m_jobQueue'[q][k] = m_jobQueue[q][l]
          /\ m_jobQueue'[q][k] # j
  <2>1. \A k \in DOMAIN m_jobQueue'[p] :
          /\ k \in Int /\ k + 1 # 1 /\ k + 1 \in DOMAIN s
          /\ m_jobQueue'[p][k] = s[k + 1]
    BY <1>1, <1>2, TailElements
  <2>2. QueuedOnce
    OBVIOUS
  <2>3. ASSUME NEW q \in Priorities, NEW l \in DOMAIN m_jobQueue[q], q = p => l # 1
        PROVE  m_jobQueue[q][l] # j
    BY <2>2, <2>3, <1>1 DEF QueuedOnce
  <2>4. ASSUME NEW k \in DOMAIN m_jobQueue'[p]
        PROVE  \E l \in DOMAIN m_jobQueue[p] :
                 /\ l # 1 /\ l = k + 1
                 /\ m_jobQueue'[p][k] = m_jobQueue[p][l]
                 /\ m_jobQueue'[p][k] # j
    BY <2>1, <2>3
  <2>5. ASSUME NEW q \in Priorities, q # p, NEW k \in DOMAIN m_jobQueue'[q]
        PROVE  /\ k \in DOMAIN m_jobQueue[q]
               /\ m_jobQueue'[q][k] = m_jobQueue[q][k]
               /\ m_jobQueue'[q][k] # j
    BY <1>2, <2>3, <2>5
  <2> QED
    BY <2>4, <2>5
<1> HIDE DEF s, j
<1>4. QueuedJobsAreOwned'
  BY <1>2, <1>3 DEF QueuedJobsAreOwned
<1>5. QueuedOnce'
  <2> SUFFICES ASSUME NEW q \in Priorities, NEW r \in Priorities,
                      NEW k \in DOMAIN m_jobQueue'[q], NEW l \in DOMAIN m_jobQueue'[r],
                      m_jobQueue'[q][k] = m_jobQueue'[r][l]
               PROVE  q = r /\ k = l
    BY DEF QueuedOnce
  <2>1. PICK a \in DOMAIN m_jobQueue[q] :
          /\ q = p => a = k + 1
          /\ q # p => a = k
          /\ m_jobQueue'[q][k] = m_jobQueue[q][a]
    BY <1>3
  <2>2. PICK b \in DOMAIN m_jobQueue[r] :
          /\ r = p => b = l + 1
          /\ r # p => b = l
          /\ m_jobQueue'[r][l] = m_jobQueue[r][b]
    BY <1>3
  <2>3. q = r /\ a = b
    <3>1. m_jobQueue[q][a] = m_jobQueue[r][b]
      BY <2>1, <2>2
    <3>2. QueuedOnce
      OBVIOUS
    <3> QED
      BY ONLY <3>1, <3>2, q \in Priorities, r \in Priorities,
              a \in DOMAIN m_jobQueue[q], b \in DOMAIN m_jobQueue[r] DEF QueuedOnce
  <2>4. q = p => k \in Int /\ l \in Int
    <3>1. DOMAIN m_jobQueue'[p] \subseteq Int
      BY <1>1, <1>2, TailElements
    <3> QED
      BY <2>3, <3>1
  <2> QED
    BY <2>1, <2>2, <2>3, <2>4
<1>6. /\ heap[j] = "owned"
      /\ \A v \in Workers : Holds(v) => wjob[v] # j
      /\ ~Holds(w)
  BY <1>1 DEF QueuedJobsAreOwned, HeldJobsAreOwned, s, Holds, Busy
<1>7. HeldJobsAreOwned'
  <2> SUFFICES ASSUME NEW v \in Workers, Holds(v)'
               PROVE  /\ wjob'[v] \in Jobs /\ heap'[wjob'[v]] = "owned"
                      /\ \A q \in Priorities : \A k \in DOMAIN m_jobQueue'[q] :
                           m_jobQueue'[q][k] # wjob'[v]
    BY DEF HeldJobsAreOwned
  <2>1. CASE v = w
    BY <2>1, <1>1, <1>2, <1>3, <1>6
  <2>2. CASE v # w
    BY <2>2, <1>2, <1>3 DEF HeldJobsAreOwned, Holds
  <2> QED
    BY <2>1, <2>2
<1>8. HeldOnce'
  BY <1>2, <1>6 DEF HeldOnce, Holds
<1>9. ProcessingIsHeld' /\ PoolIsAlive'
  BY <1>1, <1>2, <1>6 DEF ProcessingIsHeld, PoolIsAlive, Holds, Busy
<1> QED
  BY <1>4, <1>5, <1>7, <1>8, <1>9

\* The thread still holds the job that leaves m_processing.
LEMMA OnJobCompleteErasesPlacement ==
  ASSUME TypeOK, Placement, NEW w \in Workers, OnJobCompleteErases(w)
  PROVE  Placement'
<1> USE DEF Placement
<1>1. /\ wpc[w] = "erase" /\ wpc'[w] = "free"
      /\ \A v \in Workers \ {w} : wpc'[v] = wpc[v]
      /\ m_processing' = m_processing \ {wjob[w]}
      /\ UNCHANGED <<m_jobQueue, m_workers, jobPriority, heap, wjob>>
  BY DEF OnJobCompleteErases, TypeOK, itemVars
<1>2. \A v \in Workers : Holds(v)' <=> Holds(v)
  BY <1>1 DEF Holds, Busy
<1>3. QueuedJobsAreOwned' /\ QueuedOnce' /\ HeldJobsAreOwned' /\ HeldOnce'
  BY <1>1, <1>2 DEF QueuedJobsAreOwned, QueuedOnce, HeldJobsAreOwned, HeldOnce
<1>4. ProcessingIsHeld'
  <2> SUFFICES ASSUME NEW j \in Jobs
               PROVE  j \in m_processing' <=> \E v \in Workers : wpc'[v] \in Busy /\ wjob'[v] = j
    BY DEF ProcessingIsHeld
  <2>1. \A v \in Workers \ {w} : wpc[v] \in Busy => wjob[v] # wjob[w]
    BY <1>1 DEF HeldOnce, Holds, Busy
  <2>2. wpc'[w] \notin Busy /\ wpc[w] \in Busy
    BY <1>1 DEF Busy
  <2> QED
    BY <2>1, <2>2, <1>1 DEF ProcessingIsHeld
<1>5. PoolIsAlive'
  BY <1>1 DEF PoolIsAlive
<1> QED
  BY <1>3, <1>4, <1>5

\* The thread deletes a job nobody else can reach.
LEMMA OnJobCompleteFreesPlacement ==
  ASSUME TypeOK, Placement, NEW w \in Workers, OnJobCompleteFrees(w)
  PROVE  Placement'
<1> USE DEF Placement
<1>1. /\ wpc[w] = "free" /\ wpc'[w] = "next"
      /\ \A v \in Workers \ {w} : wpc'[v] = wpc[v] /\ wjob'[v] = wjob[v]
      /\ wjob[w] \in Jobs
      /\ \A j \in Jobs \ {wjob[w]} : heap'[j] = heap[j]
      /\ UNCHANGED <<m_jobQueue, m_workers, m_processing, jobPriority>>
  BY DEF OnJobCompleteFrees, TypeOK, itemVars, HeldJobsAreOwned, Holds
<1>2. /\ ~Holds(w)' /\ Holds(w)
      /\ wpc[w] \notin Busy /\ wpc'[w] \notin Busy
      /\ \A v \in Workers \ {w} : Holds(v)' <=> Holds(v)
  BY <1>1 DEF Holds, Busy
<1>3. /\ \A p \in Priorities : \A i \in DOMAIN m_jobQueue[p] :
           m_jobQueue[p][i] \in Jobs \ {wjob[w]}
      /\ \A v \in Workers \ {w} : Holds(v) => wjob[v] \in Jobs \ {wjob[w]}
  BY <1>2 DEF HeldJobsAreOwned, HeldOnce, TypeOK
<1>4. QueuedJobsAreOwned' /\ QueuedOnce'
  BY <1>1, <1>3 DEF QueuedJobsAreOwned, QueuedOnce
<1>5. HeldJobsAreOwned' /\ HeldOnce'
  BY <1>1, <1>2, <1>3 DEF HeldJobsAreOwned, HeldOnce
<1>6. ProcessingIsHeld' /\ PoolIsAlive'
  BY <1>1, <1>2 DEF ProcessingIsHeld, PoolIsAlive
<1> QED
  BY <1>4, <1>5, <1>6


\* Placement is inductive: one step per action of the manager.
LEMMA NextPlacement ==
  ASSUME TypeOK, Placement, [Next]_vars
  PROVE  Placement'
<1> USE DEF itemVars, workerVars, Busy
<1>1. ASSUME NEW j \in Jobs, AddJob(j) PROVE Placement'
  BY <1>1, AddJobAcceptedPlacement, AddJobRefusedPlacement DEF AddJob
<1>2. ASSUME NEW id \in 1 .. IdModulus - 1, CancelJob(id) PROVE Placement'
  <2>1. CASE CancelQueuedJob(id)
    BY <2>1, CancelQueuedJobPlacement
  <2>2. CASE CancelProcessingJob(id)
    BY <2>2, QuietStepPlacement DEF CancelProcessingJob, Placement, PoolIsAlive
  <2> QED
    BY <1>2, <2>1, <2>2 DEF CancelJob
<1>3. CASE PauseJobs \/ UnPauseJobs
  BY <1>3, QuietStepPlacement DEF PauseJobs, UnPauseJobs, Placement, PoolIsAlive
<1>4. CASE Shutdown
  <2>1. CASE CancelJobs
    BY <2>1, CancelJobsPlacement
  <2>2. CASE CancelJobsWake \/ CancelJobsReturn \/ Restart
    BY <2>2, QuietStepPlacement
    DEF CancelJobsWake, CancelJobsReturn, Restart, Placement, PoolIsAlive
  <2> QED
    BY <1>4, <2>1, <2>2 DEF Shutdown
<1>5. ASSUME NEW w \in Workers, WorkerStep(w) PROVE Placement'
  <2>1. CASE GetNextJob(w)
    BY <2>1, PopJobPlacement DEF GetNextJob
  <2>2. CASE GetNextJobSleeps(w) \/ GetNextJobQuits(w)
    BY <2>2, QuietStepPlacement
    DEF GetNextJobSleeps, GetNextJobQuits, Placement, PoolIsAlive, TypeOK
  <2>3. CASE WaitBlocks(w) \/ WaitReturns(w) \/ WaitExpires(w)
    BY <2>3, QuietStepPlacement
    DEF WaitBlocks, WaitReturns, WaitExpires, Placement, PoolIsAlive, TypeOK
  <2>4. CASE OnJobProgress(w) \/ OnJobProgressReturns(w) \/ DoWorkReturns(w)
    BY <2>4, QuietStepPlacement
    DEF OnJobProgress, OnJobProgressReturns, DoWorkReturns, Placement, PoolIsAlive, TypeOK
  <2>5. CASE OnJobCompleteCopies(w) \/ OnJobCompleteCalls(w)
    BY <2>5, QuietStepPlacement
    DEF OnJobCompleteCopies, OnJobCompleteCalls, Placement, PoolIsAlive, TypeOK
  <2>6. CASE OnJobCompleteErases(w) \/ OnJobCompleteFrees(w)
    BY <2>6, OnJobCompleteErasesPlacement, OnJobCompleteFreesPlacement
  <2> QED
    BY <1>5, <2>1, <2>2, <2>3, <2>4, <2>5, <2>6 DEF WorkerStep
<1>6. CASE UNCHANGED vars
  BY <1>6, QuietStepPlacement DEF vars, Placement, PoolIsAlive
<1> QED
  BY <1>1, <1>2, <1>3, <1>4, <1>5, <1>6 DEF Next

\* No job is anywhere when the manager is constructed.
LEMMA InitPlacement == Init => Placement
BY DEF Init, Placement, QueuedJobsAreOwned, QueuedOnce, HeldJobsAreOwned, HeldOnce,
       ProcessingIsHeld, PoolIsAlive, Holds, Busy

\* Every job is where Placement says, in every reachable state.
THEOREM JobsAreInPlace == Spec => []Placement
BY InitPlacement, TypeCorrect, NextPlacement, PTL DEF Spec

(***************************************************************************)
(* No queue, no entry of m_processing and no thread reaches a deleted job. *)
(***************************************************************************)
THEOREM NoDanglingJobHolds == Spec => []NoDanglingJob
<1>1. TypeOK /\ Placement => NoDanglingJob
  BY DEF TypeOK, Placement, QueuedJobsAreOwned, HeldJobsAreOwned, ProcessingIsHeld,
         NoDanglingJob, Queued, QueuedIn, Holds
<1>2. QED
  BY <1>1, TypeCorrect, JobsAreInPlace, PTL

(***************************************************************************)
(* A job is in one place of one queue or with one thread, and m_processing *)
(* is what the busy threads hold.                                          *)
(***************************************************************************)
THEOREM OneOwnerHolds == Spec => []OneOwner
<1>1. TypeOK /\ Placement => OneOwner
  <2> SUFFICES ASSUME TypeOK, Placement PROVE OneOwner
    OBVIOUS
  <2>1. m_processing = {wjob[w] : w \in {v \in Workers : wpc[v] \in Busy}}
    BY DEF TypeOK, Placement, ProcessingIsHeld, HeldJobsAreOwned, Holds
  <2>2. Queued \cap m_processing = {}
    BY DEF TypeOK, Placement, ProcessingIsHeld, HeldJobsAreOwned, Holds, Queued, QueuedIn
  <2> QED
    BY <2>1, <2>2 DEF Placement, OneOwner, QueuedOnce, HeldOnce, Holds
<1>2. QED
  BY <1>1, TypeCorrect, JobsAreInPlace, PTL

-----------------------------------------------------------------------------
(***************************************************************************)
(* What the actions do to the set of queued jobs, each of which is at one  *)
(* place of one queue.                                                     *)
(***************************************************************************)
\* AddJob adds its job.
LEMMA AddJobAcceptedQueues ==
  ASSUME TypeOK, NEW j \in Jobs, NEW p \in UsedPriorities, NEW cb \in BOOLEAN,
         AddJobAccepted(j, p, cb)
  PROVE  Queued' = Queued \cup {j}
<1>1. p \in Priorities
  BY PrioritiesAssumption
<1>2. /\ m_jobQueue[p] \in Seq(Jobs)
      /\ m_jobQueue'[p] = Append(m_jobQueue[p], j)
      /\ \A q \in Priorities \ {p} : m_jobQueue'[q] = m_jobQueue[q]
  BY <1>1 DEF AddJobAccepted, TypeOK
<1>3. QueuedIn(p)' = QueuedIn(p) \cup {j}
  BY <1>2, AppendElements DEF QueuedIn
<1>4. \A q \in Priorities \ {p} : QueuedIn(q)' = QueuedIn(q)
  BY <1>2 DEF QueuedIn
<1> QED
  BY <1>1, <1>3, <1>4 DEF Queued

\* CancelJob removes the job it deletes, the one with that id.
LEMMA CancelQueuedJobUnqueues ==
  ASSUME TypeOK, Placement, NEW id \in 1 .. IdModulus - 1, CancelQueuedJob(id)
  PROVE  \E j \in Jobs : /\ j \in Queued /\ jobId[j] = id
                         /\ Queued' = Queued \ {j}
                         /\ heap' = [heap EXCEPT ![j] = "freed"]
<1>1. PICK p \in Priorities : \E i \in DOMAIN m_jobQueue[p] :
        /\ jobId[m_jobQueue[p][i]] = id
        /\ heap' = [heap EXCEPT ![m_jobQueue[p][i]] = "freed"]
        /\ m_jobQueue' = [m_jobQueue EXCEPT ![p] = DropAt(@, i)]
  BY DEF CancelQueuedJob
<1>2. PICK i \in DOMAIN m_jobQueue[p] :
        /\ jobId[m_jobQueue[p][i]] = id
        /\ heap' = [heap EXCEPT ![m_jobQueue[p][i]] = "freed"]
        /\ m_jobQueue' = [m_jobQueue EXCEPT ![p] = DropAt(@, i)]
  BY <1>1
<1>3. PICK j \in Jobs : j = m_jobQueue[p][i]
  BY DEF TypeOK
<1>4. Queued' = Queued \ {j}
  <2>1. QueuedIn(p)' = QueuedIn(p) \ {j}
    <3>1. m_jobQueue[p] \in Seq(Jobs) /\ m_jobQueue'[p] = DropAt(m_jobQueue[p], i)
      BY <1>2 DEF TypeOK
    <3>2. \A l \in DOMAIN m_jobQueue[p] : m_jobQueue[p][l] = j => l = i
      BY <1>3 DEF Placement, QueuedOnce
    <3>3. ASSUME NEW k \in QueuedIn(p)' PROVE k \in QueuedIn(p) \ {j}
      <4>1. PICK n \in DOMAIN m_jobQueue'[p] : k = m_jobQueue'[p][n]
        BY <3>3 DEF QueuedIn
      <4>2. PICK l \in DOMAIN m_jobQueue[p] : l # i /\ k = m_jobQueue[p][l]
        <5>1. n \in 1 .. Len(m_jobQueue[p]) - 1 /\ i \in Int
          BY <3>1, <4>1, DropAtElements
        <5>2. k = IF n < i THEN m_jobQueue[p][n] ELSE m_jobQueue[p][n + 1]
          BY <3>1, <4>1, DropAtElements
        <5>3. n \in DOMAIN m_jobQueue[p] /\ n + 1 \in DOMAIN m_jobQueue[p]
          BY <3>1, <5>1
        <5>4. CASE n < i
          BY <5>1, <5>2, <5>3, <5>4
        <5>5. CASE ~(n < i)
          BY <5>1, <5>2, <5>3, <5>5
        <5> QED
          BY <5>4, <5>5
      <4> QED
        BY <3>2, <4>2 DEF QueuedIn
    <3>4. ASSUME NEW k \in QueuedIn(p) \ {j} PROVE k \in QueuedIn(p)'
      <4>1. PICK l \in DOMAIN m_jobQueue[p] : k = m_jobQueue[p][l]
        BY <3>4 DEF QueuedIn
      <4>2. l \in 1 .. Len(m_jobQueue[p]) /\ l # i /\ i \in 1 .. Len(m_jobQueue[p])
        BY <1>3, <3>1, <3>4, <4>1
      <4>3. CASE l < i
        <5>1. l \in 1 .. Len(m_jobQueue[p]) - 1
          BY <4>2, <4>3, <3>1
        <5>2. l \in DOMAIN m_jobQueue'[p] /\ m_jobQueue'[p][l] = m_jobQueue[p][l]
          BY <3>1, <4>3, <5>1, DropAtElements
        <5> QED
          BY <4>1, <5>2 DEF QueuedIn
      <4>4. CASE l > i
        <5>1. l - 1 \in 1 .. Len(m_jobQueue[p]) - 1 /\ ~(l - 1 < i) /\ l - 1 + 1 = l
          BY <4>2, <4>4, <3>1
        <5>2. l - 1 \in DOMAIN m_jobQueue'[p] /\ m_jobQueue'[p][l - 1] = m_jobQueue[p][l]
          BY <3>1, <5>1, DropAtElements
        <5> QED
          BY <4>1, <5>2 DEF QueuedIn
      <4> QED
        BY <4>2, <4>3, <4>4
    <3> QED
      BY <3>3, <3>4
  <2>2. \A q \in Priorities \ {p} : QueuedIn(q)' = QueuedIn(q) /\ j \notin QueuedIn(q)
    BY <1>2, <1>3 DEF QueuedIn, TypeOK, Placement, QueuedOnce
  <2> QED
    BY <2>1, <2>2 DEF Queued
<1>5. j \in Queued
  BY <1>3 DEF Queued, QueuedIn
<1> QED
  BY <1>2, <1>3, <1>4, <1>5

\* PopJob removes the front of a queue.
LEMMA PopJobUnqueues ==
  ASSUME TypeOK, Placement, NEW w \in Workers, NEW p \in Priorities, PopJob(w, p)
  PROVE  /\ Head(m_jobQueue[p]) \in Jobs /\ Head(m_jobQueue[p]) \in Queued
         /\ Queued' = Queued \ {Head(m_jobQueue[p])}
<1>1. /\ m_jobQueue[p] \in Seq(Jobs) /\ m_jobQueue[p] # <<>>
      /\ 1 \in DOMAIN m_jobQueue[p]
  BY DEF PopJob, Eligible, TypeOK
<1>2. PICK j \in Jobs : j = Head(m_jobQueue[p]) /\ j = m_jobQueue[p][1]
  BY <1>1, TailElements
<1>3. /\ m_jobQueue'[p] = Tail(m_jobQueue[p])
      /\ \A q \in Priorities \ {p} : m_jobQueue'[q] = m_jobQueue[q]
  BY DEF PopJob, TypeOK
<1>4. Queued' = Queued \ {j} /\ j \in Queued
  <2>1. QueuedIn(p)' = QueuedIn(p) \ {j}
    <3>1. \A l \in DOMAIN m_jobQueue[p] : m_jobQueue[p][l] = j => l = 1
      BY <1>1, <1>2 DEF Placement, QueuedOnce
    <3>2. ASSUME NEW k \in QueuedIn(p)' PROVE k \in QueuedIn(p) \ {j}
      <4>1. PICK n \in DOMAIN m_jobQueue'[p] : k = m_jobQueue'[p][n]
        BY <3>2 DEF QueuedIn
      <4>2. n \in 1 .. Len(m_jobQueue[p]) - 1 /\ k = m_jobQueue[p][n + 1]
        BY <1>1, <1>3, <4>1, TailElements
      <4>3. n + 1 \in DOMAIN m_jobQueue[p] /\ n + 1 # 1
        BY <1>1, <4>2
      <4> QED
        BY <3>1, <4>2, <4>3 DEF QueuedIn
    <3>3. ASSUME NEW k \in QueuedIn(p) \ {j} PROVE k \in QueuedIn(p)'
      <4>1. PICK l \in DOMAIN m_jobQueue[p] : k = m_jobQueue[p][l]
        BY <3>3 DEF QueuedIn
      <4>2. l - 1 \in 1 .. Len(m_jobQueue[p]) - 1 /\ l - 1 + 1 = l
        <5>1. l \in 1 .. Len(m_jobQueue[p]) /\ l # 1
          BY <1>1, <1>2, <3>3, <4>1
        <5> QED
          BY <5>1, <1>1
      <4>3. l - 1 \in DOMAIN m_jobQueue'[p] /\ m_jobQueue'[p][l - 1] = m_jobQueue[p][l]
        BY <1>1, <1>3, <4>2, TailElements
      <4> QED
        BY <4>1, <4>3 DEF QueuedIn
    <3> QED
      BY <3>2, <3>3
  <2>2. \A q \in Priorities \ {p} : QueuedIn(q)' = QueuedIn(q) /\ j \notin QueuedIn(q)
    BY <1>1, <1>2, <1>3 DEF QueuedIn, Placement, QueuedOnce
  <2>3. j \in QueuedIn(p)
    BY <1>1, <1>2 DEF QueuedIn
  <2> QED
    BY <2>1, <2>2, <2>3 DEF Queued
<1> QED
  BY <1>2, <1>4

-----------------------------------------------------------------------------
(***************************************************************************)
(* Cardinalities.  A job is popped only while fewer jobs than its priority *)
(* is allowed are in progress; those allowances grow with the priority, so *)
(* the new job counts in no more sets of "this priority or below" than     *)
(* have room for it.                                                       *)
(***************************************************************************)
LEMMA GetMaxWorkersGrows ==
  ASSUME NEW p \in Priorities
  PROVE  /\ GetMaxWorkers(p) \in Nat
         /\ GetMaxWorkers(p) > 0
         /\ \A q \in Priorities : q >= p => GetMaxWorkers(q) >= GetMaxWorkers(p)
BY MaxWorkersAssumption
DEF GetMaxWorkers, Priorities, PRIORITY_LOW_PAUSABLE, PRIORITY_HIGH

\* m_processing is finite, so the allowances compare numbers.
LEMMA ProcessingIsFinite ==
  ASSUME TypeOK
  PROVE  /\ IsFiniteSet(m_processing)
         /\ Cardinality(m_processing) \in Nat
         /\ \A p \in Priorities :
              /\ IsFiniteSet(AtMost(p))
              /\ Cardinality(AtMost(p)) \in Nat
              /\ Cardinality(AtMost(p)) <= Cardinality(m_processing)
<1>1. IsFiniteSet(m_processing)
  BY JobsAssumption, FS_Subset DEF TypeOK, JobsAssumption
<1>2. \A p \in Priorities : AtMost(p) \in SUBSET m_processing
  BY DEF AtMost
<1> QED
  BY <1>1, <1>2, FS_Subset, FS_CardinalityType

\* Jobs that leave m_processing, or none, leave room.
LEMMA ShrinkingKeepsRoom ==
  ASSUME TypeOK, TypeOK', RoomForHigherPriority,
         m_processing' \subseteq m_processing,
         \A j \in m_processing : jobPriority'[j] = jobPriority[j]
  PROVE  RoomForHigherPriority'
<1> SUFFICES ASSUME NEW p \in Priorities
             PROVE  Cardinality(AtMost(p)') <= GetMaxWorkers(p)
  BY DEF RoomForHigherPriority, GetMaxWorkers
<1>1. AtMost(p)' \in SUBSET AtMost(p)
  BY DEF AtMost
<1>2. Cardinality(AtMost(p)') <= Cardinality(AtMost(p))
  BY <1>1, ProcessingIsFinite, FS_Subset
<1>3. Cardinality(AtMost(p)') \in Nat
  BY <1>1, ProcessingIsFinite, FS_Subset, FS_CardinalityType
<1> QED
  BY <1>2, <1>3, ProcessingIsFinite, GetMaxWorkersGrows DEF RoomForHigherPriority

\* PopJob compares all jobs in progress with the allowance of the priority it
\* pops from, which bounds the jobs at that priority or any higher one; those
\* below are as before.
LEMMA PopJobKeepsRoom ==
  ASSUME TypeOK, Placement, RoomForHigherPriority,
         NEW w \in Workers, NEW p \in Priorities, PopJob(w, p)
  PROVE  RoomForHigherPriority'
<1> DEFINE j == Head(m_jobQueue[p])
<1>1. /\ Cardinality(m_processing) < GetMaxWorkers(p)
      /\ m_processing' = m_processing \cup {j}
      /\ jobPriority' = jobPriority
  BY DEF PopJob, Eligible, itemVars
<1>2. jobPriority[j] = p
  <2>1. 1 \in DOMAIN m_jobQueue[p] /\ j = m_jobQueue[p][1]
    BY TailElements DEF PopJob, Eligible, TypeOK
  <2> QED
    BY <2>1 DEF Placement, QueuedJobsAreOwned
<1> HIDE DEF j
<1> SUFFICES ASSUME NEW q \in Priorities
             PROVE  Cardinality(AtMost(q)') <= GetMaxWorkers(q)
  BY DEF RoomForHigherPriority, GetMaxWorkers
<1>3. CASE q < p
  <2>1. AtMost(q)' = AtMost(q)
    BY <1>1, <1>2, <1>3, PrioritiesAreNat DEF AtMost
  <2> QED
    BY <2>1 DEF RoomForHigherPriority
<1>4. CASE q >= p
  <2>1. AtMost(q)' = AtMost(q) \cup {j}
    BY <1>1, <1>2, <1>4 DEF AtMost
  <2>2. Cardinality(AtMost(q)') <= Cardinality(AtMost(q)) + 1
    <3>1. IsFiniteSet(AtMost(q)) /\ Cardinality(AtMost(q)) \in Nat
      BY ProcessingIsFinite
    <3>2. Cardinality(AtMost(q) \cup {j}) =
            IF j \in AtMost(q) THEN Cardinality(AtMost(q)) ELSE Cardinality(AtMost(q)) + 1
      BY <3>1, FS_AddElement
    <3> QED
      BY ONLY <2>1, <3>1, <3>2
  <2>3. Cardinality(AtMost(q)') \in Nat
    BY <2>1, ProcessingIsFinite, FS_AddElement, FS_CardinalityType
  <2> QED
    BY <2>2, <2>3, <1>1, <1>4, ProcessingIsFinite, GetMaxWorkersGrows
<1> QED
  BY <1>3, <1>4, PrioritiesAreNat

\* Only PopJob adds to m_processing, and no action changes the priority of a job
\* in it.
LEMMA NextKeepsRoom ==
  ASSUME TypeOK, TypeOK', Placement, RoomForHigherPriority, [Next]_vars
  PROVE  RoomForHigherPriority'
<1> USE DEF itemVars, workerVars
<1>1. ASSUME NEW j \in Jobs, AddJob(j) PROVE RoomForHigherPriority'
  <2>1. \A k \in m_processing : heap[k] = "owned"
    BY DEF TypeOK, Placement, ProcessingIsHeld, HeldJobsAreOwned, Holds
  <2>2. /\ m_processing' = m_processing
        /\ heap[j] = "new"
        /\ \A k \in Jobs \ {j} : jobPriority'[k] = jobPriority[k]
    BY <1>1 DEF AddJob, AddJobAccepted, AddJobRefused, TypeOK
  <2> QED
    BY <2>1, <2>2, ShrinkingKeepsRoom DEF TypeOK
<1>2. ASSUME NEW id \in 1 .. IdModulus - 1, CancelJob(id) PROVE RoomForHigherPriority'
  BY <1>2, ShrinkingKeepsRoom DEF CancelJob, CancelQueuedJob, CancelProcessingJob
<1>3. CASE PauseJobs \/ UnPauseJobs
  BY <1>3, ShrinkingKeepsRoom DEF PauseJobs, UnPauseJobs
<1>4. CASE Shutdown
  BY <1>4, ShrinkingKeepsRoom
  DEF Shutdown, CancelJobs, CancelJobsWake, CancelJobsReturn, Restart
<1>5. ASSUME NEW w \in Workers, WorkerStep(w) PROVE RoomForHigherPriority'
  <2>1. CASE GetNextJob(w)
    BY <2>1, PopJobKeepsRoom DEF GetNextJob
  <2>2. CASE ~GetNextJob(w)
    BY <1>5, <2>2, ShrinkingKeepsRoom
    DEF WorkerStep, GetNextJobSleeps, GetNextJobQuits, WaitBlocks, WaitReturns,
        WaitExpires, OnJobProgress, OnJobProgressReturns, DoWorkReturns,
        OnJobCompleteCopies, OnJobCompleteCalls, OnJobCompleteErases, OnJobCompleteFrees
  <2> QED
    BY <2>1, <2>2
<1>6. CASE UNCHANGED vars
  BY <1>6, ShrinkingKeepsRoom DEF vars
<1> QED
  BY <1>1, <1>2, <1>3, <1>4, <1>5, <1>6 DEF Next

(***************************************************************************)
(* The jobs in progress at a priority or below never take more threads     *)
(* than GetMaxWorkers leaves them, for any max_workers and any clients.    *)
(***************************************************************************)
THEOREM RoomHolds == Spec => []RoomForHigherPriority
<1>1. Init => RoomForHigherPriority
  <2> SUFFICES ASSUME Init, NEW p \in Priorities
               PROVE  Cardinality(AtMost(p)) <= GetMaxWorkers(p)
    BY DEF RoomForHigherPriority
  <2>1. AtMost(p) = {}
    BY DEF AtMost, Init
  <2> QED
    BY <2>1, FS_EmptySet, GetMaxWorkersGrows
<1>2. QED
  BY <1>1, TypeCorrect, JobsAreInPlace, NextKeepsRoom, PTL DEF Spec

-----------------------------------------------------------------------------
\* Each job in progress is with a thread of its own, and that is in the pool.
LEMMA ProcessingFitsPool ==
  ASSUME TypeOK, Placement
  PROVE  /\ IsFiniteSet(m_workers)
         /\ Cardinality(m_workers) \in Nat
         /\ Cardinality(m_processing) <= Cardinality(m_workers)
<1> DEFINE B == {w \in Workers : wpc[w] \in Busy}
           f == [w \in B |-> wjob[w]]
<1>1. IsFiniteSet(m_workers) /\ Cardinality(m_workers) \in Nat
  BY WorkersAssumption, FS_Subset, FS_CardinalityType DEF TypeOK, WorkersAssumption
<1>2. B \in SUBSET m_workers
  BY DEF Placement, PoolIsAlive, Busy
<1>3. /\ \A w \in B : wjob[w] \in m_processing
      /\ \A j \in m_processing : \E w \in B : wjob[w] = j
  BY DEF TypeOK, Placement, ProcessingIsHeld, HeldJobsAreOwned, Holds
<1>4. f \in Surjection(B, m_processing)
  BY <1>3 DEF Surjection
<1> HIDE DEF B, f
<1>5. IsFiniteSet(B) /\ Cardinality(B) <= Cardinality(m_workers)
  BY <1>1, <1>2, FS_Subset
<1>6. Cardinality(m_processing) <= Cardinality(B)
  BY <1>4, <1>5, FS_Surjection
<1>7. Cardinality(B) \in Nat /\ Cardinality(m_processing) \in Nat
  BY <1>5, ProcessingIsFinite, FS_CardinalityType
<1> QED
  BY <1>1, <1>5, <1>6, <1>7

PoolIsAllowed == \E p \in UsedPriorities : Cardinality(m_workers) <= GetMaxWorkers(p)

\* StartWorkers adds a thread only below the limit of the priority it is for.
LEMMA StartWorkersBound ==
  ASSUME TypeOK, Placement, PoolIsAllowed, NEW p \in UsedPriorities, StartWorkers(p)
  PROVE  PoolIsAllowed'
<1>1. /\ IsFiniteSet(m_workers) /\ Cardinality(m_workers) \in Nat
      /\ Cardinality(m_processing) \in Nat
      /\ GetMaxWorkers(p) \in Nat
  BY ProcessingFitsPool, ProcessingIsFinite, GetMaxWorkersGrows, PrioritiesAssumption
<1>2. CASE m_workers' = m_workers
  BY <1>2 DEF PoolIsAllowed, GetMaxWorkers
<1>3. CASE m_workers' # m_workers
  <2>1. /\ Cardinality(m_processing) < GetMaxWorkers(p)
        /\ Cardinality(m_processing) >= Cardinality(m_workers)
        /\ \E w \in Workers \ m_workers : m_workers' = m_workers \cup {w}
    BY <1>3 DEF StartWorkers
  <2>2. Cardinality(m_workers') = Cardinality(m_workers) + 1
    BY <2>1, <1>1, FS_AddElement
  <2>3. Cardinality(m_workers') <= GetMaxWorkers(p)
    BY <2>1, <2>2, <1>1
  <2> QED
    BY <2>3 DEF PoolIsAllowed, GetMaxWorkers
<1> QED
  BY <1>2, <1>3

\* Only StartWorkers adds a worker thread.
LEMMA NextKeepsPoolAllowed ==
  ASSUME TypeOK, TypeOK', Placement, PoolIsAllowed, [Next]_vars
  PROVE  PoolIsAllowed'
<1> USE DEF itemVars, workerVars
<1>1. ASSUME m_workers' \subseteq m_workers PROVE PoolIsAllowed'
  <2>1. /\ Cardinality(m_workers') <= Cardinality(m_workers)
        /\ Cardinality(m_workers') \in Nat /\ Cardinality(m_workers) \in Nat
    BY <1>1, ProcessingFitsPool, FS_Subset, FS_CardinalityType
  <2>2. \A p \in UsedPriorities : GetMaxWorkers(p) \in Nat
    BY GetMaxWorkersGrows, PrioritiesAssumption
  <2>3. \A p \in UsedPriorities :
          Cardinality(m_workers) <= GetMaxWorkers(p) => Cardinality(m_workers') <= GetMaxWorkers(p)
    BY <2>1, <2>2
  <2> QED
    BY <2>3 DEF PoolIsAllowed, GetMaxWorkers
<1>2. ASSUME NEW j \in Jobs, AddJob(j) PROVE PoolIsAllowed'
  BY <1>1, <1>2, StartWorkersBound DEF AddJob, AddJobAccepted, AddJobRefused
<1>3. ASSUME NEW id \in 1 .. IdModulus - 1, CancelJob(id) PROVE PoolIsAllowed'
  BY <1>1, <1>3 DEF CancelJob, CancelQueuedJob, CancelProcessingJob
<1>4. CASE PauseJobs \/ UnPauseJobs \/ Shutdown
  BY <1>1, <1>4
  DEF PauseJobs, UnPauseJobs, Shutdown, CancelJobs, CancelJobsWake, CancelJobsReturn, Restart
<1>5. ASSUME NEW w \in Workers, WorkerStep(w) PROVE PoolIsAllowed'
  BY <1>1, <1>5
  DEF WorkerStep, GetNextJob, PopJob, GetNextJobSleeps, GetNextJobQuits, WaitBlocks,
      WaitReturns, WaitExpires, OnJobProgress, OnJobProgressReturns, DoWorkReturns,
      OnJobCompleteCopies, OnJobCompleteCalls, OnJobCompleteErases, OnJobCompleteFrees
<1>6. CASE UNCHANGED vars
  BY <1>1, <1>6 DEF vars
<1> QED
  BY <1>2, <1>3, <1>4, <1>5, <1>6 DEF Next

(***************************************************************************)
(* The pool never has more threads than the most urgent priority in use is *)
(* allowed, and never fewer than jobs are in progress.                     *)
(***************************************************************************)
THEOREM PoolHolds == Spec => []PoolIsBounded
<1>1. Init => PoolIsAllowed
  <2> SUFFICES ASSUME Init PROVE PoolIsAllowed
    OBVIOUS
  <2>1. PICK p \in UsedPriorities : TRUE
    BY PrioritiesAssumption
  <2>2. Cardinality(m_workers) = 0 /\ GetMaxWorkers(p) \in Nat
    BY FS_EmptySet, GetMaxWorkersGrows, PrioritiesAssumption DEF Init
  <2> QED
    BY <2>2 DEF PoolIsAllowed
<1>2. TypeOK /\ Placement /\ PoolIsAllowed => PoolIsBounded
  BY ProcessingFitsPool DEF PoolIsBounded, PoolIsAllowed
<1>3. QED
  BY <1>1, <1>2, TypeCorrect, JobsAreInPlace, NextKeepsPoolAllowed, PTL DEF Spec

-----------------------------------------------------------------------------
\* A job comes into m_processing only through PopJob.
LEMMA OnlyPopJobStarts ==
  ASSUME TypeOK, [Next]_vars, ~(m_processing' \subseteq m_processing)
  PROVE  \E w \in Workers, p \in Priorities : PopJob(w, p)
<1>1. PICK w \in Workers : WorkerStep(w)
  BY DEF Next, vars, AddJob, AddJobAccepted, AddJobRefused, CancelJob, CancelQueuedJob,
         CancelProcessingJob, PauseJobs, UnPauseJobs, Shutdown, CancelJobs, CancelJobsWake,
         CancelJobsReturn, Restart
<1>2. GetNextJob(w)
  BY <1>1
  DEF WorkerStep, GetNextJobSleeps, GetNextJobQuits, WaitBlocks, WaitReturns,
      WaitExpires, OnJobProgress, OnJobProgressReturns, DoWorkReturns,
      OnJobCompleteCopies, OnJobCompleteCalls, OnJobCompleteErases, OnJobCompleteFrees
<1> QED
  BY <1>2 DEF GetNextJob

\* The job PopJob starts is at the head of its queue and those above are empty.
LEMMA PopJobTakesMostUrgent ==
  ASSUME TypeOK, Placement, NEW w \in Workers, NEW p \in Priorities, PopJob(w, p),
         NEW j \in Jobs, j \in m_processing' \ m_processing
  PROVE  /\ jobPriority[j] = p
         /\ j = Head(m_jobQueue[p])
         /\ \A q \in Priorities : q > p => m_jobQueue[q] = <<>>
<1>1. /\ j = Head(m_jobQueue[p])
      /\ Eligible(p)
      /\ \A q \in Priorities : q > p => ~Eligible(q)
  BY DEF PopJob
<1>2. 1 \in DOMAIN m_jobQueue[p] /\ j = m_jobQueue[p][1]
  BY <1>1, TailElements DEF Eligible, TypeOK
<1>3. jobPriority[j] = p
  BY <1>2 DEF Placement, QueuedJobsAreOwned
<1>4. ASSUME NEW q \in Priorities, q > p PROVE m_jobQueue[q] = <<>>
  <2>1. q # PRIORITY_LOW_PAUSABLE
    BY <1>4 DEF Priorities, PRIORITY_LOW_PAUSABLE, PRIORITY_HIGH
  <2>2. Cardinality(m_processing) < GetMaxWorkers(q)
    BY <1>1, <1>4, GetMaxWorkersGrows, ProcessingIsFinite, PrioritiesAreNat DEF Eligible
  <2> QED
    BY <1>1, <1>4, <2>1, <2>2 DEF Eligible
<1> QED
  BY <1>1, <1>3, <1>4

(***************************************************************************)
(* No job starts while a more urgent one is queued, and within a priority  *)
(* jobs start in the order they were added.                                *)
(***************************************************************************)
THEOREM MostUrgentFirstHolds == Spec => MostUrgentFirst
<1>1. TypeOK /\ Placement /\ [Next]_vars =>
        [\A j \in Jobs : j \in m_processing' \ m_processing =>
           /\ \A p \in Priorities : p > jobPriority[j] => m_jobQueue[p] = <<>>
           /\ j = Head(m_jobQueue[jobPriority[j]])]_vars
  <2> SUFFICES ASSUME TypeOK, Placement, [Next]_vars,
                      NEW j \in Jobs, j \in m_processing' \ m_processing
               PROVE  /\ \A p \in Priorities : p > jobPriority[j] => m_jobQueue[p] = <<>>
                      /\ j = Head(m_jobQueue[jobPriority[j]])
    OBVIOUS
  <2>1. PICK w \in Workers, p \in Priorities : PopJob(w, p)
    BY OnlyPopJobStarts
  <2> QED
    BY <2>1, PopJobTakesMostUrgent
<1>2. QED
  BY <1>1, TypeCorrect, JobsAreInPlace, PTL DEF Spec, MostUrgentFirst

-----------------------------------------------------------------------------
(***************************************************************************)
(* From CancelJobs' first critical section until Restart nothing can be    *)
(* queued, and no thread is left when CancelJobs returns.                  *)
(***************************************************************************)
Stopped ==
  /\ stopper # "idle" => ~m_running /\ \A p \in Priorities : DOMAIN m_jobQueue[p] = {}
  /\ stopper = "returned" => m_workers = {}

\* Stopped is inductive: no worker starts after CancelJobs returned.
LEMMA NextStopped ==
  ASSUME TypeOK, Stopped, [Next]_vars
  PROVE  Stopped'
<1> USE DEF Stopped, itemVars, workerVars
<1>1. ASSUME NEW j \in Jobs, AddJob(j) PROVE Stopped'
  BY <1>1 DEF AddJob, AddJobAccepted, AddJobRefused
<1>2. ASSUME NEW id \in 1 .. IdModulus - 1, CancelJob(id) PROVE Stopped'
  BY <1>2 DEF CancelJob, CancelQueuedJob, CancelProcessingJob
<1>3. CASE PauseJobs \/ UnPauseJobs \/ CancelJobsWake \/ CancelJobsReturn \/ Restart
  BY <1>3 DEF PauseJobs, UnPauseJobs, CancelJobsWake, CancelJobsReturn, Restart
<1>4. CASE CancelJobs
  <2>1. /\ \A p \in Priorities : DOMAIN m_jobQueue'[p] = {}
        /\ m_running' = FALSE /\ stopper' = "spinning"
    BY <1>4 DEF CancelJobs
  <2> QED
    BY <2>1
<1>5. ASSUME NEW w \in Workers, WorkerStep(w) PROVE Stopped'
  <2>1. CASE GetNextJob(w)
    <3>1. PICK p \in Priorities : PopJob(w, p)
      BY <2>1 DEF GetNextJob
    <3>2. 1 \in DOMAIN m_jobQueue[p]
      BY <3>1, TailElements DEF PopJob, Eligible, TypeOK
    <3> QED
      BY <3>1, <3>2 DEF PopJob
  <2>2. CASE ~GetNextJob(w)
    BY <1>5, <2>2
    DEF WorkerStep, GetNextJobSleeps, GetNextJobQuits, WaitBlocks, WaitReturns,
        WaitExpires, OnJobProgress, OnJobProgressReturns, DoWorkReturns,
        OnJobCompleteCopies, OnJobCompleteCalls, OnJobCompleteErases, OnJobCompleteFrees
  <2> QED
    BY <2>1, <2>2
<1>6. CASE UNCHANGED vars
  BY <1>6 DEF vars
<1> QED
  BY <1>1, <1>2, <1>3, <1>4, <1>5, <1>6 DEF Next, Shutdown

(***************************************************************************)
(* Once CancelJobs has returned, and until Restart, no thread of the pool  *)
(* exists that could call a client.                                        *)
(***************************************************************************)
THEOREM QuietHolds == Spec => []QuietAfterCancelJobs
<1>1. Init => Stopped
  BY DEF Init, Stopped
<1>2. TypeOK /\ Placement /\ Stopped => QuietAfterCancelJobs
  <2> SUFFICES ASSUME TypeOK, Placement, Stopped, stopper = "returned"
               PROVE  /\ \A w \in Workers : wpc[w] = "none"
                      /\ Queued = {}
                      /\ m_processing = {}
    BY DEF QuietAfterCancelJobs
  <2>1. \A w \in Workers : wpc[w] = "none"
    BY DEF Stopped, Placement, PoolIsAlive
  <2>2. Queued = {}
    BY DEF Stopped, Queued, QueuedIn
  <2>3. m_processing = {}
    BY <2>1 DEF TypeOK, Placement, ProcessingIsHeld, Busy
  <2> QED
    BY <2>1, <2>2, <2>3
<1>3. QED
  BY <1>1, <1>2, TypeCorrect, JobsAreInPlace, NextStopped, PTL DEF Spec

-----------------------------------------------------------------------------
\* While the threads a priority is allowed are all taken, one of them is busy:
\* it will look at the queues again when its job is done.
LEMMA FullPoolHasBusyWorker ==
  ASSUME TypeOK, Placement, NEW p \in Priorities,
         Cardinality(m_processing) >= GetMaxWorkers(p)
  PROVE  \E w \in Workers : wpc[w] \in Busy
<1>1. m_processing # {}
  <2>1. Cardinality(m_processing) # 0
    BY ProcessingIsFinite, GetMaxWorkersGrows
  <2> QED
    BY <2>1, FS_EmptySet
<1> QED
  BY <1>1 DEF TypeOK, Placement, ProcessingIsHeld

NonPausableQueued == \E p \in Priorities : p # PRIORITY_LOW_PAUSABLE /\ m_jobQueue[p] # <<>>

\* PopJob finds nothing although such a job is queued only when the pool is full.
LEMMA PopFailsOnFullPool ==
  ASSUME TypeOK, Placement, PopFails, NonPausableQueued
  PROVE  \E w \in Workers : wpc[w] \in Busy
<1>1. PICK p \in Priorities : p # PRIORITY_LOW_PAUSABLE /\ m_jobQueue[p] # <<>>
  BY DEF NonPausableQueued
<1>2. ~(Cardinality(m_processing) < GetMaxWorkers(p))
  BY <1>1 DEF PopFails, Eligible
<1>3. Cardinality(m_processing) >= GetMaxWorkers(p)
  BY <1>2, ProcessingIsFinite, GetMaxWorkersGrows
<1> QED
  BY <1>3, FullPoolHasBusyWorker

\* Whichever way StartWorkers goes, somebody will come for the new job: a busy
\* worker, one the event releases, or the one it starts.
LEMMA StartWorkersWakes ==
  ASSUME TypeOK, Placement, NEW p \in Priorities, StartWorkers(p)
  PROVE  \/ \E w \in Workers : Awake(w)'
         \/ m_jobEvent' /\ \E w \in Workers : wpc'[w] \in {"enter", "blocked"}
<1>1. CASE Cardinality(m_processing) >= GetMaxWorkers(p) /\ wpc' = wpc
  BY <1>1, FullPoolHasBusyWorker DEF Awake, Busy
<1>2. CASE /\ Cardinality(m_processing) < Cardinality(m_workers)
           /\ m_jobEvent' = TRUE /\ wpc' = wpc
  <2>1. m_workers # {}
    <3>1. Cardinality(m_workers) # 0
      BY <1>2, ProcessingIsFinite, ProcessingFitsPool
    <3> QED
      BY <3>1, FS_EmptySet
  <2>2. PICK w \in Workers : wpc[w] # "none"
    BY <2>1 DEF TypeOK, Placement, PoolIsAlive
  <2> QED
    BY <1>2, <2>2 DEF Awake
<1>3. CASE \E w \in Workers : wpc' = [wpc EXCEPT ![w] = "next"]
  BY <1>3 DEF Awake, TypeOK
<1> QED
  BY <1>1, <1>2, <1>3 DEF StartWorkers

\* A step that queues nothing and puts no worker to sleep.
LEMMA QuietStepWakes ==
  ASSUME NoStrandedJob, NonPausableQueued' => NonPausableQueued,
         \A w \in Workers : Awake(w) => Awake(w)',
         m_jobEvent => m_jobEvent',
         \A w \in Workers : wpc[w] \in {"enter", "blocked"} =>
           Awake(w)' \/ wpc'[w] \in {"enter", "blocked"}
  PROVE  NoStrandedJob'
BY DEF NoStrandedJob, NonPausableQueued

\* A queue that was not appended to holds no job it did not hold.
LEMMA ShorterQueues ==
  ASSUME TypeOK, TypeOK',
         \A p \in Priorities : m_jobQueue[p] = <<>> => m_jobQueue'[p] = <<>>
  PROVE  NonPausableQueued' => NonPausableQueued
BY DEF NonPausableQueued

\* NoStrandedJob is inductive: a worker that leaves the queues alone leaves a busy
\* one behind, or nothing it could have taken.
LEMMA NextStrandsNoJob ==
  ASSUME TypeOK, TypeOK', Placement, NoStrandedJob, [Next]_vars
  PROVE  NoStrandedJob'
<1> USE DEF itemVars, workerVars
<1>1. ASSUME NEW j \in Jobs, AddJob(j) PROVE NoStrandedJob'
  <2>1. CASE AddJobRefused(j)
    BY <2>1, QuietStepWakes DEF AddJobRefused, NonPausableQueued, Awake
  <2>2. CASE \E p \in UsedPriorities, cb \in BOOLEAN : AddJobAccepted(j, p, cb)
    BY <2>2, StartWorkersWakes, PrioritiesAssumption DEF AddJobAccepted, NoStrandedJob
  <2> QED
    BY <1>1, <2>1, <2>2 DEF AddJob
<1>2. ASSUME NEW id \in 1 .. IdModulus - 1, CancelJob(id) PROVE NoStrandedJob'
  <2>1. CASE CancelQueuedJob(id)
    <3>1. PICK p \in Priorities : \E i \in DOMAIN m_jobQueue[p] :
            m_jobQueue' = [m_jobQueue EXCEPT ![p] = DropAt(@, i)]
      BY <2>1 DEF CancelQueuedJob
    <3>2. m_jobQueue[p] # <<>> /\ \A q \in Priorities \ {p} : m_jobQueue'[q] = m_jobQueue[q]
      BY <3>1 DEF TypeOK
    <3>3. NonPausableQueued' => NonPausableQueued
      BY <3>2, ShorterQueues
    <3> QED
      BY <2>1, <3>3, QuietStepWakes DEF CancelQueuedJob, Awake
  <2>2. CASE CancelProcessingJob(id)
    BY <2>2, QuietStepWakes DEF CancelProcessingJob, NonPausableQueued, Awake
  <2> QED
    BY <1>2, <2>1, <2>2 DEF CancelJob
<1>3. CASE PauseJobs \/ UnPauseJobs
  BY <1>3, QuietStepWakes DEF PauseJobs, UnPauseJobs, NonPausableQueued, Awake
<1>4. CASE Shutdown
  <2>1. CASE CancelJobs
    BY <2>1 DEF CancelJobs, NoStrandedJob
  <2>2. CASE CancelJobsWake \/ CancelJobsReturn \/ Restart
    BY <2>2, QuietStepWakes
    DEF CancelJobsWake, CancelJobsReturn, Restart, NonPausableQueued, Awake
  <2> QED
    BY <1>4, <2>1, <2>2 DEF Shutdown
<1>5. ASSUME NEW w \in Workers, WorkerStep(w) PROVE NoStrandedJob'
  <2>1. CASE GetNextJob(w)
    BY <2>1 DEF GetNextJob, PopJob, NoStrandedJob, Awake, TypeOK
  <2>2. CASE GetNextJobSleeps(w) \/ GetNextJobQuits(w)
    <3> SUFFICES ASSUME NonPausableQueued PROVE \E v \in Workers : Awake(v)'
      BY <2>2 DEF GetNextJobSleeps, GetNextJobQuits, NoStrandedJob, NonPausableQueued
    <3>1. PICK v \in Workers : wpc[v] \in Busy
      BY <2>2, PopFailsOnFullPool DEF GetNextJobSleeps, GetNextJobQuits
    <3>2. v # w
      BY <2>2, <3>1 DEF GetNextJobSleeps, GetNextJobQuits, Busy
    <3>3. wpc'[v] = wpc[v]
      BY <2>2, <3>2 DEF GetNextJobSleeps, GetNextJobQuits, TypeOK
    <3> QED
      BY <3>1, <3>3 DEF Awake, Busy
  <2>3. CASE WaitReturns(w) \/ WaitExpires(w)
    BY <2>3 DEF WaitReturns, WaitExpires, NoStrandedJob, Awake, TypeOK
  <2>4. CASE WaitBlocks(w)
    BY <2>4, QuietStepWakes DEF WaitBlocks, NonPausableQueued, Awake, TypeOK
  <2>5. CASE OnJobProgress(w) \/ OnJobProgressReturns(w) \/ DoWorkReturns(w)
    <3>1. CASE OnJobProgress(w)
      BY <3>1 DEF OnJobProgress, NoStrandedJob, Awake, TypeOK
    <3>2. CASE OnJobProgressReturns(w)
      BY <3>2 DEF OnJobProgressReturns, NoStrandedJob, Awake, TypeOK
    <3>3. CASE DoWorkReturns(w)
      BY <3>3 DEF DoWorkReturns, NoStrandedJob, Awake, TypeOK
    <3> QED
      BY <2>5, <3>1, <3>2, <3>3
  <2>6. CASE OnJobCompleteCopies(w) \/ OnJobCompleteCalls(w)
    BY <2>6 DEF OnJobCompleteCopies, OnJobCompleteCalls, NoStrandedJob, Awake, TypeOK
  <2>7. CASE OnJobCompleteErases(w) \/ OnJobCompleteFrees(w)
    BY <2>7 DEF OnJobCompleteErases, OnJobCompleteFrees, NoStrandedJob, Awake, TypeOK
  <2> QED
    BY <1>5, <2>1, <2>2, <2>3, <2>4, <2>5, <2>6, <2>7 DEF WorkerStep
<1>6. CASE UNCHANGED vars
  BY <1>6, QuietStepWakes DEF vars, NonPausableQueued, Awake
<1> QED
  BY <1>1, <1>2, <1>3, <1>4, <1>5, <1>6 DEF Next

(***************************************************************************)
(* No lost wakeup: whatever threads, clients and priorities there are, a   *)
(* queued job that may run has a worker on its way to it.                  *)
(***************************************************************************)
THEOREM NoStrandedJobHolds == Spec => []NoStrandedJob
<1>1. Init => NoStrandedJob
  BY DEF Init, NoStrandedJob
<1>2. QED
  BY <1>1, TypeCorrect, JobsAreInPlace, NextStrandsNoJob, PTL DEF Spec

-----------------------------------------------------------------------------
(***************************************************************************)
(* Job ids.  The jobs that were ever given an id, and how many ids were    *)
(* handed out after theirs (ids count 1 .. IdModulus - 1 and around).      *)
(***************************************************************************)
Numbered == {j \in Jobs : jobId[j] # 0}

Age(id) == IF id <= m_jobCounter THEN m_jobCounter - id
                                 ELSE m_jobCounter - id + IdModulus - 1

IdsAreRecent ==
  /\ Numbered # {} => m_jobCounter # 0
  /\ \A j \in Numbered : Age(jobId[j]) < Cardinality(Numbered)
  /\ \A i, j \in Numbered : jobId[i] = jobId[j] => i = j
  /\ \A j \in Jobs : heap[j] = "owned" => j \in Numbered
  /\ \A j \in Jobs : heap[j] = "new" => j \notin Numbered

\* Numbered is a part of Jobs, and finite with it.
LEMMA NumberedIsFinite ==
  /\ IsFiniteSet(Numbered)
  /\ Cardinality(Numbered) \in Nat
  /\ IsFiniteSet(Jobs)
  /\ Cardinality(Jobs) \in Nat
<1>1. Numbered \in SUBSET Jobs
  BY DEF Numbered
<1> QED
  BY <1>1, JobsAssumption, FS_Subset, FS_CardinalityType DEF JobsAssumption

\* While fewer ids than there are were handed out after an id, the next one is
\* another, and makes it older by one.
LEMMA NextIdAges ==
  ASSUME m_jobCounter \in 1 .. IdModulus - 1,
         NEW id \in 1 .. IdModulus - 1, Age(id) < IdModulus - 2,
         m_jobCounter' = NextId
  PROVE  /\ id # NextId
         /\ Age(id)' = Age(id) + 1
<1>1. NextId = IF m_jobCounter = IdModulus - 1 THEN 1 ELSE m_jobCounter + 1
  BY IdModulusAssumption DEF NextId
<1> QED
  BY <1>1, IdModulusAssumption DEF Age

\* The next id is never 0, and the most recent one.
LEMMA NextIdIsValid ==
  ASSUME m_jobCounter \in 0 .. IdModulus - 1
  PROVE  NextId \in 1 .. IdModulus - 1
BY IdModulusAssumption DEF NextId

\* The job that is numbered now has an id that no earlier job has.
LEMMA AddJobAcceptedIds ==
  ASSUME Cardinality(Jobs) < IdModulus, TypeOK, IdsAreRecent,
         NEW j \in Jobs, NEW p \in UsedPriorities, NEW cb \in BOOLEAN,
         AddJobAccepted(j, p, cb)
  PROVE  IdsAreRecent'
<1>0. j \notin Numbered /\ NextId \in 1 .. IdModulus - 1
  BY NextIdIsValid DEF AddJobAccepted, IdsAreRecent, TypeOK
<1>1. /\ j \notin Numbered
      /\ Numbered' = Numbered \cup {j}
      /\ m_jobCounter' = NextId
      /\ jobId'[j] = NextId
      /\ \A i \in Numbered : jobId'[i] = jobId[i]
  <2>1. jobId' = [jobId EXCEPT ![j] = NextId] /\ m_jobCounter' = NextId
    BY DEF AddJobAccepted
  <2>2. jobId'[j] = NextId /\ NextId # 0 /\ \A i \in Jobs \ {j} : jobId'[i] = jobId[i]
    BY <2>1, <1>0 DEF TypeOK
  <2> QED
    BY <2>1, <2>2, <1>0 DEF Numbered
<1>2. Cardinality(Numbered') = Cardinality(Numbered) + 1
  BY <1>1, NumberedIsFinite, FS_AddElement
<1>3. Cardinality(Numbered) < IdModulus - 1
  <2>1. Numbered' \in SUBSET Jobs
    BY DEF Numbered
  <2>2. Cardinality(Numbered') <= Cardinality(Jobs)
    BY <2>1, NumberedIsFinite, FS_Subset
  <2> QED
    BY <1>2, <2>2, NumberedIsFinite, IdModulusAssumption
<1>4. NextId \in 1 .. IdModulus - 1
  BY <1>0
<1>5. Age(jobId[j])' = 0
  BY <1>1, <1>4 DEF Age
<1>6. ASSUME NEW i \in Numbered
      PROVE  /\ jobId[i] \in 1 .. IdModulus - 1
             /\ jobId[i] # NextId
             /\ Age(jobId[i])' < Cardinality(Numbered) + 1
  <2>1. m_jobCounter \in 1 .. IdModulus - 1
    <3>1. m_jobCounter # 0
      BY DEF IdsAreRecent
    <3> QED
      BY <3>1, IdModulusAssumption DEF TypeOK
  <2>2. PICK id \in 1 .. IdModulus - 1 : id = jobId[i]
    <3>1. jobId[i] # 0 /\ i \in Jobs
      BY DEF IdsAreRecent, Numbered
    <3> QED
      BY <3>1, IdModulusAssumption DEF TypeOK
  <2>3. Age(id) < Cardinality(Numbered)
    BY <2>2 DEF IdsAreRecent
  <2>4. Age(id) \in Int
    BY <2>1, <2>2, IdModulusAssumption DEF Age
  <2>5. id # NextId /\ Age(id)' = Age(id) + 1
    <3>1. Age(id) < IdModulus - 2
      BY <1>3, <2>3, <2>4, NumberedIsFinite, IdModulusAssumption
    <3> QED
      BY <2>1, <3>1, <1>1, NextIdAges
  <2>6. Age(jobId[i])' = Age(id)'
    BY <1>1, <2>2
  <2> QED
    BY <2>2, <2>3, <2>4, <2>5, <2>6, NumberedIsFinite
<1>7. ASSUME NEW i \in Numbered'
      PROVE  jobId'[i] # 0 /\ Age(jobId[i])' < Cardinality(Numbered')
  <2>1. CASE i = j
    BY <2>1, <1>1, <1>2, <1>4, <1>5, NumberedIsFinite
  <2>2. CASE i \in Numbered
    BY <2>2, <1>1, <1>2, <1>6
  <2> QED
    BY <2>1, <2>2, <1>1
<1>8. ASSUME NEW i \in Numbered', NEW k \in Numbered', jobId'[i] = jobId'[k]
      PROVE  i = k
  BY <1>1, <1>6, <1>8 DEF IdsAreRecent
<1>9. ASSUME NEW i \in Jobs
      PROVE  (heap'[i] = "owned" => i \in Numbered') /\ (heap'[i] = "new" => i \notin Numbered')
  BY <1>1 DEF AddJobAccepted, IdsAreRecent, TypeOK
<1> QED
  BY <1>1, <1>4, <1>7, <1>8, <1>9 DEF IdsAreRecent

\* Any other step leaves the counter and the ids, and brings no job back.
LEMMA OthersKeepIds ==
  ASSUME IdsAreRecent, UNCHANGED <<m_jobCounter, jobId>>,
         \A j \in Jobs : heap'[j] \in {"owned", "new"} => heap'[j] = heap[j]
  PROVE  IdsAreRecent'
BY DEF IdsAreRecent, Age, Numbered

\* Only AddJob hands out an id.
LEMMA NextIdsAreRecent ==
  ASSUME Cardinality(Jobs) < IdModulus, TypeOK, IdsAreRecent, [Next]_vars
  PROVE  IdsAreRecent'
<1> USE DEF itemVars, workerVars
<1>1. ASSUME NEW j \in Jobs, AddJob(j) PROVE IdsAreRecent'
  <2>1. CASE AddJobRefused(j)
    BY <2>1, OthersKeepIds DEF AddJobRefused, TypeOK
  <2> QED
    BY <1>1, <2>1, AddJobAcceptedIds DEF AddJob
<1>2. ASSUME NEW id \in 1 .. IdModulus - 1, CancelJob(id) PROVE IdsAreRecent'
  <2>1. CASE CancelQueuedJob(id)
    <3>1. \A j \in Jobs : heap'[j] = heap[j] \/ heap'[j] = "freed"
      BY <2>1 DEF CancelQueuedJob, TypeOK
    <3> QED
      BY <2>1, <3>1, OthersKeepIds DEF CancelQueuedJob
  <2>2. CASE CancelProcessingJob(id)
    BY <2>2, OthersKeepIds DEF CancelProcessingJob
  <2> QED
    BY <1>2, <2>1, <2>2 DEF CancelJob
<1>3. CASE PauseJobs \/ UnPauseJobs
  BY <1>3, OthersKeepIds DEF PauseJobs, UnPauseJobs
<1>4. CASE Shutdown
  <2>1. CASE CancelJobs
    <3>1. \A j \in Jobs : heap'[j] = heap[j] \/ heap'[j] = "freed"
      BY <2>1 DEF CancelJobs
    <3> QED
      BY <2>1, <3>1, OthersKeepIds DEF CancelJobs
  <2>2. CASE CancelJobsWake \/ CancelJobsReturn \/ Restart
    BY <2>2, OthersKeepIds DEF CancelJobsWake, CancelJobsReturn, Restart
  <2> QED
    BY <1>4, <2>1, <2>2 DEF Shutdown
<1>5. ASSUME NEW w \in Workers, WorkerStep(w) PROVE IdsAreRecent'
  <2>1. CASE OnJobCompleteFrees(w)
    BY <2>1, OthersKeepIds DEF OnJobCompleteFrees, TypeOK
  <2>2. CASE ~OnJobCompleteFrees(w)
    BY <1>5, <2>2, OthersKeepIds
    DEF WorkerStep, GetNextJob, PopJob, GetNextJobSleeps, GetNextJobQuits, WaitBlocks,
        WaitReturns, WaitExpires, OnJobProgress, OnJobProgressReturns, DoWorkReturns,
        OnJobCompleteCopies, OnJobCompleteCalls, OnJobCompleteErases
  <2> QED
    BY <2>1, <2>2
<1>6. CASE UNCHANGED vars
  BY <1>6, OthersKeepIds DEF vars
<1> QED
  BY <1>1, <1>2, <1>3, <1>4, <1>5, <1>6 DEF Next

\* No job has an id when the manager is constructed.
LEMMA InitIdsAreRecent == Init => IdsAreRecent
BY DEF Init, IdsAreRecent, Numbered

\* What recent ids mean for the jobs that CancelJob may find.
LEMMA RecentIdsIdentify ==
  ASSUME TypeOK, Placement, IdsAreRecent
  PROVE  IdsIdentifyJobs
<1>1. \A j \in Queued \cup m_processing : j \in Jobs /\ heap[j] = "owned"
  BY DEF TypeOK, Placement, QueuedJobsAreOwned, HeldJobsAreOwned, ProcessingIsHeld,
         Queued, QueuedIn, Holds
<1>2. \A j \in Queued \cup m_processing : j \in Numbered
  BY <1>1 DEF IdsAreRecent
<1>3. \A j \in Queued \cup m_processing : jobId[j] # 0
  BY <1>2 DEF Numbered
<1> QED
  BY <1>2, <1>3 DEF IdsAreRecent, IdsIdentifyJobs

(***************************************************************************)
(* As long as there are no more jobs than ids (2^32 - 1 in the code), no   *)
(* job has the id 0 and no two live jobs share one, wherever the counter   *)
(* began and wherever it wraps (CJobManager::AddJob).                      *)
(***************************************************************************)
THEOREM IdsIdentifyJobsHolds ==
  ASSUME Cardinality(Jobs) < IdModulus
  PROVE  Spec => []IdsIdentifyJobs
<1>1. TypeOK /\ IdsAreRecent /\ [Next]_vars => IdsAreRecent'
  BY NextIdsAreRecent
<1>2. QED
  BY <1>1, InitIdsAreRecent, RecentIdsIdentify, TypeCorrect, JobsAreInPlace, PTL DEF Spec

-----------------------------------------------------------------------------
(***************************************************************************)
(* The service's state, in the words of the manager.                       *)
(***************************************************************************)
Phase == CASE m_running -> "open"
           [] stopper = "spinning" -> "closing"
           [] OTHER -> "closed"
Attached == {j \in Jobs : jobCallback[j] /\ Status(j) \in {"queued", "running"}}
Reporting == {wjob[w] : w \in {v \in Workers : wpc[v] = "progress"}}

\* What a worker's place says of the job it holds.
Stage(w) ==
  CASE wpc[w] \in {"work", "progress", "complete"} -> "running"
    [] wpc[w] = "callback" /\ wcallback[w] -> "notifying"
    [] wpc[w] = "callback" /\ ~wcallback[w] -> "ending"
    [] wpc[w] = "erase" -> "ending"
    [] OTHER -> "none"

StatusFacts ==
  /\ \A j \in Jobs :
       /\ heap[j] = "new" => Status(j) = "fresh"
       /\ heap[j] = "refused" => Status(j) = "refused"
       /\ j \in Queued => heap[j] = "owned" /\ Status(j) = "queued"
       /\ (heap[j] \in {"owned", "freed"} /\ j \notin Queued /\
             \A w \in Workers : wjob[w] = j => Stage(w) = "none") => Status(j) = "gone"
       /\ Status(j) = "queued" => j \in Queued
  /\ \A w \in Workers : Stage(w) # "none" =>
       /\ wjob[w] \in Jobs /\ wjob[w] \notin Queued
       /\ heap[wjob[w]] = "owned"
       /\ Status(wjob[w]) = Stage(w)

\* The invariants of the manager say which status each job has.
LEMMA StatusIsKnown == TypeOK /\ Placement => StatusFacts
<1> SUFFICES ASSUME TypeOK, Placement PROVE StatusFacts
  OBVIOUS
<1>1. \A w \in Workers : (Stage(w) # "none" <=> wpc[w] \in Busy)
  BY DEF Stage, Busy
<1>2. ASSUME NEW w \in Workers, wpc[w] \in Busy \cup {"free"}
      PROVE  /\ wjob[w] \in Jobs /\ wjob[w] \notin Queued
             /\ heap[wjob[w]] = "owned"
             /\ \A v \in Workers : wpc[v] \in Busy \cup {"free"} /\ wjob[v] = wjob[w] => v = w
  BY <1>2 DEF Placement, HeldJobsAreOwned, HeldOnce, Holds, Queued, QueuedIn
<1>3. ASSUME NEW w \in Workers, Stage(w) # "none"
      PROVE  Status(wjob[w]) = Stage(w)
  <2>1. \A v \in Workers : wpc[v] \in Busy /\ wjob[v] = wjob[w] => v = w
    BY <1>1, <1>2, <1>3
  <2>2. heap[wjob[w]] = "owned" /\ wjob[w] \notin Queued
    BY <1>1, <1>2, <1>3
  <2> QED
    BY <1>3, <2>1, <2>2 DEF Status, Stage, WorkerAt, Notifying, Busy
<1>4. \A j \in Queued : j \in Jobs /\ heap[j] = "owned"
  BY DEF TypeOK, Placement, QueuedJobsAreOwned, Queued, QueuedIn
<1>5. ASSUME NEW j \in Jobs
      PROVE  /\ heap[j] = "new" => Status(j) = "fresh"
             /\ heap[j] = "refused" => Status(j) = "refused"
             /\ j \in Queued => heap[j] = "owned" /\ Status(j) = "queued"
             /\ Status(j) = "queued" => j \in Queued
  <2>1. heap[j] # "owned" \/ j \in Queued =>
          /\ ~WorkerAt(j, {"work", "progress", "complete"})
          /\ ~WorkerAt(j, {"callback", "erase"})
          /\ ~Notifying(j)
    BY <1>2 DEF WorkerAt, Notifying, Busy
  <2> QED
    BY <1>4, <2>1 DEF Status
<1>6. ASSUME NEW j \in Jobs, heap[j] \in {"owned", "freed"}, j \notin Queued,
             \A w \in Workers : wjob[w] = j => Stage(w) = "none"
      PROVE  Status(j) = "gone"
  <2>1. \A w \in Workers : wjob[w] = j => wpc[w] \notin Busy
    BY <1>6, <1>1
  <2>2. /\ ~WorkerAt(j, {"work", "progress", "complete"})
        /\ ~WorkerAt(j, {"callback", "erase"})
        /\ ~Notifying(j)
    BY <2>1 DEF WorkerAt, Notifying, Busy
  <2> QED
    BY <1>6, <2>2 DEF Status
<1> QED
  BY <1>1, <1>2, <1>3, <1>5, <1>6 DEF StatusFacts

\* A job whose queue and whose worker do not change keeps its status.
LEMMA StatusStays ==
  ASSUME NEW j \in Jobs,
         heap'[j] = heap[j],
         j \in Queued' <=> j \in Queued,
         \A w \in Workers :
           (wjob[w] = j /\ Stage(w) # "none") \/ (wjob'[w] = j /\ Stage(w)' # "none")
             => wjob'[w] = wjob[w] /\ Stage(w)' = Stage(w)
  PROVE  Status(j)' = Status(j)
<1>1. \A w \in Workers : (Stage(w) = "running" <=> wpc[w] \in {"work", "progress", "complete"})
                      /\ (Stage(w) = "notifying" <=> wpc[w] = "callback" /\ wcallback[w])
                      /\ (Stage(w) \in {"notifying", "ending"} <=> wpc[w] \in {"callback", "erase"})
  BY DEF Stage
<1>2. \A w \in Workers : (Stage(w)' = "running" <=> wpc'[w] \in {"work", "progress", "complete"})
                      /\ (Stage(w)' = "notifying" <=> wpc'[w] = "callback" /\ wcallback'[w])
                      /\ (Stage(w)' \in {"notifying", "ending"} <=> wpc'[w] \in {"callback", "erase"})
  BY DEF Stage
<1>3. /\ WorkerAt(j, {"work", "progress", "complete"})' <=> WorkerAt(j, {"work", "progress", "complete"})
      /\ WorkerAt(j, {"callback", "erase"})' <=> WorkerAt(j, {"callback", "erase"})
      /\ Notifying(j)' <=> Notifying(j)
  BY <1>1, <1>2 DEF WorkerAt, Notifying
<1> QED
  BY <1>3 DEF Status

\* What the phase of the service is, from the invariant about CancelJobs.
PhaseFacts ==
  /\ m_running => Phase = "open"
  /\ ~m_running /\ stopper = "spinning" => Phase = "closing"
  /\ ~m_running /\ stopper # "spinning" => Phase = "closed"

\* m_running and the caller of CancelJobs agree.
LEMMA PhaseIsKnown == TypeOK /\ Stopped => PhaseFacts
BY DEF TypeOK, Stopped, PhaseFacts, Phase

\* JobService's copy of the standard module counts as the manager's does.
LEMMA SameCardinality ==
  ASSUME NEW S
  PROVE  Service!Cardinality(S) = Cardinality(S)
BY DEF Service!Cardinality, Cardinality

\* A step that changes nothing of what the service's state is read off.
LEMMA ServiceStutters ==
  ASSUME Phase' = Phase, m_pauseJobs' = m_pauseJobs, jobPriority' = jobPriority,
         \A j \in Jobs : Status(j)' = Status(j),
         Attached' = Attached, Reporting' = Reporting
  PROVE  UNCHANGED Service!vars
<1>1. [j \in Jobs |-> Status(j)]' = [j \in Jobs |-> Status(j)]
  OBVIOUS
<1> QED
  BY <1>1 DEF Service!vars, Phase, Attached, Reporting

\* What the proofs about a step may use of the states on both of its sides.
Known == TypeOK /\ Placement /\ Stopped /\ StatusFacts /\ PhaseFacts

\* All of it follows from the invariants of the manager.
LEMMA KnownStates == TypeOK /\ Placement /\ Stopped => Known
BY StatusIsKnown, PhaseIsKnown DEF Known

\* A step that leaves the queues, the freed jobs and the workers' stages alone
\* leaves every status alone.
LEMMA AllStatusStays ==
  ASSUME UNCHANGED <<heap, m_jobQueue>>,
         \A w \in Workers : Stage(w)' = Stage(w) /\ (Stage(w) # "none" => wjob'[w] = wjob[w])
  PROVE  \A j \in Jobs : Status(j)' = Status(j)
<1>1. Queued' = Queued
  BY DEF Queued, QueuedIn
<1> QED
  BY <1>1, StatusStays

-----------------------------------------------------------------------------
\* AddJob on a running manager is Accept.
LEMMA AddJobAcceptedIsAccept ==
  ASSUME Known, Known',
         NEW j \in Jobs, NEW p \in UsedPriorities, NEW cb \in BOOLEAN,
         AddJobAccepted(j, p, cb)
  PROVE  p \in Priorities /\ Service!Accept(j, p)
<1> USE DEF Known
<1>1. p \in Priorities
  BY PrioritiesAssumption
<1>2. /\ m_jobQueue'[p] = Append(m_jobQueue[p], j)
      /\ \A q \in Priorities \ {p} : m_jobQueue'[q] = m_jobQueue[q]
      /\ wjob' = wjob /\ wcallback' = wcallback
      /\ \A w \in Workers : wpc'[w] = wpc[w] \/ (wpc[w] = "none" /\ wpc'[w] = "next")
  BY <1>1, StartWorkersPool DEF AddJobAccepted, Placement, TypeOK
<1>3. Queued' = Queued \cup {j}
  BY AddJobAcceptedQueues
<1>4. \A w \in Workers : Stage(w)' = Stage(w)
  BY <1>2 DEF Stage
<1>5. \A k \in Jobs \ {j} : Status(k)' = Status(k)
  BY <1>2, <1>3, <1>4, StatusStays, ZenonT(40) DEF AddJobAccepted, TypeOK
<1>6. Status(j) = "fresh" /\ Status(j)' = "queued"
  BY <1>3 DEF StatusFacts, AddJobAccepted
<1>7. [k \in Jobs |-> Status(k)]' = [[k \in Jobs |-> Status(k)] EXCEPT ![j] = "queued"]
  BY <1>5, <1>6
<1>8. Attached' \in {Attached, Attached \cup {j}}
  <2>1. Attached' = IF cb THEN Attached \cup {j} ELSE Attached
    BY <1>5, <1>6 DEF Attached, AddJobAccepted, TypeOK
  <2> QED
    BY <2>1
<1>9. Phase = "open" /\ Phase' = Phase
  BY DEF PhaseFacts, AddJobAccepted
<1>10. Reporting' = Reporting
  BY <1>2 DEF Reporting
<1> QED
  BY <1>1, <1>6, <1>7, <1>8, <1>9, <1>10
  DEF Service!Accept, Phase, Attached, Reporting, AddJobAccepted

\* AddJob on a cancelled one is Refuse.
LEMMA AddJobRefusedIsRefuse ==
  ASSUME Known, Known', NEW j \in Jobs, AddJobRefused(j)
  PROVE  Service!Refuse(j)
<1> USE DEF Known
<1>1. UNCHANGED <<m_jobQueue, m_running, stopper, m_pauseJobs, jobPriority, jobCallback,
                  wpc, wjob, wcallback>>
  BY DEF AddJobRefused, itemVars, workerVars
<1>2. Queued' = Queued /\ \A w \in Workers : Stage(w)' = Stage(w)
  BY <1>1 DEF Queued, QueuedIn, Stage
<1>3. \A k \in Jobs \ {j} : Status(k)' = Status(k)
  BY <1>1, <1>2, StatusStays DEF AddJobRefused, TypeOK
<1>4. Status(j) = "fresh" /\ Status(j)' = "refused"
  BY DEF StatusFacts, AddJobRefused, TypeOK
<1>5. [k \in Jobs |-> Status(k)]' = [[k \in Jobs |-> Status(k)] EXCEPT ![j] = "refused"]
  BY <1>3, <1>4
<1>6. Attached' = Attached /\ Reporting' = Reporting
  BY <1>1, <1>3, <1>4 DEF Attached, Reporting
<1>7. Phase # "open" /\ Phase' = Phase
  BY <1>1 DEF PhaseFacts, AddJobRefused, TypeOK
<1> QED
  BY <1>1, <1>4, <1>5, <1>6, <1>7 DEF Service!Refuse, Phase, Attached, Reporting

\* CancelJob of a queued job is Withdraw.
LEMMA CancelQueuedJobIsWithdraw ==
  ASSUME Known, Known', NEW id \in 1 .. IdModulus - 1, CancelQueuedJob(id)
  PROVE  \E j \in Jobs : Service!Withdraw(j)
<1> USE DEF Known
<1>1. PICK j \in Jobs : /\ j \in Queued
                       /\ Queued' = Queued \ {j}
                       /\ heap' = [heap EXCEPT ![j] = "freed"]
  BY CancelQueuedJobUnqueues
<1>4. UNCHANGED <<m_running, stopper, m_pauseJobs, jobPriority, jobCallback,
                  wpc, wjob, wcallback>>
  BY DEF CancelQueuedJob, itemVars, workerVars
<1>5. heap'[j] = "freed" /\ \A k \in Jobs \ {j} : heap'[k] = heap[k]
  BY <1>1 DEF TypeOK
<1>6. Queued' = Queued \ {j}
  BY <1>1
<1>7. \A w \in Workers : Stage(w)' = Stage(w)
  BY <1>4 DEF Stage
<1>8. j \in Queued
  BY <1>1
<1>9. \A k \in Jobs \ {j} : Status(k)' = Status(k)
  BY <1>4, <1>5, <1>6, <1>7, StatusStays
<1>10. Status(j) = "queued" /\ Status(j)' = "gone"
  <2>1. \A w \in Workers : wjob[w] = j => Stage(w) = "none"
    BY <1>8 DEF StatusFacts
  <2> QED
    BY <1>4, <1>5, <1>6, <1>7, <1>8, <2>1 DEF StatusFacts
<1>11. [k \in Jobs |-> Status(k)]' = [[k \in Jobs |-> Status(k)] EXCEPT ![j] = "gone"]
  BY <1>9, <1>10
<1>12. Attached' = Attached \ {j} /\ Reporting' = Reporting
  BY <1>4, <1>9, <1>10 DEF Attached, Reporting
<1>13. Phase' = Phase
  BY <1>4 DEF Phase
<1>14. Service!Withdraw(j)
  BY <1>4, <1>10, <1>11, <1>12, <1>13 DEF Service!Withdraw, Phase, Attached, Reporting
<1> QED
  BY <1>14

\* CancelJob of a job in progress is Detach while it runs, and nothing the client
\* can tell once its work item was copied.
LEMMA CancelProcessingJobIsDetach ==
  ASSUME Known, Known', NEW id \in 1 .. IdModulus - 1, CancelProcessingJob(id)
  PROVE  (\E j \in Jobs : Service!Detach(j)) \/ UNCHANGED Service!vars
<1> USE DEF Known
<1>1. PICK j \in m_processing : jobCallback' = [jobCallback EXCEPT ![j] = FALSE]
  BY DEF CancelProcessingJob
<1>2. UNCHANGED <<m_running, stopper, m_pauseJobs, jobPriority, m_jobQueue, heap,
                  wpc, wjob, wcallback>>
  BY DEF CancelProcessingJob, workerVars
<1>3. \A k \in Jobs : Status(k)' = Status(k)
  BY <1>2, AllStatusStays DEF Stage
<1>4. [k \in Jobs |-> Status(k)]' = [k \in Jobs |-> Status(k)]
  BY <1>3
<1>5. Phase' = Phase /\ Reporting' = Reporting
  BY <1>2 DEF Phase, Reporting
<1>6. Attached' = Attached \ {j}
  BY <1>1, <1>3 DEF Attached, TypeOK
<1>7. CASE Status(j) = "running"
  <2>1. j \in Jobs
    BY DEF TypeOK
  <2>2. Service!Detach(j)
    BY <1>2, <1>4, <1>5, <1>6, <1>7, <2>1 DEF Service!Detach, Phase, Attached, Reporting
  <2> QED
    BY <2>1, <2>2
<1>8. CASE Status(j) # "running"
  <2>1. Status(j) # "queued"
    BY DEF TypeOK, Placement, ProcessingIsHeld, HeldJobsAreOwned, Holds, StatusFacts,
           Queued, QueuedIn
  <2>2. Attached' = Attached
    BY <1>6, <1>8, <2>1 DEF Attached
  <2> QED
    BY <1>2, <1>3, <1>5, <2>2, ServiceStutters
<1> QED
  BY <1>7, <1>8

\* Steps of the manager that touch neither a queue, a job nor a thread.
LEMMA PauseIsSetPaused ==
  ASSUME PauseJobs \/ UnPauseJobs
  PROVE  \E b \in BOOLEAN : Service!SetPaused(b)
<1>1. UNCHANGED <<m_running, stopper, jobPriority, jobCallback, m_jobQueue, heap,
                  wpc, wjob, wcallback>>
  BY DEF PauseJobs, UnPauseJobs, itemVars, workerVars
<1>2. [k \in Jobs |-> Status(k)]' = [k \in Jobs |-> Status(k)]
  BY <1>1, AllStatusStays DEF Stage
<1>3. Phase' = Phase /\ Reporting' = Reporting
  BY <1>1 DEF Phase, Reporting
<1>4. Attached' = Attached
  <2>1. \A k \in Jobs : Status(k)' = Status(k)
    BY <1>1, AllStatusStays DEF Stage
  <2> QED
    BY <1>1, <2>1 DEF Attached
<1>5. m_pauseJobs' \in BOOLEAN
  BY DEF PauseJobs, UnPauseJobs
<1> QED
  BY <1>1, <1>2, <1>3, <1>4, <1>5 DEF Service!SetPaused, Phase, Attached, Reporting

\* CancelJobs, up to its first yield, is Close.
LEMMA CancelJobsIsClose ==
  ASSUME Known, Known', CancelJobs
  PROVE  Service!Close
<1> USE DEF Known
<1>1. /\ UNCHANGED <<m_pauseJobs, jobPriority, m_processing, wpc, wjob, wcallback>>
      /\ \A j \in Jobs : heap'[j] = IF j \in Queued THEN "freed" ELSE heap[j]
      /\ \A j \in Jobs : jobCallback'[j] => jobCallback[j] /\ j \notin m_processing
      /\ m_running' = FALSE /\ stopper' = "spinning" /\ stopper # "spinning"
  BY Zenon DEF CancelJobs, workerVars
<1>2. Queued' = {}
  BY DEF CancelJobs, Queued, QueuedIn
<1>3. \A w \in Workers : Stage(w)' = Stage(w)
  BY <1>1 DEF Stage
<1>4. ASSUME NEW k \in Jobs
      PROVE  Status(k)' = IF Status(k) = "queued" THEN "gone" ELSE Status(k)
  <2>1. CASE k \in Queued
    <3>1. \A w \in Workers : wjob[w] = k => Stage(w) = "none"
      BY <2>1 DEF StatusFacts
    <3>2. heap'[k] = "freed"
      BY <1>1, <2>1
    <3> QED
      BY <1>1, <1>2, <1>3, <2>1, <3>1, <3>2 DEF StatusFacts
  <2>2. CASE k \notin Queued
    <3>1. Status(k)' = Status(k)
      BY <1>1, <1>2, <1>3, <2>2, StatusStays
    <3>2. Status(k) # "queued"
      BY <2>2 DEF StatusFacts
    <3> QED
      BY <3>1, <3>2
  <2> QED
    BY <2>1, <2>2
<1>5. Attached' = {}
  <2> SUFFICES ASSUME NEW j \in Jobs, jobCallback'[j], Status(j)' \in {"queued", "running"}
               PROVE  FALSE
    BY DEF Attached
  <2>1. Status(j)' # "queued" /\ Status(j) = "running"
    BY <1>2, <1>4 DEF StatusFacts
  <2>2. heap[j] = "owned"
    BY <2>1 DEF StatusFacts, TypeOK, Status
  <2>3. j \notin Queued
    BY <2>1 DEF StatusFacts
  <2>4. PICK w \in Workers : wjob[w] = j /\ Stage(w) # "none"
    BY <2>1, <2>2, <2>3 DEF StatusFacts
  <2>5. j \in m_processing
    BY <2>4 DEF Placement, ProcessingIsHeld, Stage, Busy
  <2> QED
    BY <1>1, <2>5
<1>6. Reporting' = Reporting
  BY <1>1 DEF Reporting
<1>7. Phase # "closing" /\ Phase' = "closing"
  BY <1>1 DEF PhaseFacts, TypeOK
<1>8. [k \in Jobs |-> Status(k)]' =
        [k \in Jobs |-> IF [i \in Jobs |-> Status(i)][k] = "queued"
                          THEN "gone" ELSE [i \in Jobs |-> Status(i)][k]]
  BY <1>4
<1> QED
  BY <1>1, <1>5, <1>6, <1>7, <1>8 DEF Service!Close, Phase, Attached, Reporting

\* CancelJobs returns when no worker is left, so no client is being called.
LEMMA CancelJobsReturnIsClosed ==
  ASSUME Known, Known', CancelJobsReturn
  PROVE  Service!Closed
<1> USE DEF Known
<1>1. UNCHANGED <<m_running, m_pauseJobs, jobPriority, jobCallback, m_jobQueue, heap,
                  wpc, wjob, wcallback>>
  BY DEF CancelJobsReturn, itemVars, workerVars
<1>2. \A k \in Jobs : Status(k)' = Status(k)
  BY <1>1, AllStatusStays DEF Stage
<1>3. [k \in Jobs |-> Status(k)]' = [k \in Jobs |-> Status(k)]
  BY <1>2
<1>4. Attached' = Attached /\ Reporting' = Reporting
  BY <1>1, <1>2 DEF Attached, Reporting
<1>5. Phase = "closing" /\ Phase' = "closed"
  BY <1>1 DEF CancelJobsReturn, Stopped, PhaseFacts
<1>6. \A k \in Jobs : Status(k) \notin {"running", "notifying", "ending"}
  <2>1. \A w \in Workers : Stage(w) = "none"
    BY DEF CancelJobsReturn, Placement, PoolIsAlive, Stage
  <2> QED
    BY <2>1 DEF StatusFacts, TypeOK
<1>7. Service!Occupying = {}
  BY <1>6 DEF Service!Occupying, Service!In
<1> QED
  BY <1>1, <1>3, <1>4, <1>5, <1>7 DEF Service!Closed, Phase, Attached, Reporting

\* Restart is Reopen.
LEMMA RestartIsReopen ==
  ASSUME Known, Known', Restart
  PROVE  Service!Reopen
<1> USE DEF Known
<1>1. UNCHANGED <<m_pauseJobs, jobPriority, jobCallback, m_jobQueue, heap,
                  wpc, wjob, wcallback>>
  BY DEF Restart, itemVars, workerVars
<1>2. \A k \in Jobs : Status(k)' = Status(k)
  BY <1>1, AllStatusStays DEF Stage
<1>3. [k \in Jobs |-> Status(k)]' = [k \in Jobs |-> Status(k)]
  BY <1>2
<1>4. Attached' = Attached /\ Reporting' = Reporting
  BY <1>1, <1>2 DEF Attached, Reporting
<1>5. Phase = "closed" /\ Phase' = "open"
  BY DEF Restart, PhaseFacts
<1> QED
  BY <1>1, <1>3, <1>4, <1>5 DEF Service!Reopen, Phase, Attached, Reporting

-----------------------------------------------------------------------------
\* A worker that moves without its queue, its job or any other thread.
Moves(w) ==
  /\ w \in Workers
  /\ UNCHANGED <<m_running, m_pauseJobs, stopper, itemVars, heap, m_jobQueue, wjob>>
  /\ \A v \in Workers \ {w} : wpc'[v] = wpc[v] /\ wcallback'[v] = wcallback[v]

\* The other jobs do not notice; this one's status follows the worker's stage.
LEMMA MovesStatus ==
  ASSUME Known, Known', NEW w \in Workers, Moves(w)
  PROVE  /\ Phase' = Phase
         /\ \A j \in Jobs : (Stage(w)' = Stage(w) \/ j # wjob[w]) => Status(j)' = Status(j)
         /\ Stage(w) # "none" => wjob[w] \in Jobs /\ Status(wjob[w]) = Stage(w)
         /\ Stage(w)' # "none" => Status(wjob[w])' = Stage(w)'
<1> USE DEF Known
<1>1. Phase' = Phase
  BY DEF Moves, Phase
<1>2. \A v \in Workers \ {w} : Stage(v)' = Stage(v)
  BY DEF Moves, Stage
<1>3. Queued' = Queued
  BY DEF Moves, Queued, QueuedIn
<1>4. ASSUME NEW j \in Jobs, Stage(w)' = Stage(w) \/ j # wjob[w]
      PROVE  Status(j)' = Status(j)
  BY <1>2, <1>3, <1>4, StatusStays DEF Moves
<1>5. Stage(w)' # "none" => Status(wjob[w])' = Stage(w)'
  BY DEF StatusFacts, Moves
<1> QED
  BY <1>1, <1>4, <1>5 DEF StatusFacts

\* Steps that do not change the stage of the worker, nor what it reports.
LEMMA QuietMoveStutters ==
  ASSUME Known, Known', NEW w \in Workers, Moves(w),
         Stage(w)' = Stage(w), wpc'[w] = "progress" <=> wpc[w] = "progress"
  PROVE  UNCHANGED Service!vars
<1>1. \A j \in Jobs : Status(j)' = Status(j)
  BY MovesStatus
<1>2. Attached' = Attached /\ UNCHANGED <<m_pauseJobs, jobPriority>>
  BY <1>1 DEF Attached, Moves, itemVars
<1>3. Reporting' = Reporting
  BY DEF Moves, Reporting
<1> QED
  BY <1>1, <1>2, <1>3, MovesStatus, ServiceStutters

\* GetNextJob that finds no job, the waits, and DoWork's return: no client can tell.
LEMMA QuietWorkerSteps ==
  ASSUME Known, Known', NEW w \in Workers,
         \/ GetNextJobSleeps(w) \/ GetNextJobQuits(w)
         \/ WaitBlocks(w) \/ WaitReturns(w) \/ WaitExpires(w)
         \/ DoWorkReturns(w)
  PROVE  UNCHANGED Service!vars
<1> USE DEF Known, itemVars
<1>1. Moves(w)
  BY DEF GetNextJobSleeps, GetNextJobQuits, WaitBlocks, WaitReturns, WaitExpires,
         DoWorkReturns, Moves, TypeOK
<1>2. Stage(w)' = Stage(w) /\ wpc[w] # "progress" /\ wpc'[w] # "progress"
  BY DEF GetNextJobSleeps, GetNextJobQuits, WaitBlocks, WaitReturns, WaitExpires,
         DoWorkReturns, Stage, TypeOK
<1> QED
  BY <1>1, <1>2, QuietMoveStutters

\* PopJob is Start: the job goes to the worker within the slots of its priority.
LEMMA PopJobIsStart ==
  ASSUME Known, Known', NEW w \in Workers, wpc[w] \in {"next", "expired"},
         NEW p \in Priorities, PopJob(w, p)
  PROVE  \E j \in Jobs : Service!Start(j)
<1> USE DEF Known
<1>1. /\ m_jobQueue[p] \in Seq(Jobs) /\ m_jobQueue[p] # <<>>
      /\ 1 \in DOMAIN m_jobQueue[p]
  BY DEF PopJob, Eligible, TypeOK
<1>2. PICK j \in Jobs : j = Head(m_jobQueue[p]) /\ j = m_jobQueue[p][1]
  BY <1>1, TailElements
<1>3. /\ m_jobQueue'[p] = Tail(m_jobQueue[p])
      /\ \A q \in Priorities \ {p} : m_jobQueue'[q] = m_jobQueue[q]
      /\ wjob'[w] = j /\ wpc'[w] = "work"
      /\ \A v \in Workers \ {w} : wjob'[v] = wjob[v] /\ wpc'[v] = wpc[v]
      /\ UNCHANGED <<m_running, m_pauseJobs, stopper, jobPriority, jobCallback, heap, wcallback>>
  BY <1>2 DEF PopJob, TypeOK, itemVars
<1>4. Queued' = Queued \ {j} /\ j \in Queued
  BY <1>2, PopJobUnqueues
<1>5. /\ \A v \in Workers \ {w} : Stage(v)' = Stage(v)
      /\ Stage(w) = "none" /\ Stage(w)' = "running"
  BY <1>3 DEF Stage
<1>6. \A k \in Jobs \ {j} : Status(k)' = Status(k)
  BY <1>3, <1>4, <1>5, StatusStays
<1>7. Status(j) = "queued" /\ Status(j)' = "running"
  BY <1>3, <1>4, <1>5 DEF StatusFacts
<1>8. [k \in Jobs |-> Status(k)]' = [[k \in Jobs |-> Status(k)] EXCEPT ![j] = "running"]
  BY <1>6, <1>7
<1>9. Attached' = Attached /\ Phase' = Phase
  BY <1>3, <1>6, <1>7 DEF Attached, Phase
<1>10. Reporting' = Reporting
  BY <1>3 DEF Reporting
<1>11. jobPriority[j] = p /\ p \in Nat
  BY <1>1, <1>2, PrioritiesAreNat DEF Placement, QueuedJobsAreOwned
<1>12. \A k \in Jobs : Status(k) = "queued" => jobPriority[k] <= p
  <2> SUFFICES ASSUME NEW k \in Jobs, Status(k) = "queued" PROVE jobPriority[k] <= p
    OBVIOUS
  <2>1. PICK q \in Priorities : k \in QueuedIn(q)
    BY DEF StatusFacts, Queued
  <2>2. jobPriority[k] = q /\ m_jobQueue[q] # <<>>
    BY <2>1 DEF QueuedIn, Placement, QueuedJobsAreOwned
  <2>3. j \in m_processing' \ m_processing
    <3>1. j \in m_processing'
      BY <1>2 DEF PopJob
    <3>2. j \notin m_processing
      BY <1>1, <1>2 DEF Placement, ProcessingIsHeld, HeldJobsAreOwned, Holds
    <3> QED
      BY <3>1, <3>2
  <2>4. ~(q > p)
    BY <2>2, <2>3, PopJobTakesMostUrgent
  <2> QED
    BY <2>2, <2>4, <1>11, PrioritiesAreNat
<1>13. Cardinality({k \in Service!Occupying : jobPriority[k] <= p}) < GetMaxWorkers(p)
  <2> DEFINE O == {k \in Service!Occupying : jobPriority[k] <= p}
  <2>1. O \in SUBSET m_processing
    <3>1. ASSUME NEW k \in Jobs, Status(k) \in {"running", "notifying", "ending"}
          PROVE  k \in m_processing
      <4>1. k \notin Queued
        BY <3>1 DEF StatusFacts
      <4>2. heap[k] \in {"owned", "freed"}
        <5>1. heap[k] \in {"new", "owned", "refused", "freed"}
          BY DEF TypeOK
        <5>2. heap[k] # "new" /\ heap[k] # "refused"
          BY <3>1 DEF StatusFacts
        <5> QED
          BY <5>1, <5>2
      <4>3. PICK v \in Workers : wjob[v] = k /\ Stage(v) # "none"
        BY <3>1, <4>1, <4>2 DEF StatusFacts
      <4> QED
        BY <4>3 DEF Placement, ProcessingIsHeld, Stage, Busy
    <3> QED
      BY <3>1 DEF Service!Occupying, Service!In
  <2>2. /\ Cardinality(O) <= Cardinality(m_processing)
        /\ Cardinality(O) \in Nat /\ Cardinality(m_processing) \in Nat
    BY <2>1, ProcessingIsFinite, FS_Subset, FS_CardinalityType
  <2>3. Cardinality(m_processing) < GetMaxWorkers(p)
    BY DEF PopJob, Eligible
  <2> HIDE DEF O
  <2>4. Cardinality(O) < GetMaxWorkers(p)
    BY <2>2, <2>3, GetMaxWorkersGrows
  <2> QED
    BY <2>4 DEF O
<1>14. \A k \in Service!In({"queued"}) : jobPriority[k] <= jobPriority[j]
  BY <1>11, <1>12 DEF Service!In
<1>15. ~(m_pauseJobs /\ jobPriority[j] = PRIORITY_LOW_PAUSABLE)
  BY <1>11 DEF PopJob, Eligible
<1>16. Cardinality({k \in Service!Occupying : jobPriority[k] <= jobPriority[j]})
         < [q \in Priorities |-> GetMaxWorkers(q)][jobPriority[j]]
  BY <1>11, <1>13
<1>17. [k \in Jobs |-> Status(k)][j] = "queued"
  BY <1>7
<1> HIDE DEF Known
<1>18. Service!Start(j)
  BY <1>3, <1>8, <1>9, <1>10, <1>14, <1>15, <1>16, <1>17, SameCardinality
  DEF Service!Start, Phase, Attached, Reporting
<1> QED
  BY <1>18

\* OnJobProgress, outside m_section, is Report until it returns.
LEMMA OnJobProgressIsReport ==
  ASSUME Known, Known', NEW w \in Workers, OnJobProgress(w)
  PROVE  \E j \in Jobs : Service!Report(j)
<1> USE DEF Known
<1>1. /\ Moves(w) /\ jobCallback' = jobCallback
      /\ wpc[w] = "work" /\ wpc'[w] = "progress"
  BY DEF OnJobProgress, Moves, TypeOK, itemVars
<1>2. Stage(w) = "running" /\ Stage(w)' = "running"
  BY <1>1 DEF Stage
<1>3. PICK j \in Jobs : j = wjob[w] /\ Status(j) = "running" /\ jobCallback[j]
  BY <1>1, <1>2, MovesStatus DEF OnJobProgress
<1>4. \A k \in Jobs : Status(k)' = Status(k)
  BY <1>1, <1>2, MovesStatus
<1>5. [k \in Jobs |-> Status(k)]' = [k \in Jobs |-> Status(k)]
  BY <1>4
<1>6. Attached' = Attached /\ j \in Attached
  BY <1>1, <1>3, <1>4 DEF Attached
<1>7. Reporting' = Reporting \cup {j}
  BY <1>1, <1>3 DEF Reporting, Moves
<1>8. j \notin Reporting
  BY <1>1, <1>3 DEF Reporting, Placement, HeldOnce, Holds, Busy
<1>9. Service!Report(j)
  BY <1>1, <1>3, <1>5, <1>6, <1>7, <1>8, MovesStatus
  DEF Service!Report, Phase, Attached, Reporting, Moves, itemVars
<1> QED
  BY <1>9

\* The client's OnJobProgress returns.
LEMMA OnJobProgressReturnsIsReportReturns ==
  ASSUME Known, Known', NEW w \in Workers, OnJobProgressReturns(w)
  PROVE  \E j \in Jobs : Service!ReportReturns(j)
<1> USE DEF Known
<1>1. /\ Moves(w) /\ jobCallback' = jobCallback
      /\ wpc[w] = "progress" /\ wpc'[w] = "work"
  BY DEF OnJobProgressReturns, Moves, TypeOK, itemVars
<1>2. Stage(w) = "running" /\ Stage(w)' = "running"
  BY <1>1 DEF Stage
<1>3. PICK j \in Jobs : j = wjob[w]
  BY <1>1, <1>2, MovesStatus
<1>4. \A k \in Jobs : Status(k)' = Status(k)
  BY <1>1, <1>2, MovesStatus
<1>5. [k \in Jobs |-> Status(k)]' = [k \in Jobs |-> Status(k)]
  BY <1>4
<1>6. Attached' = Attached
  BY <1>1, <1>4 DEF Attached
<1>7. \A v \in Workers \ {w} : wpc[v] = "progress" => wjob[v] # j
  BY <1>1, <1>3 DEF Placement, HeldOnce, Holds, Busy
<1>8. Reporting' = Reporting \ {j} /\ j \in Reporting
  BY <1>1, <1>3, <1>7 DEF Reporting, Moves
<1>9. Service!ReportReturns(j)
  BY <1>1, <1>5, <1>6, <1>8, MovesStatus
  DEF Service!ReportReturns, Phase, Attached, Reporting, Moves, itemVars
<1> QED
  BY <1>9

\* The copy of the work item in OnJobComplete is Finish: it decides whether the
\* client is called.
LEMMA OnJobCompleteCopiesIsFinish ==
  ASSUME Known, Known', NEW w \in Workers, OnJobCompleteCopies(w)
  PROVE  \E j \in Jobs : Service!Finish(j)
<1> USE DEF Known
<1>1. /\ Moves(w) /\ jobCallback' = jobCallback
      /\ wpc[w] = "complete" /\ wpc'[w] = "callback"
      /\ wcallback'[w] = jobCallback[wjob[w]]
  BY DEF OnJobCompleteCopies, Moves, TypeOK, itemVars
<1>2. PICK j \in Jobs : j = wjob[w]
  BY DEF OnJobCompleteCopies, TypeOK
<1>3. Stage(w) = "running" /\ Stage(w)' = IF jobCallback[j] THEN "notifying" ELSE "ending"
  BY <1>1, <1>2 DEF Stage
<1>4. /\ Status(j) = "running"
      /\ Status(j)' = IF j \in Attached THEN "notifying" ELSE "ending"
  <2>1. Status(j) = "running" /\ Status(j)' = Stage(w)'
    BY <1>1, <1>2, <1>3, MovesStatus DEF Moves
  <2>2. j \in Attached <=> jobCallback[j]
    BY <2>1 DEF Attached
  <2> QED
    BY <1>3, <2>1, <2>2
<1>5. \A k \in Jobs \ {j} : Status(k)' = Status(k)
  BY <1>1, <1>2, MovesStatus
<1>6. [k \in Jobs |-> Status(k)]' =
        [[k \in Jobs |-> Status(k)] EXCEPT ![j] = IF j \in Attached THEN "notifying" ELSE "ending"]
  BY <1>4, <1>5
<1>7. Attached' = Attached \ {j}
  BY <1>1, <1>4, <1>5 DEF Attached
<1>8. Reporting' = Reporting
  BY <1>1 DEF Reporting, Moves
<1>9. j \notin Reporting
  BY <1>1, <1>2 DEF Reporting, Placement, HeldOnce, Holds, Busy
<1>10. [k \in Jobs |-> Status(k)][j] = "running"
  BY <1>4
<1>11. Service!Finish(j)
  BY <1>1, <1>6, <1>7, <1>8, <1>9, <1>10, MovesStatus
  DEF Service!Finish, Phase, Attached, Reporting, Moves, itemVars
<1> QED
  BY <1>11

\* The client's OnJobComplete returns: NotifyReturns, if there was a client.
LEMMA OnJobCompleteCallsIsNotifyReturns ==
  ASSUME Known, Known', NEW w \in Workers, OnJobCompleteCalls(w)
  PROVE  (\E j \in Jobs : Service!NotifyReturns(j)) \/ UNCHANGED Service!vars
<1> USE DEF Known
<1>1. /\ Moves(w) /\ jobCallback' = jobCallback
      /\ wpc[w] = "callback" /\ wpc'[w] = "erase"
      /\ wcallback[w] \in BOOLEAN
  BY DEF OnJobCompleteCalls, Moves, TypeOK, itemVars
<1>2. Stage(w)' = "ending"
  BY <1>1 DEF Stage
<1>3. CASE ~wcallback[w]
  <2>1. Stage(w)' = Stage(w)
    BY <1>1, <1>2, <1>3 DEF Stage
  <2> QED
    BY <1>1, <2>1, QuietMoveStutters
<1>4. CASE wcallback[w]
  <2>1. Stage(w) = "notifying"
    BY <1>1, <1>4 DEF Stage
  <2>2. PICK j \in Jobs : j = wjob[w] /\ Status(j) = "notifying" /\ Status(j)' = "ending"
    BY <1>1, <1>2, <2>1, MovesStatus DEF Moves
  <2>3. \A k \in Jobs \ {j} : Status(k)' = Status(k)
    BY <1>1, <2>2, MovesStatus
  <2>4. [k \in Jobs |-> Status(k)]' = [[k \in Jobs |-> Status(k)] EXCEPT ![j] = "ending"]
    BY <2>2, <2>3
  <2>5. Attached' = Attached
    BY <1>1, <2>2, <2>3 DEF Attached
  <2>6. Reporting' = Reporting
    BY <1>1 DEF Reporting, Moves
  <2>7. Service!NotifyReturns(j)
    BY <1>1, <2>2, <2>4, <2>5, <2>6, MovesStatus
    DEF Service!NotifyReturns, Phase, Attached, Reporting, Moves, itemVars
  <2> QED
    BY <2>7
<1> QED
  BY <1>1, <1>3, <1>4

\* The job leaves m_processing: its slot is free again.
LEMMA OnJobCompleteErasesIsLeave ==
  ASSUME Known, Known', NEW w \in Workers, OnJobCompleteErases(w)
  PROVE  \E j \in Jobs : Service!Leave(j)
<1> USE DEF Known
<1>1. /\ Moves(w) /\ jobCallback' = jobCallback
      /\ wpc[w] = "erase" /\ wpc'[w] = "free"
  BY DEF OnJobCompleteErases, Moves, TypeOK, itemVars
<1>2. Stage(w) = "ending" /\ Stage(w)' = "none"
  BY <1>1 DEF Stage
<1>3. PICK j \in Jobs : j = wjob[w] /\ Status(j) = "ending"
  BY <1>1, <1>2, MovesStatus
<1>4. Status(j)' = "gone"
  <2>1. \A v \in Workers : wjob'[v] = j => Stage(v)' = "none"
    <3>1. \A v \in Workers \ {w} : wjob[v] = j => wpc[v] \notin Busy
      BY <1>1, <1>3 DEF Placement, HeldOnce, Holds, Busy
    <3>2. \A v \in Workers \ {w} : wjob'[v] = j => wpc'[v] \notin Busy
      BY <1>1, <3>1 DEF Moves
    <3> QED
      BY <1>2, <3>2 DEF Stage, Busy
  <2>2. heap[j] = "owned" /\ j \notin Queued
    BY <1>2, <1>3 DEF StatusFacts
  <2>3. heap'[j] = "owned" /\ j \notin Queued'
    BY <1>1, <2>2 DEF Moves, Queued, QueuedIn
  <2> QED
    BY <2>1, <2>3 DEF StatusFacts
<1>5. \A k \in Jobs \ {j} : Status(k)' = Status(k)
  BY <1>1, <1>3, MovesStatus
<1>6. [k \in Jobs |-> Status(k)]' = [[k \in Jobs |-> Status(k)] EXCEPT ![j] = "gone"]
  BY <1>4, <1>5
<1>7. Attached' = Attached
  BY <1>1, <1>3, <1>4, <1>5 DEF Attached
<1>8. Reporting' = Reporting
  BY <1>1 DEF Reporting, Moves
<1>9. Service!Leave(j)
  BY <1>1, <1>3, <1>6, <1>7, <1>8, MovesStatus
  DEF Service!Leave, Phase, Attached, Reporting, Moves, itemVars
<1> QED
  BY <1>9

\* Deleting the job changes nothing a client can tell.
LEMMA OnJobCompleteFreesStutters ==
  ASSUME Known, Known', NEW w \in Workers, OnJobCompleteFrees(w)
  PROVE  UNCHANGED Service!vars
<1> USE DEF Known
<1>1. /\ UNCHANGED <<m_running, m_pauseJobs, stopper, jobPriority, jobCallback, m_jobQueue, wcallback>>
      /\ wpc[w] = "free" /\ wpc'[w] = "next"
      /\ \A v \in Workers \ {w} : wpc'[v] = wpc[v] /\ wjob'[v] = wjob[v]
      /\ wjob[w] \in Jobs /\ heap'[wjob[w]] = "freed"
      /\ \A k \in Jobs \ {wjob[w]} : heap'[k] = heap[k]
  BY DEF OnJobCompleteFrees, TypeOK, itemVars, Placement, HeldJobsAreOwned, Holds
<1>2. Queued' = Queued
  BY <1>1 DEF Queued, QueuedIn
<1>3. /\ \A v \in Workers \ {w} : Stage(v)' = Stage(v)
      /\ Stage(w) = "none" /\ Stage(w)' = "none"
  BY <1>1 DEF Stage
<1>4. PICK j \in Jobs : j = wjob[w]
  BY <1>1
<1>5. Status(j) = "gone" /\ Status(j)' = "gone"
  <2>1. \A v \in Workers \ {w} : wjob[v] = j => wpc[v] \notin Busy
    BY <1>1, <1>4 DEF Placement, HeldOnce, Holds
  <2>2. heap[j] = "owned" /\ j \notin Queued
    BY <1>1, <1>4 DEF Placement, HeldJobsAreOwned, Holds, Queued, QueuedIn
  <2>3. \A v \in Workers : wjob[v] = j => Stage(v) = "none"
    BY <1>3, <2>1 DEF Stage, Busy
  <2>4. \A v \in Workers : wjob'[v] = j => Stage(v)' = "none"
    BY <1>1, <1>3, <2>3
  <2> QED
    BY <1>1, <1>2, <1>4, <2>2, <2>3, <2>4 DEF StatusFacts
<1>6. \A k \in Jobs : Status(k)' = Status(k)
  <2>1. \A k \in Jobs \ {j} : Status(k)' = Status(k)
    BY <1>1, <1>2, <1>3, <1>4, StatusStays
  <2> QED
    BY <1>5, <2>1
<1>7. Attached' = Attached /\ Phase' = Phase
  BY <1>1, <1>6 DEF Attached, Phase
<1>8. Reporting' = Reporting
  BY <1>1 DEF Reporting
<1> QED
  BY <1>1, <1>6, <1>7, <1>8, ServiceStutters

-----------------------------------------------------------------------------
\* One step per action of the manager.
LEMMA NextImplementsService ==
  ASSUME Known, Known', [Next]_vars
  PROVE  [Service!Next]_(Service!vars)
<1>1. ASSUME NEW j \in Jobs, AddJob(j) PROVE Service!Next
  <2>1. CASE AddJobRefused(j)
    BY <2>1, AddJobRefusedIsRefuse DEF Service!Next
  <2>2. CASE \E p \in UsedPriorities, cb \in BOOLEAN : AddJobAccepted(j, p, cb)
    BY <2>2, AddJobAcceptedIsAccept DEF Service!Next
  <2> QED
    BY <1>1, <2>1, <2>2 DEF AddJob
<1>2. ASSUME NEW id \in 1 .. IdModulus - 1, CancelJob(id)
      PROVE  Service!Next \/ UNCHANGED Service!vars
  BY <1>2, CancelQueuedJobIsWithdraw, CancelProcessingJobIsDetach DEF CancelJob, Service!Next
<1>3. ASSUME PauseJobs \/ UnPauseJobs PROVE Service!Next
  BY <1>3, PauseIsSetPaused DEF Service!Next
<1>4. ASSUME Shutdown PROVE Service!Next \/ UNCHANGED Service!vars
  <2>1. CASE CancelJobsWake
    <3>1. /\ UNCHANGED <<m_running, m_pauseJobs, stopper, jobPriority, jobCallback, m_jobQueue, heap>>
          /\ UNCHANGED <<wpc, wjob, wcallback>>
      BY <2>1 DEF CancelJobsWake, itemVars, workerVars
    <3>2. \A k \in Jobs : Status(k)' = Status(k)
      BY <3>1, AllStatusStays DEF Stage
    <3> QED
      BY <3>1, <3>2, ServiceStutters DEF Phase, Attached, Reporting
  <2> QED
    BY <1>4, <2>1, CancelJobsIsClose, CancelJobsReturnIsClosed, RestartIsReopen
    DEF Shutdown, Service!Next
<1>5. ASSUME NEW w \in Workers, WorkerStep(w)
      PROVE  Service!Next \/ UNCHANGED Service!vars
  <2>1. CASE GetNextJob(w)
    BY <2>1, PopJobIsStart DEF GetNextJob, Service!Next
  <2>2. CASE OnJobProgress(w) \/ OnJobProgressReturns(w) \/ OnJobCompleteCopies(w)
    BY <2>2, OnJobProgressIsReport, OnJobProgressReturnsIsReportReturns,
       OnJobCompleteCopiesIsFinish DEF Service!Next
  <2>3. CASE OnJobCompleteCalls(w) \/ OnJobCompleteErases(w) \/ OnJobCompleteFrees(w)
    BY <2>3, OnJobCompleteCallsIsNotifyReturns, OnJobCompleteErasesIsLeave,
       OnJobCompleteFreesStutters DEF Service!Next
  <2> QED
    BY <1>5, <2>1, <2>2, <2>3, QuietWorkerSteps DEF WorkerStep
<1>6. ASSUME UNCHANGED vars PROVE UNCHANGED Service!vars
  <2>1. /\ UNCHANGED <<m_running, m_pauseJobs, stopper, jobPriority, jobCallback, m_jobQueue, heap>>
        /\ UNCHANGED <<wpc, wjob, wcallback>>
    BY <1>6 DEF vars, itemVars, workerVars
  <2>2. \A k \in Jobs : Status(k)' = Status(k)
    BY <2>1, AllStatusStays DEF Stage
  <2> QED
    BY <2>1, <2>2, ServiceStutters DEF Phase, Attached, Reporting
<1> QED
  BY <1>1, <1>2, <1>3, <1>4, <1>5, <1>6 DEF Next

(***************************************************************************)
(* CJobManager implements JobService, for any number of jobs and threads.  *)
(***************************************************************************)
THEOREM ImplementsServiceHolds == Spec => ImplementsService
<1>1. Init => Service!Init
  <2> SUFFICES ASSUME Init PROVE Service!Init
    OBVIOUS
  <2>1. \A j \in Jobs : Status(j) = "fresh"
    <3>1. \A j \in Jobs : /\ heap[j] = "new"
                          /\ ~WorkerAt(j, {"work", "progress", "complete"})
                          /\ ~WorkerAt(j, {"callback", "erase"})
                          /\ ~Notifying(j)
      BY DEF Init, WorkerAt, Notifying
    <3> QED
      BY <3>1 DEF Status
  <2>2. [j \in Jobs |-> Status(j)] = [j \in Jobs |-> "fresh"]
    BY <2>1
  <2>3. Attached = {} /\ Reporting = {} /\ Phase = "open"
    BY DEF Init, Attached, Reporting, Phase
  <2> QED
    BY <2>2, <2>3 DEF Init, Service!Init, Attached, Reporting, Phase
<1>2. TypeOK /\ Placement /\ Stopped => Known
  BY KnownStates
<1>3. Known /\ Known' /\ [Next]_vars => [Service!Next]_(Service!vars)
  BY NextImplementsService
<1>4. Init => Stopped
  BY DEF Init, Stopped
<1>5. Spec => []Known
  BY <1>2, <1>4, TypeCorrect, JobsAreInPlace, NextStopped, PTL DEF Spec
<1> QED
  BY <1>1, <1>3, <1>5, PTL DEF Spec, ImplementsService, Service!Spec

=============================================================================
