# Verification of ZDMC's concurrent core

ZDMC is a media player, a fork of Kodi (`xbmc/`). Its screens, databases, codecs and
protocols sit on a small concurrent core: thread primitives, a pool of worker threads,
job queues, message queues between threads, a barrier, picture buffers that two threads
share, and a cache filled by a thread ahead of its reader. This directory specifies that
core in TLA+, model-checks it with TLC, and proves with TLAPS the invariants, the action
properties and the two refinements that the passing runs check: of the job manager, the job
queue, the texture manager, the thread primitives, the messengers and message queues, the
barrier, the picture buffers and the file cache. Liveness is model-checked only.

Paths in this file are relative to `src/xbmc` unless they begin with `src/`.

    tlc -workers 2 -config JobManagerSafety.cfg MCJobManager.tla     # one run
    tlapm JobManagerProofs.tla                                       # proofs

`PROJECT.json` maps every definition that models code to its lines, lists the runs,
the hazards, the findings and the theorems, and gives for every property a plausible
error in the code (a "mistake", the definitions marked so in the modules) that makes
TLC find the property violated.


## 1. Inventory

### Components of the concurrent core

| Component | State | Operations | Talks to | What is hard | What makes it correct |
|---|---|---|---|---|---|
| `CJobManager`, `CJobWorker` (`utils/JobManager.cpp`) | four job queues, jobs in progress, the pool, an auto-reset event, pause and run flags, a job counter | `AddJob`, `CancelJob`, `CancelJobs`, `Restart`, `PauseJobs`, `UnPauseJobs`; for workers `GetNextJob`, `OnJobProgress`, `OnJobComplete`, `RemoveWorker` | calls clients back from worker threads, outside its lock | wakeups, the 30 s timeout, cancelling while a job completes, shutdown, a counter that wraps | no job lost, none deleted while reachable, slots kept free for higher priorities, silence after `CancelJobs` |
| `CJobQueue` (same file) | jobs not handed over, jobs handed over | `AddJob`, `CancelJob`, `CancelJobs`, `QueueNextJob`, `OnJobComplete` | client and callback of `CJobManager` | raw pointers to jobs the manager deletes, late completions | at most `jobsAtOnce` at once, unique, goes on by itself |
| `CDVDMessageQueue` (`cores/VideoPlayer/DVDMessageQueue.cpp`) | two lists, data size, abort and init flags, a manual-reset event | `Init`, `Put`, `Get`, `Flush`, `Abort`, `End`, `GetLevel`, `WaitUntilEmpty` | player thread and others put, a stream player gets | a reset of the event against a `Put`; sizes that change between put and get | no lost wakeup, order, exact size, abort ends the consumer |
| `CDVDMsgGeneralSynchronize` (`cores/VideoPlayer/DVDMessage.cpp`) | reference count, bits of the sources reached | `Acquire`, `Release`, `Wait` | sent through message queues, put back when a wait expires | count and bits change while others wait | nobody passes early, everybody passes |
| `CFileCache` with `CCircularCache` (`filesystem/`) | ring of bytes, three positions, read and write positions, two events, end mark | the thread `Process`; `Read`, `Seek`, `Close`; ring `WriteToCache`, `ReadFromCache`, `WaitForData`, `Seek`, `Reset` | source file below, player's demuxer above | a seek while a chunk is written, wraparound, the end of the file | what is read is the file; calls return, and the thread ends when it is stopped |
| `CDoubleCache`, `CSimpleFileCache` (`filesystem/CacheStrategy.cpp`) | two caches and which is active; a disk file | as `CCircularCache` | under `CFileCache` | which cache a seek uses | as above |
| `CEvent`, `CEventGroup` (`threads/Event.*`) | flag, waiters, groups | `Set`, `Reset`, `Wait`, `WaitMSec`, group `wait` | everywhere | a late `Set(child)` to a group | no lost and no double wakeup |
| `CSharedSection`, `CTimer`, `CThread` (`threads/`) | readers, writer; end time, running flag | lock, unlock; `Start`, `Stop`, `Restart` | everywhere | restart within the callback | exclusion, timeouts happen |
| `CApplicationMessenger` (`messaging/`) | two message queues, stop flag | `PostMsg`, `SendMsg`, `ProcessMessages`, `Cleanup` | all threads to the application thread | a sender against `Cleanup` | a synchronous sender returns |
| `Actor::Protocol` (`utils/ActorProtocol.cpp`) | in and out queue, free list, deferral flags | `SendOutMessage`, `SendOutMessageSync`, `Reply`, `Purge`, `Defer` | ActiveAE and its sink | a timeout against the reply | a message is freed once |
| ActiveAE (`cores/AudioEngine/Engines/ActiveAE`) | two state machines, buffers | handlers of about 30 messages | over `Actor::Protocol` | states against late messages | no message ignored in a state it matters in |
| `CVideoPlayer` and stream players | sync states, streams, caching state | `HandleMessages`, `SynchronizePlayers`, `FlushBuffers`, `SetCaching` | message queues, barrier, clock | start-up synchronisation of audio and video | every stream reaches `SYNC_INSYNC` |
| `CRenderManager` | free, queued and discarded buffers | `AddVideoPicture`, `FlipPage`, `PrepareNextRender`, `Flush` | decoder thread and application thread | which thread owns a buffer | a buffer is in one list |
| `CGUILargeTextureManager` | queued and allocated images | `GetImage`, `ReleaseImage`, `OnJobComplete` | client of `CJobManager` | release while the job completes | references counted, no image orphaned |
| `CTextureCache`, `CVideoLibraryQueue`, `CBackgroundInfoLoader` | jobs or items in hand | add, cancel, complete | clients of `CJobQueue`, own thread | cancel against completion | nothing runs twice at a time |
| `CDirectoryCache`, `PipesManager` | entries and access counters; a buffer | get, set, clear | file systems | eviction | bounded size |

### Components outside the concurrent core

`CAnnouncementManager`, JSON-RPC and the Python interface (glue, synchronous calls);
playlists, alarm clock, `CApplication` (sequential logic of the application thread);
PVR and EPG (`pvr/`, `epg/`; large, tied to add-ons and databases, `PVRManager`'s jobs
are a later candidate); add-ons (`addons/`); databases and libraries (SQL); network
services (`network/`; sockets and formats); settings (`settings/lib`; sequential, XML);
GUI, input, profiles, power, storage, windowing (user interface, devices, platforms);
vendored libraries, tools, build files and add-on data (`src/lib`, `src/tools`,
`src/project`, `src/addons`). `PROJECT.json` lists each with its reason.

### How the modelled parts interact

- Clients call `CJobManager` and are called back by its workers. The manager's lock is
  not held in a callback; a `CJobQueue` holds its own lock while it calls the manager,
  and takes its own lock in `OnJobComplete`, which the manager calls with none held.
- `CVideoPlayer` puts packets and messages into the queues of the stream players, the
  synchronize message among them, one reference per queue. A stream player that cannot
  finish its wait puts the message back into its own queue, at priority 1.
- `CFileCache`'s thread and its client share the ring (own lock), and hand a seek over
  by `m_seekPos` and two events. `CFileCache::m_sync` serialises clients; the thread does
  not take it.
- The video thread fills buffers of `CRenderManager` and the application thread shows them.
  `m_presentlock` guards the queues, `m_datalock` the pictures and `m_statelock` the
  configuration; the video thread drops them between choosing, writing and queueing.
- `CGUILargeTextureManager` holds its own lock while it calls `CJobManager::AddJob` and
  `CancelJob`; the manager calls its `OnJobComplete` with no lock held.
- Any thread sends to the application thread through `CApplicationMessenger`; that thread
  works the messages off in `CApplication::Process`, also from inside a handler that opens a
  dialog, and on shutdown waits in `CJobManager::CancelJobs` before it cleans up.
- Callers of the audio engine send through an `Actor::Protocol`, whose events they share
  with its thread; both release a synchronous message.


## 2. Modules

| Module | Models |
|---|---|
| `JobManager` | `CJobManager` and its worker threads, clients reduced to the calls they may make |
| `JobService` | abstract: what the manager promises about each job |
| `JobManagerService` | the refinement mapping, `JobManager` implements `JobService` |
| `JobManagerProofs` | theorems about `JobManager`, and that it implements `JobService` |
| `MCJobManager` | instances for TLC |
| `JobQueue` | `CJobQueue` composed with `JobManager` (`EXTENDS` it) |
| `MCJobQueue` | instances |
| `MCJobLiveness` | an instance of `JobManager` with clients of its own, and one under a `JobQueue` |
| `DVDMessageQueue` | `CDVDMessageQueue` and its consumer, the loop of a stream player |
| `MessageService` | abstract: one first-in first-out line per priority; implemented by `DVDMessageQueue` |
| `DVDSynchronize` | one synchronize message among the owner and the players |
| `RenderManager` | the buffers of `CRenderManager` between `OutputPicture` and `FrameMove`/`Render` |
| `VideoPlayerProofs` | theorems about `DVDSynchronize` and `RenderManager` |
| `DVDMessageQueueProofs` | theorems about `DVDMessageQueue`, and that it implements `MessageService` |
| `MCVideoPlayer` | instances of the three models of the video player |
| `CircularCache` | the ring: its state and the outcome of each member function |
| `FileCache` | `CFileCache`'s thread and client over `CircularCache` (`EXTENDS` it) |
| `FileCacheProofs` | theorems about these two |
| `LargeTextureManager` | `CGUILargeTextureManager` and the controls that use it, composed with `JobManager` (`EXTENDS` it) |
| `MCLargeTextureManager` | an instance |
| `JobClientsProofs` | theorems about `JobQueue` and `LargeTextureManager` |
| `EventGroup` | `CEvent` and `CEventGroup` |
| `SharedSection` | `CSharedSection` |
| `Timer` | `CTimer` |
| `ThreadsProofs` | theorems about `EventGroup` and `SharedSection` |
| `MCThreads` | instances of these three |
| `ActorProtocol` | `Actor::Protocol`, its callers and the actor's loop |
| `ApplicationMessenger` | `CApplicationMessenger`, its senders and the application thread's loops |
| `MessagingProofs` | theorems about these two |
| `MCMessaging` | instances of these two |
| `SequenceFilter` | `SelectIn(s, K)`: the elements of a list that are in a set, in their order |
| `SequenceFilterProofs` | what it returns; lemmas about sequences, and induction over them |

`MCVideoPlayer`, `MCThreads` and `MCMessaging` put modules that share no variable into one
run, and `MCJobLiveness` two uses of `JobManager`. A variable `part`, chosen at the start and never changed, says which of them the
behaviour is about, and the others stutter: the state spaces add up instead of multiplying,
every property of a module is checked over all of that module's behaviours, and it holds
trivially on the behaviours about another.

### How the code becomes actions

A critical section is one action. Where a function leaves its lock (to wait, to call a
client, to run a job) the thread's program counter names the place, so every other
thread may step there. A variable has the name of the member it stands for.

**JobManager.** `GetNextJob` is a loop of critical sections: pop a job (`PopJob`), or
find nothing and leave the lock to wait (`GetNextJobSleeps`), or, after an expired wait or
when the manager is stopped, remove the worker (`GetNextJobQuits`). The wait itself is
three steps: enter (`WaitBlocks`, or straight through when the event is set), be released
by the event (`WaitReturns`; an auto-reset event serves one waiter), expire
(`WaitExpires`). A job is run between `PopJob` and `DoWorkReturns`, with any number of
`OnJobProgress`. `OnJobComplete` is copy under the lock, call without it, erase under the
lock, delete without it. `CancelJobs` clears the queues, then repeats waking a worker and
looking whether `m_workers` is empty. The fields of a work item are functions of its job,
a queue or `m_processing` holds the jobs. `heap` says who owns a job and is what makes a
dangling pointer visible: a deleted job is `freed`. A job is added at most once: `CJob`
objects are allocated per call.

**JobQueue** holds `queue` (`m_jobQueue`, the next at the back) and `processing`.
`CancelJobs` calls the manager once per entry while it holds the queue's lock, so it is
one step per entry (`cancelAt`) and every other operation of the queue waits for it.
Comparing a listed job that is deleted reads freed memory; `Find` may then return either
outcome; `ComparesLiveJobsHolds` proves that it is never used. `revoked` is a history variable.

**DVDMessageQueue.** `Get` is `GetTakes`, `GetSleeps` (reset the event, leave the lock),
`WaitReturns` or `WaitExpires`, `GetAborts`. The consumer asks for any priority, puts a
synchronize message back at priority 1, or what is left of a packet back to the head, as
`CVideoPlayerAudio` does. `Put` places the message with the same scan as the code and
counts sizes only for packets of priority 0.

**DVDSynchronize** gives each thread a place for itself and its reference. `Wait` checks,
sleeps, and is woken by `notifyAll` of each `Release`. The message's own timeout counts as
success, the caller's as failure. A put-back is one acquire, one release by the list item
and one release by the player.

**CircularCache, FileCache.** A byte is known by its position in the file, so a wrong
byte is a wrong number in the ring. The thread's loop: look at `m_bStop` (`top`) and then at
`m_seekEvent` (`event`), take a seek, seek the source, reset or reuse the cache (`reset`),
pass the rate limit (`limit`), read a chunk, write it in as many pieces as the ring
allows, look at seek and stop between the pieces, mark the end, wait there; after a read
error wait until the cache is empty (`drain`). Whether the thread is too fast is left open,
but its wait for the limit is on `m_seekEvent`, and like every wait outside the top of the
loop it sets that event again for a seek and not for the stop (`KeepsSeek`). The
two assignments of `StopThread`, `m_bStop` and the event, are one step: a thread that sees
the first without the second only loses its event later or is past needing it. `Close`
comes from a client outside its calls. The client's `Seek` tries the cache, waits for near data, hands the seek over, waits for
`m_seekEnded`, waits for the last chunk before the target, and moves there.

**RenderManager.** The buffers are in `m_free`, `m_queued`, `m_discard` and
`m_presentsource`. The application thread's frame is `FrameMove` (configuration, then the
presenting under `m_presentlock`) and `Render`; the video thread's `OutputPicture` is
`Configure`, `WaitForBuffer`, the choice of a buffer, the copy, `FlipPage`. The clock is
left out: whether a frame is due, and how many late ones are skipped, is chosen, and so is
whether the renderer keeps a buffer for reference.

**LargeTextureManager.** `m_listSection` is held across the calls of the manager, so each
member function is one action that includes the manager's `AddJob` or `CancelJob`. Controls
ask, hold and release as `CGUITextureBase` does; `OnJobComplete` is the manager's call
(`OnJobCompleteCalls`) with the queued image of that id moved, or ignored.

**EventGroup.** An event's `Set` is two steps: the flag under the event's mutex, then the
group under the group's. `CEventGroup::wait` holds the group's mutex while it polls the
events one by one; the shared pointer `signaled` of the group is a variable of its own
(`groupSignaled`).

**SharedSection** distinguishes the owner of the recursive mutex, the readers and what the
section counts (`sharedCount`). **Timer** separates the two unlocked assignments of
`RestartAsync` and the clock readings of the thread; the clock wraps (`ClockModulus`).

**ActorProtocol.** A `Message` object is an identity that is recycled; `unused` is the free
list and what is not yet created, `leaked` what the actor drops without a release. A
synchronous call is get, push, wake the actor, wait, perhaps give up, release twice.
`call` is a ghost member that says which call a message or a reply belongs to.

**ApplicationMessenger.** `frames` is the stack of the loops on the application thread: a
handler may enter another `ProcessWindowMessages`/`ProcessMessages` pair. `stage` is how
far `CApplication::Stop` is.


## 3. Runs

| Run | Question | Bounds |
|---|---|---|
| `JobManagerSafety` | Do the manager's invariants hold, and is each of its steps a step of `JobService`? | 3 jobs, 3 threads, priorities 0 and 1, `MaxWorkers` 4, counter modulo 4 from 0 or 2 |
| `JobLiveness` | Does every queued job leave its queue, does `CancelJobs` return? Does a `CJobQueue` hand everything over and drain, when single jobs are not cancelled? | 2 jobs, 2 threads, one job of the queue at a time |
| `JobManagerUnPause` | (violated) Do held-back jobs resume after `UnPauseJobs`? | 1 job, 1 thread |
| `JobQueueSafety` | Is what the queue lists what the manager holds, unique, and is room used? | 3 jobs, two equal, one at a time, 3 threads |
| `JobQueueOvercommit` | (violated) At most `jobsAtOnce` at once? | 3 jobs, two equal |
| `VideoPlayer` | Message queue: wakeups, sizes, order, abort. Barrier: references, nobody early, everybody leaves. Render manager: one place per buffer, shown as written, presenting goes on | 4 messages (packets of size 1 and 2, a synchronize message, one other), priorities 0, 1, 10; owner and 2 players; 3 buffers, 2 formats |
| `FileCache` | Contents, positions, end of file, calls return | file of 5, ring of 3 with back buffer 1, chunks of 2, near seek 2, targets 0, 2, 4, 5, 6 |
| `FileCacheSeek` | (violated) Does `Seek` return the position? | the same |
| `FileCacheClose` | (violated) Does `Close` end the thread wherever it is? | the same |
| `LargeTextureManager` | References, jobs in flight, wanted images arrive | 3 controls of which two share an image, 2 jobs, 2 threads |
| `Threads` | Group waits, reader/writer lock, timer | 3 events (one manual), 2 group waiters, 1 waiter of an event, 2 setters; 4 threads, nesting 2; clock modulo 6, timeouts 1 and 3, lateness 1 |
| `Messaging` | Who frees a message, whose reply, is it received; a message for a wait, senders return | 3 messages, a synchronous and an asynchronous caller; 2 senders of which one a job, 2 nested loops, 3 messages queued |

### What the passing runs establish

**Job manager.** `RoomForHigherPriority`: jobs at or below a priority never take more
threads than that priority's allowance (`PoolIsBounded`, proved, gives every worker a
bound). `NoDanglingJob`, `OneOwner`: no
queue, list or thread reaches a deleted job, and a job is in one place.
`NoStrandedJob`: while a job that pausing does not hold back is queued, some thread is
awake, or the event is set and a thread waits for it, so no such job depends on the 30 s
timeout. `QuietAfterCancelJobs`: after `CancelJobs` returned no
thread is left that could call a client. `IdsIdentifyJobs`: the id a client got names
its job, also when the counter has wrapped, as long as no more jobs are added than ids exist;
0 is never given to an accepted job. `MostUrgentFirst`: a job starts only from the head of
the most urgent queue that is not empty. `ImplementsService`: the whole life of a job as
a client may see it. `QueuedJobsLeaveTheQueue`, `CancelJobsTerminates`.

**Job queue.** `EntriesAreInFlight`: what the queue lists, apart from what `CancelJobs`
has already passed, is not deleted, and what is with the manager is listed, up to withdrawn
jobs. `JobsAreUnique`. `RoomIsUsed`: only cancelling leaves room while jobs wait.
`QueueDrains`.

**Message queue.** `NoSleepOnWork`: a consumer that sleeps while a message it would take is
queued, or after an abort, has the event set. `DataSizeIsWhatIsQueued`, across flushes,
put-backs and shrinking packets. `ImplementsMessageService`: each priority
is first-in first-out, the most urgent is taken, put-backs come next.
`ConsumerAnswers`: an abort ends the consumer, an urgent message is served.

**Barrier.** `CountsReferences`, `Barrier`: unless overdue or stopped, nobody passes before
everybody who still holds the message arrived. `EverybodyLeaves`.

**Render manager.** `BuffersAreInOnePlace`: once configured, every buffer is on the screen,
free, queued or about to be released, and at one of these. `ShowsWhatWasWritten`: `FlipPage`
queues the buffer that was filled, though it takes the first free one anew.
`QueuedFramesAreShown`: presenting never stops with frames in the queue.

**File cache.** `CacheHoldsTheFile`: the ring holds the file's bytes between its
positions, which stay in order. `BackBufferIsKept`. `ClientSeesTheFile`: the position the
client is told is the ring's, and the mark of the end is there only at the end of the file
(a `Read` whose wait expires returns 0 as well; that is not what the property is about).
`SourceContinuesTheCache`: the next byte from the source follows the last in the ring.
`CallsReturn`: `Read` and `Seek`, until the source fails, and `Close`, unless its event was
lost before a read error (`StopIsLost`, finding 4).

**Large textures.** `ReferencesAreHeld`: an image is listed once, with as many references as
controls hold it. `LoadsAreInFlight`: the queued images are the jobs whose completion is
still to come. `WantedImagesArrive`.

**Thread primitives.** `NoSleepOnSignaled`: nobody sleeps in a group wait on an event that is
set, unless its `Set` is still on the way. `ReadersOrOwner`: readers and owner exclude each
other, and no writer sleeps on a free section. `TimersCallBack`.

**Messaging.** `FreedWithTheLastReference`: a message is free exactly when nobody reaches
it. `RepliesAnswerTheCall`: a reply is to the call that takes it. `SentMessagesAreReceived`.
`OneMessageForOneWait`: a sender that waits has one message, in a queue or in the hands of
one loop. `SendersReturn`.

### What the model shows besides

Behaviour of the code that the properties allow by name, because it is what the code does:

- `PurgeOut` takes messages out without releasing them (`leaked`), and the actor's thread
  drops the message it was to handle again when it ends.
- `CEventGroup::wait` may return an event that somebody else has consumed or reset since.
- `RestartAsync` while the timer's thread starts a wait may be overwritten, or start the
  wait twice; the timer still calls back. One during `OnTimeout` may be taken for the end of
  the timer; no property is about that. When the clock wraps between `m_endTime` and now,
  a timer is late by its timeout.
- `CRenderManager::Configure` stores the new format before it waits: after a timeout the next
  picture of that format takes the configuration as done.
- `CApplication::Stop` waits in `CancelJobs` on the thread that serves `SendMsg`: a job that
  waits there for an answer, and `Stop`, wait for each other.
- `CJobQueue::CancelJob` of the job in progress leaves room that only the next `AddJob` or
  completion uses, and a worker that has copied its callback still calls `OnJobComplete`
  after `CancelJob` returned.

### Why the bounds are enough

- *Jobs and threads.* The manager distinguishes jobs only by queue, position and id.
  With allowances 1 and 2 (priorities 0 and 1 of `MaxWorkers` 4) and 3 jobs each
  allowance is reached and exceeded demand waits; 3 threads are one more than the
  allowance, so that a thread may be on its way out while others are started. The code's
  `MaxWorkers` is 5; the difference of allowances is what matters. The proofs are for all
  values.
- *The counter.* Modulo 4, started at 2, it wraps within the three jobs. There are as many
  jobs as ids, so an id never comes back: a job that stays alive while 2^32 others are
  added is excluded.
- *Symmetry* of jobs and threads is used in safety runs only.
- *Queue.* Two equal jobs and a third are the least that lets a late completion meet an
  equal successor.
- *Messages.* Two packets order a line; three priorities separate "before the first item
  of at least" from "of a higher" priority; size 2 lets a packet be decoded in part.
- *Ring.* Size 3 with chunks of 2 wraps inside chunks, a file of 5 overwrites history, a
  back buffer of 1 is below and above what is there. Targets are the start, the middle,
  the chunk before the end, the end, and past it.
- *Barrier.* Owner and two players are the code's own number: `SynchronizePlayers` and
  `FlushBuffers` send to the audio and the video player only (sending to the subtitle
  player is commented out). `Barrier` depends on it: with a third player it fails, as a player whose queue is
  closed after it put the message back has set its bit and still gives up its reference.
- *Buffers.* Three: one on the screen, one written, one queued; two formats give a
  reconfiguration while pictures are queued.
- *Textures.* Two controls share an image, a third makes the jobs overlap; two jobs reach
  a cancelled and a completed one at a time. The manager is neither paused nor shut down.
- *Events.* Two group waiters share the group's pointer, a waiter of a single event consumes
  between their poll and their wake-up, two setters race with `Reset`.
- *Section.* A writer that waits, another that overtakes, and two readers, each nesting once.
- *Timer.* Timeouts 1 and 3 and a lateness of 1 in a clock of 6 put `m_endTime` on either
  side of the wrap, at every clock value.
- *Messages of the port.* Three objects: one on its way, its reply, and one that is reused
  while a late actor still holds the first.
- *Messenger.* Two nested loops, both kinds of queue, and both kinds of senders at `Stop`.
- *Deadlock* is not checked as every system here may really stop: all jobs done, queues
  closed, the file closed. Hanging is excluded by the liveness properties instead.

### Fairness

- *Worker threads*: weak fairness of each thread, which includes the expiry of its 30 s
  wait; strong fairness of `DoWorkReturns`, as a job that reports progress for ever could
  otherwise never end. Jobs are finite; a job that hangs blocks its thread in the code
  as well. `CancelJobs`' caller: weak. No fairness of clients.
- *Queue*: threads that wait for `m_section` get it in the end (strong), as other users
  hold it for short times.
- *DVD consumer*: weak, and no timeout is relied upon.
- *Barrier*: the threads, weak; timeouts may happen or not. `EverybodyLeaves` excludes
  waits that time out again and again for ever, since then the owner is stopped from
  outside in the code.
- *Render manager*: the application thread, weak, and a frame is due again and again
  (strong fairness of `FramePresents(TRUE)`): the clock runs. Nothing of the video thread.
- *Large textures*: the workers, weak; a visible control asks again with every frame, weak.
- *Timer*: its thread, weak, and time passes.
- *Port*: callers, actor and the receiver of replies, weak; no timeout.
- *Messenger*: the application thread and senders inside a call, weak; a handler at each
  depth of nesting returns in the end (strong), since dialogs are closed some time.
- *File cache*: thread and client, weak; no timeout is relied upon. The wait of the rate limit
  ends, as the measured rate falls with time. Source faults are
  allowed; properties about contents are stated until the first fault that breaks them
  (`faults`, a history variable).


## 4. Proofs

`JobManagerProofs` proves, for every set of jobs and threads, every pool size, counter width
and set of used priorities:

| Theorem | States |
|---|---|
| `TypeCorrect` | `Spec => []TypeOK` |
| `JobsAreInPlace` | `Spec => []Placement`, the inductive invariant |
| `NoDanglingJobHolds`, `OneOwnerHolds` | these invariants, from `Placement` |
| `RoomHolds` | `Spec => []RoomForHigherPriority` |
| `PoolHolds` | `Spec => []PoolIsBounded` |
| `MostUrgentFirstHolds` | the action property `MostUrgentFirst` |
| `QuietHolds` | `Spec => []QuietAfterCancelJobs` |
| `NoStrandedJobHolds` | `Spec => []NoStrandedJob` |
| `IdsIdentifyJobsHolds` | `Cardinality(Jobs) < IdModulus` implies `Spec => []IdsIdentifyJobs` |
| `ImplementsServiceHolds` | `Spec => ImplementsService`, the refinement of `JobService` |

The assumptions are the `ASSUME`s of `JobManager`: finite sets, a `NoJob` that is no job,
at least one thread for the lowest priority, a counter with at least two values.

*Argument.* `TypeOK` is inductive by itself. `NoDanglingJob` and `OneOwner` are not: that
deleting a job is safe depends on where every other pointer to it is. `Placement` says
where, in six parts: a queued job is alive, its work item has its queue's priority
(`QueuedJobsAreOwned`), and it is at one position (`QueuedOnce`); a job a worker holds is
alive and in no queue (`HeldJobsAreOwned`), and with one worker (`HeldOnce`);
`m_processing` is what the workers between `PopJob` and the erase hold
(`ProcessingIsHeld`); `m_workers` is the threads that run (`PoolIsAlive`). Each action
moves one job from one place to another; the lemmas about `Append`, `Tail` and `DropAt`
say that the other elements of a queue stay. `RoomForHigherPriority` can be disturbed by
`PopJob` only, whose guard compares the size of `m_processing` with the allowance of the
popped priority, and allowances grow with the priority; every other action adds nothing to
`m_processing`. `PoolIsBounded` combines the bound in `StartWorkers` with `Placement`, which
gives each job in progress a thread of its own. `QuietAfterCancelJobs` follows from
`Stopped`: while the manager is stopped nothing is queued, and no thread starts once
`CancelJobs` has returned. `NoStrandedJob` is inductive over `TypeOK` and `Placement`: the one
step that could strand a job is a worker that finds nothing to pop, and then each queued
job that pausing does not hold back waits for a slot that a busy worker has, which looks at
the queues again (`PopFailsOnFullPool`); an added job is seen to by whichever branch
`StartWorkers` takes (`StartWorkersWakes`).
`IdsIdentifyJobs` needs `IdsAreRecent`: an id was handed out fewer ids ago than there are
jobs with an id (`Age` counts around the wrap), so the next id is nobody's.

*The refinement.* `JobManager`'s state maps to a status per job. `StatusIsKnown` reads the
status of every job off `Placement`, and for each action a lemma compares the status of the
one job it moves and says that the others keep theirs; then the step is the service's
action of that name, or a stutter.

`JobClientsProofs` proves, for every set of jobs, threads, controls and images:

| Theorem | States |
|---|---|
| `EntriesAreInFlightHolds`, `JobsAreUniqueHolds` | `QueueSpec => []EntriesAreInFlight`, `[]JobsAreUnique` |
| `ComparesLiveJobsHolds` | `CJobQueue` never searches a list that has a deleted job |
| `RoomIsUsedHolds` | the action property `RoomIsUsed` |
| `TextureManagerIsAClient` | `TextureSpec => Spec`: what is proved of `JobManager` holds beneath it |
| `ReferencesHold` | `TextureSpec => []ReferencesAreHeld` |
| `LoadsAreInFlightHolds` | `TextureSpec => []LoadsAreInFlight` |

Both clients name a job by its id, so all but `TextureManagerIsAClient` and `ReferencesHold` assume
`Cardinality(Jobs) < IdModulus`, fewer jobs than ids, as `IdsIdentifyJobsHolds` does. `ManagerInv` is what
holds of the manager under any client: `TypeOK`, `Placement`, `IdsAreRecent`. A `CJobQueue` also deletes
jobs it never handed over, which is no step of the manager; `ManagerInv` is shown to survive that,
instead of `QueueSpec => Spec`.

*The queue.* `EntriesAreInFlight` is not inductive: that a completion removes an entry of the list, and the
right one, depends on the entries being different (`Distinct`), on a waiting job being one the
manager never had (`WaitingAreNew`) and a listed or withdrawn one being no longer new
(`SeenAreOld`), and on the worker that runs a listed job having copied the callback
(`ListedAreReported`); `HandledAreCalled` says that a worker is through the queue's
`OnJobComplete` only inside its call. A late completion erases by contents; either the entry is
its own, or it is that of an equal job, whose manager job stays beyond the list and is equal
to a withdrawn one, as the property allows. `RoomIsUsed` follows step by step: who shortens the
list by a completion hands the next job over, and who adds one hands it over while there is room.
The invariant was also checked by TLC on the instance of `JobQueueSafety`, and with two at once.

*The texture manager.* `TextureInv` says that an image is in the two lists at most once, that the counter of
an image is the number of its controls, and that who shows an image has it in `m_allocated`. `LoadInv` adds
that the ids of the queued images differ and are exactly those of the jobs whose completion is still to
come, and that only `CancelJob` takes a callback away (`CallbacksAreKept`). With unique ids, `ReleaseImage`
then cancels the load of its own image and no other, and `OnJobComplete` finds its image unless it
was released.

`ThreadsProofs` proves `SectionInvHolds` and from it `ReadersOrOwnerHolds`
(`SectionSpec => []ReadersOrOwner`), for every set of threads and every depth of nesting.
`ReadersOrOwner` speaks of who holds what, the code looks at a count: `CountsReaders` says that
`sharedCount` is the number of shared locks held, `CountsLocks` that there is an owner exactly
while `sec` is locked, `WritersWait` that a writer sleeps only while there are readers, so that the
last reader's notify reaches it. The assumptions are finitely many threads and a `NoThread` that is none of them.

It also proves `NoSleepOnSignaledHolds` (`EventSpec => []NoSleepOnSignaled`), for every set of events,
waiters and setters. The property speaks of sleepers; the invariant also follows a waiter that polls
the events and one about to look at the group's pointer: an event they are past is unset, or its `Set`
has still to tell the group, or the pointer is set, or another waiter's poll will find it (`NotMissed`).
`CountsWaiters` says that both `numWaits` count the waiters, as `Set` tells a group without any nothing
and the last waiter of an event resets it.

`VideoPlayerProofs` proves `CountsReferencesHolds`, for every finite set of players. Each
thread has a weight, the number of references it stands for where it is: two between putting
the message back and releasing it, none before it was sent one and after it released it, one
otherwise. `MoveCounts` says that a step which moves one thread changes the number of references by
the difference of its weights, although `notifyAll` moves others from `"wait"` to `"woken"`; then each
action's change of `m_refs` is compared with that difference.

`BarrierHolds` proves `Barrier` for at most two players, the number the code has. `Wait` compares how many
bits are set with how many references are left, and a player whose queue is closed gives up a reference
and keeps its bit. `BarrierInv` says, while no timeout and no stop intervened, that everybody
with a reference has arrived, or that nobody is through yet and the arrived threads without a reference
are players, and then the owner has left as well (`NobodyIsThrough`). In the second case the thread
that looks and one that is missing are the other two players, of which there is one at most, or
nobody departed and the counts are those of the same set (`AllAreSeen`).

It proves of the render manager, for every number of buffers, `BuffersAreInOnePlaceHolds` and the
action property `ShowsWhatWasWrittenHolds`. `RenderInv` says that the buffer on the screen and the three
queues have all buffers and share none (or that the queues are empty, before the first
configuration), and that the buffer the video thread writes stays the first free one until `FlipPage`,
unless a flush resets the queues, which the video thread's ghost `reset` records.

`DVDMessageQueueProofs` proves, for every set of messages, sizes and priorities,
`DataSizeIsWhatIsQueuedHolds`, `NoSleepOnWorkHolds` and `ImplementsMessageServiceHolds`. `QueueInv` says that
no message is in the lists twice or also in the consumer's hands, that the list of the urgent ones
ascends by priority (what the scan of `Put` relies on, and what makes its last element the most
urgent), that `m_iDataSize` counts, and that a consumer which sleeps on an unset event has nothing to
take. To add sizes without a sum over a set, what is left of a packet is a set of bytes (`Bytes`), and
`m_iDataSize` its cardinality. The refinement looks at one line per priority: `InsertedLine`, `AddedLine`,
`TakenLine` and `FlushedLine` say how the line of each priority changes when a message enters or
leaves the lists, and no other line does.

`FileCacheProofs` proves, for every size of ring, chunk, back buffer and file, `CacheHoldsTheFileHolds`,
`SourceContinuesTheCacheHolds`, `ClientSeesTheFileHolds` and the action property `BackBufferIsKeptHolds`.
`FileInv` relates the two threads: what is left of the thread's chunk follows the ring's end and the
source is behind that chunk (`ChunkFollows`, `SourceContinues`), never before the ring's end even
after a failed seek (`SourceIsAhead`); `m_seekEvent` and `m_seekEnded` hand one seek to the thread and back
(`SeekHandshake`), and the thread takes the event of the stop for a seek only while the client is in
`Close`; outside a seek `m_readPos` is the ring's position (`ReaderIsKnown`); the end mark is
set only while the thread waits at the end of the file (`EndIsKnown`).

`MessagingProofs` proves `FreedWithTheLastReferenceHolds`, `RepliesAnswerTheCallHolds` and
`OneMessageForOneWaitHolds`, for every set of callers, messages and senders and any depth of nested loops.
`ProtocolInv` says that a message is in one place, except that a caller may share it with the actor's
side (`OnePlace`, `SomePlace`), that `isSyncFini` is set exactly once one of two owners has released it
(`SecondReleaseFrees`), and that a message is answered at most once, while its caller looks, by a reply
for that call (`RepliesAreSeen`). For the messenger, the message of a sender whose event is not set is
somewhere (`NotLost`), at one position of one queue or in one loop's hands, and not at all when
the sender does not wait (`NotTwice`); the second needs that the sender resets its event before it pushes
(`ResetFirst`).

`SequenceFilterProofs` has what these proofs need about lists. The provers cannot instantiate an
induction theorem that takes a predicate; `NatInductionOnSet` and `SeqInductionOnSet` take the set of the
values that satisfy it instead, and so what `SelectIn` returns, a recursive function, is proved for every
sequence: `SelectInAppend`, `SelectInConcat`, `SelectInTwice`, that it keeps order and repeats nothing.

*Only model-checked:* liveness under fairness, as the prover handles neither `WF` nor `ENABLED`. Every
invariant and every action property of the passing runs is proved. The proofs about the models are for every value of
the constants their assumptions allow; where more is assumed (`Cardinality(Jobs) < IdModulus`, at most two
players) the theorem says so.


## 5. Findings

Each is a run whose property states what a comment or test says, and which TLC violates.

1. `UnPauseJobs` resumes nothing by itself (`JobManagerUnPause`): it only clears the flag; a job
   held back stays queued until the next `AddJob` if no worker is left.
2. More than `jobsAtOnce` jobs at once (`JobQueueOvercommit`): a worker that has copied its
   work item calls `OnJobComplete` although `CancelJob` has returned; that late completion
   erases the entry of an equal job queued since, and another is handed over.
3. `CFileCache::Seek` near the end returns a position other than the one the file then has
   (`FileCacheSeek`): the thread's result is the position of the last chunk.
4. `CFileCache::Close` may never return (`FileCacheClose`). `StopThread` counts on one
   auto-reset event to get the thread out of any wait. The wait of the rate limiter takes that
   event and, as `m_bStop` is set, does not set it again; so may the test for a seek that follows
   the test of `m_bStop`. Both go on to read the source. When that read returns an error, the
   thread waits for the cache to become empty, or for the event, and looks at nothing
   else; nobody reads any more, and `Close` joins it.

Further hazards no property covers yet, with the reason, are in `PROJECT.json`.


## 6. What is not modelled

Within the modelled components: `IsProcessing` (queries that change nothing); the time
stamps, `GetLevel` and `WaitUntilEmpty` of the message queue; `SynchronizeDemuxer`, whose
two sides share one source bit; the clock, captures, overlays and `UnInit` of the render
manager; the measured rates (whether the thread is too fast is a choice) and `IoControl`
of the file cache, sources
that cannot seek, short waits for space (the thread looks again); allocation of the ring;
`Restart` and `Stop(true)` of a timer, which join its thread; `DeferIn` and `DeferOut` of a
port, which nothing calls; what handlers of the messenger do, `CDelayedMessage`.
`CJobQueue` and `CGUILargeTextureManager` are run on a manager that is not shut down, since
the code has no recovery for it. `CThread`, the platform's locks and condition variables are
taken as given.

Other components are listed above and in `PROJECT.json`. Those are sequential code over
data (settings, playlists, GUI), clients of databases, devices, the network or file systems,
numeric and media-format code, and third-party code: what could go wrong there is in the
data, not in the order of steps.


## 7. Plan

The safety properties are proved; what could follow widens the model. In this order:

1. `CDoubleCache` under `FileCache`: the choice of the cache a seek uses, with `CacheHoldsTheFile` for both.
2. The variant of `DVDSynchronize` with `SYNCSOURCE_OWNER` set from two sides (`SynchronizeDemuxer`).
3. The start synchronisation of `CVideoPlayer` (`SYNC_STARTING`, `SYNC_WAITSYNC`, `SYNC_INSYNC`).
4. `PVRManager`'s jobs, as another client of `JobManager` beside those of `JobClientsProofs`.
