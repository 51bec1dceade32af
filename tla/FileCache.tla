------------------------------ MODULE FileCache ------------------------------
(***************************************************************************)
(* CFileCache (xbmc/filesystem/FileCache.cpp) with a CCircularCache: a     *)
(* thread reads the source ahead into the cache, a client reads from it    *)
(* and seeks.  The client's calls are serialized by m_sync, so there is    *)
(* one client.  A seek that the cache cannot serve is handed to the thread *)
(* through m_seekPos and the auto-reset events m_seekEvent and m_seekEnded.*)
(*                                                                         *)
(* Of the rate limit it is left open whether the thread is too fast.  The  *)
(* thread does not wait for space but looks again.  SEEK_CUR and SEEK_END  *)
(* only compute iTarget.  The source can be sought (m_seekPossible).       *)
(*                                                                         *)
(* Definitions marked "Mistake" are not part of the model: each is a       *)
(* plausible error in the definition after it.                             *)
(***************************************************************************)
EXTENDS CircularCache

CONSTANTS m_fileSize,
          m_chunkSize,
          NearSeek,      \* 100000: how far ahead of the cache Seek waits for data
          Targets        \* where the client seeks to

ASSUME FileAssumption ==
  /\ m_fileSize \in Nat /\ m_chunkSize \in Nat \ {0}
  /\ NearSeek \in Nat
  /\ Targets \subseteq Nat

VARIABLES
  m_seekEvent, m_seekEnded,     \* the signaled flags of the two events
  m_seekPos, m_nSeekResult,
  m_readPos, m_writePos,
  m_bStop,
  source,         \* the position of m_source
  faults,         \* the faults it has had: "zero", "error", "seek"
  tpc,            \* where the thread is
  cacheReachEOF,  \* its local variable
  cacheMaxPos,    \* its local variable
  chunk,          \* what it has read: position of the first byte, iRead, iTotalWrite
  rpc,            \* where the client is
  iTarget,        \* the target of its Seek
  result          \* what its last Seek returned

seekVars == <<m_seekEvent, m_seekEnded, m_seekPos, m_nSeekResult>>
threadVars == <<source, faults, tpc, cacheReachEOF, cacheMaxPos, chunk>>
clientVars == <<rpc, iTarget, result>>
vars == <<cacheVars, seekVars, m_readPos, m_writePos, m_bStop, threadVars, clientVars>>

(***************************************************************************)
(* The thread: "top" about to look at m_bStop; "event" at m_seekEvent;     *)
(* "reset" between the seek of the source and that of the cache; "limit"   *)
(* in the rate limit; "read" about to read the source; "write" with data   *)
(* in hand; "written" after a WriteToCache; "eof" waiting for a seek at    *)
(* the end; "drain" after a read error; "exit" out of the loop; "dead".    *)
(*                                                                         *)
(* The client: "idle"; "blocked" in Read; "near" in CCircularCache::Seek;  *)
(* "ended" waiting for m_seekEnded; "remaining" waiting for the rest;      *)
(* "late" in CCircularCache::Seek again; "closed".                         *)
(***************************************************************************)
TypeOK ==
  /\ CacheTypeOK
  /\ m_seekEvent \in BOOLEAN /\ m_seekEnded \in BOOLEAN
  /\ m_seekPos \in Nat /\ m_nSeekResult \in Nat \cup {-1}
  /\ m_readPos \in Nat /\ m_writePos \in Nat
  /\ m_bStop \in BOOLEAN
  /\ source \in 0 .. m_fileSize
  /\ faults \subseteq {"zero", "error", "seek"}
  /\ tpc \in {"top", "event", "reset", "limit", "read", "write", "written", "eof",
              "drain", "exit", "dead"}
  /\ cacheReachEOF \in BOOLEAN
  /\ cacheMaxPos \in Nat
  /\ chunk \in [first : Nat, iRead : Nat, iTotalWrite : Nat]
  /\ chunk.iTotalWrite <= chunk.iRead
  /\ rpc \in {"idle", "blocked", "near", "ended", "remaining", "late", "closed"}
  /\ iTarget \in Nat
  /\ result \in Nat \cup {-1}

NoChunk == [first |-> 0, iRead |-> 0, iTotalWrite |-> 0]

Init ==
  /\ CacheInit
  /\ m_seekEvent = FALSE /\ m_seekEnded = FALSE
  /\ m_seekPos = 0 /\ m_nSeekResult = 0
  /\ m_readPos = 0 /\ m_writePos = 0
  /\ m_bStop = FALSE
  /\ source = 0 /\ faults = {}
  /\ tpc = "top"
  /\ cacheReachEOF = FALSE
  /\ cacheMaxPos = 0
  /\ chunk = NoChunk
  /\ rpc = "idle" /\ iTarget = 0 /\ result = 0

-----------------------------------------------------------------------------
(***************************************************************************)
(* The thread.                                                             *)
(***************************************************************************)
\* A wait on m_seekEvent outside the top of the loop: a seek is left for the
\* top, the event of the stop is not.
KeepsSeek == m_seekEvent' = (m_seekEvent /\ ~m_bStop)

\* while (!m_bStop).
TopPasses ==
  /\ tpc = "top"
  /\ ~m_bStop
  /\ tpc' = "event"
  /\ UNCHANGED <<faults, cacheVars, seekVars, m_readPos, m_writePos, m_bStop, source,
                 cacheReachEOF, cacheMaxPos, chunk, clientVars>>

NoSeek ==
  /\ tpc = "event"
  /\ ~m_seekEvent
  /\ tpc' = "limit"
  /\ UNCHANGED <<faults, cacheVars, seekVars, m_readPos, m_writePos, m_bStop, source,
                 cacheReachEOF, cacheMaxPos, chunk, clientVars>>

\* Mistake: the source is left where it is when the cache has the position.
SourceSeeksUncached ==
  /\ tpc = "event"
  /\ m_seekEvent
  /\ m_seekEvent' = FALSE
  /\ cacheMaxPos' = CachedDataEndPosIfSeekTo(m_seekPos)
  /\ cacheReachEOF' = (cacheMaxPos' = m_fileSize)
  /\ source' = IF IsCachedPosition(m_seekPos) THEN source ELSE cacheMaxPos'
  /\ tpc' = "reset"
  /\ UNCHANGED <<faults, cacheVars, m_seekEnded, m_seekPos, m_nSeekResult, m_readPos,
                 m_writePos, m_bStop, chunk, clientVars>>

\* The thread takes the seek: the source goes to where the cache will end.  It
\* does not look whether this is the event of the stop.
SourceSeeks ==
  /\ tpc = "event"
  /\ m_seekEvent
  /\ m_seekEvent' = FALSE
  /\ cacheMaxPos' = CachedDataEndPosIfSeekTo(m_seekPos)
  /\ cacheReachEOF' = (cacheMaxPos' = m_fileSize)
  /\ source' = IF cacheReachEOF' THEN source ELSE cacheMaxPos'
  /\ tpc' = "reset"
  /\ UNCHANGED <<faults, cacheVars, m_seekEnded, m_seekPos, m_nSeekResult, m_readPos,
                 m_writePos, m_bStop, chunk, clientVars>>

\* m_source.Seek fails: the cache stays as it is, the client is released.
SourceSeekFails ==
  /\ faults' = faults \cup {"seek"}
  /\ tpc = "event"
  /\ m_seekEvent
  /\ m_seekEvent' = FALSE
  /\ cacheMaxPos' = CachedDataEndPosIfSeekTo(m_seekPos)
  /\ cacheMaxPos' # m_fileSize
  /\ cacheReachEOF' = FALSE
  /\ m_nSeekResult' = -1
  /\ m_seekEnded' = TRUE
  /\ tpc' = "limit"
  /\ UNCHANGED <<cacheVars, m_seekPos, m_readPos, m_writePos, m_bStop, source,
                 chunk, clientVars>>

\* The rest of the seek: the cache, the positions, and the client's release.
CacheSeeks ==
  /\ tpc = "reset"
  /\ Reset(m_seekPos)
  /\ m_readPos' = m_seekPos
  /\ m_writePos' = m_end'
  /\ m_nSeekResult' = m_seekPos
  /\ m_seekEnded' = TRUE
  /\ tpc' = "limit"
  /\ UNCHANGED <<faults, m_seekEvent, m_seekPos, m_bStop, source, cacheReachEOF,
                 cacheMaxPos, chunk, clientVars>>

\* The client is near enough, or the thread was slow enough.
RateIsLow ==
  /\ tpc = "limit"
  /\ tpc' = "read"
  /\ UNCHANGED <<faults, cacheVars, seekVars, m_readPos, m_writePos, m_bStop, source,
                 cacheReachEOF, cacheMaxPos, chunk, clientVars>>

\* The thread is too far ahead of the client, and m_seekEvent ends its wait.
RateWaitEnds ==
  /\ tpc = "limit"
  /\ m_writePos > m_readPos
  /\ m_seekEvent
  /\ KeepsSeek
  /\ tpc' = "read"
  /\ UNCHANGED <<faults, cacheVars, m_seekEnded, m_seekPos, m_nSeekResult, m_readPos,
                 m_writePos, m_bStop, source, cacheReachEOF, cacheMaxPos, chunk,
                 clientVars>>

\* No space: wait for some, and look for a seek again.
NoSpace ==
  /\ tpc = "read"
  /\ Limit = 0
  /\ ~cacheReachEOF
  /\ tpc' = "top"
  /\ UNCHANGED <<faults, cacheVars, seekVars, m_readPos, m_writePos, m_bStop, source,
                 cacheReachEOF, cacheMaxPos, chunk, clientVars>>

ReadsSource ==
  /\ tpc = "read"
  /\ ~cacheReachEOF
  /\ \E n \in 1 .. Least(GetMaxWriteSize(m_chunkSize), m_fileSize - source) :
       /\ chunk' = [first |-> source, iRead |-> n, iTotalWrite |-> 0]
       /\ source' = source + n
  /\ tpc' = "write"
  /\ UNCHANGED <<faults, cacheVars, seekVars, m_readPos, m_writePos, m_bStop,
                 cacheReachEOF, cacheMaxPos, clientVars>>

\* m_source.Read returns 0, before the end of the file or at it, or is not
\* called because the cache has it all.
ReadsNothing ==
  /\ tpc = "read"
  /\ \/ /\ cacheReachEOF \/ (Limit > 0 /\ source = m_fileSize)
        /\ UNCHANGED faults
     \/ /\ ~cacheReachEOF /\ Limit > 0 /\ source < m_fileSize
        /\ faults' = faults \cup {"zero"}

\* There is more to come and the client has something to read: retry.
Retries ==
  /\ ReadsNothing
  /\ m_writePos < m_fileSize /\ front > 0
  /\ KeepsSeek
  /\ tpc' = "top"
  /\ UNCHANGED <<cacheVars, m_seekEnded, m_seekPos, m_nSeekResult, m_readPos, m_writePos,
                 m_bStop, source, cacheReachEOF, cacheMaxPos, chunk, clientVars>>

ReachesEnd ==
  /\ ReadsNothing
  /\ ~(m_writePos < m_fileSize /\ front > 0)
  /\ EndOfInput(TRUE)
  /\ tpc' = "eof"
  /\ UNCHANGED <<seekVars, m_readPos, m_writePos, m_bStop, source, cacheReachEOF,
                 cacheMaxPos, chunk, clientVars>>

\* Mistake: the event is not set again.
EndIsLeftOnce ==
  /\ tpc = "eof"
  /\ m_seekEvent
  /\ EndOfInput(FALSE)
  /\ m_seekEvent' = FALSE
  /\ tpc' = "top"
  /\ UNCHANGED <<faults, m_seekEnded, m_seekPos, m_nSeekResult, m_readPos, m_writePos,
                 m_bStop, source, cacheReachEOF, cacheMaxPos, chunk, clientVars>>

\* A seek ends the wait at the end of the input; the event is set again for
\* the top of the loop.
EndIsLeft ==
  /\ tpc = "eof"
  /\ m_seekEvent
  /\ EndOfInput(FALSE)
  /\ KeepsSeek
  /\ tpc' = "top"
  /\ UNCHANGED <<faults, m_seekEnded, m_seekPos, m_nSeekResult, m_readPos, m_writePos,
                 m_bStop, source, cacheReachEOF, cacheMaxPos, chunk, clientVars>>

\* m_source.Read returns an error: let the client empty the cache, then exit.
\* Only m_seekEvent ends that wait.
SourceReadFails ==
  /\ faults' = faults \cup {"error"}
  /\ tpc = "read"
  /\ ~cacheReachEOF /\ Limit > 0
  /\ tpc' = "drain"
  /\ UNCHANGED <<cacheVars, seekVars, m_readPos, m_writePos, m_bStop, source,
                 cacheReachEOF, cacheMaxPos, chunk, clientVars>>

Drained ==
  /\ tpc = "drain"
  /\ front = 0 \/ m_seekEvent
  /\ m_seekEvent' = (m_seekEvent /\ front = 0)
  /\ tpc' = "exit"
  /\ UNCHANGED <<faults, cacheVars, m_seekEnded, m_seekPos, m_nSeekResult, m_readPos,
                 m_writePos, m_bStop, source, cacheReachEOF, cacheMaxPos, chunk,
                 clientVars>>

Writes ==
  /\ tpc = "write"
  /\ ~m_bStop
  /\ WriteToCache(chunk.first + chunk.iTotalWrite, chunk.iRead - chunk.iTotalWrite)
  /\ chunk' = [chunk EXCEPT !.iTotalWrite = @ + m_end' - m_end]
  /\ tpc' = "written"
  /\ UNCHANGED <<faults, seekVars, m_readPos, m_writePos, m_bStop, source, cacheReachEOF,
                 cacheMaxPos, clientVars>>

\* The loop is done with the chunk, or drops what is left of it.
ChunkEnds ==
  /\ m_writePos' = m_writePos + chunk.iTotalWrite
  /\ chunk' = NoChunk
  /\ tpc' = "top"

\* Nobody seeks or stops the thread: go on with the rest of the chunk.
WritesOn ==
  /\ tpc = "written"
  /\ IF ~m_seekEvent /\ chunk.iTotalWrite < chunk.iRead
     THEN tpc' = "write" /\ UNCHANGED <<m_writePos, chunk>>
     ELSE ChunkEnds
  /\ KeepsSeek
  /\ UNCHANGED <<faults, cacheVars, m_seekEnded, m_seekPos, m_nSeekResult, m_readPos,
                 m_bStop, source, cacheReachEOF, cacheMaxPos, clientVars>>

\* The stop comes before the next write.
WriteStops ==
  /\ tpc = "write"
  /\ m_bStop
  /\ ChunkEnds
  /\ UNCHANGED <<faults, cacheVars, seekVars, m_readPos, m_bStop, source, cacheReachEOF,
                 cacheMaxPos, clientVars>>

\* The loop ends; at the end of the input the stop event ends the wait too.
Stops ==
  /\ m_bStop
  /\ tpc \in {"top", "eof"}
  /\ tpc' = "exit"
  /\ UNCHANGED <<faults, cacheVars, seekVars, m_readPos, m_writePos, m_bStop, source,
                 cacheReachEOF, cacheMaxPos, chunk, clientVars>>

OnExit ==
  /\ tpc = "exit"
  /\ m_bStop' = TRUE
  /\ EndOfInput(TRUE)
  /\ m_seekEnded' = TRUE
  /\ tpc' = "dead"
  /\ UNCHANGED <<faults, m_seekEvent, m_seekPos, m_nSeekResult, m_readPos, m_writePos,
                 source, cacheReachEOF, cacheMaxPos, chunk, clientVars>>

-----------------------------------------------------------------------------
(***************************************************************************)
(* The client.                                                             *)
(***************************************************************************)
Read ==
  /\ rpc \in {"idle", "blocked"}
  /\ \E n \in 1 .. Readable : ReadFromCache(n) /\ m_readPos' = m_readPos + n
  /\ rpc' = "idle"
  /\ UNCHANGED <<seekVars, m_writePos, m_bStop, threadVars, iTarget, result>>

ReadBlocks ==
  /\ rpc = "idle"
  /\ front = 0
  /\ ~m_bEndOfInput
  /\ rpc' = "blocked"
  /\ UNCHANGED <<cacheVars, seekVars, m_readPos, m_writePos, m_bStop, threadVars,
                 iTarget, result>>

\* Read returns 0: the input has ended.
ReadEnds ==
  /\ rpc = "blocked"
  /\ front = 0
  /\ m_bEndOfInput
  /\ rpc' = "idle"
  /\ UNCHANGED <<cacheVars, seekVars, m_readPos, m_writePos, m_bStop, threadVars,
                 iTarget, result>>

\* WaitForData gives up, and Read returns 0 as well.
ReadExpires ==
  /\ rpc = "blocked"
  /\ front = 0
  /\ rpc' = "idle"
  /\ UNCHANGED <<cacheVars, seekVars, m_readPos, m_writePos, m_bStop, threadVars,
                 iTarget, result>>

\* Seek ends at its target: m_readPos = iTarget and the result r.
Arrives(t, r) ==
  /\ m_readPos' = t
  /\ result' = r
  /\ iTarget' = 0
  /\ rpc' = "idle"

\* The cache could not serve the seek: ask the thread.
AskThread(t) ==
  /\ iTarget' = t
  /\ m_nSeekResult' = -1
  /\ m_seekPos' = Least(t, IF m_fileSize > m_chunkSize THEN m_fileSize - m_chunkSize ELSE 0)
  /\ m_seekEvent' = TRUE
  /\ rpc' = "ended"
  /\ UNCHANGED <<m_seekEnded, m_readPos, result>>

CanWait(t) == t >= m_end /\ t < m_end + NearSeek

SeekInCache(t) ==
  /\ rpc = "idle" /\ t # m_readPos
  /\ IsCachedPosition(t)
  /\ MoveTo(t)
  /\ m_nSeekResult' = t
  /\ Arrives(t, t)
  /\ UNCHANGED <<m_seekEvent, m_seekEnded, m_seekPos, m_writePos, m_bStop, threadVars>>

\* CCircularCache::Seek lets the data come a bit further.
SeekNear(t) ==
  /\ rpc = "idle" /\ t # m_readPos
  /\ CanWait(t) /\ ~IsCachedPosition(t)
  /\ MoveTo(m_end)
  /\ iTarget' = t
  /\ rpc' = "near"
  /\ UNCHANGED <<seekVars, m_readPos, m_writePos, m_bStop, threadVars, result>>

SeekFar(t) ==
  /\ rpc = "idle" /\ t # m_readPos
  /\ ~CanWait(t) /\ ~IsCachedPosition(t)
  /\ AskThread(t)
  /\ UNCHANGED <<cacheVars, m_writePos, m_bStop, threadVars>>

\* CCircularCache::Seek has the position after its wait, or does not.
NearArrives ==
  /\ rpc = "near"
  /\ IsCachedPosition(iTarget)
  /\ MoveTo(iTarget)
  /\ m_nSeekResult' = iTarget
  /\ Arrives(iTarget, iTarget)
  /\ UNCHANGED <<m_seekEvent, m_seekEnded, m_seekPos, m_writePos, m_bStop, threadVars>>

NearFails ==
  /\ rpc = "near"
  /\ ~IsCachedPosition(iTarget)
  /\ AskThread(iTarget)
  /\ UNCHANGED <<cacheVars, m_writePos, m_bStop, threadVars>>

NearEnds == DataArrived(iTarget - m_cur) /\ NearFails

\* The thread has done its part.  The value returned is the thread's.
SeekEnded ==
  /\ rpc = "ended"
  /\ m_seekEnded
  /\ m_seekEnded' = FALSE
  /\ IF m_seekPos < iTarget
     THEN rpc' = "remaining" /\ UNCHANGED <<m_seekEvent, m_readPos, iTarget, result>>
     ELSE Arrives(iTarget, m_nSeekResult) /\ m_seekEvent' = FALSE
  /\ UNCHANGED <<cacheVars, m_seekPos, m_nSeekResult, m_writePos, m_bStop, threadVars>>

\* The rest of Seek: m_readPos is iTarget whatever the cache said.
RemainingReturns ==
  /\ Arrives(iTarget, m_nSeekResult)
  /\ m_seekEvent' = FALSE
  /\ UNCHANGED <<m_seekEnded, m_seekPos, m_nSeekResult, m_writePos, m_bStop, threadVars>>

\* Mistake: the reader is not moved to the target.
RemainingStays ==
  /\ rpc = "remaining"
  /\ front >= iTarget - m_seekPos
  /\ UNCHANGED cacheVars
  /\ RemainingReturns

\* There is enough data: seek the cache to the target, which it has unless the
\* thread failed.
RemainingArrives ==
  /\ rpc = "remaining"
  /\ front >= iTarget - m_seekPos
  /\ \/ IsCachedPosition(iTarget) /\ MoveTo(iTarget) /\ RemainingReturns
     \/ ~IsCachedPosition(iTarget) /\ ~CanWait(iTarget) /\ UNCHANGED cacheVars /\ RemainingReturns
     \/ /\ ~IsCachedPosition(iTarget) /\ CanWait(iTarget)
        /\ MoveTo(m_end)
        /\ rpc' = "late"
        /\ UNCHANGED <<seekVars, m_readPos, m_writePos, m_bStop, threadVars, iTarget, result>>

LateArrives ==
  /\ rpc = "late"
  /\ IsCachedPosition(iTarget) /\ MoveTo(iTarget)
  /\ RemainingReturns

LateFails ==
  /\ rpc = "late"
  /\ ~IsCachedPosition(iTarget) /\ UNCHANGED cacheVars
  /\ RemainingReturns

LateEnds == DataArrived(iTarget - m_cur) /\ LateFails

\* It did not come: -1, at the position the thread went to.
RemainingFails ==
  /\ rpc = "remaining"
  /\ front < iTarget - m_seekPos
  /\ result' = -1
  /\ iTarget' = 0
  /\ rpc' = "idle"
  /\ UNCHANGED <<cacheVars, seekVars, m_readPos, m_writePos, m_bStop, threadVars>>

RemainingEnds == DataArrived(iTarget - m_seekPos) /\ RemainingFails

\* Close: stop the thread and join it.
Close ==
  /\ rpc = "idle"
  /\ m_bStop' = TRUE
  /\ m_seekEvent' = TRUE
  /\ rpc' = "closed"
  /\ UNCHANGED <<cacheVars, m_seekEnded, m_seekPos, m_nSeekResult, m_readPos,
                 m_writePos, threadVars, iTarget, result>>

-----------------------------------------------------------------------------
Thread ==
  \/ TopPasses
  \/ NoSeek
  \/ SourceSeeks
  \/ SourceSeekFails
  \/ CacheSeeks
  \/ RateIsLow
  \/ RateWaitEnds
  \/ NoSpace
  \/ ReadsSource
  \/ Retries
  \/ ReachesEnd
  \/ EndIsLeft
  \/ SourceReadFails
  \/ Drained
  \/ Writes
  \/ WritesOn
  \/ WriteStops
  \/ Stops
  \/ OnExit

\* What the client does in a call that it has begun.
Client ==
  \/ rpc = "blocked" /\ Read
  \/ ReadEnds
  \/ NearArrives
  \/ NearEnds
  \/ SeekEnded
  \/ RemainingArrives
  \/ LateArrives
  \/ LateEnds
  \/ RemainingEnds

Next ==
  \/ Thread
  \/ Client
  \/ rpc = "idle" /\ Read
  \/ ReadBlocks
  \/ ReadExpires
  \/ \E t \in Targets : SeekInCache(t) \/ SeekNear(t) \/ SeekFar(t)
  \/ NearFails
  \/ RemainingFails
  \/ LateFails
  \/ Close

Spec == Init /\ [][Next]_vars

(***************************************************************************)
(* The thread is scheduled, the source answers, and a client inside a call *)
(* is scheduled.  No timeout is relied upon, and the client owes nothing.  *)
(***************************************************************************)
FairSpec == Spec /\ WF_vars(Thread) /\ WF_vars(Client)

-----------------------------------------------------------------------------
(***************************************************************************)
(* Safety                                                                  *)
(***************************************************************************)
(***************************************************************************)
(* The thread reads the source where the cache ends, although a seek makes *)
(* it drop a part of the chunk it has read.  A seek of the source that     *)
(* fails after such a drop is the exception.                               *)
(***************************************************************************)
SourceContinuesTheCache ==
  "seek" \notin faults /\ tpc = "read"
    => m_writePos = m_end /\ source = m_end

(***************************************************************************)
(* What the client reads at a position is the byte of the file at that     *)
(* position, however reads, writes, seeks and wraps follow each other, and *)
(* the positions of the cache stay in the order all its arithmetic relies  *)
(* on.                                                                     *)
(***************************************************************************)
CacheHoldsTheFile ==
  /\ TypeOK
  /\ Window
  /\ "seek" \notin faults => HoldsTheFile

\* The client is not inside a Seek.
Between == rpc \in {"idle", "blocked"}

(***************************************************************************)
(* The position the client is told (GetPosition) is the position its next  *)
(* byte comes from, unless a seek of the source or the thread has failed.  *)
(* It is told the end of the file (Read returns 0, the cache is empty and  *)
(* at its end) only at the end of the file, while the thread runs and the  *)
(* source does not fail: it does not see the mark of an earlier end after  *)
(* it seeks back.                                                          *)
(***************************************************************************)
ClientSeesTheFile ==
  /\ faults \subseteq {"zero"} /\ Between => m_readPos = m_cur
  /\ faults = {} /\ m_bEndOfInput /\ ~m_bStop /\ Between => m_end = m_fileSize

\* "It will always leave m_size_back of the backbuffer intact"
\* (CircularCache.cpp): a write drops data behind the reader, who does not move,
\* only when there is more than that.
BackBufferIsKept ==
  [][m_end' > m_end /\ m_beg' > m_beg /\ m_cur' = m_cur
       => m_cur - m_beg' >= m_size_back]_vars

(***************************************************************************)
(* Liveness                                                                *)
(***************************************************************************)
\* The event of Close was taken, as a seek or by the rate limit, before the
\* source failed: the thread waits for a client that is in Close.
StopIsLost ==
  rpc = "closed" /\ tpc = "drain" /\ front > 0 /\ ~m_seekEvent

\* A Read that waits for data returns, and so does a Seek, without a timeout:
\* the thread is never waiting for space, or at the end, while the client
\* waits for the thread.  When the source fails the timeouts may be needed,
\* and after a read error there is no thread any more.  Close, which joins the
\* thread, returns wherever that is, unless the stop is lost to a read error.
CallsReturn ==
  /\ rpc \notin {"idle", "closed"} ~> rpc = "idle" \/ faults # {}
  /\ rpc = "closed" ~> tpc = "dead" \/ StopIsLost

(***************************************************************************)
(* What a comment says of Close and a test of Seek, and the code does not  *)
(* do.                                                                     *)
(***************************************************************************)
\* "Process could be waiting for seekEvent" (FileCache.cpp): setting the event
\* gets the thread out of whatever it waits for, and Close can join it.
CloseReturns == rpc = "closed" ~> tpc = "dead"

\* EXPECT_EQ(currentPos, file.Seek(currentPos)) and then
\* EXPECT_EQ(currentPos, file.GetPosition()) (TestFile.cpp): a Seek returns
\* -1 or the position the file then has.
SeekReturnsThePosition == [][result' # result => result' \in {-1, m_readPos'}]_vars

=============================================================================
