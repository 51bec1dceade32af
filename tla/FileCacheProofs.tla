--------------------------- MODULE FileCacheProofs ---------------------------
(***************************************************************************)
(* The proofs about CCircularCache and CFileCache: the cache holds the     *)
(* bytes of the file, the client's position is the position of its next    *)
(* byte, and the end it is told is the end of the file.                    *)
(*                                                                         *)
(* The inductive invariant FileInv says what each thread has in its hands: *)
(* the chunk that the thread has read continues the cache (ChunkFollows,   *)
(* SourceContinues), the source is never behind the cache (SourceIsAhead), *)
(* and the two events pass one seek back and forth (SeekHandshake), which  *)
(* is what keeps the thread from reading on after it dropped a part of a   *)
(* chunk, and the client from using the cache while it is reset.           *)
(***************************************************************************)
EXTENDS FileCache, TLAPS

-----------------------------------------------------------------------------
(***************************************************************************)
(* The inductive invariant                                                 *)
(***************************************************************************)
\* Where the cache ends, once the thread has done the seek it is in.
EndOfCache == IF tpc = "reset" THEN CachedDataEndPosIfSeekTo(m_seekPos) ELSE m_end

\* What is left of the chunk in the thread's hands.
Pending == chunk.iRead - chunk.iTotalWrite

\* A chunk ends where the source is, and its written part where the cache ends.
ChunkFollows ==
  /\ tpc \notin {"write", "written"} => chunk = NoChunk
  /\ tpc \in {"write", "written"} => ~cacheReachEOF /\ chunk.first + chunk.iRead = source
  /\ m_writePos + chunk.iTotalWrite = m_end

\* The source is never behind the end of the cache, even after a failed seek.
SourceIsAhead ==
  /\ EndOfCache + Pending <= source
  /\ cacheReachEOF => EndOfCache = m_fileSize

\* m_seekEvent and m_seekEnded pass one seek from the client to the thread and back;
\* the thread takes the event of Close for a seek only while the client is in Close.
SeekHandshake ==
  /\ m_seekPos < m_fileSize \/ m_seekPos = 0
  /\ rpc \in {"ended", "remaining"} => m_seekPos <= iTarget
  /\ rpc = "remaining" => m_seekPos < iTarget
  /\ rpc = "closed" => m_bStop
  /\ m_bStop => rpc = "closed" \/ tpc = "dead"
  /\ tpc = "dead" => m_bStop
  /\ m_seekEvent => rpc \in {"ended", "closed"} \/ tpc = "dead"
  /\ m_seekEnded => (rpc = "ended" /\ ~m_seekEvent) \/ rpc = "closed" \/ tpc = "dead"
  /\ tpc = "reset" => (rpc = "ended" /\ ~m_seekEvent /\ ~m_seekEnded) \/ rpc = "closed"

\* The client's position, unless the source or the thread has failed.
ReaderIsKnown ==
  faults \subseteq {"zero"} =>
    /\ tpc \in {"drain", "exit", "dead"} => rpc = "closed"
    /\ rpc # "late"
    /\ Between => m_readPos = m_cur
    /\ rpc = "remaining" \/ (rpc = "ended" /\ m_seekEnded)
         => m_readPos = m_cur /\ m_cur = m_seekPos

\* The mark of the end is there only while the thread waits at the end.
EndIsKnown ==
  m_bEndOfInput /\ ~m_bStop =>
    /\ tpc = "eof"
    /\ faults = {} => m_end = m_fileSize

\* The thread reads on where the cache ends, unless a seek or the stop is pending.
SourceContinues ==
  "seek" \notin faults =>
    /\ HoldsTheFile
    /\ \/ tpc \in {"reset", "limit", "read", "write", "written", "eof"}
       \/ tpc = "event" /\ ~m_seekEvent
       \/ tpc = "top" /\ ~m_seekEvent /\ ~m_bStop
       => source = EndOfCache + Pending

FileInv ==
  /\ TypeOK /\ Window /\ ChunkFollows /\ SourceIsAhead /\ SeekHandshake
  /\ ReaderIsKnown /\ EndIsKnown /\ SourceContinues

-----------------------------------------------------------------------------
(***************************************************************************)
(* The circular cache                                                      *)
(***************************************************************************)
\* A remainder is found by finding the quotient.
LEMMA Remainder ==
  ASSUME NEW m \in Nat \ {0}, NEW q \in Int, NEW r \in 0 .. m - 1
  PROVE  (m * q + r) % m = r
<1> DEFINE a == m * q + r
<1>0. a \in Int
  OBVIOUS
<1>1. PICK p \in Int, s \in 0 .. m - 1 : a = m * p + s /\ s = a % m
  <2>1. a = m * (a \div m) + (a % m) /\ (a % m) \in 0 .. m - 1 /\ (a \div m) \in Int
    BY <1>0
  <2> QED
    BY <2>1
<1>2. m * (q - p) = s - r
  BY <1>1
<1>3. q - p = 0
  <2>1. CASE q - p >= 1
    <3>1. m * (q - p) >= m
      BY <2>1
    <3> QED
      BY <3>1, <1>2
  <2>2. CASE q - p <= -1
    <3>1. m * (q - p) <= -m
      BY <2>2
    <3> QED
      BY <3>1, <1>2
  <2> QED
    BY <2>1, <2>2
<1> QED
  BY <1>1, <1>2, <1>3

\* Positions less than the buffer apart: their cells are as far apart, unless
\* the end of the buffer lies between them.
LEMMA CellOf ==
  ASSUME NEW m \in Nat \ {0}, NEW a \in Nat, NEW i \in Nat, i > a - m, i < a + m
  PROVE  /\ (a % m) \in 0 .. m - 1
         /\ ((a % m) + i) - a \in 0 .. m - 1 => i % m = ((a % m) + i) - a
         /\ ((a % m) + i) - a < 0 => i % m = ((a % m) + i) - a + m
         /\ (i % m) \in 0 .. m - 1
<1> DEFINE q == a \div m
           r == a % m
<1>1. a = m * q + r /\ r \in 0 .. m - 1 /\ q \in Int
  OBVIOUS
<1>2. (i % m) \in 0 .. m - 1
  OBVIOUS
<1> HIDE DEF q, r
<1>3. ASSUME r + i - a \in 0 .. m - 1 PROVE i % m = r + i - a
  <2>1. i = m * q + (r + i - a)
    BY <1>1
  <2>2. (m * q + (r + i - a)) % m = r + i - a
    BY <1>1, <1>3, Remainder
  <2> QED
    BY <2>1, <2>2
<1>4. ASSUME r + i - a < 0 PROVE i % m = r + i - a + m
  <2>1. r + i - a + m \in 0 .. m - 1
    BY <1>1, <1>4
  <2>2. m * (q - 1) = m * q - m
    BY <1>1
  <2>3. i = m * (q - 1) + (r + i - a + m)
    BY <1>1, <2>2
  <2>4. (m * (q - 1) + (r + i - a + m)) % m = r + i - a + m
    BY <1>1, <2>1, Remainder, q - 1 \in Int
  <2> QED
    BY <2>3, <2>4
<1> QED
  BY <1>1, <1>2, <1>3, <1>4 DEF r

\* What a write may do to the window: it takes no more than it is given, drops
\* only bytes behind the reader, and leaves m_size_back of them.
LEMMA WriteFacts ==
  ASSUME CacheTypeOK, Window, NEW first \in Nat, NEW len \in Nat, WriteToCache(first, len)
  PROVE  /\ Writable(len) \in Nat /\ Writable(len) <= len
         /\ Writable(len) <= m_size - (m_end % m_size)
         /\ m_end' = m_end + Writable(len)
         /\ m_beg' \in Nat /\ m_beg <= m_beg' /\ m_beg' >= m_end' - m_size
         /\ CacheTypeOK' /\ Window'
         /\ m_beg' > m_beg => m_cur - m_beg' >= m_size_back
<1> USE SizeAssumption
<1>1. (m_end % m_size) \in 0 .. m_size - 1
  BY DEF CacheTypeOK
<1> DEFINE pos == m_end % m_size
           n == Writable(len)
<1>2. pos \in 0 .. m_size - 1
  BY <1>1
<1>3. n = Least(len, Least(Limit, m_size - pos))
  BY DEF Writable
<1>4. /\ m_buf' = [c \in Cells |->
                    IF c \in pos .. pos + n - 1 THEN first + c - pos ELSE m_buf[c]]
      /\ m_end' = m_end + n
      /\ m_beg' = BegAfter(m_end + n)
      /\ m_cur' = m_cur /\ m_bEndOfInput' = m_bEndOfInput
  BY DEF WriteToCache
<1> HIDE DEF pos, n
<1>5. n \in Nat /\ n <= len /\ n <= m_size - pos /\ n <= Limit
  BY <1>2, <1>3 DEF Least, Limit, back, front, CacheTypeOK, Window
<1>6. m_buf' \in [Cells -> Int]
  BY <1>2, <1>4, <1>5 DEF CacheTypeOK, Cells
<1>7. /\ m_beg' \in Nat /\ m_beg <= m_beg' /\ m_beg' >= m_end' - m_size
      /\ m_end' \in Nat /\ m_end' - m_beg' <= m_size /\ m_beg' <= m_cur
      /\ m_beg' > m_beg => m_cur - m_beg' >= m_size_back
  BY <1>4, <1>5 DEF BegAfter, Limit, Least, back, front, CacheTypeOK, Window
<1> QED
  BY <1>4, <1>5, <1>6, <1>7 DEF n, pos, CacheTypeOK, Window

\* Bytes written at their own position leave every byte of the window in its
\* cell.
LEMMA WriteHolds ==
  ASSUME CacheTypeOK, Window, NEW len \in Nat, WriteToCache(m_end, len), HoldsTheFile
  PROVE  HoldsTheFile'
<1> USE SizeAssumption
<1> DEFINE pos == m_end % m_size
           n == Writable(len)
<1>1. /\ m_buf' = [c \in Cells |->
                    IF c \in pos .. pos + n - 1 THEN m_end + c - pos ELSE m_buf[c]]
      /\ m_end' = m_end + n
  BY DEF WriteToCache
<1>2. /\ n \in Nat /\ n <= m_size - pos
      /\ m_beg' \in Nat /\ m_beg <= m_beg' /\ m_beg' >= m_end' - m_size
  BY WriteFacts DEF CacheTypeOK
<1>3. m_end \in Nat /\ m_beg \in Nat /\ m_beg <= m_end
  BY DEF CacheTypeOK, Window
<1>4. SUFFICES ASSUME NEW i \in Nat, m_beg' <= i, i < m_end + n
               PROVE  m_buf'[i % m_size] = i
  BY <1>1, <1>2, <1>3 DEF HoldsTheFile
<1>5. pos \in 0 .. m_size - 1
  BY <1>3
<1>6. ASSUME NEW c \in Cells
      PROVE  m_buf'[c] = IF c \in pos .. pos + n - 1 THEN m_end + c - pos ELSE m_buf[c]
  BY <1>1
<1> HIDE DEF n
<1>7. CASE n = 0
  <2>1. i \in m_beg .. m_end - 1 /\ (i % m_size) \in Cells
    BY <1>2, <1>3, <1>4, <1>7 DEF Cells
  <2>2. m_buf'[i % m_size] = m_buf[i % m_size]
    BY <1>5, <1>6, <1>7, <2>1
  <2> QED
    BY <2>1, <2>2 DEF HoldsTheFile
<1>8. CASE n > 0
  <2> DEFINE d == i - m_end
             c == i % m_size
  <2>1. d \in Int /\ i = m_end + d /\ d > -m_size /\ d < m_size /\ d < n
    BY <1>1, <1>2, <1>3, <1>4, <1>5, <1>8
  <2>2. /\ c \in Cells
        /\ pos + d \in 0 .. m_size - 1 => c = pos + d
        /\ pos + d < 0 => c = pos + d + m_size
    <3>1. /\ m_size \in Nat \ {0} /\ m_end \in Nat /\ i \in Nat
          /\ i > m_end - m_size /\ i < m_end + m_size
      BY <1>3, <1>4, <2>1
    <3>2. /\ c \in 0 .. m_size - 1
          /\ (pos + i) - m_end \in 0 .. m_size - 1 => c = (pos + i) - m_end
          /\ (pos + i) - m_end < 0 => c = (pos + i) - m_end + m_size
      BY <3>1, CellOf, Zenon
    <3> HIDE DEF c, pos
    <3>3. (pos + i) - m_end = pos + d
      BY <1>3, <1>5
    <3> QED
      BY <3>2, <3>3 DEF Cells
  <2> HIDE DEF c
  <2>3. CASE d >= 0
    <3>1. c = pos + d
      BY <1>2, <1>5, <2>1, <2>2, <2>3
    <3>2. c \in pos .. pos + n - 1
      BY <1>2, <1>5, <2>1, <2>3, <3>1
    <3>3. m_buf'[c] = m_end + c - pos
      BY <1>6, <2>2, <3>2
    <3>4. m_buf'[c] = i
      BY <1>3, <1>5, <2>1, <3>1, <3>3
    <3> QED
      BY <3>4 DEF c
  <2>4. CASE d < 0
    <3>1. c \notin pos .. pos + n - 1
      BY <1>1, <1>2, <1>3, <1>4, <1>5, <2>1, <2>2, <2>4
    <3>2. m_buf'[c] = m_buf[c]
      BY <1>6, <2>2, <3>1
    <3>3. i \in m_beg .. m_end - 1
      BY <1>2, <1>3, <1>4, <2>1, <2>4
    <3> QED
      BY <3>2, <3>3 DEF HoldsTheFile, c
  <2> QED
    BY <2>1, <2>3, <2>4
<1> QED
  BY <1>2, <1>7, <1>8

\* The bytes of the window stay when neither they nor the window change.
LEMMA SameBytes ==
  ASSUME UNCHANGED <<m_beg, m_end, m_buf>>
  PROVE  HoldsTheFile' <=> HoldsTheFile
BY DEF HoldsTheFile

\* A read stays inside the window.
LEMMA ReadFacts ==
  ASSUME CacheTypeOK, Window, NEW n, ReadFromCache(n)
  PROVE  n \in Nat /\ n <= front /\ m_cur' = m_cur + n
         /\ UNCHANGED <<m_beg, m_end, m_buf, m_bEndOfInput>>
<1>1. m_size - (m_cur % m_size) \in Int
  BY SizeAssumption DEF CacheTypeOK
<1> QED
  BY <1>1 DEF ReadFromCache, Readable, Least, front, CacheTypeOK, Window

-----------------------------------------------------------------------------
(***************************************************************************)
(* The steps of the thread and of the client                               *)
(***************************************************************************)
\* Nobody wants the stop.
LEMMA TopPassesKeeps ==
  ASSUME FileInv, TopPasses
  PROVE  FileInv'
<1> USE FileAssumption, SizeAssumption DEF FileInv
<1>1. TypeOK'
  BY DEF TopPasses, TypeOK, CacheTypeOK, NoChunk, cacheVars, seekVars, clientVars
<1>2. Window'
  BY DEF TopPasses, Window, cacheVars
<1>3. ChunkFollows'
  BY DEF TopPasses, ChunkFollows, cacheVars
<1>4. SourceIsAhead'
  BY DEF TopPasses, SourceIsAhead, EndOfCache, Pending, cacheVars
<1>5. SeekHandshake'
  BY DEF TopPasses, SeekHandshake, seekVars, clientVars
<1>6. ReaderIsKnown'
  BY DEF TopPasses, ReaderIsKnown, Between, cacheVars, seekVars, clientVars
<1>7. EndIsKnown'
  BY DEF TopPasses, EndIsKnown, cacheVars
<1>8. SourceContinues'
  BY SameBytes DEF TopPasses, SourceContinues, EndOfCache, Pending, cacheVars, seekVars
<1> QED
  BY <1>1, <1>2, <1>3, <1>4, <1>5, <1>6, <1>7, <1>8

\* Nobody wants a seek.
LEMMA NoSeekKeeps ==
  ASSUME FileInv, NoSeek
  PROVE  FileInv'
<1> USE FileAssumption, SizeAssumption DEF FileInv
<1>1. TypeOK'
  BY DEF NoSeek, TypeOK, CacheTypeOK, NoChunk, cacheVars, seekVars, clientVars
<1>2. Window'
  BY DEF NoSeek, Window, cacheVars
<1>3. ChunkFollows'
  BY DEF NoSeek, ChunkFollows, cacheVars
<1>4. SourceIsAhead'
  BY DEF NoSeek, SourceIsAhead, EndOfCache, Pending, cacheVars
<1>5. SeekHandshake'
  BY DEF NoSeek, SeekHandshake, seekVars, clientVars
<1>6. ReaderIsKnown'
  BY DEF NoSeek, ReaderIsKnown, Between, cacheVars, seekVars, clientVars
<1>7. EndIsKnown'
  BY DEF NoSeek, EndIsKnown, cacheVars
<1>8. SourceContinues'
  BY SameBytes DEF NoSeek, SourceContinues, EndOfCache, Pending, cacheVars
<1> QED
  BY <1>1, <1>2, <1>3, <1>4, <1>5, <1>6, <1>7, <1>8

\* The source goes to the end the cache will have.
LEMMA SourceSeeksKeeps ==
  ASSUME FileInv, SourceSeeks
  PROVE  FileInv'
<1> USE FileAssumption, SizeAssumption DEF FileInv
<1>0. /\ Pending' = 0 /\ cacheMaxPos' = CachedDataEndPosIfSeekTo(m_seekPos)
      /\ EndOfCache' = CachedDataEndPosIfSeekTo(m_seekPos)
      /\ cacheReachEOF' = (cacheMaxPos' = m_fileSize)
      /\ source' = IF cacheReachEOF' THEN source ELSE cacheMaxPos'
  BY DEF SourceSeeks, ChunkFollows, NoChunk, Pending, EndOfCache,
         CachedDataEndPosIfSeekTo, IsCachedPosition, cacheVars
<1>1. TypeOK'
  <2>1. CASE cacheReachEOF' /\ IsCachedPosition(m_seekPos)
    BY <2>1 DEF SourceSeeks, TypeOK, CacheTypeOK, cacheVars, clientVars
  <2>2. CASE ~cacheReachEOF' /\ IsCachedPosition(m_seekPos)
    <3>1. source' \in 0 .. m_fileSize
      BY <2>2
      DEF SourceSeeks, SourceIsAhead, ChunkFollows, EndOfCache, Pending,
          CachedDataEndPosIfSeekTo, TypeOK
    <3> QED
      BY <2>2, <3>1
      DEF SourceSeeks, TypeOK, CacheTypeOK, CachedDataEndPosIfSeekTo, cacheVars,
          clientVars
  <2>3. CASE cacheReachEOF' /\ ~IsCachedPosition(m_seekPos)
    BY <2>3 DEF SourceSeeks, TypeOK, CacheTypeOK, cacheVars, clientVars
  <2>4. CASE ~cacheReachEOF' /\ ~IsCachedPosition(m_seekPos)
    <3>1. source' \in 0 .. m_fileSize
      BY <2>4
      DEF SourceSeeks, SeekHandshake, EndOfCache, Pending, CachedDataEndPosIfSeekTo,
          TypeOK
    <3> QED
      BY <2>4, <3>1
      DEF SourceSeeks, TypeOK, CacheTypeOK, CachedDataEndPosIfSeekTo, cacheVars,
          clientVars
  <2> QED
    BY <2>1, <2>2, <2>3, <2>4
<1>2. Window'
  BY DEF SourceSeeks, Window, cacheVars
<1>3. ChunkFollows'
  BY DEF SourceSeeks, ChunkFollows, cacheVars
<1>4. SourceIsAhead'
  <2>1. CASE cacheReachEOF' /\ IsCachedPosition(m_seekPos)
    BY <2>1
    DEF SourceSeeks, SourceIsAhead, EndOfCache, Pending, CachedDataEndPosIfSeekTo,
        cacheVars, IsCachedPosition
  <2>2. CASE ~cacheReachEOF' /\ IsCachedPosition(m_seekPos)
    BY <2>2
    DEF SourceSeeks, SourceIsAhead, EndOfCache, Pending, ChunkFollows, NoChunk, TypeOK,
        CachedDataEndPosIfSeekTo, cacheVars, clientVars, CacheTypeOK, IsCachedPosition
  <2>3. CASE cacheReachEOF' /\ ~IsCachedPosition(m_seekPos)
    <3>1. m_seekPos = 0 /\ m_fileSize = 0 /\ source = 0 /\ source' = 0
      <4>1. m_seekPos = m_fileSize /\ source' = source
        BY <1>0, <2>3 DEF CachedDataEndPosIfSeekTo
      <4>2. m_seekPos = 0
        BY <4>1 DEF SeekHandshake
      <4>3. source \in 0 .. m_fileSize
        BY DEF TypeOK
      <4> QED
        BY <4>1, <4>2, <4>3
    <3> QED
      BY <1>0, <2>3, <3>1 DEF SourceIsAhead, CachedDataEndPosIfSeekTo
  <2>4. CASE ~cacheReachEOF' /\ ~IsCachedPosition(m_seekPos)
    BY <2>4
    DEF SourceSeeks, SourceIsAhead, EndOfCache, Pending, ChunkFollows, NoChunk, TypeOK,
        CachedDataEndPosIfSeekTo, cacheVars, IsCachedPosition
  <2> QED
    BY <2>1, <2>2, <2>3, <2>4
<1>5. SeekHandshake'
  BY DEF SourceSeeks, SeekHandshake, clientVars
<1>6. ReaderIsKnown'
  BY DEF SourceSeeks, ReaderIsKnown, Between, cacheVars, clientVars
<1>7. EndIsKnown'
  BY DEF SourceSeeks, EndIsKnown, SeekHandshake, SourceContinues, EndOfCache, Pending,
         ChunkFollows, NoChunk, SourceIsAhead, TypeOK, CachedDataEndPosIfSeekTo,
         cacheVars, clientVars, CacheTypeOK, IsCachedPosition
<1>8. SourceContinues'
  <2>1. source' = EndOfCache'
    BY <1>0, <1>1, <1>4 DEF SourceIsAhead, TypeOK
  <2>2. "seek" \notin faults => HoldsTheFile'
    BY SameBytes DEF SourceSeeks, SourceContinues, cacheVars
  <2>3. EndOfCache' \in Nat /\ faults' = faults
    BY <1>0 DEF SourceSeeks, CachedDataEndPosIfSeekTo, TypeOK, CacheTypeOK
  <2> QED
    BY <1>0, <2>1, <2>2, <2>3 DEF SourceContinues
<1> QED
  BY <1>1, <1>2, <1>3, <1>4, <1>5, <1>6, <1>7, <1>8

\* Everything stays as it is, but from now on faults has a "seek".
LEMMA SourceSeekFailsKeeps ==
  ASSUME FileInv, SourceSeekFails
  PROVE  FileInv'
<1> USE FileAssumption, SizeAssumption DEF FileInv
<1>1. TypeOK'
  BY DEF SourceSeekFails, TypeOK, CacheTypeOK, NoChunk, CachedDataEndPosIfSeekTo,
         cacheVars, clientVars, IsCachedPosition
<1>2. Window'
  BY DEF SourceSeekFails, Window, cacheVars
<1>3. ChunkFollows'
  BY DEF SourceSeekFails, ChunkFollows, cacheVars
<1>4. SourceIsAhead'
  BY DEF SourceSeekFails, SourceIsAhead, EndOfCache, Pending, cacheVars
<1>5. SeekHandshake'
  BY DEF SourceSeekFails, SeekHandshake, clientVars
<1>6. ReaderIsKnown'
  BY DEF SourceSeekFails, ReaderIsKnown, Between
<1>7. EndIsKnown'
  BY DEF SourceSeekFails, EndIsKnown, cacheVars
<1>8. SourceContinues'
  BY SameBytes DEF SourceSeekFails, SourceContinues, EndOfCache, Pending
<1> QED
  BY <1>1, <1>2, <1>3, <1>4, <1>5, <1>6, <1>7, <1>8

\* The cache goes where the source is, and the client is released.
LEMMA CacheSeeksKeeps ==
  ASSUME FileInv, CacheSeeks
  PROVE  FileInv'
<1> USE FileAssumption, SizeAssumption DEF FileInv
<1>1. TypeOK'
  BY DEF CacheSeeks, TypeOK, CacheTypeOK, Reset, clientVars, MoveTo
<1>2. Window'
  BY DEF CacheSeeks, Window, TypeOK, Reset, IsCachedPosition, MoveTo
<1>3. ChunkFollows'
  BY DEF CacheSeeks, ChunkFollows, NoChunk, TypeOK, Reset, MoveTo
<1>4. SourceIsAhead'
  BY DEF CacheSeeks, SourceIsAhead, EndOfCache, Pending, Reset,
         CachedDataEndPosIfSeekTo, IsCachedPosition, MoveTo
<1>5. SeekHandshake'
  BY DEF CacheSeeks, SeekHandshake, Reset, clientVars, MoveTo
<1>6. ReaderIsKnown'
  BY DEF CacheSeeks, ReaderIsKnown, Between, Reset, clientVars, MoveTo
<1>7. EndIsKnown'
  BY DEF CacheSeeks, EndIsKnown, Reset, MoveTo
<1>8. SourceContinues'
  <2>1. CASE IsCachedPosition(m_seekPos)
    BY <2>1, SameBytes
    DEF CacheSeeks, SourceContinues, EndOfCache, Pending, Reset,
        CachedDataEndPosIfSeekTo, IsCachedPosition, MoveTo
  <2>2. CASE ~IsCachedPosition(m_seekPos)
    BY <2>2
    DEF HoldsTheFile, CacheSeeks, SourceContinues, SourceIsAhead, EndOfCache, Pending,
        TypeOK, Reset, CachedDataEndPosIfSeekTo, IsCachedPosition, MoveTo
  <2> QED
    BY <2>1, <2>2
<1> QED
  BY <1>1, <1>2, <1>3, <1>4, <1>5, <1>6, <1>7, <1>8

\* The thread goes on to read.
LEMMA RateIsLowKeeps ==
  ASSUME FileInv, RateIsLow
  PROVE  FileInv'
<1> USE FileAssumption, SizeAssumption DEF FileInv
<1>1. TypeOK'
  BY DEF RateIsLow, TypeOK, CacheTypeOK, NoChunk, cacheVars, seekVars, clientVars
<1>2. Window'
  BY DEF RateIsLow, Window, cacheVars
<1>3. ChunkFollows'
  BY DEF RateIsLow, ChunkFollows, cacheVars
<1>4. SourceIsAhead'
  BY DEF RateIsLow, SourceIsAhead, EndOfCache, Pending, cacheVars
<1>5. SeekHandshake'
  BY DEF RateIsLow, SeekHandshake, seekVars, clientVars
<1>6. ReaderIsKnown'
  BY DEF RateIsLow, ReaderIsKnown, Between, cacheVars, seekVars, clientVars
<1>7. EndIsKnown'
  BY DEF RateIsLow, EndIsKnown, cacheVars
<1>8. SourceContinues'
  BY SameBytes DEF RateIsLow, SourceContinues, EndOfCache, Pending, cacheVars
<1> QED
  BY <1>1, <1>2, <1>3, <1>4, <1>5, <1>6, <1>7, <1>8

\* A seek stays pending; the stop is seen in m_bStop.
LEMMA RateWaitEndsKeeps ==
  ASSUME FileInv, RateWaitEnds
  PROVE  FileInv'
<1> USE FileAssumption, SizeAssumption DEF FileInv
<1>1. TypeOK'
  BY DEF RateWaitEnds, TypeOK, CacheTypeOK, NoChunk, KeepsSeek, cacheVars, clientVars
<1>2. Window'
  BY DEF RateWaitEnds, Window, cacheVars
<1>3. ChunkFollows'
  BY DEF RateWaitEnds, ChunkFollows, cacheVars
<1>4. SourceIsAhead'
  BY DEF RateWaitEnds, SourceIsAhead, EndOfCache, Pending, cacheVars
<1>5. SeekHandshake'
  BY DEF RateWaitEnds, SeekHandshake, KeepsSeek, clientVars
<1>6. ReaderIsKnown'
  BY DEF RateWaitEnds, ReaderIsKnown, Between, KeepsSeek, cacheVars, clientVars
<1>7. EndIsKnown'
  BY DEF RateWaitEnds, EndIsKnown, cacheVars
<1>8. SourceContinues'
  BY SameBytes DEF RateWaitEnds, SourceContinues, KeepsSeek, EndOfCache, Pending, cacheVars
<1> QED
  BY <1>1, <1>2, <1>3, <1>4, <1>5, <1>6, <1>7, <1>8

\* The thread looks again.
LEMMA NoSpaceKeeps ==
  ASSUME FileInv, NoSpace
  PROVE  FileInv'
<1> USE FileAssumption, SizeAssumption DEF FileInv
<1>1. TypeOK'
  BY DEF NoSpace, TypeOK, CacheTypeOK, NoChunk, cacheVars, seekVars, clientVars
<1>2. Window'
  BY DEF NoSpace, Window, cacheVars
<1>3. ChunkFollows'
  BY DEF NoSpace, ChunkFollows, cacheVars
<1>4. SourceIsAhead'
  BY DEF NoSpace, SourceIsAhead, EndOfCache, Pending, cacheVars
<1>5. SeekHandshake'
  BY DEF NoSpace, SeekHandshake, seekVars, clientVars
<1>6. ReaderIsKnown'
  BY DEF NoSpace, ReaderIsKnown, Between, cacheVars, seekVars, clientVars
<1>7. EndIsKnown'
  BY DEF NoSpace, EndIsKnown, cacheVars
<1>8. SourceContinues'
  BY SameBytes DEF NoSpace, SourceContinues, EndOfCache, Pending, cacheVars
<1> QED
  BY <1>1, <1>2, <1>3, <1>4, <1>5, <1>6, <1>7, <1>8

\* The chunk begins where the cache ends.
LEMMA ReadsSourceKeeps ==
  ASSUME FileInv, ReadsSource
  PROVE  FileInv'
<1> USE FileAssumption, SizeAssumption DEF FileInv
<1>1. TypeOK'
  <2>1. PICK n \in 1 .. Least(GetMaxWriteSize(m_chunkSize), m_fileSize - source) :
          /\ chunk' = [first |-> source, iRead |-> n, iTotalWrite |-> 0]
          /\ source' = source + n
    BY DEF ReadsSource
  <2>2. n \in Nat /\ n <= m_fileSize - source
    BY <2>1 DEF GetMaxWriteSize, Least, Limit, back, front, TypeOK, CacheTypeOK
  <2> QED
    BY <2>1, <2>2 DEF ReadsSource, TypeOK, CacheTypeOK, cacheVars, seekVars, clientVars
<1>2. Window'
  BY DEF ReadsSource, Window, Least, GetMaxWriteSize, cacheVars
<1>3. ChunkFollows'
  BY DEF ReadsSource, ChunkFollows, NoChunk, Least, GetMaxWriteSize, cacheVars
<1>4. SourceIsAhead'
  BY DEF ReadsSource, SourceIsAhead, EndOfCache, Pending, ChunkFollows, TypeOK, Least,
         GetMaxWriteSize, cacheVars
<1>5. SeekHandshake'
  BY DEF ReadsSource, SeekHandshake, Least, GetMaxWriteSize, seekVars, clientVars
<1>6. ReaderIsKnown'
  BY DEF ReadsSource, ReaderIsKnown, Between, Least, GetMaxWriteSize, cacheVars,
         seekVars, clientVars
<1>7. EndIsKnown'
  BY DEF ReadsSource, EndIsKnown, Least, GetMaxWriteSize, cacheVars
<1>8. SourceContinues'
  BY SameBytes
  DEF ReadsSource, SourceContinues, EndOfCache, Pending, ChunkFollows, NoChunk, TypeOK,
      Least, GetMaxWriteSize, cacheVars
<1> QED
  BY <1>1, <1>2, <1>3, <1>4, <1>5, <1>6, <1>7, <1>8

\* There was nothing to read, yet.
LEMMA RetriesKeeps ==
  ASSUME FileInv, Retries
  PROVE  FileInv'
<1> USE FileAssumption, SizeAssumption DEF FileInv
<1>1. TypeOK'
  BY ZenonT(40) DEF Retries, KeepsSeek, TypeOK, CacheTypeOK, NoChunk, ReadsNothing, front, cacheVars,
         seekVars, clientVars
<1>2. Window'
  BY DEF Retries, KeepsSeek, Window, ReadsNothing, front, cacheVars
<1>3. ChunkFollows'
  BY DEF Retries, KeepsSeek, ChunkFollows, ReadsNothing, front, cacheVars
<1>4. SourceIsAhead'
  BY DEF Retries, KeepsSeek, SourceIsAhead, EndOfCache, Pending, ReadsNothing, front, cacheVars
<1>5. SeekHandshake'
  BY DEF Retries, KeepsSeek, SeekHandshake, ReadsNothing, front, seekVars, clientVars
<1>6. ReaderIsKnown'
  BY DEF Retries, KeepsSeek, ReaderIsKnown, Between, ReadsNothing, front, cacheVars, seekVars,
         clientVars
<1>7. EndIsKnown'
  BY DEF Retries, KeepsSeek, EndIsKnown, ReadsNothing, front, cacheVars
<1>8. SourceContinues'
  BY SameBytes
  DEF Retries, KeepsSeek, SourceContinues, EndOfCache, Pending, ReadsNothing, front, cacheVars
<1> QED
  BY <1>1, <1>2, <1>3, <1>4, <1>5, <1>6, <1>7, <1>8

\* Nothing was read: without a fault this is the end of the file.
LEMMA ReachesEndKeeps ==
  ASSUME FileInv, ReachesEnd
  PROVE  FileInv'
<1> USE FileAssumption, SizeAssumption DEF FileInv
<1>1. TypeOK'
  BY DEF ReachesEnd, TypeOK, CacheTypeOK, NoChunk, ReadsNothing, front, EndOfInput,
         seekVars, clientVars
<1>2. Window'
  BY DEF ReachesEnd, Window, ReadsNothing, front, EndOfInput
<1>3. ChunkFollows'
  BY DEF ReachesEnd, ChunkFollows, ReadsNothing, front, EndOfInput
<1>4. SourceIsAhead'
  BY DEF ReachesEnd, SourceIsAhead, EndOfCache, Pending, ReadsNothing, front, EndOfInput
<1>5. SeekHandshake'
  BY DEF ReachesEnd, SeekHandshake, ReadsNothing, front, EndOfInput, seekVars, clientVars
<1>6. ReaderIsKnown'
  BY DEF ReachesEnd, ReaderIsKnown, Between, ReadsNothing, front, EndOfInput, seekVars,
         clientVars
<1>7. EndIsKnown'
  BY DEF ReachesEnd, EndIsKnown, SourceContinues, EndOfCache, Pending, ChunkFollows,
         NoChunk, SourceIsAhead, TypeOK, ReadsNothing, front, EndOfInput
<1>8. SourceContinues'
  BY SameBytes
  DEF ReachesEnd, SourceContinues, EndOfCache, Pending, ReadsNothing, front, EndOfInput
<1> QED
  BY <1>1, <1>2, <1>3, <1>4, <1>5, <1>6, <1>7, <1>8

\* The seek stays pending for the top of the loop.
LEMMA EndIsLeftKeeps ==
  ASSUME FileInv, EndIsLeft
  PROVE  FileInv'
<1> USE FileAssumption, SizeAssumption DEF FileInv
<1>1. TypeOK'
  BY DEF EndIsLeft, KeepsSeek, TypeOK, CacheTypeOK, NoChunk, EndOfInput, clientVars
<1>2. Window'
  BY DEF EndIsLeft, KeepsSeek, Window, EndOfInput
<1>3. ChunkFollows'
  BY DEF EndIsLeft, KeepsSeek, ChunkFollows, EndOfInput
<1>4. SourceIsAhead'
  BY DEF EndIsLeft, KeepsSeek, SourceIsAhead, EndOfCache, Pending, EndOfInput
<1>5. SeekHandshake'
  BY DEF EndIsLeft, KeepsSeek, SeekHandshake, EndOfInput, clientVars
<1>6. ReaderIsKnown'
  BY DEF EndIsLeft, KeepsSeek, ReaderIsKnown, Between, EndOfInput, clientVars
<1>7. EndIsKnown'
  BY DEF EndIsLeft, KeepsSeek, EndIsKnown, EndOfInput
<1>8. SourceContinues'
  BY SameBytes DEF EndIsLeft, KeepsSeek, SourceContinues, EndOfCache, Pending, EndOfInput
<1> QED
  BY <1>1, <1>2, <1>3, <1>4, <1>5, <1>6, <1>7, <1>8

\* From now on faults has an "error".
LEMMA SourceReadFailsKeeps ==
  ASSUME FileInv, SourceReadFails
  PROVE  FileInv'
<1> USE FileAssumption, SizeAssumption DEF FileInv
<1>1. TypeOK'
  BY DEF SourceReadFails, TypeOK, CacheTypeOK, NoChunk, cacheVars, seekVars, clientVars
<1>2. Window'
  BY DEF SourceReadFails, Window, cacheVars
<1>3. ChunkFollows'
  BY DEF SourceReadFails, ChunkFollows, cacheVars
<1>4. SourceIsAhead'
  BY DEF SourceReadFails, SourceIsAhead, EndOfCache, Pending, cacheVars
<1>5. SeekHandshake'
  BY DEF SourceReadFails, SeekHandshake, seekVars, clientVars
<1>6. ReaderIsKnown'
  BY DEF SourceReadFails, ReaderIsKnown, Between
<1>7. EndIsKnown'
  BY DEF SourceReadFails, EndIsKnown, cacheVars
<1>8. SourceContinues'
  BY SameBytes DEF SourceReadFails, SourceContinues, EndOfCache, Pending, cacheVars
<1> QED
  BY <1>1, <1>2, <1>3, <1>4, <1>5, <1>6, <1>7, <1>8

\* The thread exits after an error.
LEMMA DrainedKeeps ==
  ASSUME FileInv, Drained
  PROVE  FileInv'
<1> USE FileAssumption, SizeAssumption DEF FileInv
<1>1. TypeOK'
  BY DEF Drained, TypeOK, CacheTypeOK, NoChunk, front, cacheVars, clientVars
<1>2. Window'
  BY DEF Drained, Window, front, cacheVars
<1>3. ChunkFollows'
  BY DEF Drained, ChunkFollows, front, cacheVars
<1>4. SourceIsAhead'
  BY DEF Drained, SourceIsAhead, EndOfCache, Pending, front, cacheVars
<1>5. SeekHandshake'
  BY DEF Drained, SeekHandshake, front, clientVars
<1>6. ReaderIsKnown'
  BY DEF Drained, ReaderIsKnown, Between, front, clientVars
<1>7. EndIsKnown'
  BY DEF Drained, EndIsKnown, front, cacheVars
<1>8. SourceContinues'
  BY SameBytes DEF Drained, SourceContinues, EndOfCache, Pending, front, cacheVars
<1> QED
  BY <1>1, <1>2, <1>3, <1>4, <1>5, <1>6, <1>7, <1>8

\* A part of the chunk goes where it belongs.
LEMMA WritesKeeps ==
  ASSUME FileInv, Writes
  PROVE  FileInv'
<1> USE FileAssumption, SizeAssumption DEF FileInv
<1> DEFINE first == chunk.first + chunk.iTotalWrite
           len == chunk.iRead - chunk.iTotalWrite
           n == Writable(len)
<1>00. first \in Nat /\ len \in Nat /\ CacheTypeOK /\ WriteToCache(first, len)
  BY DEF TypeOK, Writes
<1>0. /\ n \in Nat /\ n <= len /\ m_end' = m_end + n /\ m_beg' \in Nat /\ m_beg <= m_beg'
      /\ m_cur' = m_cur /\ m_bEndOfInput' = m_bEndOfInput
      /\ CacheTypeOK' /\ Window'
  BY <1>00, WriteFacts DEF WriteToCache
<1> HIDE DEF n
<1>1. TypeOK'
  BY <1>0 DEF Writes, TypeOK, CacheTypeOK, NoChunk, seekVars, clientVars
<1>2. Window'
  BY <1>0 DEF Writes, Window
<1>3. ChunkFollows'
  BY <1>0 DEF Writes, ChunkFollows, TypeOK
<1>4. SourceIsAhead'
  BY <1>0 DEF Writes, SourceIsAhead, EndOfCache, Pending, ChunkFollows, TypeOK
<1>5. SeekHandshake'
  BY <1>0 DEF Writes, SeekHandshake, seekVars, clientVars
<1>6. ReaderIsKnown'
  BY <1>0 DEF Writes, ReaderIsKnown, Between, seekVars, clientVars
<1>7. EndIsKnown'
  BY <1>0 DEF Writes, EndIsKnown
<1>8. SourceContinues'
  BY <1>0, WriteHolds
  DEF Writes, SourceContinues, EndOfCache, Pending, ChunkFollows, TypeOK
<1> QED
  BY <1>1, <1>2, <1>3, <1>4, <1>5, <1>6, <1>7, <1>8

\* The rest of the chunk may be dropped only when a seek or the stop is pending.
LEMMA WritesOnKeeps ==
  ASSUME FileInv, WritesOn
  PROVE  FileInv'
<1> USE FileAssumption, SizeAssumption DEF FileInv
<1>1. TypeOK'
  BY DEF WritesOn, KeepsSeek, TypeOK, CacheTypeOK, NoChunk, ChunkEnds, cacheVars, seekVars,
         clientVars
<1>2. Window'
  BY DEF WritesOn, KeepsSeek, Window, ChunkEnds, cacheVars
<1>3. ChunkFollows'
  BY DEF WritesOn, KeepsSeek, ChunkFollows, NoChunk, TypeOK, ChunkEnds, cacheVars
<1>4. SourceIsAhead'
  BY DEF WritesOn, KeepsSeek, SourceIsAhead, EndOfCache, Pending, ChunkFollows, NoChunk, TypeOK,
         ChunkEnds, cacheVars
<1>5. SeekHandshake'
  BY DEF WritesOn, KeepsSeek, SeekHandshake, ChunkEnds, seekVars, clientVars
<1>6. ReaderIsKnown'
  BY DEF WritesOn, KeepsSeek, ReaderIsKnown, Between, ChunkEnds, cacheVars, seekVars, clientVars
<1>7. EndIsKnown'
  BY DEF WritesOn, KeepsSeek, EndIsKnown, ChunkEnds, cacheVars
<1>8. SourceContinues'
  BY SameBytes
  DEF WritesOn, KeepsSeek, SourceContinues, EndOfCache, Pending, ChunkFollows, NoChunk, TypeOK,
      ChunkEnds, cacheVars, seekVars
<1> QED
  BY <1>1, <1>2, <1>3, <1>4, <1>5, <1>6, <1>7, <1>8

\* The rest of the chunk is dropped: the thread will not read again.
LEMMA WriteStopsKeeps ==
  ASSUME FileInv, WriteStops
  PROVE  FileInv'
<1> USE FileAssumption, SizeAssumption DEF FileInv
<1>1. TypeOK'
  BY DEF WriteStops, TypeOK, CacheTypeOK, NoChunk, ChunkEnds, cacheVars, seekVars,
         clientVars
<1>2. Window'
  BY DEF WriteStops, Window, ChunkEnds, cacheVars
<1>3. ChunkFollows'
  BY DEF WriteStops, ChunkFollows, NoChunk, TypeOK, ChunkEnds, cacheVars
<1>4. SourceIsAhead'
  BY DEF WriteStops, SourceIsAhead, EndOfCache, Pending, ChunkFollows, NoChunk, TypeOK,
         ChunkEnds, cacheVars
<1>5. SeekHandshake'
  BY DEF WriteStops, SeekHandshake, ChunkEnds, seekVars, clientVars
<1>6. ReaderIsKnown'
  BY DEF WriteStops, ReaderIsKnown, Between, ChunkEnds, cacheVars, seekVars, clientVars
<1>7. EndIsKnown'
  BY DEF WriteStops, EndIsKnown, ChunkEnds, cacheVars
<1>8. SourceContinues'
  BY SameBytes
  DEF WriteStops, SourceContinues, EndOfCache, Pending, ChunkFollows, NoChunk, TypeOK,
      ChunkEnds, cacheVars, seekVars
<1> QED
  BY <1>1, <1>2, <1>3, <1>4, <1>5, <1>6, <1>7, <1>8

\* The thread exits because of Close.
LEMMA StopsKeeps ==
  ASSUME FileInv, Stops
  PROVE  FileInv'
<1> USE FileAssumption, SizeAssumption DEF FileInv
<1>1. TypeOK'
  BY DEF Stops, TypeOK, CacheTypeOK, NoChunk, cacheVars, seekVars, clientVars
<1>2. Window'
  BY DEF Stops, Window, cacheVars
<1>3. ChunkFollows'
  BY DEF Stops, ChunkFollows, cacheVars
<1>4. SourceIsAhead'
  BY DEF Stops, SourceIsAhead, EndOfCache, Pending, cacheVars
<1>5. SeekHandshake'
  BY DEF Stops, SeekHandshake, seekVars, clientVars
<1>6. ReaderIsKnown'
  BY DEF Stops, ReaderIsKnown, SeekHandshake, Between, clientVars
<1>7. EndIsKnown'
  BY DEF Stops, EndIsKnown
<1>8. SourceContinues'
  BY SameBytes DEF Stops, SourceContinues, EndOfCache, Pending, cacheVars
<1> QED
  BY <1>1, <1>2, <1>3, <1>4, <1>5, <1>6, <1>7, <1>8

\* From now on the thread does nothing.
LEMMA OnExitKeeps ==
  ASSUME FileInv, OnExit
  PROVE  FileInv'
<1> USE FileAssumption, SizeAssumption DEF FileInv
<1>1. TypeOK'
  BY DEF OnExit, TypeOK, CacheTypeOK, NoChunk, EndOfInput, clientVars
<1>2. Window'
  BY DEF OnExit, Window, EndOfInput
<1>3. ChunkFollows'
  BY DEF OnExit, ChunkFollows, EndOfInput
<1>4. SourceIsAhead'
  BY DEF OnExit, SourceIsAhead, EndOfCache, Pending, EndOfInput
<1>5. SeekHandshake'
  BY DEF OnExit, SeekHandshake, EndOfInput, clientVars
<1>6. ReaderIsKnown'
  BY DEF OnExit, ReaderIsKnown, Between, EndOfInput, clientVars
<1>7. EndIsKnown'
  BY DEF OnExit, EndIsKnown, EndOfInput
<1>8. SourceContinues'
  BY SameBytes DEF OnExit, SourceContinues, EndOfCache, Pending, EndOfInput
<1> QED
  BY <1>1, <1>2, <1>3, <1>4, <1>5, <1>6, <1>7, <1>8

\* Both positions move by as much.
LEMMA ReadKeeps ==
  ASSUME FileInv, Read
  PROVE  FileInv'
<1> USE FileAssumption, SizeAssumption DEF FileInv
<1>0. \E n \in Nat :
        /\ n <= front /\ m_cur' = m_cur + n /\ m_readPos' = m_readPos + n
        /\ UNCHANGED <<m_beg, m_end, m_buf, m_bEndOfInput>>
  BY ReadFacts DEF Read, TypeOK
<1>1. TypeOK'
  BY <1>0 DEF Read, TypeOK, CacheTypeOK, NoChunk, seekVars, threadVars
<1>2. Window'
  BY <1>0 DEF front, Read, Window, TypeOK, CacheTypeOK
<1>3. ChunkFollows'
  BY <1>0 DEF Read, ChunkFollows, threadVars
<1>4. SourceIsAhead'
  BY <1>0
  DEF Read, SourceIsAhead, EndOfCache, Pending, seekVars, threadVars,
      CachedDataEndPosIfSeekTo, IsCachedPosition
<1>5. SeekHandshake'
  BY <1>0 DEF Read, SeekHandshake, seekVars, threadVars
<1>6. ReaderIsKnown'
  BY <1>0 DEF Read, ReaderIsKnown, Between, threadVars
<1>7. EndIsKnown'
  BY <1>0 DEF Read, EndIsKnown, threadVars
<1>8. SourceContinues'
  BY SameBytes, <1>0
  DEF Read, SourceContinues, EndOfCache, Pending, seekVars, threadVars,
      CachedDataEndPosIfSeekTo, IsCachedPosition
<1> QED
  BY <1>1, <1>2, <1>3, <1>4, <1>5, <1>6, <1>7, <1>8

\* The client is told the end.
LEMMA ReadEndsKeeps ==
  ASSUME FileInv, ReadEnds
  PROVE  FileInv'
<1> USE FileAssumption, SizeAssumption DEF FileInv
<1>1. TypeOK'
  BY DEF ReadEnds, TypeOK, CacheTypeOK, NoChunk, front, cacheVars, seekVars, threadVars
<1>2. Window'
  BY DEF ReadEnds, Window, front, cacheVars
<1>3. ChunkFollows'
  BY DEF ReadEnds, ChunkFollows, front, cacheVars, threadVars
<1>4. SourceIsAhead'
  BY DEF ReadEnds, SourceIsAhead, EndOfCache, Pending, front, cacheVars, seekVars,
         threadVars, CachedDataEndPosIfSeekTo, IsCachedPosition
<1>5. SeekHandshake'
  BY DEF ReadEnds, SeekHandshake, front, seekVars, threadVars
<1>6. ReaderIsKnown'
  BY DEF ReadEnds, ReaderIsKnown, Between, front, cacheVars, threadVars
<1>7. EndIsKnown'
  BY DEF ReadEnds, EndIsKnown, front, cacheVars, threadVars
<1>8. SourceContinues'
  BY SameBytes
  DEF ReadEnds, SourceContinues, EndOfCache, Pending, front, cacheVars, seekVars,
      threadVars, CachedDataEndPosIfSeekTo, IsCachedPosition
<1> QED
  BY <1>1, <1>2, <1>3, <1>4, <1>5, <1>6, <1>7, <1>8

\* The client is at its target.
LEMMA NearArrivesKeeps ==
  ASSUME FileInv, NearArrives
  PROVE  FileInv'
<1> USE FileAssumption, SizeAssumption DEF FileInv
<1>1. TypeOK'
  BY DEF NearArrives, TypeOK, CacheTypeOK, MoveTo, Arrives, threadVars
<1>2. Window'
  BY DEF NearArrives, Window, IsCachedPosition, MoveTo, Arrives
<1>3. ChunkFollows'
  BY DEF NearArrives, ChunkFollows, MoveTo, Arrives, threadVars
<1>4. SourceIsAhead'
  BY DEF NearArrives, SourceIsAhead, EndOfCache, Pending, IsCachedPosition, MoveTo,
         Arrives, threadVars, CachedDataEndPosIfSeekTo
<1>5. SeekHandshake'
  BY DEF NearArrives, SeekHandshake, MoveTo, Arrives, threadVars
<1>6. ReaderIsKnown'
  BY DEF NearArrives, ReaderIsKnown, Between, MoveTo, Arrives, threadVars
<1>7. EndIsKnown'
  BY DEF NearArrives, EndIsKnown, MoveTo, Arrives, threadVars
<1>8. SourceContinues'
  BY SameBytes
  DEF NearArrives, SourceContinues, EndOfCache, Pending, IsCachedPosition, MoveTo,
      Arrives, threadVars, CachedDataEndPosIfSeekTo
<1> QED
  BY <1>1, <1>2, <1>3, <1>4, <1>5, <1>6, <1>7, <1>8

\* The thread left the client at m_seekPos, which is the target or before it.
LEMMA SeekEndedKeeps ==
  ASSUME FileInv, SeekEnded
  PROVE  FileInv'
<1> USE FileAssumption, SizeAssumption DEF FileInv
<1>1. TypeOK'
  <2>1. CASE m_seekPos < iTarget
    BY <2>1 DEF SeekEnded, TypeOK, CacheTypeOK, NoChunk, Arrives, cacheVars, threadVars
  <2>2. CASE ~(m_seekPos < iTarget)
    <3>1. /\ m_readPos' = iTarget /\ result' = m_nSeekResult /\ iTarget' = 0
          /\ rpc' = "idle" /\ m_seekEvent' = FALSE
      BY <2>2 DEF SeekEnded, Arrives
    <3>2. /\ m_seekEnded' = FALSE
          /\ UNCHANGED <<cacheVars, m_seekPos, m_nSeekResult, m_writePos, m_bStop, threadVars>>
      BY DEF SeekEnded
    <3> QED
      BY <3>1, <3>2 DEF TypeOK, CacheTypeOK, cacheVars, threadVars
  <2> QED
    BY <2>1, <2>2
<1>2. Window'
  BY DEF SeekEnded, Window, Arrives, cacheVars
<1>3. ChunkFollows'
  BY DEF SeekEnded, ChunkFollows, Arrives, cacheVars, threadVars
<1>4. SourceIsAhead'
  BY DEF SeekEnded, SourceIsAhead, EndOfCache, Pending, Arrives, cacheVars, threadVars,
         CachedDataEndPosIfSeekTo, IsCachedPosition
<1>5. SeekHandshake'
  BY DEF SeekEnded, SeekHandshake, Arrives, threadVars
<1>6. ReaderIsKnown'
  BY DEF SeekEnded, ReaderIsKnown, SeekHandshake, Between, TypeOK, Arrives, cacheVars,
         threadVars
<1>7. EndIsKnown'
  BY DEF SeekEnded, EndIsKnown, Arrives, cacheVars, threadVars
<1>8. SourceContinues'
  BY SameBytes
  DEF SeekEnded, SourceContinues, SeekHandshake, EndOfCache, Pending, Arrives,
      cacheVars, threadVars
<1> QED
  BY <1>1, <1>2, <1>3, <1>4, <1>5, <1>6, <1>7, <1>8

\* The thread left the client at m_seekPos, and the target is in the cache, unless
\* the thread has failed.
LEMMA RemainingArrivesKeeps ==
  ASSUME FileInv, RemainingArrives
  PROVE  FileInv'
<1> USE FileAssumption, SizeAssumption DEF FileInv
<1>1. TypeOK'
  <2>1. CASE IsCachedPosition(iTarget) /\ MoveTo(iTarget) /\ RemainingReturns
    BY <2>1
    DEF RemainingArrives, TypeOK, CacheTypeOK, front, MoveTo, RemainingReturns, CanWait,
        threadVars, Arrives
  <2>2. CASE ~IsCachedPosition(iTarget) /\ UNCHANGED cacheVars /\ RemainingReturns
    BY <2>2
    DEF RemainingArrives, TypeOK, CacheTypeOK, front, MoveTo, RemainingReturns, CanWait,
        cacheVars, threadVars, Arrives
  <2>3. CASE /\ MoveTo(m_end) /\ CanWait(iTarget)
             /\ ~IsCachedPosition(iTarget) /\ rpc' = "late"
             /\ UNCHANGED <<seekVars, m_readPos, m_writePos, m_bStop, threadVars,
                            iTarget, result>>
    BY <2>3
    DEF RemainingArrives, TypeOK, CacheTypeOK, front, MoveTo, RemainingReturns, CanWait,
        seekVars, threadVars, Arrives
  <2> QED
    BY <2>1, <2>2, <2>3 DEF RemainingArrives
<1>2. Window'
  BY DEF RemainingArrives, Window, TypeOK, front, IsCachedPosition, MoveTo,
         RemainingReturns, CanWait, cacheVars, CacheTypeOK, Arrives
<1>3. ChunkFollows'
  BY DEF RemainingArrives, ChunkFollows, front, MoveTo, RemainingReturns, CanWait,
         cacheVars, threadVars, Arrives
<1>4. SourceIsAhead'
  BY DEF RemainingArrives, SourceIsAhead, EndOfCache, Pending, front, IsCachedPosition,
         MoveTo, RemainingReturns, CanWait, cacheVars, seekVars, threadVars,
         CachedDataEndPosIfSeekTo, Arrives
<1>5. SeekHandshake'
  BY DEF RemainingArrives, SeekHandshake, front, MoveTo, RemainingReturns, CanWait,
         seekVars, threadVars, Arrives
<1>6. ReaderIsKnown'
  <2>1. CASE IsCachedPosition(iTarget) /\ MoveTo(iTarget) /\ RemainingReturns
    BY <2>1
    DEF RemainingArrives, ReaderIsKnown, Between, front, MoveTo, RemainingReturns,
        CanWait, threadVars, Arrives
  <2>2. CASE ~IsCachedPosition(iTarget) /\ UNCHANGED cacheVars /\ RemainingReturns
    BY <2>2
    DEF Window, RemainingArrives, ReaderIsKnown, SeekHandshake, Between, TypeOK, front,
        IsCachedPosition, MoveTo, RemainingReturns, CanWait, threadVars, CacheTypeOK,
        Arrives
  <2>3. CASE /\ MoveTo(m_end) /\ CanWait(iTarget)
             /\ ~IsCachedPosition(iTarget) /\ rpc' = "late"
             /\ UNCHANGED <<seekVars, m_readPos, m_writePos, m_bStop, threadVars,
                            iTarget, result>>
    BY <2>3
    DEF Window, RemainingArrives, ReaderIsKnown, Between, TypeOK, front,
        IsCachedPosition, MoveTo, RemainingReturns, CanWait, threadVars, CacheTypeOK,
        Arrives
  <2> QED
    BY <2>1, <2>2, <2>3 DEF RemainingArrives
<1>7. EndIsKnown'
  <2>1. CASE IsCachedPosition(iTarget) /\ MoveTo(iTarget) /\ RemainingReturns
    BY <2>1
    DEF RemainingArrives, EndIsKnown, front, MoveTo, RemainingReturns, CanWait,
        threadVars, Arrives
  <2>2. CASE ~IsCachedPosition(iTarget) /\ UNCHANGED cacheVars /\ RemainingReturns
    BY <2>2
    DEF RemainingArrives, EndIsKnown, front, MoveTo, RemainingReturns, CanWait,
        cacheVars, threadVars, Arrives
  <2>3. CASE /\ MoveTo(m_end) /\ CanWait(iTarget)
             /\ ~IsCachedPosition(iTarget) /\ rpc' = "late"
             /\ UNCHANGED <<seekVars, m_readPos, m_writePos, m_bStop, threadVars,
                            iTarget, result>>
    BY <2>3
    DEF RemainingArrives, EndIsKnown, front, MoveTo, RemainingReturns, CanWait,
        threadVars, Arrives
  <2> QED
    BY <2>1, <2>2, <2>3 DEF RemainingArrives
<1>8. SourceContinues'
  BY SameBytes
  DEF RemainingArrives, SourceContinues, SeekHandshake, EndOfCache, Pending, front,
      MoveTo, RemainingReturns, CanWait, cacheVars, threadVars, Arrives
<1> QED
  BY <1>1, <1>2, <1>3, <1>4, <1>5, <1>6, <1>7, <1>8

\* Only after a failure.
LEMMA LateArrivesKeeps ==
  ASSUME FileInv, LateArrives
  PROVE  FileInv'
<1> USE FileAssumption, SizeAssumption DEF FileInv
<1>1. TypeOK'
  BY DEF LateArrives, TypeOK, CacheTypeOK, MoveTo, RemainingReturns, Arrives, threadVars
<1>2. Window'
  BY DEF LateArrives, Window, IsCachedPosition, MoveTo, RemainingReturns, Arrives
<1>3. ChunkFollows'
  BY DEF LateArrives, ChunkFollows, MoveTo, RemainingReturns, Arrives, threadVars
<1>4. SourceIsAhead'
  BY DEF LateArrives, SourceIsAhead, EndOfCache, Pending, IsCachedPosition, MoveTo,
         RemainingReturns, CachedDataEndPosIfSeekTo, Arrives, threadVars
<1>5. SeekHandshake'
  BY DEF LateArrives, SeekHandshake, MoveTo, RemainingReturns, Arrives, threadVars
<1>6. ReaderIsKnown'
  BY DEF LateArrives, ReaderIsKnown, Between, MoveTo, RemainingReturns, Arrives,
         threadVars
<1>7. EndIsKnown'
  BY DEF LateArrives, EndIsKnown, MoveTo, RemainingReturns, Arrives, threadVars
<1>8. SourceContinues'
  BY SameBytes
  DEF LateArrives, SourceContinues, SeekHandshake, EndOfCache, Pending, MoveTo,
      RemainingReturns, Arrives, threadVars
<1> QED
  BY <1>1, <1>2, <1>3, <1>4, <1>5, <1>6, <1>7, <1>8

\* The client waits.
LEMMA ReadBlocksKeeps ==
  ASSUME FileInv, ReadBlocks
  PROVE  FileInv'
<1> USE FileAssumption, SizeAssumption DEF FileInv
<1>1. TypeOK'
  BY DEF ReadBlocks, TypeOK, CacheTypeOK, NoChunk, front, cacheVars, seekVars, threadVars
<1>2. Window'
  BY DEF ReadBlocks, Window, front, cacheVars
<1>3. ChunkFollows'
  BY DEF ReadBlocks, ChunkFollows, front, cacheVars, threadVars
<1>4. SourceIsAhead'
  BY DEF ReadBlocks, SourceIsAhead, EndOfCache, Pending, front, cacheVars, seekVars,
         threadVars, CachedDataEndPosIfSeekTo, IsCachedPosition
<1>5. SeekHandshake'
  BY DEF ReadBlocks, SeekHandshake, front, seekVars, threadVars
<1>6. ReaderIsKnown'
  BY DEF ReadBlocks, ReaderIsKnown, Between, front, cacheVars, threadVars
<1>7. EndIsKnown'
  BY DEF ReadBlocks, EndIsKnown, front, cacheVars
<1>8. SourceContinues'
  BY SameBytes
  DEF ReadBlocks, SourceContinues, EndOfCache, Pending, front, cacheVars, seekVars,
      threadVars, CachedDataEndPosIfSeekTo, IsCachedPosition
<1> QED
  BY <1>1, <1>2, <1>3, <1>4, <1>5, <1>6, <1>7, <1>8

\* The client stops waiting.
LEMMA ReadExpiresKeeps ==
  ASSUME FileInv, ReadExpires
  PROVE  FileInv'
<1> USE FileAssumption, SizeAssumption DEF FileInv
<1>1. TypeOK'
  BY DEF ReadExpires, TypeOK, CacheTypeOK, NoChunk, front, cacheVars, seekVars, threadVars
<1>2. Window'
  BY DEF ReadExpires, Window, front, cacheVars
<1>3. ChunkFollows'
  BY DEF ReadExpires, ChunkFollows, front, cacheVars, threadVars
<1>4. SourceIsAhead'
  BY DEF ReadExpires, SourceIsAhead, EndOfCache, Pending, front, cacheVars, seekVars,
         threadVars, CachedDataEndPosIfSeekTo, IsCachedPosition
<1>5. SeekHandshake'
  BY DEF ReadExpires, SeekHandshake, front, seekVars, threadVars
<1>6. ReaderIsKnown'
  BY DEF ReadExpires, ReaderIsKnown, Between, front, cacheVars, threadVars
<1>7. EndIsKnown'
  BY DEF ReadExpires, EndIsKnown, front, cacheVars, threadVars
<1>8. SourceContinues'
  BY SameBytes
  DEF ReadExpires, SourceContinues, EndOfCache, Pending, front, cacheVars, seekVars,
      threadVars, CachedDataEndPosIfSeekTo, IsCachedPosition
<1> QED
  BY <1>1, <1>2, <1>3, <1>4, <1>5, <1>6, <1>7, <1>8

\* The client hands the seek to the thread.
LEMMA NearFailsKeeps ==
  ASSUME FileInv, NearFails
  PROVE  FileInv'
<1> USE FileAssumption, SizeAssumption DEF FileInv
<1>1. TypeOK'
  BY DEF NearFails, TypeOK, CacheTypeOK, AskThread, cacheVars, threadVars, Least
<1>2. Window'
  BY DEF NearFails, Window, AskThread, cacheVars, Least
<1>3. ChunkFollows'
  BY DEF NearFails, ChunkFollows, AskThread, cacheVars, threadVars, Least
<1>4. SourceIsAhead'
  BY DEF NearFails, SourceIsAhead, EndOfCache, Pending, AskThread, cacheVars,
         threadVars, Least, SeekHandshake
<1>5. SeekHandshake'
  BY DEF NearFails, SeekHandshake, TypeOK, AskThread, threadVars, Least
<1>6. ReaderIsKnown'
  BY DEF NearFails, ReaderIsKnown, SeekHandshake, Between, AskThread, threadVars, Least
<1>7. EndIsKnown'
  BY DEF NearFails, EndIsKnown, AskThread, cacheVars, threadVars, Least
<1>8. SourceContinues'
  BY SameBytes
  DEF NearFails, SourceContinues, SeekHandshake, EndOfCache, Pending, AskThread,
      cacheVars, threadVars, Least
<1> QED
  BY <1>1, <1>2, <1>3, <1>4, <1>5, <1>6, <1>7, <1>8

\* The client stays where the thread left it.
LEMMA RemainingFailsKeeps ==
  ASSUME FileInv, RemainingFails
  PROVE  FileInv'
<1> USE FileAssumption, SizeAssumption DEF FileInv
<1>1. TypeOK'
  BY DEF RemainingFails, TypeOK, CacheTypeOK, NoChunk, front, cacheVars, seekVars,
         threadVars
<1>2. Window'
  BY DEF RemainingFails, Window, front, cacheVars
<1>3. ChunkFollows'
  BY DEF RemainingFails, ChunkFollows, front, cacheVars, threadVars
<1>4. SourceIsAhead'
  BY DEF RemainingFails, SourceIsAhead, EndOfCache, Pending, front, cacheVars, seekVars,
         threadVars, CachedDataEndPosIfSeekTo, IsCachedPosition
<1>5. SeekHandshake'
  BY DEF RemainingFails, SeekHandshake, front, seekVars, threadVars
<1>6. ReaderIsKnown'
  BY DEF RemainingFails, ReaderIsKnown, Between, front, cacheVars, threadVars
<1>7. EndIsKnown'
  BY DEF RemainingFails, EndIsKnown, front, cacheVars, threadVars
<1>8. SourceContinues'
  BY SameBytes
  DEF RemainingFails, SourceContinues, EndOfCache, Pending, front, cacheVars, seekVars,
      threadVars, CachedDataEndPosIfSeekTo, IsCachedPosition
<1> QED
  BY <1>1, <1>2, <1>3, <1>4, <1>5, <1>6, <1>7, <1>8

\* Only after a failure.
LEMMA LateFailsKeeps ==
  ASSUME FileInv, LateFails
  PROVE  FileInv'
<1> USE FileAssumption, SizeAssumption DEF FileInv
<1>1. TypeOK'
  BY DEF LateFails, TypeOK, CacheTypeOK, cacheVars, RemainingReturns, Arrives, threadVars
<1>2. Window'
  BY DEF LateFails, Window, cacheVars, RemainingReturns, Arrives
<1>3. ChunkFollows'
  BY DEF LateFails, ChunkFollows, cacheVars, RemainingReturns, Arrives, threadVars
<1>4. SourceIsAhead'
  BY DEF LateFails, SourceIsAhead, EndOfCache, Pending, IsCachedPosition, cacheVars,
         RemainingReturns, CachedDataEndPosIfSeekTo, Arrives, threadVars
<1>5. SeekHandshake'
  BY DEF LateFails, SeekHandshake, RemainingReturns, Arrives, threadVars
<1>6. ReaderIsKnown'
  BY DEF LateFails, ReaderIsKnown, Between, RemainingReturns, Arrives, threadVars
<1>7. EndIsKnown'
  BY DEF LateFails, EndIsKnown, cacheVars, RemainingReturns, Arrives, threadVars
<1>8. SourceContinues'
  BY SameBytes
  DEF LateFails, SourceContinues, SeekHandshake, EndOfCache, Pending, cacheVars,
      RemainingReturns, Arrives, threadVars
<1> QED
  BY <1>1, <1>2, <1>3, <1>4, <1>5, <1>6, <1>7, <1>8

\* The stop is pending for the thread.
LEMMA CloseKeeps ==
  ASSUME FileInv, Close
  PROVE  FileInv'
<1> USE FileAssumption, SizeAssumption DEF FileInv
<1>1. TypeOK'
  BY DEF Close, TypeOK, CacheTypeOK, NoChunk, cacheVars, threadVars
<1>2. Window'
  BY DEF Close, Window, cacheVars
<1>3. ChunkFollows'
  BY DEF Close, ChunkFollows, cacheVars, threadVars
<1>4. SourceIsAhead'
  BY DEF Close, SourceIsAhead, EndOfCache, Pending, cacheVars, threadVars,
         CachedDataEndPosIfSeekTo, IsCachedPosition
<1>5. SeekHandshake'
  BY DEF Close, SeekHandshake, threadVars
<1>6. ReaderIsKnown'
  BY DEF Close, ReaderIsKnown, Between
<1>7. EndIsKnown'
  BY DEF Close, EndIsKnown
<1>8. SourceContinues'
  BY SameBytes
  DEF Close, SourceContinues, EndOfCache, Pending, cacheVars, threadVars,
      CachedDataEndPosIfSeekTo, IsCachedPosition
<1> QED
  BY <1>1, <1>2, <1>3, <1>4, <1>5, <1>6, <1>7, <1>8

\* The client moves inside the window.
LEMMA SeekInCacheKeeps ==
  ASSUME FileInv, NEW t \in Targets, SeekInCache(t)
  PROVE  FileInv'
<1> USE FileAssumption, SizeAssumption DEF FileInv
<1>1. TypeOK'
  BY DEF SeekInCache, TypeOK, CacheTypeOK, MoveTo, Arrives, threadVars
<1>2. Window'
  BY DEF SeekInCache, Window, IsCachedPosition, MoveTo, Arrives
<1>3. ChunkFollows'
  BY DEF SeekInCache, ChunkFollows, MoveTo, Arrives, threadVars
<1>4. SourceIsAhead'
  BY DEF SeekInCache, SourceIsAhead, EndOfCache, Pending, IsCachedPosition, MoveTo,
         Arrives, threadVars, CachedDataEndPosIfSeekTo
<1>5. SeekHandshake'
  BY DEF SeekInCache, SeekHandshake, MoveTo, Arrives, threadVars
<1>6. ReaderIsKnown'
  BY DEF SeekInCache, ReaderIsKnown, Between, MoveTo, Arrives, threadVars
<1>7. EndIsKnown'
  BY DEF SeekInCache, EndIsKnown, MoveTo, Arrives, threadVars
<1>8. SourceContinues'
  BY SameBytes
  DEF SeekInCache, SourceContinues, EndOfCache, Pending, IsCachedPosition, MoveTo,
      Arrives, threadVars, CachedDataEndPosIfSeekTo
<1> QED
  BY <1>1, <1>2, <1>3, <1>4, <1>5, <1>6, <1>7, <1>8

\* The client moves to the end of the window.
LEMMA SeekNearKeeps ==
  ASSUME FileInv, NEW t \in Targets, SeekNear(t)
  PROVE  FileInv'
<1> USE FileAssumption, SizeAssumption DEF FileInv
<1>1. TypeOK'
  BY DEF SeekNear, TypeOK, CacheTypeOK, CanWait, MoveTo, seekVars, threadVars
<1>2. Window'
  BY DEF SeekNear, Window, TypeOK, CanWait, MoveTo, CacheTypeOK
<1>3. ChunkFollows'
  BY DEF SeekNear, ChunkFollows, CanWait, MoveTo, threadVars
<1>4. SourceIsAhead'
  BY DEF SeekNear, SourceIsAhead, EndOfCache, Pending, CanWait, IsCachedPosition,
         MoveTo, seekVars, threadVars, CachedDataEndPosIfSeekTo
<1>5. SeekHandshake'
  BY DEF SeekNear, SeekHandshake, CanWait, MoveTo, seekVars, threadVars
<1>6. ReaderIsKnown'
  BY DEF SeekNear, ReaderIsKnown, Between, CanWait, MoveTo, threadVars
<1>7. EndIsKnown'
  BY DEF SeekNear, EndIsKnown, CanWait, MoveTo, threadVars
<1>8. SourceContinues'
  BY SameBytes
  DEF SeekNear, SourceContinues, EndOfCache, Pending, CanWait, IsCachedPosition, MoveTo,
      seekVars, threadVars, CachedDataEndPosIfSeekTo
<1> QED
  BY <1>1, <1>2, <1>3, <1>4, <1>5, <1>6, <1>7, <1>8

\* The client hands the seek to the thread.
LEMMA SeekFarKeeps ==
  ASSUME FileInv, NEW t \in Targets, SeekFar(t)
  PROVE  FileInv'
<1> USE FileAssumption, SizeAssumption DEF FileInv
<1>1. TypeOK'
  BY DEF SeekFar, TypeOK, CacheTypeOK, CanWait, AskThread, cacheVars, threadVars, Least
<1>2. Window'
  BY DEF SeekFar, Window, CanWait, AskThread, cacheVars, Least
<1>3. ChunkFollows'
  BY DEF SeekFar, ChunkFollows, CanWait, AskThread, cacheVars, threadVars, Least
<1>4. SourceIsAhead'
  BY DEF SeekFar, SourceIsAhead, EndOfCache, Pending, CanWait, AskThread, cacheVars,
         threadVars, Least, SeekHandshake
<1>5. SeekHandshake'
  BY DEF SeekFar, SeekHandshake, CanWait, AskThread, threadVars, Least
<1>6. ReaderIsKnown'
  BY DEF SeekFar, ReaderIsKnown, SeekHandshake, Between, CanWait, AskThread, threadVars,
         Least
<1>7. EndIsKnown'
  BY DEF SeekFar, EndIsKnown, CanWait, AskThread, cacheVars, threadVars, Least
<1>8. SourceContinues'
  BY SameBytes
  DEF SeekFar, SourceContinues, SeekHandshake, EndOfCache, Pending, CanWait, AskThread,
      cacheVars, threadVars, Least
<1> QED
  BY <1>1, <1>2, <1>3, <1>4, <1>5, <1>6, <1>7, <1>8

\* One case for each action.
LEMMA FileInvIsInductive == FileInv /\ [Next]_vars => FileInv'
<1> SUFFICES ASSUME FileInv, [Next]_vars PROVE FileInv'
  OBVIOUS
<1>1. CASE Thread
  BY <1>1, TopPassesKeeps, NoSeekKeeps, SourceSeeksKeeps, SourceSeekFailsKeeps,
     CacheSeeksKeeps, RateIsLowKeeps, RateWaitEndsKeeps, NoSpaceKeeps, ReadsSourceKeeps, RetriesKeeps, ReachesEndKeeps, EndIsLeftKeeps,
     SourceReadFailsKeeps, DrainedKeeps, WritesKeeps, WritesOnKeeps, WriteStopsKeeps, StopsKeeps,
     OnExitKeeps
  DEF Thread
<1>2. CASE Client
  BY <1>2, ReadKeeps, ReadEndsKeeps, NearArrivesKeeps, NearFailsKeeps, SeekEndedKeeps,
     RemainingArrivesKeeps, LateArrivesKeeps, LateFailsKeeps, RemainingFailsKeeps
  DEF Client, NearEnds, LateEnds, RemainingEnds
<1>3. CASE Read \/ ReadBlocks \/ ReadExpires \/ NearFails \/ RemainingFails \/ LateFails \/ Close
  BY <1>3, ReadKeeps, ReadBlocksKeeps, ReadExpiresKeeps, NearFailsKeeps,
     RemainingFailsKeeps, LateFailsKeeps, CloseKeeps
<1>4. ASSUME NEW t \in Targets, SeekInCache(t) \/ SeekNear(t) \/ SeekFar(t) PROVE FileInv'
  BY <1>4, SeekInCacheKeeps, SeekNearKeeps, SeekFarKeeps
<1>5. CASE UNCHANGED vars
  <2>1. UNCHANGED <<m_beg, m_end, m_cur, m_buf, m_bEndOfInput, m_seekEvent, m_seekEnded,
                    m_seekPos, m_nSeekResult, m_readPos, m_writePos, m_bStop>>
    BY <1>5 DEF vars, cacheVars, seekVars
  <2>2. UNCHANGED <<source, faults, tpc, cacheReachEOF, cacheMaxPos, chunk, rpc, iTarget, result>>
    BY <1>5 DEF vars, threadVars, clientVars
  <2>3. TypeOK' /\ Window'
    BY <2>1, <2>2 DEF FileInv, TypeOK, CacheTypeOK, Window
  <2>4. ChunkFollows' /\ SourceIsAhead'
    BY <2>1, <2>2
    DEF FileInv, ChunkFollows, SourceIsAhead, EndOfCache, Pending,
        CachedDataEndPosIfSeekTo, IsCachedPosition
  <2>5. SeekHandshake' /\ ReaderIsKnown' /\ EndIsKnown'
    BY <2>1, <2>2 DEF FileInv, SeekHandshake, ReaderIsKnown, EndIsKnown, Between
  <2>6. SourceContinues'
    BY <2>1, <2>2, SameBytes
    DEF FileInv, SourceContinues, EndOfCache, Pending, CachedDataEndPosIfSeekTo,
        IsCachedPosition
  <2> QED
    BY <2>3, <2>4, <2>5, <2>6 DEF FileInv
<1> QED
  BY <1>1, <1>2, <1>3, <1>4, <1>5 DEF Next

-----------------------------------------------------------------------------
\* Nothing is read, nothing is cached, and nobody seeks.
LEMMA FileInvInit == Init => FileInv
<1> SUFFICES ASSUME Init PROVE FileInv
  OBVIOUS
<1> USE FileAssumption, SizeAssumption
<1>0. /\ m_beg = 0 /\ m_end = 0 /\ m_cur = 0 /\ m_bEndOfInput = FALSE
      /\ m_buf \in [Cells -> Int]
  BY DEF Init, CacheInit
<1>1. TypeOK /\ Window
  <2>1. CacheTypeOK
    BY <1>0 DEF CacheTypeOK
  <2>2. /\ chunk \in [first : Nat, iRead : Nat, iTotalWrite : Nat]
        /\ chunk.iTotalWrite <= chunk.iRead
    BY DEF Init, NoChunk
  <2>3. source \in 0 .. m_fileSize /\ faults \subseteq {"zero", "error", "seek"}
    BY DEF Init
  <2> QED
    <3>1. Window
      BY <1>0 DEF Window
    <3>2. TypeOK
      <4>1. /\ m_seekEvent = FALSE /\ m_seekEnded = FALSE /\ m_seekPos = 0
            /\ m_nSeekResult = 0 /\ m_readPos = 0 /\ m_writePos = 0 /\ m_bStop = FALSE
            /\ tpc = "top" /\ cacheReachEOF = FALSE /\ cacheMaxPos = 0
            /\ rpc = "idle" /\ iTarget = 0 /\ result = 0
        BY DEF Init
      <4> QED
        BY <2>1, <2>2, <2>3, <4>1 DEF TypeOK
    <3> QED
      BY <3>1, <3>2
<1>2. ChunkFollows /\ SourceIsAhead
  BY <1>0 DEF Init, ChunkFollows, SourceIsAhead, EndOfCache, Pending, NoChunk
<1>3. SeekHandshake /\ ReaderIsKnown /\ EndIsKnown
  BY <1>0 DEF Init, SeekHandshake, ReaderIsKnown, EndIsKnown, Between
<1>4. SourceContinues
  BY <1>0 DEF Init, SourceContinues, HoldsTheFile, EndOfCache, Pending, NoChunk
<1> QED
  BY <1>1, <1>2, <1>3, <1>4 DEF FileInv

\* The inductive invariant of the file cache holds in every reachable state.
THEOREM FileInvHolds == Spec => []FileInv
BY FileInvInit, FileInvIsInductive, PTL DEF Spec

\* What the client reads at a position is the byte of the file at that position:
\* the window stays in order and in size, and each of its bytes is in its cell,
\* unless a seek of the source has failed.
THEOREM CacheHoldsTheFileHolds == Spec => []CacheHoldsTheFile
<1>1. FileInv => CacheHoldsTheFile
  BY DEF FileInv, CacheHoldsTheFile, SourceContinues
<1> QED
  BY <1>1, FileInvHolds, PTL

\* CFileCache::Process reads the source where the cache ends, although it drops
\* a part of a chunk when a seek comes.
THEOREM SourceContinuesTheCacheHolds == Spec => []SourceContinuesTheCache
<1>1. FileInv => SourceContinuesTheCache
  BY DEF FileInv, SourceContinuesTheCache, SourceContinues, ChunkFollows, EndOfCache,
         Pending, NoChunk, TypeOK, CacheTypeOK
<1> QED
  BY <1>1, FileInvHolds, PTL

\* GetPosition is the position of the next byte Read gives, and the end of the
\* input is seen only at the end of the file.
THEOREM ClientSeesTheFileHolds == Spec => []ClientSeesTheFile
<1>1. FileInv => ClientSeesTheFile
  BY DEF FileInv, ClientSeesTheFile, ReaderIsKnown, EndIsKnown
<1> QED
  BY <1>1, FileInvHolds, PTL

\* No step but a write drops data behind a reader who does not move, and a write
\* leaves m_size_back of it (CCircularCache::WriteToCache).
THEOREM BackBufferIsKeptHolds == Spec => BackBufferIsKept
<1> DEFINE Kept == m_end' > m_end /\ m_beg' > m_beg /\ m_cur' = m_cur
                     => m_cur - m_beg' >= m_size_back
<1>1. FileInv /\ [Next]_vars => Kept
  <2> SUFFICES ASSUME FileInv, [Next]_vars, m_end' > m_end, m_beg' > m_beg, m_cur' = m_cur
               PROVE  m_cur - m_beg' >= m_size_back
    OBVIOUS
  <2> USE DEF FileInv
  <2>1. m_beg \in Nat /\ m_end \in Nat /\ m_cur \in Nat /\ m_seekPos \in Nat
    BY DEF TypeOK, CacheTypeOK
  <2>2. CASE Writes
    <3>1. chunk.first + chunk.iTotalWrite \in Nat /\ chunk.iRead - chunk.iTotalWrite \in Nat
      BY DEF TypeOK
    <3>2. CacheTypeOK
      BY DEF TypeOK
    <3>3. WriteToCache(chunk.first + chunk.iTotalWrite, chunk.iRead - chunk.iTotalWrite)
      BY <2>2 DEF Writes
    <3> QED
      BY <3>1, <3>2, <3>3, WriteFacts
  <2>3. CASE CacheSeeks
    BY <2>1, <2>3 DEF CacheSeeks, Reset, MoveTo, IsCachedPosition, Window
  <2>4. Writes \/ CacheSeeks \/ m_end' = m_end
    <3>1. CASE Thread
      BY <3>1
      DEF Thread, TopPasses, NoSeek, SourceSeeks, SourceSeekFails, RateIsLow,
          RateWaitEnds, NoSpace, ReadsSource,
          Retries, ReachesEnd, EndIsLeft, SourceReadFails, Drained, WritesOn,
          WriteStops, ChunkEnds, Stops, OnExit, EndOfInput, cacheVars
    <3>2. CASE Client
      BY <3>2
      DEF Client, Read, ReadFromCache, ReadEnds, NearArrives, NearEnds, NearFails,
          SeekEnded, RemainingArrives, LateArrives, LateEnds, LateFails, RemainingEnds,
          RemainingFails, MoveTo, cacheVars
    <3>3. CASE Next /\ ~Thread /\ ~Client
      BY <3>3
      DEF Next, Read, ReadFromCache, ReadBlocks, ReadExpires, SeekInCache, SeekNear,
          SeekFar, NearFails, LateFails, RemainingFails, Close, MoveTo, cacheVars
    <3> QED
      BY <3>1, <3>2, <3>3 DEF vars, cacheVars
  <2> QED
    BY <2>1, <2>2, <2>3, <2>4
<1>2. FileInv /\ [Next]_vars => [Kept]_vars
  BY <1>1
<1> QED
  BY <1>2, FileInvHolds, PTL DEF Spec, BackBufferIsKept

=============================================================================
