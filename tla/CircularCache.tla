---------------------------- MODULE CircularCache ----------------------------
(***************************************************************************)
(* CCircularCache (xbmc/filesystem/CircularCache.cpp): a ring buffer that  *)
(* holds the bytes m_beg .. m_end - 1 of a file; the reader is at m_cur.   *)
(* Positions are file positions, a byte is known by its position, and byte *)
(* i belongs into cell i % m_size.  Every member function is a critical    *)
(* section of m_sync; the operators below are its outcomes.                *)
(*                                                                         *)
(* Definitions marked "Mistake" are not part of the model: each is a       *)
(* plausible error in the definition after it.                             *)
(***************************************************************************)
EXTENDS Integers

CONSTANTS m_size, m_size_back

ASSUME SizeAssumption ==
  m_size \in Nat /\ m_size_back \in Nat /\ m_size_back < m_size

VARIABLES
  m_beg, m_end, m_cur,
  m_buf,            \* cell -> the position of the byte in it, -1 at first
  m_bEndOfInput

cacheVars == <<m_beg, m_end, m_cur, m_buf, m_bEndOfInput>>

Cells == 0 .. m_size - 1

CacheTypeOK ==
  /\ m_beg \in Nat /\ m_end \in Nat /\ m_cur \in Nat
  /\ m_buf \in [Cells -> Int]
  /\ m_bEndOfInput \in BOOLEAN

\* Open.
CacheInit ==
  /\ m_beg = 0 /\ m_end = 0 /\ m_cur = 0
  /\ m_buf = [c \in Cells |-> -1]
  /\ m_bEndOfInput = FALSE

-----------------------------------------------------------------------------
Least(a, b) == IF a <= b THEN a ELSE b

back == m_cur - m_beg
front == m_end - m_cur

\* Mistake: the back buffer may be overwritten.
LimitAll == m_size - front

\* What may be written: the back buffer is kept up to m_size_back.
Limit == m_size - Least(back, m_size_back) - front

GetMaxWriteSize(request) == Least(request, Limit)

\* Mistake: the write runs over the end of the buffer.
WritableUnwrapped(len) == Least(len, Limit)

\* How much of len WriteToCache takes: up to the limit, and up to the wrap.
Writable(len) == Least(len, Least(Limit, m_size - (m_end % m_size)))

\* Drop history that was overwritten.
BegAfter(end) == IF end - m_beg > m_size THEN end - m_size ELSE m_beg

\* WriteToCache of the bytes first .. first + len - 1.
WriteToCache(first, len) ==
  LET n == Writable(len)
      pos == m_end % m_size
  IN
  /\ m_buf' = [c \in Cells |-> IF c \in pos .. pos + n - 1 THEN first + c - pos ELSE m_buf[c]]
  /\ m_end' = m_end + n
  /\ m_beg' = BegAfter(m_end + n)
  /\ UNCHANGED <<m_cur, m_bEndOfInput>>

\* What ReadFromCache can give, up to the wrap.
Readable == Least(m_size - (m_cur % m_size), front)

ReadFromCache(n) ==
  /\ n \in 1 .. Readable
  /\ m_cur' = m_cur + n
  /\ UNCHANGED <<m_beg, m_end, m_buf, m_bEndOfInput>>

\* WaitForData(minimum) has nothing to wait for.
DataArrived(minimum) == m_bEndOfInput \/ front >= Least(minimum, m_size - m_size_back)

IsCachedPosition(pos) == m_beg <= pos /\ pos <= m_end

MoveTo(pos) == m_cur' = pos /\ UNCHANGED <<m_beg, m_end, m_buf, m_bEndOfInput>>

Reset(pos) ==
  \/ IsCachedPosition(pos) /\ MoveTo(pos)
  \/ /\ ~IsCachedPosition(pos)
     /\ m_beg' = pos /\ m_end' = pos /\ m_cur' = pos
     /\ UNCHANGED <<m_buf, m_bEndOfInput>>

CachedDataEndPosIfSeekTo(pos) == IF IsCachedPosition(pos) THEN m_end ELSE pos

EndOfInput(b) == m_bEndOfInput' = b /\ UNCHANGED <<m_beg, m_end, m_cur, m_buf>>

-----------------------------------------------------------------------------
(***************************************************************************)
(* "The following always apply" (CircularCache.cpp): the reader is inside  *)
(* the window, and the window is not larger than the buffer, so none of    *)
(* the size_t differences wraps around.                                    *)
(***************************************************************************)
Window ==
  /\ m_beg <= m_cur /\ m_cur <= m_end
  /\ m_end - m_beg <= m_size

\* Every byte of the window is in its cell: what is read at a position is the
\* byte of the file at that position.
HoldsTheFile == \A i \in m_beg .. m_end - 1 : m_buf[i % m_size] = i

=============================================================================
