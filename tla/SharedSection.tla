---------------------------- MODULE SharedSection ----------------------------
(***************************************************************************)
(* CSharedSection (xbmc/threads/SharedSection.h): a lock that many readers *)
(* or one thread exclusively may hold, made of a recursive mutex, sec, and *)
(* a count of readers.  Readers hold sec only while they count themselves; *)
(* the exclusive owner keeps it.                                           *)
(*                                                                         *)
(* A thread may take the lock again in the mode it holds, and shared while *)
(* it is the exclusive owner.  It does not ask for the exclusive lock      *)
(* while it holds the shared one: it would wait for itself.                *)
(***************************************************************************)
EXTENDS Integers, FiniteSets

CONSTANTS Threads,    \* the threads that use the section
          NoThread,   \* nobody owns sec
          MaxNesting  \* bound: how often a thread takes the lock

ASSUME ThreadsAssumption == IsFiniteSet(Threads) /\ NoThread \notin Threads
ASSUME NestingAssumption == MaxNesting \in Nat

VARIABLES
  sharedCount,  \* the readers, as the section counts them
  owner,        \* the thread that owns sec between calls
  depth,        \* how often it has locked it
  readers,      \* the shared locks held: the thread and the level of nesting
  waiting,      \* the threads in cond.wait of lock()
  woken         \* those notified, about to take sec again

sectionVars == <<sharedCount, owner, depth, readers, waiting, woken>>

SectionTypeOK ==
  /\ sharedCount \in Nat
  /\ owner \in Threads \cup {NoThread}
  /\ depth \in 0 .. MaxNesting
  /\ readers \subseteq Threads \X (1 .. MaxNesting)
  /\ waiting \subseteq Threads
  /\ woken \subseteq Threads

SectionInit ==
  /\ sharedCount = 0
  /\ owner = NoThread
  /\ depth = 0
  /\ readers = {}
  /\ waiting = {}
  /\ woken = {}

-----------------------------------------------------------------------------
\* Thread t is not inside lock() and can take sec.
Enters(t) == owner \in {t, NoThread} /\ t \notin waiting \cup woken

HoldsShared(t) == \E k \in 1 .. MaxNesting : <<t, k>> \in readers

\* sec stays locked by t once more.
Own(t) ==
  /\ owner' = t
  /\ depth' = depth + 1

\* lock(), up to its return or its cond.wait; try_lock() when it succeeds.
Lock(t) ==
  /\ Enters(t)
  /\ ~HoldsShared(t)
  /\ depth < MaxNesting
  /\ IF sharedCount = 0
     THEN Own(t) /\ UNCHANGED waiting
     ELSE waiting' = waiting \cup {t} /\ UNCHANGED <<owner, depth>>
  /\ UNCHANGED <<sharedCount, readers, woken>>

\* lock() after cond.wait: it may have to wait again.
LockAgain(t) ==
  /\ t \in woken
  /\ owner = NoThread
  /\ woken' = woken \ {t}
  /\ IF sharedCount = 0
     THEN Own(t) /\ UNCHANGED waiting
     ELSE waiting' = waiting \cup {t} /\ UNCHANGED <<owner, depth>>
  /\ UNCHANGED <<sharedCount, readers>>

Unlock(t) ==
  /\ owner = t
  /\ depth' = depth - 1
  /\ owner' = IF depth' = 0 THEN NoThread ELSE t
  /\ UNCHANGED <<sharedCount, readers, waiting, woken>>

\* lock_shared() and try_lock_shared().
LockShared(t, k) ==
  /\ Enters(t)
  /\ <<t, k>> \notin readers
  /\ sharedCount' = sharedCount + 1
  /\ readers' = readers \cup {<<t, k>>}
  /\ UNCHANGED <<owner, depth, waiting, woken>>

\* Mistake: the last reader of all but one notifies.
UnlockSharedEarly(t, k) ==
  /\ Enters(t)
  /\ <<t, k>> \in readers
  /\ sharedCount' = sharedCount - 1
  /\ readers' = readers \ {<<t, k>>}
  /\ IF sharedCount' = 1
     THEN woken' = woken \cup waiting /\ waiting' = {}
     ELSE UNCHANGED <<waiting, woken>>
  /\ UNCHANGED <<owner, depth>>

UnlockShared(t, k) ==
  /\ Enters(t)
  /\ <<t, k>> \in readers
  /\ sharedCount' = sharedCount - 1
  /\ readers' = readers \ {<<t, k>>}
  /\ IF sharedCount' = 0
     THEN woken' = woken \cup waiting /\ waiting' = {}
     ELSE UNCHANGED <<waiting, woken>>
  /\ UNCHANGED <<owner, depth>>

SectionNext ==
  \E t \in Threads :
    \/ Lock(t) \/ LockAgain(t) \/ Unlock(t)
    \/ \E k \in 1 .. MaxNesting : LockShared(t, k) \/ UnlockShared(t, k)

SectionSpec == SectionInit /\ [][SectionNext]_sectionVars

-----------------------------------------------------------------------------
\* While a thread owns the section, nobody else holds it.
Excludes ==
  \A t, u \in Threads : owner = t /\ HoldsShared(u) => u = t

\* A thread sleeps in lock() only while somebody holds the shared lock.
NoSleepOnFree == waiting # {} => \E t \in Threads : HoldsShared(t)

(***************************************************************************)
(* The section is a reader/writer lock, although only the exclusive owner  *)
(* keeps the mutex: owner and readers exclude each other, in spite of      *)
(* readers that come between the notification of a writer and its second   *)
(* look; and a writer is never left asleep on a section nobody holds.      *)
(***************************************************************************)
ReadersOrOwner == SectionTypeOK /\ Excludes /\ NoSleepOnFree

=============================================================================
