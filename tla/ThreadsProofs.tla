---------------------------- MODULE ThreadsProofs ----------------------------
(***************************************************************************)
(* Theorems about SharedSection and EventGroup, for every set of threads   *)
(* and events.                                                             *)
(*                                                                         *)
(* CSharedSection is a reader/writer lock.  ReadersOrOwner is not          *)
(* inductive: that a writer may enter depends on sharedCount being the     *)
(* number of shared locks held, and that it is notified on the owner's     *)
(* locks being counted as well.                                            *)
(*                                                                         *)
(* CEventGroup loses no Set.  NoSleepOnSignaled speaks of the threads      *)
(* asleep; the invariant must also follow those still polling the events   *)
(* and those about to look at the group's pointer, and the two counters    *)
(* that tell Set whether there is anybody to tell.                         *)
(***************************************************************************)
EXTENDS SharedSection, EventGroup, FiniteSetTheorems, TLAPS

\* sharedCount is the number of shared locks held.
CountsReaders == IsFiniteSet(readers) /\ sharedCount = Cardinality(readers)

\* sec is owned exactly while it is locked.
CountsLocks == owner = NoThread <=> depth = 0

\* A writer sleeps only while there are readers, and only where locking is
\* allowed at all.
WritersWait ==
  /\ waiting # {} => readers # {}
  /\ waiting \cup woken # {} => MaxNesting > 0

SectionInv == SectionTypeOK /\ CountsReaders /\ CountsLocks /\ WritersWait /\ Excludes

-----------------------------------------------------------------------------
\* With sharedCount 0 nobody holds the section shared, and otherwise somebody.
LEMMA ReadersAreHolders ==
  ASSUME SectionTypeOK, CountsReaders
  PROVE  /\ sharedCount = 0 <=> readers = {}
         /\ readers # {} <=> \E t \in Threads : HoldsShared(t)
<1>1. sharedCount = 0 <=> readers = {}
  BY FS_EmptySet DEF CountsReaders
<1>2. readers # {} => \E t \in Threads : HoldsShared(t)
  <2>1. SUFFICES ASSUME NEW r \in readers
                 PROVE  \E t \in Threads : HoldsShared(t)
    OBVIOUS
  <2>2. PICK t \in Threads, k \in 1 .. MaxNesting : r = <<t, k>>
    BY DEF SectionTypeOK
  <2> QED BY <2>2 DEF HoldsShared
<1>3. (\E t \in Threads : HoldsShared(t)) => readers # {}
  BY DEF HoldsShared
<1> QED BY <1>1, <1>2, <1>3

\* Nobody has the section or waits for it.
LEMMA InitHolds == SectionInit => SectionInv
<1> SUFFICES ASSUME SectionInit PROVE SectionInv
  OBVIOUS
<1>1. SectionTypeOK
  BY NestingAssumption DEF SectionInit, SectionTypeOK
<1>2. CountsReaders
  BY FS_EmptySet DEF SectionInit, CountsReaders
<1>3. CountsLocks /\ WritersWait /\ Excludes
  BY DEF SectionInit, CountsLocks, WritersWait, Excludes, HoldsShared
<1> QED BY <1>1, <1>2, <1>3 DEF SectionInv

\* The exclusive lock is taken only when nobody holds the shared one.
LEMMA LockKeeps ==
  ASSUME SectionInv, NEW t \in Threads, Lock(t)
  PROVE  SectionInv'
<1> USE DEF SectionInv
<1>1. UNCHANGED <<sharedCount, readers, woken>> /\ depth < MaxNesting
  BY DEF Lock
<1>2. t # NoThread
  BY ThreadsAssumption
<1>3. CASE sharedCount = 0
  <2>1. owner' = t /\ depth' = depth + 1 /\ waiting' = waiting
    BY <1>3 DEF Lock, Own
  <2>2. readers = {}
    BY <1>3, ReadersAreHolders
  <2>3. SectionTypeOK'
    BY <1>1, <2>1, NestingAssumption DEF SectionTypeOK
  <2>4. CountsReaders' /\ WritersWait'
    BY <1>1, <2>1 DEF CountsReaders, WritersWait
  <2>5. CountsLocks'
    BY <1>2, <2>1 DEF CountsLocks, SectionTypeOK
  <2>6. Excludes'
    BY <1>1, <2>2 DEF Excludes, HoldsShared
  <2> QED BY <2>3, <2>4, <2>5, <2>6
<1>4. CASE sharedCount # 0
  <2>1. owner' = owner /\ depth' = depth /\ waiting' = waiting \cup {t}
    BY <1>4 DEF Lock
  <2>2. readers # {}
    BY <1>4, ReadersAreHolders
  <2>3. SectionTypeOK'
    BY <1>1, <2>1 DEF SectionTypeOK
  <2>4. MaxNesting > 0
    BY <1>1, NestingAssumption DEF SectionTypeOK
  <2>5. CountsReaders' /\ CountsLocks' /\ WritersWait' /\ Excludes'
    BY <1>1, <2>1, <2>2, <2>4
       DEF CountsReaders, CountsLocks, WritersWait, Excludes, HoldsShared
  <2> QED BY <2>3, <2>5
<1> QED BY <1>3, <1>4

\* So it is after the wait, by a second look.
LEMMA LockAgainKeeps ==
  ASSUME SectionInv, NEW t \in Threads, LockAgain(t)
  PROVE  SectionInv'
<1> USE DEF SectionInv
<1>1. /\ UNCHANGED <<sharedCount, readers>>
      /\ owner = NoThread /\ t \in woken /\ woken' = woken \ {t}
  BY DEF LockAgain
<1>2. t # NoThread
  BY ThreadsAssumption
<1>3. depth = 0 /\ MaxNesting > 0
  BY <1>1 DEF CountsLocks, WritersWait
<1>4. CASE sharedCount = 0
  <2>1. owner' = t /\ depth' = depth + 1 /\ waiting' = waiting
    BY <1>4 DEF LockAgain, Own
  <2>2. readers = {}
    BY <1>4, ReadersAreHolders
  <2>3. SectionTypeOK'
    BY <1>1, <1>3, <2>1, NestingAssumption DEF SectionTypeOK
  <2>4. CountsReaders' /\ WritersWait'
    BY <1>1, <1>3, <2>1 DEF CountsReaders, WritersWait
  <2>5. CountsLocks'
    BY <1>2, <1>3, <2>1 DEF CountsLocks
  <2>6. Excludes'
    BY <1>1, <2>2 DEF Excludes, HoldsShared
  <2> QED BY <2>3, <2>4, <2>5, <2>6
<1>5. CASE sharedCount # 0
  <2>1. owner' = owner /\ depth' = depth /\ waiting' = waiting \cup {t}
    BY <1>5 DEF LockAgain
  <2>2. readers # {}
    BY <1>5, ReadersAreHolders
  <2>3. SectionTypeOK'
    BY <1>1, <2>1 DEF SectionTypeOK
  <2>4. CountsReaders' /\ CountsLocks' /\ WritersWait' /\ Excludes'
    BY <1>1, <1>3, <2>1, <2>2
       DEF CountsReaders, CountsLocks, WritersWait, Excludes, HoldsShared
  <2> QED BY <2>3, <2>4
<1> QED BY <1>4, <1>5

\* The owner gives one of its locks back; with the last one the section is free.
LEMMA UnlockKeeps ==
  ASSUME SectionInv, NEW t \in Threads, Unlock(t)
  PROVE  SectionInv'
<1> USE DEF SectionInv
<1>1. /\ UNCHANGED <<sharedCount, readers, waiting, woken>>
      /\ owner = t /\ depth' = depth - 1
      /\ owner' = IF depth' = 0 THEN NoThread ELSE t
  BY DEF Unlock
<1>2. t # NoThread
  BY ThreadsAssumption
<1>3. depth # 0
  BY <1>1, <1>2 DEF CountsLocks
<1>4. SectionTypeOK'
  BY <1>1, <1>3, NestingAssumption DEF SectionTypeOK
<1>5. CountsReaders' /\ WritersWait'
  BY <1>1 DEF CountsReaders, WritersWait
<1>6. CountsLocks'
  BY <1>1, <1>2 DEF CountsLocks
<1>7. Excludes'
  BY <1>1, ThreadsAssumption DEF Excludes, HoldsShared
<1> QED BY <1>4, <1>5, <1>6, <1>7

\* A reader comes in only while nobody else owns the section.
LEMMA LockSharedKeeps ==
  ASSUME SectionInv, NEW t \in Threads, NEW k \in 1 .. MaxNesting, LockShared(t, k)
  PROVE  SectionInv'
<1> USE DEF SectionInv
<1>1. /\ owner \in {t, NoThread} /\ <<t, k>> \notin readers
      /\ sharedCount' = sharedCount + 1 /\ readers' = readers \cup {<<t, k>>}
      /\ UNCHANGED <<owner, depth, waiting, woken>>
  BY DEF LockShared, Enters
<1>2. SectionTypeOK'
  BY <1>1 DEF SectionTypeOK
<1>3. CountsReaders'
  BY <1>1, FS_AddElement DEF CountsReaders
<1>4. CountsLocks' /\ WritersWait'
  BY <1>1 DEF CountsLocks, WritersWait
<1>5. ASSUME NEW o \in Threads, NEW u \in Threads, owner' = o, HoldsShared(u)'
      PROVE  u = o
  <2>1. o = t
    BY <1>1, <1>5, ThreadsAssumption
  <2>2. u = t \/ HoldsShared(u)
    BY <1>1, <1>5 DEF HoldsShared
  <2> QED BY <1>1, <1>5, <2>1, <2>2 DEF Excludes
<1>6. Excludes'
  BY <1>5 DEF Excludes
<1> QED BY <1>2, <1>3, <1>4, <1>6

\* The last reader wakes whoever waits.
LEMMA UnlockSharedKeeps ==
  ASSUME SectionInv, NEW t \in Threads, NEW k \in 1 .. MaxNesting, UnlockShared(t, k)
  PROVE  SectionInv'
<1> USE DEF SectionInv
<1>1. /\ <<t, k>> \in readers
      /\ sharedCount' = sharedCount - 1 /\ readers' = readers \ {<<t, k>>}
      /\ UNCHANGED <<owner, depth>>
  BY DEF UnlockShared
<1>2. \/ sharedCount' = 0 /\ woken' = woken \cup waiting /\ waiting' = {}
      \/ sharedCount' # 0 /\ UNCHANGED <<waiting, woken>>
  BY DEF UnlockShared
<1>3. CountsReaders'
  BY <1>1, FS_RemoveElement DEF CountsReaders
<1>4. sharedCount' \in Nat
  BY <1>3, FS_CardinalityType DEF CountsReaders
<1>5. SectionTypeOK'
  BY <1>1, <1>2, <1>4 DEF SectionTypeOK
<1>6. CountsLocks'
  BY <1>1 DEF CountsLocks
<1>7. WritersWait'
  <2>1. sharedCount' # 0 => readers' # {}
    BY <1>3, FS_EmptySet DEF CountsReaders
  <2> QED BY <1>2, <2>1 DEF WritersWait
<1>8. Excludes'
  BY <1>1 DEF Excludes, HoldsShared
<1> QED BY <1>3, <1>5, <1>6, <1>7, <1>8

\* Every step of a thread keeps the invariant.
LEMMA SectionInvIsInductive == SectionInv /\ [SectionNext]_sectionVars => SectionInv'
<1> SUFFICES ASSUME SectionInv, [SectionNext]_sectionVars PROVE SectionInv'
  OBVIOUS
<1>1. ASSUME NEW t \in Threads, Lock(t) PROVE SectionInv'
  BY <1>1, LockKeeps
<1>2. ASSUME NEW t \in Threads, LockAgain(t) PROVE SectionInv'
  BY <1>2, LockAgainKeeps
<1>3. ASSUME NEW t \in Threads, Unlock(t) PROVE SectionInv'
  BY <1>3, UnlockKeeps
<1>4. ASSUME NEW t \in Threads, NEW k \in 1 .. MaxNesting, LockShared(t, k)
      PROVE  SectionInv'
  BY <1>4, LockSharedKeeps
<1>5. ASSUME NEW t \in Threads, NEW k \in 1 .. MaxNesting, UnlockShared(t, k)
      PROVE  SectionInv'
  BY <1>5, UnlockSharedKeeps
<1>6. CASE UNCHANGED sectionVars
  BY <1>6 DEF sectionVars, SectionInv, SectionTypeOK, CountsReaders, CountsLocks,
              WritersWait, Excludes, HoldsShared
<1> QED BY <1>1, <1>2, <1>3, <1>4, <1>5, <1>6 DEF SectionNext

-----------------------------------------------------------------------------
(***************************************************************************)
(* The count of CSharedSection is the number of shared locks held          *)
(* (lock_shared and unlock_shared), the fact its exclusion rests on.       *)
(***************************************************************************)
THEOREM SectionInvHolds == SectionSpec => []SectionInv
<1> QED BY InitHolds, SectionInvIsInductive, PTL DEF SectionSpec

(***************************************************************************)
(* CSharedSection excludes readers and owner from each other and leaves no *)
(* writer asleep on a free section.                                        *)
(***************************************************************************)
THEOREM ReadersOrOwnerHolds == SectionSpec => []ReadersOrOwner
<1>1. SectionInv => ReadersOrOwner
  <2> SUFFICES ASSUME SectionInv PROVE ReadersOrOwner
    OBVIOUS
  <2>1. NoSleepOnFree
    BY ReadersAreHolders DEF SectionInv, WritersWait, NoSleepOnFree
  <2> QED BY <2>1 DEF SectionInv, ReadersOrOwner
<1> QED BY <1>1, SectionInvHolds, PTL

-----------------------------------------------------------------------------
(***************************************************************************)
(* CEventGroup.  The two counts are what they should be, and whoever is    *)
(* past an event in its poll, asleep or about to look at the group's       *)
(* pointer has not missed that event: its Set has still to tell the group, *)
(* or the pointer is set, or another poll will find the event and set it.  *)
(***************************************************************************)
Inside == {w \in GroupWaiters : groupWaiter[w].at # "out"}
WaitsOn(e) == {w \in EventWaiters : eventWaiter[w] = e}

CountsWaiters ==
  /\ groupWaits = Cardinality(Inside)
  /\ \A e \in Events : numWaits[e] = Cardinality(WaitsOn(e))

Pending(e) == \E t \in Setters : setter[t] = e

\* The poll of w has yet to look at event e.
WillSee(w, e) ==
  /\ groupWaiter[w].at = "poll"
  /\ \E i \in DOMAIN events : i >= groupWaiter[w].next /\ events[i] = e

NotMissed ==
  \A w \in GroupWaiters, e \in Events : signaled[e] /\ ~Pending(e) =>
    /\ groupWaiter[w].at # "asleep"
    /\ groupWaiter[w].at = "poll" =>
         \A i \in DOMAIN events : i < groupWaiter[w].next => events[i] # e
    /\ groupWaiter[w].at = "woken" =>
         groupSignaled # NoEvent \/ \E v \in GroupWaiters : WillSee(v, e)

EventInv == EventTypeOK /\ CountsWaiters /\ NotMissed

\* One waiter more or fewer, counted.
LEMMA OneMore ==
  ASSUME NEW S, IsFiniteSet(S), NEW T \in SUBSET S, NEW x \in S, x \notin T
  PROVE  /\ Cardinality(T \cup {x}) = Cardinality(T) + 1
         /\ Cardinality(T) \in Nat
         /\ Cardinality(T \cup {x}) \in 0 .. Cardinality(S)
<1>1. IsFiniteSet(T) /\ Cardinality(T) \in Nat
  BY FS_Subset, FS_CardinalityType
<1>2. Cardinality(T \cup {x}) = Cardinality(T) + 1
  BY <1>1, FS_AddElement
<1>3. T \cup {x} \in SUBSET S
  OBVIOUS
<1>4. Cardinality(T \cup {x}) <= Cardinality(S) /\ Cardinality(S) \in Nat
  BY <1>3, FS_Subset, FS_CardinalityType
<1> QED
  BY <1>1, <1>2, <1>4

\* A finite set without one of its elements.
LEMMA OneFewer ==
  ASSUME NEW S, IsFiniteSet(S), NEW T \in SUBSET S, NEW x \in T
  PROVE  /\ Cardinality(T \ {x}) = Cardinality(T) - 1
         /\ Cardinality(T) \in Nat
         /\ Cardinality(T \ {x}) \in 0 .. Cardinality(S)
         /\ Cardinality(T \ {x}) = 0 => T \ {x} = {}
<1>1. IsFiniteSet(T) /\ Cardinality(T) \in Nat /\ Cardinality(T) <= Cardinality(S)
  BY FS_Subset, FS_CardinalityType
<1>2. Cardinality(T \ {x}) = Cardinality(T) - 1
  BY <1>1, FS_RemoveElement
<1>3. IsFiniteSet(T \ {x}) /\ Cardinality(T \ {x}) \in Nat
  BY <1>1, FS_RemoveElement, FS_CardinalityType
<1>4. Cardinality(T \ {x}) = 0 => T \ {x} = {}
  BY <1>3, FS_EmptySet
<1>5. Cardinality(S) \in Nat
  BY FS_CardinalityType
<1> QED
  BY <1>1, <1>2, <1>3, <1>4, <1>5

\* Nobody waits before the first call.
LEMMA EventInitInv == EventInit => EventInv
<1> SUFFICES ASSUME EventInit PROVE EventInv
  OBVIOUS
<1>1. 1 \in DOMAIN events
  BY EventsAssumption
<1>2. Cardinality(GroupWaiters) \in Nat /\ Cardinality(EventWaiters) \in Nat
  BY WaitersAssumption, FS_CardinalityType
<1>3. EventTypeOK
  BY <1>1, <1>2 DEF EventInit, EventTypeOK
<1>4. Inside = {} /\ \A e \in Events : WaitsOn(e) = {}
  BY EventsAssumption DEF EventInit, Inside, WaitsOn
<1>5. CountsWaiters
  BY <1>4, FS_EmptySet DEF EventInit, CountsWaiters
<1>6. NotMissed
  BY DEF EventInit, NotMissed
<1> QED
  BY <1>3, <1>5, <1>6 DEF EventInv

\* A step that leaves the waiters where they are keeps the counts.
LEMMA SameCounts ==
  ASSUME CountsWaiters, UNCHANGED <<groupWaits, numWaits, eventWaiter>>, Inside' = Inside
  PROVE  CountsWaiters'
BY DEF CountsWaiters, WaitsOn

\* Fewer signaled events miss nobody.
LEMMA FewerSignaled ==
  ASSUME NotMissed, UNCHANGED <<groupSignaled, groupWaiter, setter>>,
         \A e \in Events : signaled'[e] => signaled[e]
  PROVE  NotMissed'
BY DEF NotMissed, Pending, WillSee

\* prepReturn clears the flag of an auto-reset event, or changes nothing.
LEMMA PrepReturnResets ==
  ASSUME EventTypeOK, NEW f \in Events, NEW n, PrepReturn(f, n)
  PROVE  /\ signaled' \in [Events -> BOOLEAN]
         /\ \A e \in Events : signaled'[e] => signaled[e]
<1>1. signaled \in [Events -> BOOLEAN]
  BY DEF EventTypeOK
<1>2. signaled' = [signaled EXCEPT ![f] = signaled[f] /\ (f \in ManualReset \/ n # 0)]
  BY DEF PrepReturn
<1>3. (signaled[f] /\ (f \in ManualReset \/ n # 0)) \in BOOLEAN
  OBVIOUS
<1> QED
  BY <1>1, <1>2, <1>3

\* CEvent::Set: the event is pending until the group was told; then nobody sleeps.
LEMMA SetKeeps ==
  ASSUME EventInv, NEW t \in Setters, NEW e \in Events, Set(t, e)
  PROVE  EventInv'
<1> USE DEF EventInv
<1>1. CASE setter[t] = NoEvent /\ setter' = [setter EXCEPT ![t] = e]
  <2>1. /\ signaled' = [signaled EXCEPT ![e] = TRUE]
        /\ UNCHANGED <<numWaits, groupSignaled, groupWaits, groupWaiter, eventWaiter>>
    BY <1>1, EventsAssumption DEF Set
  <2>2. EventTypeOK'
    BY <1>1, <2>1 DEF EventTypeOK
  <2>3. CountsWaiters'
    BY <2>1, SameCounts DEF Inside
  <2>4. \A f \in Events : (Pending(f) => Pending(f)') /\ Pending(e)'
    BY <1>1, EventsAssumption DEF Pending, EventTypeOK
  <2>5. \A f \in Events : signaled'[f] /\ ~Pending(f)' => signaled[f] /\ ~Pending(f)
    BY <2>1, <2>4 DEF EventTypeOK
  <2>6. NotMissed'
    BY <2>1, <2>5 DEF NotMissed, WillSee
  <2> QED
    BY <2>2, <2>3, <2>6
<1>2. CASE setter[t] = e
  <2>1. /\ GroupMutexFree
        /\ groupSignaled' = e
        /\ \A w \in GroupWaiters : groupWaiter'[w] =
             IF groupWaiter[w].at = "asleep"
             THEN [groupWaiter[w] EXCEPT !.at = "woken"] ELSE groupWaiter[w]
        /\ groupWaiter' \in [GroupWaiters ->
             [at : {"out", "poll", "asleep", "woken"}, next : DOMAIN events]]
        /\ setter' = [setter EXCEPT ![t] = NoEvent]
        /\ UNCHANGED <<signaled, numWaits, groupWaits, eventWaiter>>
    <3>1. /\ GroupMutexFree
          /\ groupSignaled' = e
          /\ groupWaiter' = [w \in GroupWaiters |->
               IF groupWaiter[w].at = "asleep"
               THEN [groupWaiter[w] EXCEPT !.at = "woken"] ELSE groupWaiter[w]]
          /\ setter' = [setter EXCEPT ![t] = NoEvent]
          /\ UNCHANGED <<signaled, numWaits, groupWaits, eventWaiter>>
      BY <1>2, EventsAssumption DEF Set
    <3>2. ASSUME NEW w \in GroupWaiters
          PROVE  [groupWaiter[w] EXCEPT !.at = "woken"] \in
                   [at : {"out", "poll", "asleep", "woken"}, next : DOMAIN events]
      BY DEF EventTypeOK
    <3>3. ASSUME NEW w \in GroupWaiters
          PROVE  groupWaiter[w] \in
                   [at : {"out", "poll", "asleep", "woken"}, next : DOMAIN events]
      BY DEF EventTypeOK
    <3> QED
      BY <3>1, <3>2, <3>3
  <2>2. EventTypeOK'
    BY <2>1 DEF EventTypeOK
  <2>3. \A w \in GroupWaiters : /\ groupWaiter'[w].at \notin {"asleep", "poll"}
                                /\ groupWaiter'[w].at = "out" <=> groupWaiter[w].at = "out"
    BY <2>1 DEF GroupMutexFree, EventTypeOK
  <2>4. CountsWaiters'
    BY <2>1, <2>3, SameCounts DEF Inside
  <2>5. NotMissed'
    BY <2>1, <2>3, EventsAssumption DEF NotMissed
  <2> QED
    BY <2>2, <2>4, <2>5
<1> QED
  BY <1>1, <1>2 DEF Set

\* CEvent::Reset: one signaled event fewer.
LEMMA ResetKeeps ==
  ASSUME EventInv, NEW t \in Setters, NEW e \in Events, Reset(t, e)
  PROVE  EventInv'
<1> USE DEF EventInv
<1>1. EventTypeOK'
  BY DEF Reset, EventTypeOK
<1>2. CountsWaiters'
  BY SameCounts DEF Reset, Inside
<1>3. NotMissed'
  BY FewerSignaled DEF Reset, EventTypeOK
<1> QED
  BY <1>1, <1>2, <1>3

\* CEvent::WaitMSec: numWaits counts the threads inside.
LEMMA WaitEntersKeeps ==
  ASSUME EventInv, NEW w \in EventWaiters, NEW e \in Events, WaitEnters(w, e)
  PROVE  EventInv'
<1> USE DEF EventInv
<1>1. /\ eventWaiter[w] = NoEvent
      /\ eventWaiter' = [eventWaiter EXCEPT ![w] = e]
      /\ numWaits' = [numWaits EXCEPT ![e] = @ + 1]
      /\ UNCHANGED <<signaled, groupSignaled, groupWaits, groupWaiter, setter>>
  BY DEF WaitEnters
<1>2. /\ WaitsOn(e)' = WaitsOn(e) \cup {w}
      /\ w \notin WaitsOn(e)
      /\ WaitsOn(e) \in SUBSET EventWaiters
      /\ \A f \in Events \ {e} : WaitsOn(f)' = WaitsOn(f)
  BY <1>1, EventsAssumption DEF WaitsOn, EventTypeOK
<1>3. /\ Cardinality(WaitsOn(e)') = numWaits[e] + 1
      /\ numWaits[e] + 1 \in 0 .. Cardinality(EventWaiters)
  BY <1>2, WaitersAssumption, OneMore DEF CountsWaiters
<1>4. numWaits'[e] = numWaits[e] + 1 /\ \A f \in Events \ {e} : numWaits'[f] = numWaits[f]
  BY <1>1 DEF EventTypeOK
<1>5. EventTypeOK'
  BY <1>1, <1>3 DEF EventTypeOK
<1>6. \A f \in Events : numWaits'[f] = Cardinality(WaitsOn(f)')
  BY <1>2, <1>3, <1>4 DEF CountsWaiters
<1>7. groupWaits' = Cardinality(Inside')
  BY <1>1 DEF CountsWaiters, Inside
<1>8. NotMissed'
  BY <1>1, FewerSignaled
<1> QED
  BY <1>5, <1>6, <1>7, <1>8 DEF CountsWaiters

\* A waiter of one event leaves, resetting it perhaps: numWaits follows.
LEMMA WaitReturnsKeeps ==
  ASSUME EventInv, NEW w \in EventWaiters, WaitReturns(w)
  PROVE  EventInv'
<1> USE DEF EventInv
<1>1. PICK e \in Events : e = eventWaiter[w]
  BY DEF WaitReturns, EventTypeOK
<1>2. /\ eventWaiter' = [eventWaiter EXCEPT ![w] = NoEvent]
      /\ numWaits' = [numWaits EXCEPT ![e] = @ - 1]
      /\ PrepReturn(e, numWaits[e] - 1)
      /\ UNCHANGED <<groupSignaled, groupWaits, groupWaiter, setter>>
  BY <1>1 DEF WaitReturns
<1>3. /\ WaitsOn(e)' = WaitsOn(e) \ {w}
      /\ w \in WaitsOn(e)
      /\ WaitsOn(e) \in SUBSET EventWaiters
      /\ \A f \in Events \ {e} : WaitsOn(f)' = WaitsOn(f)
  BY <1>1, <1>2, EventsAssumption DEF WaitsOn, EventTypeOK
<1>4. /\ Cardinality(WaitsOn(e)') = numWaits[e] - 1
      /\ numWaits[e] - 1 \in 0 .. Cardinality(EventWaiters)
  <2>1. /\ Cardinality(WaitsOn(e) \ {w}) = Cardinality(WaitsOn(e)) - 1
        /\ Cardinality(WaitsOn(e) \ {w}) \in 0 .. Cardinality(EventWaiters)
    BY <1>3, WaitersAssumption, OneFewer
  <2> QED
    BY <1>3, <2>1 DEF CountsWaiters
<1>5. numWaits'[e] = numWaits[e] - 1 /\ \A f \in Events \ {e} : numWaits'[f] = numWaits[f]
  BY <1>2 DEF EventTypeOK
<1>6. EventTypeOK'
  BY <1>2, <1>4, PrepReturnResets DEF EventTypeOK
<1>7. \A f \in Events : numWaits'[f] = Cardinality(WaitsOn(f)')
  BY <1>3, <1>4, <1>5 DEF CountsWaiters
<1>8. groupWaits' = Cardinality(Inside')
  BY <1>2 DEF CountsWaiters, Inside
<1>9. NotMissed'
  BY <1>2, PrepReturnResets, FewerSignaled
<1> QED
  BY <1>6, <1>7, <1>8, <1>9 DEF CountsWaiters

-----------------------------------------------------------------------------
\* CEventGroup::wait clears the pointer, but then its poll looks at every event.
LEMMA GroupWaitEntersKeeps ==
  ASSUME EventInv, NEW w \in GroupWaiters, GroupWaitEnters(w)
  PROVE  EventInv'
<1> USE DEF EventInv
<1>1. /\ groupWaiter[w].at = "out" /\ GroupMutexFree
      /\ groupWaits' = groupWaits + 1
      /\ groupWaiter'[w] = [at |-> "poll", next |-> 1]
      /\ \A v \in GroupWaiters \ {w} : groupWaiter'[v] = groupWaiter[v]
      /\ UNCHANGED <<signaled, numWaits, eventWaiter, setter>>
      /\ groupSignaled' = NoEvent
  BY DEF GroupWaitEnters, EventTypeOK
<1>2. 1 \in DOMAIN events /\ DOMAIN events \subseteq Nat
  BY EventsAssumption
<1>3. Inside' = Inside \cup {w} /\ w \notin Inside /\ Inside \in SUBSET GroupWaiters
  BY <1>1 DEF Inside
<1>4. groupWaits' = Cardinality(Inside') /\ groupWaits' \in 0 .. Cardinality(GroupWaiters)
  BY <1>1, <1>3, WaitersAssumption, OneMore DEF CountsWaiters
<1>5. EventTypeOK'
  BY <1>1, <1>2, <1>4 DEF EventTypeOK, GroupWaitEnters
<1>6. CountsWaiters'
  BY <1>1, <1>4 DEF CountsWaiters, WaitsOn
<1>7. \A e \in Events : WillSee(w, e)'
  <2> SUFFICES ASSUME NEW e \in Events PROVE WillSee(w, e)'
    OBVIOUS
  <2>1. PICK i \in DOMAIN events : events[i] = e
    BY DEF Events
  <2>2. i >= 1
    BY <1>2, EventsAssumption
  <2> QED
    BY <1>1, <2>1, <2>2 DEF WillSee
<1>8. \A i \in DOMAIN events : ~(i < 1)
  BY <1>2, EventsAssumption
<1>9. \A e \in Events : Pending(e)' <=> Pending(e)
  BY <1>1 DEF Pending
<1>10. NotMissed'
  BY <1>1, <1>7, <1>8, <1>9 DEF NotMissed, GroupMutexFree
<1> QED
  BY <1>5, <1>6, <1>10

\* A thread leaves the group with an event, or while the pointer keeps its value:
\* the waiters it leaves behind have the pointer to look at, as before.
LEMMA LeaveKeeps ==
  ASSUME EventInv, NEW w \in GroupWaiters, groupWaiter[w].at # "out",
         NEW s \in Events \cup {NoEvent}, Leave(w, s, groupWaits - 1),
         s # NoEvent \/ (s = groupSignaled /\ groupWaiter[w].at # "poll")
  PROVE  EventInv'
<1> USE DEF EventInv
<1>1. /\ groupWaits' = groupWaits - 1
      /\ groupSignaled' = IF groupWaits - 1 = 0 THEN NoEvent ELSE s
      /\ groupWaiter' = [groupWaiter EXCEPT ![w] = [at |-> "out", next |-> 1]]
      /\ UNCHANGED <<numWaits, eventWaiter, setter>>
  BY DEF Leave
<1>2. Inside' = Inside \ {w} /\ w \in Inside /\ Inside \in SUBSET GroupWaiters
  BY <1>1 DEF Inside, EventTypeOK
<1>3. /\ groupWaits' = Cardinality(Inside')
      /\ groupWaits' \in 0 .. Cardinality(GroupWaiters)
      /\ groupWaits - 1 = 0 => Inside' = {}
  <2>1. /\ Cardinality(Inside \ {w}) = Cardinality(Inside) - 1
        /\ Cardinality(Inside \ {w}) \in 0 .. Cardinality(GroupWaiters)
        /\ Cardinality(Inside \ {w}) = 0 => Inside \ {w} = {}
    BY <1>2, WaitersAssumption, OneFewer
  <2> QED
    BY <1>1, <1>2, <2>1 DEF CountsWaiters
<1>4. /\ signaled' \in [Events -> BOOLEAN]
      /\ \A e \in Events : signaled'[e] => signaled[e]
  <2>1. CASE groupWaits - 1 = 0 /\ s # NoEvent
    BY <2>1, PrepReturnResets DEF Leave
  <2>2. CASE ~(groupWaits - 1 = 0 /\ s # NoEvent)
    BY <2>2 DEF Leave, EventTypeOK
  <2> QED
    BY <2>1, <2>2
<1>5. 1 \in DOMAIN events
  BY EventsAssumption
<1>6. EventTypeOK'
  BY <1>1, <1>3, <1>4, <1>5 DEF EventTypeOK
<1>7. CountsWaiters'
  BY <1>1, <1>3 DEF CountsWaiters, WaitsOn
<1>8. NotMissed'
  <2> SUFFICES ASSUME NEW v \in GroupWaiters, NEW e \in Events, signaled'[e], ~Pending(e)',
                      groupWaiter'[v].at # "out"
               PROVE  /\ groupWaiter'[v].at # "asleep"
                      /\ groupWaiter'[v].at = "poll" =>
                           \A i \in DOMAIN events : i < groupWaiter'[v].next => events[i] # e
                      /\ groupWaiter'[v].at = "woken" =>
                           groupSignaled' # NoEvent \/ \E u \in GroupWaiters : WillSee(u, e)'
    BY DEF NotMissed
  <2>1. signaled[e] /\ ~Pending(e)
    BY <1>1, <1>4 DEF Pending
  <2>2. v # w /\ groupWaiter'[v] = groupWaiter[v]
    BY <1>1 DEF EventTypeOK
  <2>3. groupSignaled' = s
    <3>1. v \in Inside'
      BY DEF Inside
    <3> QED
      BY <1>1, <1>3, <3>1
  <2>4. ASSUME s = NoEvent
        PROVE  \A u \in GroupWaiters : WillSee(u, e) => WillSee(u, e)'
    BY <1>1, <2>4 DEF WillSee, EventTypeOK
  <2> QED
    BY <2>1, <2>2, <2>3, <2>4 DEF NotMissed
<1> QED
  BY <1>6, <1>7, <1>8

\* The poll leaves an event behind only while that is not signaled.
LEMMA PollKeeps ==
  ASSUME EventInv, NEW w \in GroupWaiters, Poll(w)
  PROVE  EventInv'
<1> USE DEF EventInv
<1>1. PICK i \in DOMAIN events : i = groupWaiter[w].next
  BY DEF EventTypeOK
<1>2. DOMAIN events = 1 .. Len(events) /\ events[i] \in Events /\ Len(events) \in Nat
  BY EventsAssumption DEF Events
<1>3. CASE signaled[events[i]]
  BY <1>1, <1>2, <1>3, LeaveKeeps, EventsAssumption DEF Poll
<1>4. CASE ~signaled[events[i]]
  <2>1. /\ groupWaiter[w].at = "poll"
        /\ groupWaiter'[w] = IF i < Len(events) THEN [at |-> "poll", next |-> i + 1]
                                              ELSE [at |-> "asleep", next |-> 1]
        /\ \A v \in GroupWaiters \ {w} : groupWaiter'[v] = groupWaiter[v]
        /\ UNCHANGED <<signaled, numWaits, groupSignaled, groupWaits, eventWaiter, setter>>
    BY <1>1, <1>4 DEF Poll, EventTypeOK
  <2>2. EventTypeOK'
    <3>1. i < Len(events) => i + 1 \in DOMAIN events
      BY <1>2
    <3>2. 1 \in DOMAIN events
      BY <1>2
    <3>3. groupWaiter'[w] \in [at : {"out", "poll", "asleep", "woken"}, next : DOMAIN events]
      BY <2>1, <3>1, <3>2
    <3>4. groupWaiter' = [groupWaiter EXCEPT ![w] = groupWaiter'[w]]
      BY <1>1, <1>4 DEF Poll, EventTypeOK
    <3>5. groupWaiter' \in [GroupWaiters ->
             [at : {"out", "poll", "asleep", "woken"}, next : DOMAIN events]]
      BY <3>3, <3>4 DEF EventTypeOK
    <3> QED
      BY <2>1, <3>5 DEF EventTypeOK
  <2>3. Inside' = Inside
    BY <2>1 DEF Inside
  <2>4. CountsWaiters'
    BY <2>1, <2>3, SameCounts
  <2>5. \A e \in Events : signaled[e] => e # events[i]
    BY <1>4
  <2>6. ASSUME NEW e \in Events, signaled[e], ~Pending(e), NEW k \in DOMAIN events, events[k] = e
        PROVE  i < Len(events) /\ k >= i + 1
    <3>1. ~(k < i)
      BY <1>1, <2>1, <2>6 DEF NotMissed
    <3>2. k # i
      BY <2>5, <2>6
    <3> QED
      BY <1>2, <3>1, <3>2
  <2>7. NotMissed'
    <3> SUFFICES ASSUME NEW v \in GroupWaiters, NEW e \in Events, signaled'[e], ~Pending(e)'
                 PROVE  /\ groupWaiter'[v].at # "asleep"
                        /\ groupWaiter'[v].at = "poll" =>
                             \A k \in DOMAIN events : k < groupWaiter'[v].next => events[k] # e
                        /\ groupWaiter'[v].at = "woken" =>
                             groupSignaled' # NoEvent \/ \E u \in GroupWaiters : WillSee(u, e)'
      BY DEF NotMissed
    <3>1. signaled[e] /\ ~Pending(e)
      BY <2>1 DEF Pending
    <3>2. PICK k \in DOMAIN events : events[k] = e
      BY DEF Events
    <3>3. groupWaiter'[w] = [at |-> "poll", next |-> i + 1]
      BY <2>1, <2>6, <3>1, <3>2
    <3>4. WillSee(w, e)'
      BY <2>6, <3>1, <3>2, <3>3 DEF WillSee
    <3>5. CASE v = w
      BY <1>2, <2>6, <3>1, <3>3, <3>5
    <3>6. CASE v # w
      BY <2>1, <3>1, <3>4, <3>6 DEF NotMissed
    <3> QED
      BY <3>5, <3>6
  <2> QED
    BY <2>2, <2>4, <2>7
<1> QED
  BY <1>3, <1>4

\* Back from the notification without a pointer, no poll is under way.
LEMMA GroupWakesKeeps ==
  ASSUME EventInv, NEW w \in GroupWaiters, GroupWakes(w)
  PROVE  EventInv'
<1> USE DEF EventInv
<1>1. CASE groupSignaled # NoEvent
  BY <1>1, LeaveKeeps DEF GroupWakes, EventTypeOK
<1>2. CASE groupSignaled = NoEvent
  <2>1. /\ groupWaiter[w].at = "woken" /\ GroupMutexFree
        /\ groupWaiter' = [groupWaiter EXCEPT ![w].at = "asleep"]
        /\ UNCHANGED <<signaled, numWaits, groupSignaled, groupWaits, eventWaiter, setter>>
    BY <1>2 DEF GroupWakes
  <2>2. EventTypeOK'
    BY <2>1 DEF EventTypeOK
  <2>3. /\ groupWaiter'[w].at = "asleep"
        /\ \A v \in GroupWaiters \ {w} : groupWaiter'[v] = groupWaiter[v]
    BY <2>1 DEF EventTypeOK
  <2>4. Inside' = Inside
    BY <2>1, <2>3 DEF Inside
  <2>5. CountsWaiters'
    BY <2>1, <2>4, SameCounts
  <2>6. \A v \in GroupWaiters, e \in Events : ~WillSee(v, e)
    BY <2>1 DEF WillSee, GroupMutexFree
  <2>7. \A e \in Events : signaled[e] => Pending(e)
    BY <1>2, <2>1, <2>6 DEF NotMissed
  <2>8. NotMissed'
    BY <2>1, <2>7 DEF NotMissed, Pending
  <2> QED
    BY <2>2, <2>5, <2>8
<1> QED
  BY <1>1, <1>2

\* A timeout is a departure without an event.
LEMMA GroupTimesOutKeeps ==
  ASSUME EventInv, NEW w \in GroupWaiters, GroupTimesOut(w)
  PROVE  EventInv'
BY LeaveKeeps DEF GroupTimesOut, EventInv, EventTypeOK

(***************************************************************************)
(* No thread sleeps in CEventGroup::wait on an event that is signaled,     *)
(* for any events, waiters and setters.                                    *)
(***************************************************************************)
THEOREM NoSleepOnSignaledHolds == EventSpec => []NoSleepOnSignaled
<1>1. EventInv /\ [EventNext]_eventVars => EventInv'
  <2> SUFFICES ASSUME EventInv, [EventNext]_eventVars PROVE EventInv'
    OBVIOUS
  <2>1. CASE UNCHANGED eventVars
    BY <2>1 DEF eventVars, EventInv, EventTypeOK, CountsWaiters, NotMissed, Inside, WaitsOn,
                Pending, WillSee
  <2> QED
    BY <2>1, SetKeeps, ResetKeeps, WaitEntersKeeps, WaitReturnsKeeps, GroupWaitEntersKeeps,
       PollKeeps, GroupWakesKeeps, GroupTimesOutKeeps DEF EventNext
<1>2. EventInv => NoSleepOnSignaled
  BY DEF EventInv, NotMissed, NoSleepOnSignaled, Pending
<1> QED
  BY <1>1, <1>2, EventInitInv, PTL DEF EventSpec

=============================================================================
