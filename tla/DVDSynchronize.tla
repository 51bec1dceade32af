--------------------------- MODULE DVDSynchronize ---------------------------
(***************************************************************************)
(* One CDVDMsgGeneralSynchronize (xbmc/cores/VideoPlayer/DVDMessage.cpp):  *)
(* a barrier made of a reference-counted message.  CVideoPlayer's thread   *)
(* (the owner) creates it and sends it to stream players; each waits in    *)
(* Wait until as many sources have been reached as there are references.   *)
(*                                                                         *)
(* Every creator passes all sources, so the early return of Wait for a     *)
(* source that is not asked for does not occur.                            *)
(*                                                                         *)
(* Definitions marked "Mistake" are not part of the model: each is a       *)
(* plausible error in the definition after it.                             *)
(***************************************************************************)
EXTENDS Integers, FiniteSets

CONSTANTS Owner, Players

ASSUME PlayersAssumption == IsFiniteSet(Players) /\ Owner \notin Players

Threads == Players \cup {Owner}

VARIABLES
  m_refs,    \* GetNrOfReferences()
  reached,   \* the sources whose bit is set; a thread has one bit
  overdue,   \* the message's own timeout is past
  stop,      \* m_bStop of the owner, the abort flag of its Wait
  pc         \* where the thread and its reference are

syncVars == <<m_refs, reached, overdue, stop, pc>>

(***************************************************************************)
(* "away"    no reference yet (the owner: before it sends)                 *)
(* "queued"  in the player's message queue                                 *)
(* "handle"  about to enter Wait                                           *)
(* "wait"    in Wait, inside condition.wait                                *)
(* "woken"   in Wait, notified, about to look again                        *)
(* "false"   Wait returned false                                           *)
(* "putback" put into the player's own queue again, not yet released       *)
(* "true"    Wait returned true                                            *)
(* "gone"    released                                                      *)
(***************************************************************************)
SyncTypeOK ==
  /\ m_refs \in 0 .. 2 * Cardinality(Threads)
  /\ reached \in SUBSET Threads
  /\ overdue \in BOOLEAN
  /\ stop \in BOOLEAN
  /\ pc \in [Threads -> {"away", "queued", "handle", "wait", "woken", "false",
                         "putback", "true", "gone"}]

\* new: the owner has the only reference.
SyncInit ==
  /\ m_refs = 1
  /\ reached = {}
  /\ overdue = FALSE
  /\ stop = FALSE
  /\ pc = [t \in Threads |-> "away"]

-----------------------------------------------------------------------------
\* condition.notifyAll(), and thread t moves to place s.
NotifyAll(t, s) ==
  pc' = [u \in Threads |-> IF u = t THEN s
                           ELSE IF pc[u] = "wait" THEN "woken" ELSE pc[u]]

\* Mistake: nobody is told of the reference that is gone.
ReleaseSilently(t, s) ==
  /\ m_refs' = m_refs - 1
  /\ pc' = [pc EXCEPT ![t] = s]
  /\ UNCHANGED <<reached, overdue, stop>>

\* Release, after which t is at s.
Release(t, s) ==
  /\ m_refs' = m_refs - 1
  /\ NotifyAll(t, s)
  /\ UNCHANGED <<reached, overdue, stop>>

\* SendMessage(message->Acquire()).
SendReference(t) ==
  /\ pc[Owner] = "away"
  /\ pc[t] = "away"
  /\ m_refs' = m_refs + 1
  /\ pc' = [pc EXCEPT ![t] = "queued"]
  /\ UNCHANGED <<reached, overdue, stop>>

\* The player's queue is not initialized (it releases the message at once), or
\* the owner has no such stream and does not send.
SendNot(t) ==
  /\ pc[Owner] = "away"
  /\ pc[t] = "away"
  /\ pc' = [pc EXCEPT ![t] = "gone"]
  /\ UNCHANGED <<m_refs, reached, overdue, stop>>

\* FlushBuffers waits itself; SynchronizePlayers only releases.
OwnerWaits ==
  /\ pc[Owner] = "away"
  /\ \A t \in Players : pc[t] # "away"
  /\ pc' = [pc EXCEPT ![Owner] = "handle"]
  /\ UNCHANGED <<m_refs, reached, overdue, stop>>

OwnerReleases ==
  /\ pc[Owner] = "away"
  /\ \A t \in Players : pc[t] # "away"
  /\ Release(Owner, "gone")

-----------------------------------------------------------------------------
\* The player's Get: the list item's reference becomes the player's.
GetMessage(t) ==
  /\ pc[t] = "queued"
  /\ pc' = [pc EXCEPT ![t] = "handle"]
  /\ UNCHANGED <<m_refs, reached, overdue, stop>>

\* Abort and End of the player's queue, called by the owner's thread when it
\* is not waiting: the message is flushed.
DropMessage(t) ==
  /\ pc[Owner] = "gone"
  /\ pc[t] = "queued"
  /\ Release(t, "gone")

\* Mistake: one thread need not have arrived.
AllReachedButOne(r) == Cardinality(r) + 1 >= m_refs

AllReached(r) == Cardinality(r) >= m_refs

\* Wait, from its entry to its first condition.wait.
EnterWait(t) ==
  /\ pc[t] = "handle"
  /\ reached' = reached \cup {t}
  /\ pc' = [pc EXCEPT ![t] = IF AllReached(reached') THEN "true" ELSE "wait"]
  /\ UNCHANGED <<m_refs, overdue, stop>>

LookAgain(t) ==
  /\ pc[t] = "woken"
  /\ pc' = [pc EXCEPT ![t] = IF AllReached(reached) THEN "true" ELSE "wait"]
  /\ UNCHANGED <<m_refs, reached, overdue, stop>>

\* condition.wait times out: the message's timeout counts as success, the
\* caller's does not.
ConditionExpires(t) ==
  /\ pc[t] = "wait"
  /\ pc' = [pc EXCEPT ![t] = IF overdue THEN "true" ELSE "false"]
  /\ UNCHANGED <<m_refs, reached, overdue, stop>>

\* Mistake: put back without a reference for the queue.
PutBackUncounted(t) ==
  /\ pc[t] = "false"
  /\ NotifyAll(t, "putback")
  /\ UNCHANGED <<m_refs, reached, overdue, stop>>

\* A player puts the message back: Put(pMsg->Acquire(), 1), which ends with a
\* Release of the reference the list item has taken over; then its own Release.
PutBack(t) ==
  /\ pc[t] = "false"
  /\ m_refs' = m_refs + 1
  /\ NotifyAll(t, "putback")
  /\ UNCHANGED <<reached, overdue, stop>>

\* The owner's Wait(abort, source) calls Wait again until it is stopped.
OwnerWaitsAgain ==
  /\ pc[Owner] = "false"
  /\ ~stop
  /\ pc' = [pc EXCEPT ![Owner] = "handle"]
  /\ UNCHANGED <<m_refs, reached, overdue, stop>>

Leave(t) == pc[t] = "true" /\ Release(t, "gone")

OwnerStops == stop /\ pc[Owner] = "false" /\ Release(Owner, "gone")

\* The environment: time passes, the player is told to stop.
Overdue == ~overdue /\ overdue' = TRUE /\ UNCHANGED <<m_refs, reached, stop, pc>>
Stop == ~stop /\ stop' = TRUE /\ UNCHANGED <<m_refs, reached, overdue, pc>>

-----------------------------------------------------------------------------
PlayerStep(t) ==
  \/ GetMessage(t)
  \/ EnterWait(t)
  \/ LookAgain(t)
  \/ PutBack(t)
  \/ pc[t] = "putback" /\ Release(t, "queued")
  \/ Leave(t)

OwnerSends ==
  \/ \E t \in Players : SendReference(t) \/ SendNot(t)
  \/ OwnerWaits
  \/ OwnerReleases

OwnerStep ==
  \/ EnterWait(Owner)
  \/ LookAgain(Owner)
  \/ OwnerWaitsAgain
  \/ OwnerStops
  \/ Leave(Owner)

SyncNext ==
  \/ OwnerSends
  \/ OwnerStep
  \/ \E t \in Players : PlayerStep(t) \/ DropMessage(t)
  \/ \E t \in Threads : ConditionExpires(t)
  \/ Overdue
  \/ Stop

SyncSpec == SyncInit /\ [][SyncNext]_syncVars

(***************************************************************************)
(* The threads are scheduled and the players ask their queues for          *)
(* messages.  No timeout is relied upon.                                   *)
(***************************************************************************)
SyncFairness ==
  /\ WF_syncVars(OwnerSends)
  /\ WF_syncVars(OwnerStep)
  /\ \A t \in Players : WF_syncVars(PlayerStep(t))

SyncFairSpec == SyncSpec /\ SyncFairness

-----------------------------------------------------------------------------
(***************************************************************************)
(* Safety                                                                  *)
(***************************************************************************)
Holds(t) == pc[t] # "gone" /\ (pc[t] = "away" => t = Owner)

(***************************************************************************)
(* The reference count is the number of references: one for each thread    *)
(* that has the message in its hands or in its queue, two while it puts it *)
(* back.  So the message is deleted exactly when the last one is through,  *)
(* and Wait never compares with a count that left somebody out.            *)
(***************************************************************************)
CountsReferences ==
  /\ SyncTypeOK
  /\ m_refs = Cardinality({t \in Threads : Holds(t)})
              + Cardinality({t \in Threads : pc[t] = "putback"})

(***************************************************************************)
(* "waits until all threads waiting, released the object" (DVDMessage.h):  *)
(* unless the message is overdue or the owner is being stopped, a thread   *)
(* gets through only when every other thread that still has the message    *)
(* has arrived, in spite of timeouts, of messages put back and of queues   *)
(* that are closed.                                                        *)
(***************************************************************************)
Barrier ==
  [][\A t \in Threads :
       pc[t] # "true" /\ pc'[t] = "true" /\ ~overdue /\ ~stop =>
         \A u \in Threads : Holds(u) => u \in reached']_syncVars

(***************************************************************************)
(* Liveness                                                                *)
(***************************************************************************)
(***************************************************************************)
(* Once the message is on its way everybody gets through, unless waits     *)
(* time out again and again: a thread that arrives last does not notify    *)
(* those that wait, but its Release does, and so does the Release that     *)
(* ends putting the message back.                                          *)
(***************************************************************************)
EverybodyLeaves ==
  \/ (\E t \in Threads : pc[t] \notin {"away", "gone"})
       ~> (\A t \in Threads : pc[t] = "gone")
  \/ []<><<\E t \in Threads : ConditionExpires(t)>>_syncVars

=============================================================================
