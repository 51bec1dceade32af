----------------------------- MODULE EventGroup -----------------------------
(***************************************************************************)
(* CEvent and CEventGroup (xbmc/threads/Event.h, Event.cpp): threads wait  *)
(* on one event or on several at once (CThread::AbortableWait, XBPython),  *)
(* others Set and Reset the events.                                        *)
(*                                                                         *)
(* An action is what a thread does between taking and leaving a mutex.     *)
(* Only the poll of CEventGroup::wait holds the group's mutex over several *)
(* actions: it takes the mutex of one event after the other.               *)
(***************************************************************************)
EXTENDS Integers, Sequences, FiniteSets

CONSTANTS events,        \* the events of the group, in its order
          ManualReset,   \* those of them constructed with manual = true
          NoEvent,       \* the NULL pointer
          GroupWaiters,  \* the threads that call CEventGroup::wait
          EventWaiters,  \* the threads that call CEvent::WaitMSec
          Setters        \* the threads that call Set and Reset

Events == {events[i] : i \in DOMAIN events}

ASSUME EventsAssumption ==
  /\ events \in Seq(Events)
  /\ events # <<>>
  /\ ManualReset \subseteq Events
  /\ NoEvent \notin Events
ASSUME WaitersAssumption == IsFiniteSet(GroupWaiters) /\ IsFiniteSet(EventWaiters)

VARIABLES
  signaled,       \* CEvent::signaled of each event
  numWaits,       \* CEvent::numWaits
  groupSignaled,  \* CEventGroup::signaled
  groupWaits,     \* CEventGroup::numWaits
  groupWaiter,    \* where each group waiter is
  eventWaiter,    \* the event a thread waits on
  setter          \* the event whose Set has still to tell the group

eventVars == <<signaled, numWaits, groupSignaled, groupWaits, groupWaiter,
               eventWaiter, setter>>

(***************************************************************************)
(* A group waiter: 0 outside wait; i in 1 .. Len(events), about to look at *)
(* event i, with the group's mutex; "asleep" in the condition variable;    *)
(* "woken", notified or past its timeout.                                  *)
(***************************************************************************)
EventTypeOK ==
  /\ signaled \in [Events -> BOOLEAN]
  /\ numWaits \in [Events -> 0 .. Cardinality(EventWaiters)]
  /\ groupSignaled \in Events \cup {NoEvent}
  /\ groupWaits \in 0 .. Cardinality(GroupWaiters)
  /\ groupWaiter \in [GroupWaiters ->
       [at : {"out", "poll", "asleep", "woken"}, next : DOMAIN events]]
  /\ eventWaiter \in [EventWaiters -> Events \cup {NoEvent}]
  /\ setter \in [Setters -> Events \cup {NoEvent}]

EventInit ==
  /\ signaled = [e \in Events |-> FALSE]
  /\ numWaits = [e \in Events |-> 0]
  /\ groupSignaled = NoEvent
  /\ groupWaits = 0
  /\ groupWaiter = [w \in GroupWaiters |-> [at |-> "out", next |-> 1]]
  /\ eventWaiter = [w \in EventWaiters |-> NoEvent]
  /\ setter = [t \in Setters |-> NoEvent]

\* The group's mutex is free.
GroupMutexFree == \A w \in GroupWaiters : groupWaiter[w].at # "poll"

-----------------------------------------------------------------------------
\* Mistake: the group is told before the event is signaled.
SetGroupFirst(t, e) ==
  \/ /\ setter[t] = NoEvent
     /\ GroupMutexFree
     /\ groupSignaled' = e
     /\ groupWaiter' = [w \in GroupWaiters |->
          IF groupWaiter[w].at = "asleep"
          THEN [groupWaiter[w] EXCEPT !.at = "woken"] ELSE groupWaiter[w]]
     /\ setter' = [setter EXCEPT ![t] = e]
     /\ UNCHANGED <<signaled, numWaits, groupWaits, eventWaiter>>
  \/ /\ setter[t] = e
     /\ signaled' = [signaled EXCEPT ![e] = TRUE]
     /\ setter' = [setter EXCEPT ![t] = NoEvent]
     /\ UNCHANGED <<numWaits, groupSignaled, groupWaits, groupWaiter, eventWaiter>>

\* CEvent::Set: the flag and notifyAll; then CEventGroup::Set.
Set(t, e) ==
  \/ /\ setter[t] = NoEvent
     /\ signaled' = [signaled EXCEPT ![e] = TRUE]
     /\ setter' = [setter EXCEPT ![t] = e]
     /\ UNCHANGED <<numWaits, groupSignaled, groupWaits, groupWaiter, eventWaiter>>
  \/ /\ setter[t] = e
     /\ GroupMutexFree
     /\ groupSignaled' = e
     /\ groupWaiter' = [w \in GroupWaiters |->
          IF groupWaiter[w].at = "asleep"
          THEN [groupWaiter[w] EXCEPT !.at = "woken"] ELSE groupWaiter[w]]
     /\ setter' = [setter EXCEPT ![t] = NoEvent]
     /\ UNCHANGED <<signaled, numWaits, groupWaits, eventWaiter>>

\* CEvent::Reset.
Reset(t, e) ==
  /\ setter[t] = NoEvent
  /\ signaled' = [signaled EXCEPT ![e] = FALSE]
  /\ UNCHANGED <<numWaits, groupSignaled, groupWaits, groupWaiter, eventWaiter,
                 setter>>

\* prepReturn of event e, with n waits left: the last one resets.
PrepReturn(e, n) ==
  signaled' = [signaled EXCEPT ![e] = @ /\ (e \in ManualReset \/ n # 0)]

\* CEvent::WaitMSec: into the wait, and out of it with the event or at the
\* end of the time.
WaitEnters(w, e) ==
  /\ eventWaiter[w] = NoEvent
  /\ eventWaiter' = [eventWaiter EXCEPT ![w] = e]
  /\ numWaits' = [numWaits EXCEPT ![e] = @ + 1]
  /\ UNCHANGED <<signaled, groupSignaled, groupWaits, groupWaiter, setter>>

WaitReturns(w) ==
  /\ eventWaiter[w] # NoEvent
  /\ LET e == eventWaiter[w]
     IN  /\ numWaits' = [numWaits EXCEPT ![e] = @ - 1]
         /\ PrepReturn(e, numWaits[e] - 1)
  /\ eventWaiter' = [eventWaiter EXCEPT ![w] = NoEvent]
  /\ UNCHANGED <<groupSignaled, groupWaits, groupWaiter, setter>>

-----------------------------------------------------------------------------
\* CEventGroup::wait takes the group's mutex.
GroupWaitEnters(w) ==
  /\ groupWaiter[w].at = "out"
  /\ GroupMutexFree
  /\ groupWaits' = groupWaits + 1
  /\ groupSignaled' = NoEvent
  /\ groupWaiter' = [groupWaiter EXCEPT ![w] = [at |-> "poll", next |-> 1]]
  /\ UNCHANGED <<signaled, numWaits, eventWaiter, setter>>

\* The thread leaves wait, with n waits left and the event s: the last one
\* calls s->WaitMSec(0) and clears the group.
Leave(w, s, n) ==
  /\ groupWaits' = n
  /\ IF n = 0 /\ s # NoEvent
     THEN PrepReturn(s, numWaits[s])
     ELSE UNCHANGED signaled
  /\ groupSignaled' = IF n = 0 THEN NoEvent ELSE s
  /\ groupWaiter' = [groupWaiter EXCEPT ![w] = [at |-> "out", next |-> 1]]
  /\ UNCHANGED <<numWaits, eventWaiter, setter>>

\* The poll of one event; the first one signaled ends it, and wait.
Poll(w) ==
  /\ groupWaiter[w].at = "poll"
  /\ LET i == groupWaiter[w].next
     IN  IF signaled[events[i]]
         THEN Leave(w, events[i], groupWaits - 1)
         ELSE /\ groupWaiter' = [groupWaiter EXCEPT ![w] =
                   IF i < Len(events) THEN [at |-> "poll", next |-> i + 1]
                   ELSE [at |-> "asleep", next |-> 1]]
              /\ UNCHANGED <<signaled, numWaits, groupSignaled, groupWaits,
                             eventWaiter, setter>>

\* Back with the mutex after a notification: the condition is looked at again.
GroupWakes(w) ==
  /\ groupWaiter[w].at = "woken"
  /\ GroupMutexFree
  /\ IF groupSignaled # NoEvent
     THEN Leave(w, groupSignaled, groupWaits - 1)
     ELSE /\ groupWaiter' = [groupWaiter EXCEPT ![w].at = "asleep"]
          /\ UNCHANGED <<signaled, numWaits, groupSignaled, groupWaits,
                         eventWaiter, setter>>

\* The time of wait(milliseconds) is up.
GroupTimesOut(w) ==
  /\ groupWaiter[w].at \in {"asleep", "woken"}
  /\ GroupMutexFree
  /\ Leave(w, groupSignaled, groupWaits - 1)

-----------------------------------------------------------------------------
EventNext ==
  \/ \E t \in Setters, e \in Events : Set(t, e) \/ Reset(t, e)
  \/ \E w \in EventWaiters, e \in Events : WaitEnters(w, e)
  \/ \E w \in EventWaiters : WaitReturns(w)
  \/ \E w \in GroupWaiters :
       GroupWaitEnters(w) \/ Poll(w) \/ GroupWakes(w) \/ GroupTimesOut(w)

EventSpec == EventInit /\ [][EventNext]_eventVars

(***************************************************************************)
(* No thread sleeps in CEventGroup::wait while an event of the group is    *)
(* signaled, unless the Set that signaled it is about to wake the group:   *)
(* whatever other waiters, resets and timeouts do to the shared pointer of *)
(* the group, a signal that is still there is not slept on.                *)
(***************************************************************************)
NoSleepOnSignaled ==
  /\ EventTypeOK
  /\ \A w \in GroupWaiters, e \in Events :
       groupWaiter[w].at = "asleep" /\ signaled[e] =>
         \E t \in Setters : setter[t] = e

=============================================================================
