---------------------------- MODULE ActorProtocol ----------------------------
(***************************************************************************)
(* Actor::Protocol and Actor::Message (xbmc/utils/ActorProtocol.cpp): the  *)
(* port between an engine thread (CActiveAE::Process, the audio sink, the  *)
(* VAAPI and VDPAU outputs) and the threads that call it.  A Message is    *)
(* recycled through a free queue; a synchronous one is released twice, by  *)
(* the caller and by the actor, in either order, and the second deletes.   *)
(*                                                                         *)
(* One critical section of the port is one action.  The Message objects    *)
(* in freeMessageQueue and those not yet created are the set unused.       *)
(* Nothing calls DeferIn and DeferOut, so both flags stay false.           *)
(***************************************************************************)
EXTENDS Integers, Sequences, SequencesExt, FiniteSets, SequenceFilter

CONSTANTS Messages,    \* identities for Message objects
          NoMessage,   \* the NULL pointer
          SyncCallers,   \* the threads that call SendOutMessageSync
          AsyncCallers   \* the threads that call SendOutMessage

ASSUME MessagesAssumption == IsFiniteSet(Messages) /\ NoMessage \notin Messages

Callers == SyncCallers \cup AsyncCallers

Directions == {"out", "in"}   \* to the actor, from the actor

VARIABLES
  unused,          \* the Message objects in the free queue or not yet created
  leaked,          \* messages the actor lost track of without a release
  message,         \* the members of each Message
  messages,        \* outMessages and inMessages
  containerEvent,  \* containerOutEvent and containerInEvent are signaled
  caller,          \* what each calling thread does, with which message
  actor,           \* the same of the actor's thread
  collector,       \* the thread that receives the "in" messages
  m_bStop          \* the actor's thread is told to end

protocolVars == <<unused, leaked, message, messages, containerEvent, caller,
                  actor, collector, m_bStop>>

\* The members GetMessage resets.  A call is a caller and the parity of its
\* calls: it stands for the data that goes with the message.
Cleared == [isSync |-> FALSE, isSyncFini |-> FALSE, isSyncTimeout |-> FALSE,
            event |-> FALSE, replyMessage |-> NoMessage, call |-> <<>>]

Calls == Callers \X BOOLEAN

(***************************************************************************)
(* A caller: "idle", "push" (has a message), "signal" (pushed it), "wait"  *)
(* (in the event's WaitMSec), "late" (WaitMSec returned false), "release"  *)
(* (has retMsg, still has the message), "reply" (has retMsg only).         *)
(* The actor: "loop", "wait" (on the container's event), "handle", "set"   *)
(* (in Reply, past the lock), "handled", "again" (self trigger), "ended",  *)
(* "purge" (the thread is gone; Purge has a message in its hands).         *)
(***************************************************************************)
ProtocolTypeOK ==
  /\ unused \subseteq Messages
  /\ leaked \subseteq Messages
  /\ message \in [Messages -> [isSync : BOOLEAN, isSyncFini : BOOLEAN,
                               isSyncTimeout : BOOLEAN, event : BOOLEAN,
                               replyMessage : Messages \cup {NoMessage},
                               call : Calls \cup {<<>>}]]
  /\ messages \in [Directions -> Seq(Messages)]
  /\ containerEvent \in [Directions -> BOOLEAN]
  /\ caller \in [Callers ->
       [at : {"idle", "push", "signal", "wait", "late", "release", "reply"},
        msg : Messages \cup {NoMessage}, retMsg : Messages \cup {NoMessage},
        parity : BOOLEAN]]
  /\ actor \in [at : {"loop", "wait", "handle", "set", "handled", "again",
                      "ended", "purge"},
                msg : Messages \cup {NoMessage}]
  /\ collector \in {"loop", "wait"}
  /\ m_bStop \in BOOLEAN

ProtocolInit ==
  /\ unused = Messages
  /\ leaked = {}
  /\ message = [m \in Messages |-> Cleared]
  /\ messages = [d \in Directions |-> <<>>]
  /\ containerEvent = [d \in Directions |-> FALSE]
  /\ caller = [c \in Callers |-> [at |-> "idle", msg |-> NoMessage,
                                  retMsg |-> NoMessage, parity |-> FALSE]]
  /\ actor = [at |-> "loop", msg |-> NoMessage]
  /\ collector = "loop"
  /\ m_bStop = FALSE

-----------------------------------------------------------------------------
\* The message goes back to the free queue.
Free(m) ==
  /\ unused' = unused \cup {m}
  /\ message' = [message EXCEPT ![m] = Cleared]

\* The message GetMessage returns; which one makes no difference.
Unused == CHOOSE m \in Messages : unused # {} => m \in unused

\* Mistake: the first of the two releases already deletes.
ReleaseFirst(m) == Free(m)

\* Message::Release.
Release(m) ==
  IF message[m].isSync /\ ~message[m].isSyncFini
  THEN /\ message' = [message EXCEPT ![m].isSyncFini = TRUE]
       /\ UNCHANGED unused
  ELSE Free(m)

\* push, under the lock.
Push(d, m) == messages' = [messages EXCEPT ![d] = Append(@, m)]

\* ReceiveOutMessage and ReceiveInMessage, when they return true.
Receive(d, m) ==
  /\ messages[d] # <<>>
  /\ m = Head(messages[d])
  /\ messages' = [messages EXCEPT ![d] = Tail(@)]

-----------------------------------------------------------------------------
\* GetMessage by SendOutMessage (sync FALSE) or SendOutMessageSync.  Bound: a
\* caller leaves one message for the reply.
CallerGets(c, sync) ==
  /\ caller[c].at = "idle"
  /\ c \in IF sync THEN SyncCallers ELSE AsyncCallers
  /\ Cardinality(unused) > 1
  /\ LET m == Unused IN
       /\ unused' = unused \ {m}
       /\ message' = [message EXCEPT ![m] =
            [Cleared EXCEPT !.isSync = sync, !.call = <<c, sync # caller[c].parity>>]]
       /\ caller' = [caller EXCEPT ![c].at = "push", ![c].msg = m,
                                   ![c].parity = (sync # @)]
  /\ UNCHANGED <<leaked, messages, containerEvent, actor, collector, m_bStop>>

\* Mistake: the container is woken before the message is there.
CallerPushesLast(c) ==
  \/ /\ caller[c].at = "push"
     /\ containerEvent' = [containerEvent EXCEPT !["out"] = TRUE]
     /\ caller' = [caller EXCEPT ![c].at = "signal"]
     /\ UNCHANGED <<leaked, unused, message, messages, actor, collector, m_bStop>>
  \/ /\ caller[c].at = "signal"
     /\ Push("out", caller[c].msg)
     /\ caller' = [caller EXCEPT ![c].at = IF message[caller[c].msg].isSync
                                           THEN "wait" ELSE "idle"]
     /\ UNCHANGED <<leaked, unused, message, containerEvent, actor, collector, m_bStop>>

\* SendOutMessage: push under the lock, then containerOutEvent->Set; an
\* asynchronous message is out of the caller's hands once it is pushed.
CallerPushes(c) ==
  \/ /\ caller[c].at = "push"
     /\ Push("out", caller[c].msg)
     /\ caller' = [caller EXCEPT ![c].at = "signal",
                     ![c].msg = IF message[@].isSync THEN @ ELSE NoMessage]
     /\ UNCHANGED <<leaked, unused, message, containerEvent, actor, collector, m_bStop>>
  \/ /\ caller[c].at = "signal"
     /\ containerEvent' = [containerEvent EXCEPT !["out"] = TRUE]
     /\ caller' = [caller EXCEPT ![c].at = IF caller[c].msg = NoMessage
                                           THEN "idle" ELSE "wait"]
     /\ UNCHANGED <<leaked, unused, message, messages, actor, collector, m_bStop>>

\* WaitMSec returned true; the event is auto-reset.
CallerWakes(c) ==
  /\ caller[c].at = "wait"
  /\ message[caller[c].msg].event
  /\ message' = [message EXCEPT ![caller[c].msg].event = FALSE]
  /\ caller' = [caller EXCEPT ![c].at = "release",
                  ![c].retMsg = message[caller[c].msg].replyMessage]
  /\ UNCHANGED <<leaked, unused, messages, containerEvent, actor, collector, m_bStop>>

CallerTimesOut(c) ==
  /\ caller[c].at = "wait"
  /\ ~message[caller[c].msg].event
  /\ caller' = [caller EXCEPT ![c].at = "late"]
  /\ UNCHANGED <<leaked, unused, message, messages, containerEvent, actor, collector,
                 m_bStop>>

\* Mistake: the caller gives up without a look at replyMessage.
CallerGivesUpBlind(c) ==
  /\ caller[c].at = "late"
  /\ message' = [message EXCEPT ![caller[c].msg].isSyncTimeout = TRUE]
  /\ caller' = [caller EXCEPT ![c].at = "release"]
  /\ UNCHANGED <<leaked, unused, messages, containerEvent, actor, collector, m_bStop>>

\* After the timeout, under the lock: take a reply that came in between, or
\* tell the actor not to make one.
CallerGivesUp(c) ==
  /\ caller[c].at = "late"
  /\ LET m == caller[c].msg
     IN  IF message[m].replyMessage # NoMessage
         THEN /\ caller' = [caller EXCEPT ![c].at = "release",
                              ![c].retMsg = message[m].replyMessage]
              /\ UNCHANGED message
         ELSE /\ message' = [message EXCEPT ![m].isSyncTimeout = TRUE]
              /\ caller' = [caller EXCEPT ![c].at = "release"]
  /\ UNCHANGED <<leaked, unused, messages, containerEvent, actor, collector, m_bStop>>

\* msg->Release() of SendOutMessageSync, then reply->Release() of its caller.
CallerReleases(c) ==
  \/ /\ caller[c].at = "release"
     /\ Release(caller[c].msg)
     /\ caller' = [caller EXCEPT ![c].msg = NoMessage,
          ![c].at = IF caller[c].retMsg = NoMessage THEN "idle" ELSE "reply"]
     /\ UNCHANGED <<leaked, messages, containerEvent, actor, collector, m_bStop>>
  \/ /\ caller[c].at = "reply"
     /\ Release(caller[c].retMsg)
     /\ caller' = [caller EXCEPT ![c].retMsg = NoMessage, ![c].at = "idle"]
     /\ UNCHANGED <<leaked, messages, containerEvent, actor, collector, m_bStop>>

-----------------------------------------------------------------------------
\* The head of the actor's loop.
ActorReceives ==
  /\ actor.at = "loop"
  /\ ~m_bStop
  /\ \E m \in Messages : Receive("out", m) /\ actor' = [at |-> "handle", msg |-> m]
  /\ UNCHANGED <<leaked, unused, message, containerEvent, caller, collector, m_bStop>>

ActorFindsNothing ==
  /\ actor.at = "loop"
  /\ ~m_bStop
  /\ messages["out"] = <<>>
  /\ actor' = [actor EXCEPT !.at = "wait"]
  /\ UNCHANGED <<leaked, unused, message, messages, containerEvent, caller, collector,
                 m_bStop>>

\* m_outMsgEvent.WaitMSec returns true.
ActorWakes ==
  /\ actor.at = "wait"
  /\ containerEvent["out"]
  /\ containerEvent' = [containerEvent EXCEPT !["out"] = FALSE]
  /\ actor' = [actor EXCEPT !.at = "loop"]
  /\ UNCHANGED <<leaked, unused, message, messages, caller, collector, m_bStop>>

\* Its timeout: a message of the actor's own goes through the state machine.
ActorTimesOut ==
  /\ actor.at = "wait"
  /\ ~containerEvent["out"]
  /\ unused # {}
  /\ LET m == Unused IN
       /\ unused' = unused \ {m}
       /\ actor' = [at |-> "handled", msg |-> m]
  /\ UNCHANGED <<leaked, message, messages, containerEvent, caller, collector, m_bStop>>

\* Reply to a synchronous message, under the lock.
Reply ==
  /\ actor.at = "handle"
  /\ message[actor.msg].isSync
  /\ IF message[actor.msg].isSyncTimeout
     THEN UNCHANGED <<unused, message>>
     ELSE LET m == Unused IN
            /\ unused # {}
            /\ unused' = unused \ {m}
            /\ message' = [message EXCEPT ![actor.msg].replyMessage = m,
                 ![m] = [Cleared EXCEPT !.call = message[actor.msg].call]]
  /\ actor' = [actor EXCEPT !.at = "set"]
  /\ UNCHANGED <<leaked, messages, containerEvent, caller, collector, m_bStop>>

\* Reply to an asynchronous one: SendInMessage.
ReplyAsync ==
  /\ actor.at = "handle"
  /\ ~message[actor.msg].isSync
  /\ unused # {}
  /\ LET m == Unused IN
       /\ unused' = unused \ {m}
       /\ message' = [message EXCEPT ![m] =
            [Cleared EXCEPT !.call = message[actor.msg].call]]
       /\ Push("in", m)
  /\ actor' = [actor EXCEPT !.at = "set"]
  /\ UNCHANGED <<leaked, containerEvent, caller, collector, m_bStop>>

\* The end of Reply: event->Set, or containerInEvent->Set of SendInMessage.
ReplySets ==
  /\ actor.at = "set"
  /\ IF message[actor.msg].isSync
     THEN /\ message' = [message EXCEPT ![actor.msg].event = TRUE]
          /\ UNCHANGED containerEvent
     ELSE /\ containerEvent' = [containerEvent EXCEPT !["in"] = TRUE]
          /\ UNCHANGED message
  /\ actor' = [actor EXCEPT !.at = "handled"]
  /\ UNCHANGED <<leaked, unused, messages, caller, collector, m_bStop>>

\* PurgeOut(DEVICECHANGE), while a message is handled: what is taken out is
\* not released.  Callers send that signal asynchronously.  Bound: once.
PurgeOut ==
  /\ actor.at = "handle"
  /\ LET kept == {m \in Messages : message[m].isSync}
         dropped == ToSet(messages["out"]) \ kept
     IN  /\ dropped # {}
         /\ messages' = [messages EXCEPT !["out"] = SelectIn(@, kept)]
         /\ leaked = {}
         /\ leaked' = dropped
  /\ UNCHANGED <<unused, message, containerEvent, caller, actor, collector,
                 m_bStop>>

\* StateMachine returns without a reply; or it triggers itself once more.
NoReply ==
  /\ actor.at = "handle"
  /\ \E s \in {"handled", "again"} : actor' = [actor EXCEPT !.at = s]
  /\ UNCHANGED <<leaked, unused, message, messages, containerEvent, caller, collector,
                 m_bStop>>

ActorTriggersItself ==
  /\ actor.at = "again"
  /\ ~m_bStop
  /\ actor' = [actor EXCEPT !.at = "handle"]
  /\ UNCHANGED <<leaked, unused, message, messages, containerEvent, caller, collector,
                 m_bStop>>

ActorReleases ==
  /\ actor.at \in {"handled", "purge"}
  /\ Release(actor.msg)
  /\ actor' = [at |-> IF actor.at = "purge" THEN "ended" ELSE "loop",
               msg |-> NoMessage]
  /\ UNCHANGED <<leaked, messages, containerEvent, caller, collector, m_bStop>>

\* m_bStop = true; m_outMsgEvent.Set() of Dispose.
Dispose ==
  /\ ~m_bStop
  /\ m_bStop' = TRUE
  /\ containerEvent' = [containerEvent EXCEPT !["out"] = TRUE]
  /\ UNCHANGED <<leaked, unused, message, messages, caller, actor, collector>>

\* Process ends; the message it was to handle again is never released.
ActorEnds ==
  /\ m_bStop
  /\ actor.at \in {"loop", "again"}
  /\ leaked' = leaked \cup ({actor.msg} \ {NoMessage})
  /\ actor' = [at |-> "ended", msg |-> NoMessage]
  /\ UNCHANGED <<unused, message, messages, containerEvent, caller, collector, m_bStop>>

\* Purge, after StopThread.
PurgeReceives ==
  /\ actor.at = "ended"
  /\ \E d \in Directions, m \in Messages :
       /\ d = "out" => messages["in"] = <<>>
       /\ Receive(d, m)
       /\ actor' = [at |-> "purge", msg |-> m]
  /\ UNCHANGED <<leaked, unused, message, containerEvent, caller, collector, m_bStop>>

\* The thread on the other side: receives and releases what the actor sent, or
\* waits on containerInEvent.
CollectorReceives ==
  /\ collector = "loop"
  /\ \E m \in Messages : Receive("in", m) /\ Release(m)
  /\ UNCHANGED <<leaked, containerEvent, caller, actor, collector, m_bStop>>

CollectorWaits ==
  \/ /\ collector = "loop"
     /\ messages["in"] = <<>>
     /\ collector' = "wait"
     /\ UNCHANGED <<leaked, unused, message, messages, containerEvent, caller, actor, m_bStop>>
  \/ /\ collector = "wait"
     /\ containerEvent["in"]
     /\ containerEvent' = [containerEvent EXCEPT !["in"] = FALSE]
     /\ collector' = "loop"
     /\ UNCHANGED <<leaked, unused, message, messages, caller, actor, m_bStop>>

-----------------------------------------------------------------------------
CallerStep(c) ==
  CallerPushes(c) \/ CallerWakes(c) \/ CallerGivesUp(c) \/ CallerReleases(c)

ActorStep ==
  \/ ActorReceives \/ ActorFindsNothing \/ ActorWakes
  \/ Reply \/ ReplyAsync \/ ReplySets \/ NoReply \/ ActorTriggersItself
  \/ ActorReleases \/ ActorEnds \/ PurgeReceives

CollectorStep == CollectorReceives \/ CollectorWaits

ProtocolNext ==
  \/ \E c \in Callers :
       \/ \E sync \in BOOLEAN : CallerGets(c, sync)
       \/ CallerStep(c)
       \/ CallerTimesOut(c)
  \/ ActorStep
  \/ ActorTimesOut
  \/ PurgeOut
  \/ Dispose
  \/ CollectorStep

ProtocolSpec == ProtocolInit /\ [][ProtocolNext]_protocolVars

(***************************************************************************)
(* The threads are scheduled; no timeout is relied upon.                   *)
(***************************************************************************)
ProtocolFairness ==
  /\ \A c \in Callers : WF_protocolVars(CallerStep(c))
  /\ WF_protocolVars(ActorStep)
  /\ WF_protocolVars(CollectorStep)

ProtocolFairSpec == ProtocolSpec /\ ProtocolFairness

-----------------------------------------------------------------------------
\* The messages somebody has a pointer to: queued, with a thread, or the reply
\* of a message whose caller has still to look at it.
Reachable ==
  LET held == {actor.msg} \cup {caller[c].msg : c \in Callers}
                          \cup {caller[c].retMsg : c \in Callers}
      looks == {c \in Callers : caller[c].at \in {"signal", "wait", "late"}}
      replies == {message[caller[c].msg].replyMessage :
                    c \in {b \in looks : caller[b].msg # NoMessage}}
  IN  (ToSet(messages["out"]) \cup ToSet(messages["in"]) \cup held \cup replies)
        \ {NoMessage}

(***************************************************************************)
(* A message is deleted or recycled exactly when the last thread is done   *)
(* with it: none that somebody still reaches, and none left over but what  *)
(* PurgeOut and the end of the actor's thread drop, whatever the order of  *)
(* reply, timeout, purge and the two releases.                             *)
(***************************************************************************)
FreedWithTheLastReference ==
  ProtocolTypeOK /\ unused = Messages \ (Reachable \cup leaked)

(***************************************************************************)
(* The reply a synchronous call returns answers that very call, although   *)
(* Message objects are reused while a late actor may still be replying.    *)
(***************************************************************************)
RepliesAnswerTheCall ==
  \A c \in Callers :
    caller[c].retMsg # NoMessage =>
      message[caller[c].retMsg].call = <<c, caller[c].parity>>

(***************************************************************************)
(* The messages of both directions are received, as long as the state      *)
(* machine does not trigger itself for ever: again and again a queue is    *)
(* empty or its first message taken.  A wakeup is never lost between the   *)
(* receiver's look at its queues and its wait.                             *)
(***************************************************************************)
SentMessagesAreReceived ==
  \/ \A d \in Directions :
       \/ []<>(messages[d] = <<>>)
       \/ []<><<messages[d] # <<>> /\ messages'[d] = Tail(messages[d])>>_protocolVars
  \/ []<>(actor.at = "again")

=============================================================================
