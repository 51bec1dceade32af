--------------------------- MODULE DVDMessageQueue ---------------------------
(***************************************************************************)
(* CDVDMessageQueue (xbmc/cores/VideoPlayer/DVDMessageQueue.cpp): the      *)
(* mailbox of a stream player.  CVideoPlayer's thread and others put       *)
(* messages into it; the stream player's thread is its only consumer.      *)
(*                                                                         *)
(* Every member function runs inside m_section, Get leaves it only to wait *)
(* on m_hEvent, a manual-reset event.  The two lists are sequences, front  *)
(* first; Get takes from the back.  A message is in a list at most once,   *)
(* so the priority of its list item is a function of the message.  The     *)
(* time stamps, which only GetLevel and GetTimeSize use, are left out.     *)
(*                                                                         *)
(* Definitions marked "Mistake" are not part of the model: each is a       *)
(* plausible error in the definition after it.                             *)
(***************************************************************************)
EXTENDS Integers, Sequences, SequencesExt, FiniteSets, SequenceFilter

CONSTANTS Msgs,            \* the CDVDMsg objects producers will ever create
          NoMsg,
          Packets,         \* those of type DEMUXER_PACKET
          Synchronizers,   \* those of type GENERAL_SYNCHRONIZE
          Size,            \* packet -> its first iSize
          Priorities,      \* the priorities in use; packets count at 0 only
          FlushTypes       \* the sets of messages Flush(type) is called for

ASSUME MsgsAssumption ==
  /\ NoMsg \notin Msgs
  /\ Packets \subseteq Msgs
  /\ Synchronizers \subseteq Msgs \ Packets
ASSUME PrioritiesAssumption == {0, 1} \subseteq Priorities /\ Priorities \subseteq Nat
ASSUME PacketsAssumption == Size \in [Packets -> Nat \ {0}]
ASSUME FlushAssumption ==
  FlushTypes \subseteq {Packets} \cup SUBSET (Msgs \ Packets)

VARIABLES
  m_messages,       \* the list of the messages of priority 0
  m_prioMessages,   \* the list of the others, ordered by priority
  itemPriority,     \* DVDMessageListItem::priority of each message
  m_iDataSize,
  m_bAbortRequest,
  m_bInitialized,
  m_hEvent,         \* the signaled flag of the event
  iSize,            \* DemuxPacket::iSize: what is left to decode of a packet
  fresh,            \* the messages not created yet
  cpc,              \* where the consumer's thread is
  cpriority,        \* the priority it asked Get for
  held              \* the message it handles

listVars == <<m_messages, m_prioMessages, itemPriority>>
consumerVars == <<cpc, cpriority, held>>
vars == <<listVars, m_iDataSize, m_bAbortRequest, m_bInitialized,
          m_hEvent, iSize, fresh, consumerVars>>

(***************************************************************************)
(* "off"     the thread is not running                                     *)
(* "call"    about to call Get                                             *)
(* "wait"    in Get, m_section left, in m_hEvent.WaitMSec                  *)
(* "again"   in Get, the wait returned true, about to enter m_section      *)
(* "handle"  Get returned a message                                        *)
(***************************************************************************)
TypeOK ==
  /\ m_messages \in Seq(Msgs)
  /\ m_prioMessages \in Seq(Msgs)
  /\ itemPriority \in [Msgs -> Priorities]
  /\ m_iDataSize \in Nat
  /\ m_bAbortRequest \in BOOLEAN
  /\ m_bInitialized \in BOOLEAN
  /\ m_hEvent \in BOOLEAN
  /\ iSize \in [Packets -> Nat]
  /\ fresh \in SUBSET Msgs
  /\ cpc \in {"off", "call", "wait", "again", "handle"}
  /\ cpriority \in {0, 1}
  /\ held \in Msgs \cup {NoMsg}

Init ==
  /\ m_messages = <<>>
  /\ m_prioMessages = <<>>
  /\ itemPriority = [m \in Msgs |-> 0]
  /\ m_iDataSize = 0
  /\ m_bAbortRequest = FALSE
  /\ m_bInitialized = FALSE
  /\ m_hEvent = FALSE
  /\ iSize = Size
  /\ fresh = Msgs
  /\ cpc = "off" /\ cpriority = 0 /\ held = NoMsg

-----------------------------------------------------------------------------
(***************************************************************************)
(* The owner opens and closes the stream.  m_hEvent keeps its value from   *)
(* one stream to the next.                                                 *)
(***************************************************************************)
OpenStream ==
  /\ ~m_bInitialized
  /\ m_iDataSize' = 0
  /\ m_bAbortRequest' = FALSE
  /\ m_bInitialized' = TRUE
  /\ cpc' = "call"
  /\ UNCHANGED <<listVars, m_hEvent, iSize, fresh, cpriority, held>>

\* Mistake: the sleeping consumer is not woken.
AbortSilently ==
  /\ m_bInitialized
  /\ ~m_bAbortRequest
  /\ m_bAbortRequest' = TRUE
  /\ UNCHANGED <<listVars, m_iDataSize, m_bInitialized, m_hEvent, iSize,
                 fresh, consumerVars>>

Abort ==
  /\ m_bInitialized
  /\ ~m_bAbortRequest
  /\ m_bAbortRequest' = TRUE
  /\ m_hEvent' = TRUE
  /\ UNCHANGED <<listVars, m_iDataSize, m_bInitialized, iSize, fresh,
                 consumerVars>>

Without(s, ms) == SelectIn(s, Msgs \ ms)

\* Mistake: the size of what is flushed is kept.
FlushKeepsSize(ms) ==
  /\ m_messages' = Without(m_messages, ms)
  /\ m_prioMessages' = Without(m_prioMessages, ms)
  /\ UNCHANGED <<itemPriority, m_iDataSize, m_bAbortRequest, m_bInitialized,
                 m_hEvent, iSize, fresh, consumerVars>>

\* Flush(type): ms are the messages of that type.
Flush(ms) ==
  /\ m_messages' = Without(m_messages, ms)
  /\ m_prioMessages' = Without(m_prioMessages, ms)
  /\ m_iDataSize' = IF ms \cap Packets # {} THEN 0 ELSE m_iDataSize
  /\ UNCHANGED <<itemPriority, m_bAbortRequest, m_bInitialized, m_hEvent, iSize,
                 fresh, consumerVars>>

\* End, called when the consumer's thread has been joined: Flush(NONE) first.
End ==
  /\ m_bInitialized
  /\ m_bAbortRequest
  /\ cpc = "off"
  /\ m_messages' = <<>>
  /\ m_prioMessages' = <<>>
  /\ m_iDataSize' = 0
  /\ m_bInitialized' = FALSE
  /\ m_bAbortRequest' = FALSE
  /\ UNCHANGED <<itemPriority, m_hEvent, iSize, fresh, consumerVars>>

-----------------------------------------------------------------------------
\* The messages less urgent than p, and the others.
Below(p) == SelectIn(m_prioMessages, {m \in Msgs : itemPriority[m] < p})
AtLeast(p) == SelectIn(m_prioMessages, {m \in Msgs : itemPriority[m] >= p})

\* Mistake: put behind the messages of equal priority, so served before them.
PrioListLifo(m, p, front) == Below(p + 1) \o <<m>> \o AtLeast(p + 1)

\* m goes before the first item of at least its priority, or, with front false,
\* of a higher one.
PrioList(m, p, front) ==
  LET prio == IF front THEN p ELSE p + 1 IN Below(prio) \o <<m>> \o AtLeast(prio)

\* Put counts a packet only when its priority is 0.
Counted(m, p) == m \in Packets /\ p = 0

\* Mistake: only the first message wakes the consumer.
PutSignalsFirst(m, p, front) ==
  /\ m_bInitialized
  /\ itemPriority' = [itemPriority EXCEPT ![m] = p]
  /\ IF p > 0
     THEN m_prioMessages' = PrioList(m, p, front) /\ UNCHANGED m_messages
     ELSE /\ m_messages' = IF front THEN <<m>> \o m_messages ELSE Append(m_messages, m)
          /\ UNCHANGED m_prioMessages
  /\ m_iDataSize' = IF Counted(m, p) THEN m_iDataSize + iSize'[m] ELSE m_iDataSize
  /\ m_hEvent' = (m_hEvent \/ m_messages \o m_prioMessages = <<>>)
  /\ UNCHANGED <<m_bAbortRequest, m_bInitialized>>

(***************************************************************************)
(* Put on an initialized queue; front says which end of the list.          *)
(***************************************************************************)
Put(m, p, front) ==
  /\ m_bInitialized
  /\ itemPriority' = [itemPriority EXCEPT ![m] = p]
  /\ IF p > 0
     THEN m_prioMessages' = PrioList(m, p, front) /\ UNCHANGED m_messages
     ELSE /\ m_messages' = IF front THEN <<m>> \o m_messages ELSE Append(m_messages, m)
          /\ UNCHANGED m_prioMessages
  /\ m_iDataSize' = IF Counted(m, p) THEN m_iDataSize + iSize'[m] ELSE m_iDataSize
  /\ m_hEvent' = TRUE
  /\ UNCHANGED <<m_bAbortRequest, m_bInitialized>>

\* A producer sends a new message.
Send(m, p) ==
  /\ m \in fresh
  /\ UNCHANGED iSize
  /\ Put(m, p, TRUE)
  /\ fresh' = fresh \ {m}
  /\ UNCHANGED consumerVars

\* Put on a queue that is not initialized releases the message.
SendRefused(m) ==
  /\ m \in fresh
  /\ ~m_bInitialized
  /\ fresh' = fresh \ {m}
  /\ UNCHANGED <<listVars, m_iDataSize, m_bAbortRequest, m_bInitialized,
                 m_hEvent, iSize, consumerVars>>

-----------------------------------------------------------------------------
\* The list Get looks at, and the message at its back if it is urgent enough.
Source(p) == IF p > 0 \/ m_prioMessages # <<>> THEN m_prioMessages ELSE m_messages
Deliverable(p) == Source(p) # <<>> /\ itemPriority[Last(Source(p))] >= p

\* The two ways into Get's critical section.
InGet(p) ==
  \/ cpc = "call" /\ p \in {0, 1}
  \/ cpc = "again" /\ p = cpriority

GetTakes(p) ==
  /\ InGet(p)
  /\ ~m_bAbortRequest
  /\ Deliverable(p)
  /\ LET m == Last(Source(p)) IN
     /\ held' = m
     /\ IF Source(p) = m_prioMessages
        THEN m_prioMessages' = Front(m_prioMessages) /\ UNCHANGED m_messages
        ELSE m_messages' = Front(m_messages) /\ UNCHANGED m_prioMessages
     /\ m_iDataSize' = m_iDataSize - IF Counted(m, itemPriority[m]) THEN iSize[m] ELSE 0
  /\ cpc' = "handle"
  /\ cpriority' = 0
  /\ UNCHANGED <<itemPriority, m_bAbortRequest, m_bInitialized,
                 m_hEvent, iSize, fresh>>

\* Nothing to deliver (a timeout of 0 returns at once, with nothing changed):
\* reset the event, leave m_section, wait.
GetSleeps(p) ==
  /\ InGet(p)
  /\ ~m_bAbortRequest
  /\ ~Deliverable(p)
  /\ m_hEvent' = FALSE
  /\ cpc' = "wait"
  /\ cpriority' = p
  /\ UNCHANGED <<listVars, m_iDataSize, m_bAbortRequest, m_bInitialized,
                 iSize, fresh, held>>

WaitReturns ==
  /\ cpc = "wait"
  /\ m_hEvent
  /\ cpc' = "again"
  /\ UNCHANGED <<listVars, m_iDataSize, m_bAbortRequest, m_bInitialized,
                 m_hEvent, iSize, fresh, cpriority, held>>

\* MSGQ_TIMEOUT: the consumer calls Get again.
WaitExpires ==
  /\ cpc = "wait"
  /\ ~m_hEvent
  /\ cpc' = "call"
  /\ cpriority' = 0
  /\ UNCHANGED <<listVars, m_iDataSize, m_bAbortRequest, m_bInitialized,
                 m_hEvent, iSize, fresh, held>>

\* MSGQ_ABORT: the consumer's thread leaves its loop.
GetAborts ==
  /\ \E p \in {0, 1} : InGet(p)
  /\ m_bAbortRequest
  /\ cpc' = "off"
  /\ cpriority' = 0
  /\ UNCHANGED <<listVars, m_iDataSize, m_bAbortRequest, m_bInitialized,
                 m_hEvent, iSize, fresh, held>>

-----------------------------------------------------------------------------
HandleDone ==
  /\ cpc = "handle"
  /\ cpc' = "call"
  /\ held' = NoMsg
  /\ UNCHANGED <<listVars, m_iDataSize, m_bAbortRequest, m_bInitialized,
                 m_hEvent, iSize, fresh, cpriority>>

\* A synchronize message that not everybody has reached goes back at priority 1.
PutBackUrgent ==
  /\ cpc = "handle"
  /\ held \in Synchronizers
  /\ UNCHANGED iSize
  /\ Put(held, 1, TRUE)
  /\ cpc' = "call"
  /\ held' = NoMsg
  /\ UNCHANGED <<fresh, cpriority>>

\* CVideoPlayerAudio puts back what is left of a packet, to be served next.
PutBackRest ==
  /\ cpc = "handle"
  /\ held \in Packets
  /\ iSize[held] > 1
  /\ iSize' = [iSize EXCEPT ![held] = @ - 1]
  /\ Put(held, 0, FALSE)
  /\ cpc' = "call"
  /\ held' = NoMsg
  /\ UNCHANGED <<fresh, cpriority>>

-----------------------------------------------------------------------------
ConsumerStep ==
  \/ \E p \in {0, 1} : GetTakes(p) \/ GetSleeps(p)
  \/ WaitReturns
  \/ GetAborts
  \/ HandleDone
  \/ PutBackUrgent
  \/ PutBackRest

Next ==
  \/ OpenStream
  \/ Abort
  \/ End
  \/ \E ms \in FlushTypes : m_bInitialized /\ Flush(ms)
  \/ \E m \in Msgs : SendRefused(m) \/ \E p \in Priorities : Send(m, p)
  \/ ConsumerStep
  \/ WaitExpires

Spec == Init /\ [][Next]_vars

(***************************************************************************)
(* The consumer's thread is scheduled and handles a message in finite      *)
(* time.  The timeout of its wait is not relied upon, and nobody has to    *)
(* send, flush or close anything.                                          *)
(***************************************************************************)
Fairness == WF_vars(ConsumerStep)

FairSpec == Spec /\ Fairness

-----------------------------------------------------------------------------
(***************************************************************************)
(* Safety                                                                  *)
(***************************************************************************)
\* What is left to decode of some packets, byte by byte.
Bytes(packets) == UNION {{m} \X (1 .. iSize[m]) : m \in packets}

(***************************************************************************)
(* m_iDataSize, which Put and Get update by the packet in their hands, is  *)
(* the size of the packets in m_messages, through flushes by type, packets *)
(* put at an urgent priority and packets put back after a part was decoded.*)
(***************************************************************************)
DataSizeIsWhatIsQueued ==
  /\ TypeOK
  /\ m_iDataSize = Cardinality(Bytes(ToSet(m_messages) \cap Packets))

(***************************************************************************)
(* No lost wakeup: Get resets the event inside m_section and waits outside *)
(* it, yet the consumer never sleeps on an unset event while the queue     *)
(* holds a message it asked for or was aborted.                            *)
(***************************************************************************)
NoSleepOnWork ==
  cpc = "wait" /\ ~m_hEvent => ~m_bAbortRequest /\ ~Deliverable(cpriority)

-----------------------------------------------------------------------------
Line(p) == IF p = 0 THEN m_messages
           ELSE SelectIn(m_prioMessages, {m \in Msgs : itemPriority[m] = p})

Service == INSTANCE MessageService WITH
  lines <- [p \in Priorities |-> Reverse(Line(p))],
  serving <- held,
  open <- m_bInitialized

(***************************************************************************)
(* The two lists, one of them sorted on insertion and both read from the   *)
(* back, are one first-in first-out line per priority: Get delivers the    *)
(* oldest of the most urgent messages, and only a packet that was put back *)
(* jumps its line.                                                         *)
(***************************************************************************)
ImplementsMessageService == Service!Spec

(***************************************************************************)
(* Liveness                                                                *)
(***************************************************************************)
\* Abort ends the consumer's thread wherever it is, although Get checks the
\* flag outside its wait only: StopThread, which follows, does not hang.
AbortEndsTheConsumer == m_bAbortRequest ~> cpc = "off"

\* A message put above priority 0 is delivered or dropped, or the queue is
\* aborted, whatever the consumer asks for and although synchronize messages
\* keep coming back.
UrgentMessagesAreServed ==
  \A m \in Msgs :
    m \in ToSet(m_prioMessages) ~> m \notin ToSet(m_prioMessages) \/ m_bAbortRequest

\* The consumer never sleeps through an abort or an urgent message.
ConsumerAnswers == AbortEndsTheConsumer /\ UrgentMessagesAreServed

=============================================================================
