------------------------ MODULE ApplicationMessenger ------------------------
(***************************************************************************)
(* CApplicationMessenger (xbmc/messaging/ApplicationMessenger.cpp): any    *)
(* thread hands a message to the application thread, which works off two   *)
(* queues in CApplication::Process, and may wait for the result.           *)
(*                                                                         *)
(* A handler may open a dialog, whose render loop calls Process again:     *)
(* frames is the stack of the loops on the application thread.  A handler  *)
(* may also run CApplication::Stop, which waits for the threads of the job *)
(* manager and then cleans up the queues.                                  *)
(***************************************************************************)
EXTENDS Integers, Sequences, SequencesExt, FiniteSets

CONSTANTS Senders,     \* threads other than the application's
          JobThreads,  \* those of them that are workers of CJobManager
          NoSender,    \* a frame's message when it has none
          MaxDepth,    \* bound: nested calls of Process
          MaxQueued    \* bound: messages in the queues or on their way

ASSUME SendersAssumption == JobThreads \subseteq Senders /\ NoSender \notin Senders
ASSUME BoundsAssumption == MaxDepth \in Nat \ {0} /\ MaxQueued \in Nat \ {0}

Loops == {"window", "message"}   \* ProcessWindowMessages, ProcessMessages

\* A message is its sender and whether the sender waits for it.
ThreadMessages == [from : Senders, waitEvent : BOOLEAN]
NoMsg == [from |-> NoSender, waitEvent |-> FALSE]

VARIABLES
  vecMessages,  \* m_vecWindowMessages and m_vecMessages, front first
  frames,       \* the loops the application thread is in, innermost first
  sender,       \* where each sender is in SendMsg
  waitEvent,    \* the (manual-reset) event of the sender's call is signaled
  stage         \* how far CApplication::Stop is

messengerVars == <<vecMessages, frames, sender, waitEvent, stage>>

MessengerTypeOK ==
  /\ vecMessages \in [Loops -> Seq(ThreadMessages)]
  /\ frames \in Seq([loop : Loops, msg : ThreadMessages \cup {NoMsg}])
  /\ sender \in [Senders -> {"idle", "checked", "wait"}]
  /\ waitEvent \in [Senders -> BOOLEAN]
  /\ stage \in {"running", "cancelJobs", "stopped", "gone"}

MessengerInit ==
  /\ vecMessages = [l \in Loops |-> <<>>]
  /\ frames = <<>>
  /\ sender = [s \in Senders |-> "idle"]
  /\ waitEvent = [s \in Senders |-> FALSE]
  /\ stage = "running"

MessengerStopped == stage # "running"

-----------------------------------------------------------------------------
\* SendMsg and PostMsg, up to the check of m_bStop.  Bound: MaxQueued.
SenderChecks(s) ==
  /\ sender[s] = "idle"
  /\ ~MessengerStopped
  /\ Len(vecMessages["window"]) + Len(vecMessages["message"])
       + Cardinality({t \in Senders : sender[t] = "checked"}) < MaxQueued
  /\ sender' = [sender EXCEPT ![s] = "checked"]
  /\ waitEvent' = [waitEvent EXCEPT ![s] = FALSE]
  /\ UNCHANGED <<vecMessages, frames, stage>>

\* The critical section of SendMsg; a posted message is not waited for.
SenderPushes(s, l, wait) ==
  /\ sender[s] = "checked"
  /\ vecMessages' = [vecMessages EXCEPT ![l] =
                       Append(@, [from |-> s, waitEvent |-> wait])]
  /\ sender' = [sender EXCEPT ![s] = IF wait THEN "wait" ELSE "idle"]
  /\ UNCHANGED <<frames, waitEvent, stage>>

\* waitEvent->Wait() returns.
SenderReturns(s) ==
  /\ sender[s] = "wait"
  /\ waitEvent[s]
  /\ sender' = [sender EXCEPT ![s] = "idle"]
  /\ UNCHANGED <<vecMessages, frames, waitEvent, stage>>

-----------------------------------------------------------------------------
Handling == frames # <<>> /\ frames[1].msg # NoMsg
Looping == frames # <<>> /\ frames[1].msg = NoMsg

\* The application thread is not inside CJobManager::CancelJobs.
AppRuns == stage # "cancelJobs"

Enter == frames' = <<[loop |-> "window", msg |-> NoMsg]>> \o frames

\* CApplication::Process, from the main loop.
AppProcesses ==
  /\ frames = <<>>
  /\ stage = "running"
  /\ Enter
  /\ UNCHANGED <<vecMessages, sender, waitEvent, stage>>

\* A handler runs the render loop of a dialog.
HandlerNests ==
  /\ Handling
  /\ AppRuns
  /\ Len(frames) < MaxDepth
  /\ Enter
  /\ UNCHANGED <<vecMessages, sender, waitEvent, stage>>

\* Mistake: the message stays in the queue while it is handled.
LoopTakesCopy ==
  /\ Looping
  /\ vecMessages[frames[1].loop] # <<>>
  /\ frames' = [frames EXCEPT ![1].msg = Head(vecMessages[frames[1].loop])]
  /\ UNCHANGED <<vecMessages, sender, waitEvent, stage>>

\* The loop pops the front message, under the lock.
LoopTakes ==
  /\ Looping
  /\ vecMessages[frames[1].loop] # <<>>
  /\ frames' = [frames EXCEPT ![1].msg = Head(vecMessages[frames[1].loop])]
  /\ vecMessages' = [vecMessages EXCEPT ![frames[1].loop] = Tail(@)]
  /\ UNCHANGED <<sender, waitEvent, stage>>

\* The queue is empty: on to ProcessMessages, then out of Process.
LoopEnds ==
  /\ Looping
  /\ vecMessages[frames[1].loop] = <<>>
  /\ frames' = IF frames[1].loop = "window"
               THEN [frames EXCEPT ![1].loop = "message"]
               ELSE Tail(frames)
  /\ UNCHANGED <<vecMessages, sender, waitEvent, stage>>

\* Events of the messages ms that are waited for.
SetEvents(ms) ==
  waitEvent' = [s \in Senders |-> waitEvent[s] \/
                  \E m \in ms : m.from = s /\ m.waitEvent]

\* ProcessMessage returns; waitEvent->Set().
HandlerReturns ==
  /\ Handling
  /\ AppRuns
  /\ SetEvents({frames[1].msg})
  /\ frames' = [frames EXCEPT ![1].msg = NoMsg]
  /\ UNCHANGED <<vecMessages, sender, stage>>

\* CApplication::Stop, in a handler: m_bStop, CancelJobs, Cleanup.
StopBegins ==
  /\ Handling
  /\ stage = "running"
  /\ stage' = "cancelJobs"
  /\ UNCHANGED <<vecMessages, frames, sender, waitEvent>>

\* CancelJobs has returned: no worker thread is left.
JobThreadsAreGone == \A s \in JobThreads : sender[s] = "idle"

\* Mistake: the messages are deleted, the senders not told.
CleanupSilently ==
  /\ stage = "cancelJobs"
  /\ JobThreadsAreGone
  /\ vecMessages' = [l \in Loops |-> <<>>]
  /\ stage' = "stopped"
  /\ UNCHANGED <<frames, sender, waitEvent>>

Cleanup ==
  /\ stage = "cancelJobs"
  /\ JobThreadsAreGone
  /\ SetEvents(UNION {ToSet(vecMessages[l]) : l \in Loops})
  /\ vecMessages' = [l \in Loops |-> <<>>]
  /\ stage' = "stopped"
  /\ UNCHANGED <<frames, sender>>

\* The main loop has ended; ~CApplicationMessenger cleans up once more.
Destroy ==
  /\ stage = "stopped"
  /\ frames = <<>>
  /\ SetEvents(UNION {ToSet(vecMessages[l]) : l \in Loops})
  /\ vecMessages' = [l \in Loops |-> <<>>]
  /\ stage' = "gone"
  /\ UNCHANGED <<frames, sender>>

-----------------------------------------------------------------------------
AppStep ==
  \/ AppProcesses \/ LoopTakes \/ LoopEnds \/ HandlerReturns
  \/ Cleanup \/ Destroy

SenderSends(s) == \E l \in Loops, wait \in BOOLEAN : SenderPushes(s, l, wait)

MessengerNext ==
  \/ AppStep
  \/ HandlerNests
  \/ StopBegins
  \/ \E s \in Senders : SenderChecks(s) \/ SenderSends(s) \/ SenderReturns(s)

MessengerSpec == MessengerInit /\ [][MessengerNext]_messengerVars

(***************************************************************************)
(* The application thread runs; a handler does not open dialogs for ever   *)
(* (strong fairness, for each depth); a sender that is in SendMsg goes on. *)
(***************************************************************************)
MessengerFairness ==
  /\ WF_messengerVars(AppStep)
  /\ \A d \in 1 .. MaxDepth :
       SF_messengerVars(Len(frames) = d /\ HandlerReturns)
  /\ \A s \in Senders : WF_messengerVars(SenderSends(s))
  /\ \A s \in Senders : WF_messengerVars(SenderReturns(s))

MessengerFairSpec == MessengerSpec /\ MessengerFairness

-----------------------------------------------------------------------------
\* The message whose handling sender s waits for.
Awaited(s) == [from |-> s, waitEvent |-> TRUE]

\* Where it is: in the queues and in the hands of the loops.
QueuePlaces(s, l) == {l} \X {i \in DOMAIN vecMessages[l] : vecMessages[l][i] = Awaited(s)}
FramePlaces(s) == {"frames"} \X {i \in DOMAIN frames : frames[i].msg = Awaited(s)}
Places(s) == QueuePlaces(s, "window") \cup QueuePlaces(s, "message") \cup FramePlaces(s)

(***************************************************************************)
(* A sender waits for exactly one message, which is in one queue or in the *)
(* hands of one of the nested loops until it has been handled or cleaned   *)
(* up: it is never handled twice ("else the message could be processed     *)
(* more then once"), a sender is never left with an event nobody will set, *)
(* nor woken before its result is there.                                   *)
(***************************************************************************)
OneMessageForOneWait ==
  /\ MessengerTypeOK
  /\ \A s \in Senders :
       Cardinality(Places(s)) = IF sender[s] = "wait" /\ ~waitEvent[s] THEN 1 ELSE 0

(***************************************************************************)
(* A sender that sent before the application stopped returns: its message  *)
(* is handled or cleaned up.  Two exceptions the code has: messages that   *)
(* never end keep an inner loop busy, and Stop waits in CancelJobs for a   *)
(* job that itself waits for the application thread.                       *)
(***************************************************************************)
SendersReturn ==
  \/ \A s \in Senders : sender[s] = "wait" /\ ~MessengerStopped ~> sender[s] # "wait"
  \/ []<><<\E s \in Senders : SenderSends(s)>>_messengerVars
  \/ <>[](stage = "cancelJobs" /\ \E s \in JobThreads : sender[s] = "wait")

=============================================================================
