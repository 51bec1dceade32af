---------------------------- MODULE RenderManager ----------------------------
(***************************************************************************)
(* CRenderManager (xbmc/cores/VideoPlayer/VideoRenderers/RenderManager.cpp *)
(* and OutputPicture of VideoPlayerVideo.cpp): the video thread fills      *)
(* picture buffers that the application thread shows.  Three queues and    *)
(* m_presentsource share the buffers; m_presentlock guards them, m_datalock*)
(* the pictures, m_statelock the configuration, and the video thread drops *)
(* the locks between choosing, writing and queueing a buffer.              *)
(*                                                                         *)
(* The clocks are left out: whether a frame is due, late, or wanted by the *)
(* renderer for reference is chosen.  There always is a renderer: PreInit  *)
(* has created one, and one can be created for every format.               *)
(***************************************************************************)
EXTENDS Integers, Sequences, SequencesExt, FiniteSets, SequenceFilter

CONSTANTS m_QueueSize,  \* buffers the renderer asks for
          Formats,      \* formats of the pictures
          NoFormat      \* RENDER_FMT_NONE

ASSUME QueueSizeAssumption == m_QueueSize \in Nat /\ m_QueueSize >= 2
ASSUME FormatsAssumption == NoFormat \notin Formats

Buffers == 0 .. m_QueueSize - 1

VARIABLES
  m_free, m_queued, m_discard,  \* sequences of buffers, front first
  m_presentsource,  \* the buffer on the screen
  m_presentstep,
  doublePass,       \* of those not free, the ones to show with BOB or WEAVE
  m_bRenderGUI,
  m_renderState,
  m_format,         \* of the configuration asked for last
  m_stateEvent,
  frame,            \* where the application thread is
  output,           \* where the video thread is, in OutputPicture
  index,            \* the buffer it writes or has written
  reset             \* history: the queues were reset since it began

renderVars == <<m_free, m_queued, m_discard, m_presentsource, m_presentstep,
                doublePass, m_bRenderGUI, m_renderState, m_format,
                m_stateEvent, frame, output, index, reset>>

(***************************************************************************)
(* The video thread: "idle"; in Configure(picture) "present" (waits for    *)
(* PRESENT_IDLE), "state" (about to lock m_statelock), "event" (waits for  *)
(* m_stateEvent); "buffer" and "discard" in WaitForBuffer; "add" and       *)
(* "write" in AddVideoPicture; "flip" before FlipPage.                     *)
(***************************************************************************)
RenderTypeOK ==
  /\ \A q \in {m_free, m_queued, m_discard} : q \in Seq(Buffers)
  /\ m_presentsource \in Buffers
  /\ m_presentstep \in {"IDLE", "READY", "FRAME", "FRAME2"}
  /\ doublePass \subseteq Buffers
  /\ m_bRenderGUI \in BOOLEAN
  /\ m_renderState \in {"UNCONFIGURED", "CONFIGURING", "CONFIGURED"}
  /\ m_format \in Formats \cup {NoFormat}
  /\ m_stateEvent \in BOOLEAN
  /\ frame \in {"move", "present", "render"}
  /\ output \in {"idle", "present", "state", "event", "buffer", "discard",
                 "add", "write", "flip"}
  /\ index \in Buffers
  /\ reset \in BOOLEAN

RenderInit ==
  /\ m_free = <<>> /\ m_queued = <<>> /\ m_discard = <<>>
  /\ m_presentsource = 0
  /\ m_presentstep = "IDLE"
  /\ doublePass = {}
  /\ m_bRenderGUI = TRUE
  /\ m_renderState = "UNCONFIGURED"
  /\ m_format = NoFormat
  /\ m_stateEvent = FALSE
  /\ frame = "move"
  /\ output = "idle"
  /\ index = 0
  /\ reset = FALSE

queueVars == <<m_free, m_queued, m_discard, m_presentsource, m_presentstep,
               doublePass, m_bRenderGUI>>
stateVars == <<m_renderState, m_format, m_stateEvent>>
videoVars == <<output, index, reset>>

-----------------------------------------------------------------------------
\* All buffers but the first one are free.
ResetQueues ==
  /\ m_queued' = <<>>
  /\ m_discard' = <<>>
  /\ m_free' = [i \in 1 .. m_QueueSize - 1 |-> i]
  /\ m_presentsource' = 0
  /\ m_presentstep' = "IDLE"
  /\ doublePass' = {}
  /\ reset' = (output # "idle")

\* FrameMove, its first part: Configure() under all three locks, if asked for.
AppConfigures ==
  /\ frame = "move"
  /\ m_renderState = "CONFIGURING"
  /\ m_stateEvent' = TRUE
  /\ \/ /\ ResetQueues
        /\ m_bRenderGUI' = TRUE
        /\ m_renderState' = "CONFIGURED"
        /\ frame' = "present"
     \/ /\ m_renderState' = "UNCONFIGURED"
        /\ frame' = "render"
        /\ UNCHANGED <<m_free, m_queued, m_discard, m_presentsource,
                       m_presentstep, doublePass, m_bRenderGUI, reset>>
  /\ UNCHANGED <<m_format, output, index>>

FrameMoves ==
  /\ frame = "move"
  /\ m_renderState # "CONFIGURING"
  /\ frame' = IF m_renderState = "CONFIGURED" THEN "present" ELSE "render"
  /\ UNCHANGED <<queueVars, stateVars, videoVars>>

-----------------------------------------------------------------------------
\* A stage of the queues while FrameMove works on them.
Stage == [step |-> m_presentstep, source |-> m_presentsource,
          queued |-> m_queued, discard |-> m_discard]

\* Mistake: the buffer shown before is not given back.
FlipForgets(s, n) ==
  [step |-> "FRAME", source |-> s.queued[n],
   queued |-> SubSeq(s.queued, n + 1, Len(s.queued)),
   discard |-> s.discard \o SubSeq(s.queued, 1, n - 1)]

\* The end of PrepareNextRender when n - 1 late frames are skipped; FrameMove
\* turns PRESENT_FLIP into PRESENT_FRAME at once.
Flip(s, n) ==
  [step |-> "FRAME", source |-> s.queued[n],
   queued |-> SubSeq(s.queued, n + 1, Len(s.queued)),
   discard |-> Append(s.discard \o SubSeq(s.queued, 1, n - 1), s.source)]

\* What PrepareNextRender may make of s; it flips when a frame is due.
Prepared(s, due) ==
  IF s.queued = <<>> THEN {[s EXCEPT !.step = "IDLE"]}
  ELSE IF due THEN {Flip(s, n) : n \in 1 .. Len(s.queued)}
  ELSE {s}

\* A second field gives way to the next frame.
Begun(s) == IF s.step = "FRAME2" /\ s.queued # <<>>
            THEN [s EXCEPT !.step = "READY"] ELSE s

\* Mistake: a released buffer is the next one to be filled.
ReleasedFirst(d, kept) == SelectIn(d, Buffers \ kept) \o m_free

\* m_free once the buffers of d that the renderer does not keep are released.
Released(d, kept) == m_free \o SelectIn(d, Buffers \ kept)

\* FrameMove, its second part, under m_presentlock.
FramePresents(due) ==
  /\ frame = "present"
  /\ \E s \in IF Begun(Stage).step = "READY" THEN Prepared(Begun(Stage), due)
              ELSE {Begun(Stage)} :
     \E kept \in SUBSET ToSet(s.discard) :
       /\ ~m_bRenderGUI => kept = {}
       /\ m_presentstep' = s.step
       /\ m_presentsource' = s.source
       /\ m_queued' = s.queued
       /\ m_free' = Released(s.discard, kept)
       /\ m_discard' = SelectIn(s.discard, kept)
       /\ doublePass' = doublePass \ ToSet(m_free')
  /\ m_bRenderGUI' = TRUE
  /\ frame' = "render"
  /\ UNCHANGED <<stateVars, videoVars>>

\* Mistake: the frame after the one just shown has to wait for a FlipPage.
StepAfterStops ==
  IF m_presentstep = "FRAME" /\ m_presentsource \in doublePass THEN "FRAME2"
  ELSE IF m_presentstep \in {"FRAME", "FRAME2"} THEN "IDLE" ELSE m_presentstep

\* The end of Render.
StepAfter ==
  IF m_presentstep = "FRAME" /\ m_presentsource \in doublePass THEN "FRAME2"
  ELSE IF m_presentstep # "READY" /\ m_queued # <<>> THEN "READY"
  ELSE IF m_presentstep = "READY" THEN "READY" ELSE "IDLE"

Renders ==
  /\ frame = "render"
  /\ m_presentstep' = IF m_renderState = "CONFIGURED" THEN StepAfter
                      ELSE m_presentstep
  /\ frame' = "move"
  /\ UNCHANGED <<m_free, m_queued, m_discard, m_presentsource, doublePass,
                 m_bRenderGUI, stateVars, videoVars>>

\* TMSG_RENDERER_FLUSH: Flush on the application thread, between two frames.
\* One before the first Configure is left out: nobody uses the queues before that
\* resets them.
FlushRenderer ==
  /\ frame = "move"
  /\ m_renderState # "UNCONFIGURED"
  /\ ResetQueues
  /\ UNCHANGED <<m_bRenderGUI, stateVars, frame, output, index>>

-----------------------------------------------------------------------------
\* Configure(picture): nothing to do, or first wait for the screen.
OutputBegins(f) ==
  /\ output = "idle"
  /\ output' = IF f = m_format THEN "buffer" ELSE "present"
  /\ index' = 0
  /\ reset' = FALSE
  /\ UNCHANGED <<queueVars, stateVars, frame>>

\* Every frame queued so far has been presented; or 5 seconds have passed.
WaitsForIdle ==
  /\ output = "present"
  /\ output' \in {"idle"} \cup (IF m_presentstep = "IDLE" THEN {"state"} ELSE {})
  /\ UNCHANGED <<queueVars, stateVars, frame, index, reset>>

AsksToConfigure(f) ==
  /\ output = "state"
  /\ f # m_format
  /\ m_format' = f
  /\ m_renderState' = "CONFIGURING"
  /\ m_stateEvent' = FALSE
  /\ m_presentstep' = "READY"
  /\ output' = "event"
  /\ UNCHANGED <<m_free, m_queued, m_discard, m_presentsource, doublePass,
                 m_bRenderGUI, frame, index, reset>>

\* m_stateEvent.WaitMSec(1000), then the check of m_renderState.
Configured ==
  /\ output = "event"
  /\ m_stateEvent
  /\ m_stateEvent' = FALSE
  /\ output' = IF m_renderState = "CONFIGURED" THEN "buffer" ELSE "idle"
  /\ reset' = FALSE
  /\ UNCHANGED <<queueVars, m_renderState, m_format, frame, index>>

\* A timeout or bStop, of Configure, WaitForBuffer or FlipPage; or the picture
\* is dropped before it gets a buffer.
OutputFails ==
  /\ output \in {"event", "buffer", "flip"}
  /\ output' = "idle"
  /\ m_bRenderGUI' \in {m_bRenderGUI} \cup (IF output = "buffer" THEN {FALSE} ELSE {})
  /\ UNCHANGED <<m_free, m_queued, m_discard, m_presentsource, m_presentstep,
                 doublePass, stateVars, frame, index, reset>>

\* WaitForBuffer.
GetsBuffer ==
  /\ output = "buffer"
  /\ m_bRenderGUI
  /\ m_free # <<>>
  /\ output' = "add"
  /\ UNCHANGED <<queueVars, stateVars, frame, index, reset>>

\* The GUI does not render: wait a little, then make room.
GuiIsOff ==
  /\ output = "buffer"
  /\ m_bRenderGUI' = FALSE
  /\ output' = "discard"
  /\ UNCHANGED <<m_free, m_queued, m_discard, m_presentsource, m_presentstep,
                 doublePass, stateVars, frame, index, reset>>

\* DiscardBuffer: by WaitForBuffer, or when the codec is flushed.
DiscardBuffer ==
  /\ output \in {"idle", "discard"}
  /\ m_discard' = m_discard \o m_queued
  /\ m_queued' = <<>>
  /\ m_presentstep' = IF m_presentstep = "READY" THEN "IDLE" ELSE m_presentstep
  /\ output' = IF output = "discard" THEN "add" ELSE "idle"
  /\ UNCHANGED <<m_free, m_presentsource, doublePass, m_bRenderGUI, stateVars,
                 frame, index, reset>>

\* AddVideoPicture: the choice, under m_presentlock; without a free buffer it
\* is repeated, for half a second.
ChoosesBuffer ==
  /\ output = "add"
  /\ IF m_free = <<>>
     THEN output' = "idle" /\ UNCHANGED index
     ELSE output' = "write" /\ index' = m_free[1]
  /\ UNCHANGED <<queueVars, stateVars, frame, reset>>

\* The copy, under m_datalock; when GetImage fails it is tried again or given up.
WritesPicture ==
  /\ output = "write"
  /\ output' \in {"flip", "add", "idle"}
  /\ UNCHANGED <<queueVars, stateVars, frame, index, reset>>

\* FlipPage, unless it is aborted.  The frame is to be shown once or twice.
FlipPage ==
  /\ output = "flip"
  /\ output' = "idle"
  /\ IF m_free = <<>>
     THEN UNCHANGED <<m_free, m_queued, m_presentstep, doublePass>>
     ELSE /\ m_free' = Tail(m_free)
          /\ m_queued' = Append(m_queued, m_free[1])
          /\ doublePass' \in {doublePass, doublePass \cup {m_free[1]}}
          /\ m_presentstep' = IF m_presentstep = "IDLE" THEN "READY"
                              ELSE m_presentstep
  /\ UNCHANGED <<m_discard, m_presentsource, m_bRenderGUI, stateVars, frame,
                 index, reset>>

-----------------------------------------------------------------------------
AppStep ==
  AppConfigures \/ FrameMoves \/ FramePresents(TRUE) \/ FramePresents(FALSE)
    \/ Renders

OutputStep ==
  \/ \E f \in Formats : AsksToConfigure(f)
  \/ Configured \/ GetsBuffer \/ ChoosesBuffer \/ WritesPicture \/ FlipPage

RenderNext ==
  \/ AppStep
  \/ FlushRenderer
  \/ \E f \in Formats : OutputBegins(f)
  \/ OutputStep
  \/ WaitsForIdle \/ OutputFails \/ GuiIsOff \/ DiscardBuffer

RenderSpec == RenderInit /\ [][RenderNext]_renderVars

(***************************************************************************)
(* The application thread renders frame after frame, and the clock runs:   *)
(* the next frame is due again and again.                                  *)
(***************************************************************************)
RenderFairness ==
  /\ WF_renderVars(AppStep)
  /\ SF_renderVars(FramePresents(TRUE))

RenderFairSpec == RenderSpec /\ RenderFairness

-----------------------------------------------------------------------------
(***************************************************************************)
(* Once configured, every buffer is at exactly one place: on the screen,   *)
(* free, queued or about to be released.  None leaks, none is filled while *)
(* it is shown or waits to be shown.                                       *)
(***************************************************************************)
BuffersAreInOnePlace ==
  LET places == <<m_presentsource>> \o (m_free \o (m_queued \o m_discard))
  IN  /\ RenderTypeOK
      /\ m_free # <<>> \/ m_queued # <<>> \/ m_discard # <<>> =>
           /\ IsInjective(places)
           /\ ToSet(places) = Buffers

(***************************************************************************)
(* FlipPage queues the buffer that AddVideoPicture has filled, although it *)
(* takes "the first free one" anew under a lock that was given up in       *)
(* between; the exception is a Flush or Configure in between.              *)
(***************************************************************************)
ShowsWhatWasWritten ==
  [][\A b \in Buffers :
       b \in ToSet(m_queued') \ ToSet(m_queued) => b = index \/ reset]_renderVars

(***************************************************************************)
(* Presenting never stops with frames in the queue, whoever changes the    *)
(* step last: again and again the queue is empty (or the renderer cannot   *)
(* be configured), or another buffer comes to the screen.                  *)
(***************************************************************************)
QueuedFramesAreShown ==
  \/ []<>(m_queued = <<>> \/ m_renderState = "UNCONFIGURED")
  \/ []<><<m_presentsource' # m_presentsource>>_renderVars

=============================================================================
