---------------------------- MODULE MCVideoPlayer ----------------------------
(***************************************************************************)
(* Small instances of the parts of the video player in one run: a stream   *)
(* player's message queue with two packets, a synchronize message and a    *)
(* message of another type; one synchronize message with its references;   *)
(* the render manager.  They share no variable: part says which of them a  *)
(* behaviour is about, the others keep their initial state.                *)
(***************************************************************************)
EXTENDS DVDMessageQueue, DVDSynchronize, RenderManager

CONSTANTS packet1, packet2, sync, other

MCMsgs == {packet1, packet2, sync, other}
MCPackets == {packet1, packet2}
MCSynchronizers == {sync}
MCSize == (packet1 :> 1) @@ (packet2 :> 2)
MCPriorities == {0, 1, 10}
MCFlushTypes == {MCPackets, {other}}

VARIABLE part

mcVars == <<vars, syncVars, renderVars, part>>

MCInit ==
  /\ Init /\ SyncInit /\ RenderInit
  /\ part \in {"queue", "synchronize", "render"}

MCNext ==
  \/ part = "queue" /\ Next /\ UNCHANGED <<syncVars, renderVars, part>>
  \/ part = "synchronize" /\ SyncNext /\ UNCHANGED <<vars, renderVars, part>>
  \/ part = "render" /\ RenderNext /\ UNCHANGED <<vars, syncVars, part>>

MCSpec ==
  /\ MCInit /\ [][MCNext]_mcVars
  /\ \/ part = "queue" /\ Fairness
     \/ part = "synchronize" /\ SyncFairness
     \/ part = "render" /\ RenderFairness

=============================================================================
