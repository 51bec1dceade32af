------------------------------ MODULE MCThreads ------------------------------
(***************************************************************************)
(* Small instances of EventGroup, SharedSection and Timer in one run.  The *)
(* components share no variable: part says which of them a behaviour is    *)
(* about, the others keep their initial state, so the state spaces add up  *)
(* and each is the component's own.                                        *)
(***************************************************************************)
EXTENDS EventGroup, SharedSection, Timer

CONSTANTS e1, e2, e3

MCevents == <<e1, e2, e3>>

VARIABLE part

mcVars == <<eventVars, sectionVars, timerVars, part>>

MCInit ==
  /\ EventInit /\ SectionInit /\ TimerInit
  /\ part \in {"event", "section", "timer"}

MCNext ==
  \/ part = "event" /\ EventNext /\ UNCHANGED <<sectionVars, timerVars, part>>
  \/ part = "section" /\ SectionNext /\ UNCHANGED <<eventVars, timerVars, part>>
  \/ part = "timer" /\ TimerNext /\ UNCHANGED <<eventVars, sectionVars, part>>

MCSpec == MCInit /\ [][MCNext]_mcVars /\ (part = "timer" => TimerFairness)

=============================================================================
