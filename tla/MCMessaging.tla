----------------------------- MODULE MCMessaging -----------------------------
(***************************************************************************)
(* Small instances of ActorProtocol and ApplicationMessenger in one run.   *)
(* The components share no variable: part says which of them a behaviour   *)
(* is about, the other keeps its initial state.                            *)
(***************************************************************************)
EXTENDS ActorProtocol, ApplicationMessenger

VARIABLE part

mcVars == <<protocolVars, messengerVars, part>>

MCInit ==
  /\ ProtocolInit /\ MessengerInit
  /\ part \in {"protocol", "messenger"}

MCNext ==
  \/ part = "protocol" /\ ProtocolNext /\ UNCHANGED <<messengerVars, part>>
  \/ part = "messenger" /\ MessengerNext /\ UNCHANGED <<protocolVars, part>>

MCSpec ==
  /\ MCInit /\ [][MCNext]_mcVars
  /\ \/ part = "protocol" /\ ProtocolFairness
     \/ part = "messenger" /\ MessengerFairness

=============================================================================
