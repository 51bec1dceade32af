--------------------------- MODULE MessageService ---------------------------
(***************************************************************************)
(* What CDVDMessageQueue promises its producers and its consumer           *)
(* (DVDMessageQueue.h): one first-in first-out line per priority, served   *)
(* from the most urgent line that is not empty.                            *)
(***************************************************************************)
EXTENDS Integers, Sequences, SequenceFilter

CONSTANTS Msgs, NoMsg, Priorities

VARIABLES
  lines,     \* priority -> the messages waiting, the oldest first
  serving,   \* the message the consumer has, or NoMsg
  open       \* the queue accepts messages

vars == <<lines, serving, open>>

Init ==
  /\ lines = [p \in Priorities |-> <<>>]
  /\ serving = NoMsg
  /\ open = FALSE

Waiting == UNION {{lines[p][i] : i \in DOMAIN lines[p]} : p \in Priorities}

Arrive(m, p) ==
  /\ open
  /\ m \notin Waiting
  /\ lines' = [lines EXCEPT ![p] = Append(@, m)]
  /\ UNCHANGED open

\* A message from a producer, or one the consumer postpones.
Put(m, p) == m # serving /\ Arrive(m, p) /\ UNCHANGED serving
Postpone(p) == serving # NoMsg /\ Arrive(serving, p) /\ serving' = NoMsg

\* The consumer returns a message to the head of its line.
Return ==
  /\ open
  /\ serving # NoMsg
  /\ lines' = [lines EXCEPT ![0] = <<serving>> \o @]
  /\ serving' = NoMsg
  /\ UNCHANGED open

\* The most urgent line of at least the priority asked for.
Take(p) ==
  /\ serving = NoMsg
  /\ \A q \in Priorities : q > p => lines[q] = <<>>
  /\ lines[p] # <<>>
  /\ serving' = Head(lines[p])
  /\ lines' = [lines EXCEPT ![p] = Tail(@)]
  /\ UNCHANGED open

Done ==
  /\ serving # NoMsg
  /\ serving' = NoMsg
  /\ UNCHANGED <<lines, open>>

\* Some messages are dropped; the others keep their order.
Drop(ms) ==
  /\ lines' = [p \in Priorities |-> SelectIn(lines[p], Msgs \ ms)]
  /\ UNCHANGED <<serving, open>>

Open == ~open /\ open' = TRUE /\ UNCHANGED <<lines, serving>>

\* Closing drops everything.
Close ==
  /\ open
  /\ serving = NoMsg
  /\ open' = FALSE
  /\ lines' = [p \in Priorities |-> <<>>]
  /\ UNCHANGED serving

Next ==
  \/ \E m \in Msgs, p \in Priorities : Put(m, p)
  \/ \E p \in Priorities : Postpone(p) \/ Take(p)
  \/ Return
  \/ Done
  \/ \E ms \in SUBSET Waiting : Drop(ms)
  \/ Open
  \/ Close

Spec == Init /\ [][Next]_vars

=============================================================================
