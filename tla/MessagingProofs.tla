--------------------------- MODULE MessagingProofs ---------------------------
(***************************************************************************)
(* The proofs about the messages between threads.                          *)
(*                                                                         *)
(* First Actor::Protocol: who has a pointer to each message decides when   *)
(* its second release frees it, and which call a reply answers.  Then      *)
(* CApplicationMessenger: the message of a sender that waits is in one     *)
(* place.                                                                  *)
(***************************************************************************)
EXTENDS ActorProtocol, ApplicationMessenger, SequenceFilterProofs, FiniteSetTheorems,
        SequenceTheorems, TLAPS

-----------------------------------------------------------------------------
Outgoing == ToSet(messages["out"])
Incoming == ToSet(messages["in"])

\* The messages the actor's side of the port has a pointer to, or lost.
ActorSide == Outgoing \cup {actor.msg} \cup leaked

\* Caller c will still look at the reply of its message.
Looks(c) == caller[c].at \in {"signal", "wait", "late"} /\ caller[c].msg # NoMessage

\* r is the reply of the message of caller c.
Answers(c, r) ==
  \/ caller[c].retMsg = r
  \/ Looks(c) /\ message[caller[c].msg].replyMessage = r

\* What a thread has in its hands goes with what it does.
HandsMatchSteps ==
  /\ \A c \in Callers :
       /\ caller[c].at \in {"idle", "reply"} => caller[c].msg = NoMessage
       /\ caller[c].at \in {"push", "wait", "late", "release"} => caller[c].msg # NoMessage
       /\ caller[c].at = "reply" => caller[c].retMsg # NoMessage
       /\ caller[c].at \notin {"release", "reply"} => caller[c].retMsg = NoMessage
  /\ actor.msg = NoMessage <=> actor.at \in {"loop", "wait", "ended"}

\* No message is in two places, except that its caller may share it with the
\* actor's side.
OnePlace ==
  /\ \A d \in Directions : IsInjective(messages[d])
  /\ \A m \in Messages :
       /\ m \in unused => m \notin ActorSide /\ m \notin Incoming
       /\ m \in Incoming => m \notin ActorSide
       /\ m \in Outgoing => m # actor.msg /\ m \notin leaked
       /\ m = actor.msg => m \notin leaked
  /\ \A c \in Callers, m \in Messages :
       /\ caller[c].msg = m =>
            /\ m \notin unused /\ m \notin Incoming
            /\ caller[c].at = "push" => m \notin ActorSide
            /\ \A b \in Callers : caller[b].msg = m => b = c
            /\ \A b \in Callers : ~Answers(b, m)
       /\ Answers(c, m) =>
            /\ m \notin unused /\ m \notin Incoming /\ m \notin ActorSide
            /\ \A b \in Callers : Answers(b, m) => b = c

\* No message is lost but those in leaked.
SomePlace ==
  \A m \in Messages :
    \/ m \in unused \/ m \in Incoming \/ m \in ActorSide
    \/ \E c \in Callers : caller[c].msg = m \/ Answers(c, m)

\* Of two owners exactly the second finds isSyncFini set.
CallersRelease(c, m) ==
  /\ Answers(c, m) => ~message[m].isSync
  /\ caller[c].msg = m =>
       IF caller[c].at = "push" THEN ~message[m].isSyncFini
       ELSE message[m].isSync /\ (message[m].isSyncFini <=> m \notin ActorSide)

ActorsRelease(m) ==
  /\ m \in unused => message[m] = Cleared
  /\ m \in Incoming => ~message[m].isSync
  /\ m \in ActorSide /\ message[m].isSync =>
       message[m].isSyncFini \/ \E c \in Callers : caller[c].msg = m

SecondReleaseFrees ==
  \A m \in Messages : ActorsRelease(m) /\ \A c \in Callers : CallersRelease(c, m)

\* The reply is there, or the caller has told that it wants none.
Settled(m) == message[m].replyMessage # NoMessage \/ message[m].isSyncTimeout

\* A message is answered at most once, and only while its caller looks.
AnsweredOnce(m) ==
  /\ message[m].event => Settled(m)
  /\ message[m].isSync =>
       /\ m \in Outgoing \/ (m = actor.msg /\ actor.at \in {"handle", "again"}) =>
            message[m].replyMessage = NoMessage
       /\ m = actor.msg /\ actor.at = "set" => Settled(m)
       /\ m \in Outgoing \cup {actor.msg} /\ ~Settled(m) =>
            \E c \in Callers : caller[c].msg = m /\ Looks(c)

\* The message of caller c, and the reply to it, are about its present call.
BelongsTo(c, m) ==
  /\ caller[c].msg = m =>
       /\ message[m].call = <<c, caller[c].parity>>
       /\ caller[c].at # "release" => ~message[m].isSyncTimeout
       /\ caller[c].at = "push" => message[m].replyMessage = NoMessage /\ ~message[m].event
  /\ Answers(c, m) => message[m].call = <<c, caller[c].parity>>

RepliesAreSeen ==
  \A m \in Messages : AnsweredOnce(m) /\ \A c \in Callers : BelongsTo(c, m)

ProtocolInv ==
  /\ ProtocolTypeOK /\ HandsMatchSteps /\ OnePlace /\ SomePlace
  /\ SecondReleaseFrees /\ RepliesAreSeen

-----------------------------------------------------------------------------
\* What the type invariant says of the queues and of the free messages.
LEMMA ProtocolFacts ==
  ASSUME ProtocolTypeOK
  PROVE  /\ NoMessage \notin Messages
         /\ \A d \in Directions : messages[d] \in Seq(Messages) /\ ToSet(messages[d]) \subseteq Messages
         /\ Outgoing \subseteq Messages /\ Incoming \subseteq Messages
         /\ unused # {} => Unused \in unused /\ Unused \in Messages
         /\ "out" \in Directions /\ "in" \in Directions
<1>1. NoMessage \notin Messages /\ "out" \in Directions /\ "in" \in Directions
  BY MessagesAssumption DEF Directions
<1>2. \A d \in Directions : messages[d] \in Seq(Messages) /\ ToSet(messages[d]) \subseteq Messages
  BY LenProperties DEF ProtocolTypeOK, ToSet
<1>3. unused # {} => Unused \in unused /\ Unused \in Messages
  BY DEF Unused, ProtocolTypeOK
<1> QED
  BY <1>1, <1>2, <1>3 DEF Outgoing, Incoming

MessageRecords == [isSync : BOOLEAN, isSyncFini : BOOLEAN,
                   isSyncTimeout : BOOLEAN, event : BOOLEAN,
                   replyMessage : Messages \cup {NoMessage},
                   call : Calls \cup {<<>>}]

CallerRecords ==
  [at : {"idle", "push", "signal", "wait", "late", "release", "reply"},
   msg : Messages \cup {NoMessage}, retMsg : Messages \cup {NoMessage},
   parity : BOOLEAN]

\* A message just taken from the free queue.
LEMMA ClearedFacts ==
  /\ Cleared \in MessageRecords
  /\ ~Cleared.isSync /\ ~Cleared.isSyncFini /\ ~Cleared.isSyncTimeout /\ ~Cleared.event
  /\ Cleared.replyMessage = NoMessage
BY DEF Cleared, MessageRecords

\* A new message at the back of a queue, and the first message taken out of it.
LEMMA PushFacts ==
  ASSUME ProtocolTypeOK, NEW d \in Directions, NEW m \in Messages, Push(d, m),
         IsInjective(messages[d]), m \notin ToSet(messages[d])
  PROVE  /\ messages' \in [Directions -> Seq(Messages)]
         /\ ToSet(messages'[d]) = ToSet(messages[d]) \cup {m}
         /\ IsInjective(messages'[d])
         /\ \A e \in Directions \ {d} : messages'[e] = messages[e]
<1>1. messages' = [messages EXCEPT ![d] = Append(messages[d], m)]
  BY DEF Push
<1>2. messages[d] \in Seq(Messages) /\ messages \in [Directions -> Seq(Messages)]
  BY DEF ProtocolTypeOK
<1>3. /\ Append(messages[d], m) \in Seq(Messages)
      /\ ToSet(Append(messages[d], m)) = ToSet(messages[d]) \cup {m}
      /\ IsInjective(Append(messages[d], m))
  BY <1>2, AppendProperties, ToSetAppend, InjectiveAppend
<1>4. messages'[d] = Append(messages[d], m)
  BY <1>1, <1>2
<1> QED
  BY <1>1, <1>2, <1>3, <1>4

\* The first message taken out of a queue.
LEMMA ReceiveFacts ==
  ASSUME ProtocolTypeOK, NEW d \in Directions, NEW m, Receive(d, m), IsInjective(messages[d])
  PROVE  /\ messages' \in [Directions -> Seq(Messages)]
         /\ m \in ToSet(messages[d])
         /\ ToSet(messages'[d]) = ToSet(messages[d]) \ {m}
         /\ IsInjective(messages'[d])
         /\ \A e \in Directions \ {d} : messages'[e] = messages[e]
<1> DEFINE q == messages[d]
<1>1. q \in Seq(Messages) /\ messages \in [Directions -> Seq(Messages)] /\ q # <<>> /\ m = q[1]
  BY DEF ProtocolTypeOK, Receive
<1>2. messages' = [messages EXCEPT ![d] = Tail(q)]
  BY DEF Receive
<1>3. /\ Tail(q) \in Seq(Messages) /\ Len(Tail(q)) = Len(q) - 1
      /\ \A i \in 1 .. Len(q) - 1 : Tail(q)[i] = q[i + 1]
      /\ DOMAIN Tail(q) = 1 .. Len(q) - 1 /\ DOMAIN q = 1 .. Len(q) /\ Len(q) \in Nat \ {0}
  BY <1>1, HeadTailProperties, LenProperties, EmptySeq
<1>4. messages'[d] = Tail(q)
  BY <1>1, <1>2
<1>5. \A i, j \in 1 .. Len(q) : q[i] = q[j] => i = j
  BY <1>3 DEF IsInjective
<1>6. IsInjective(Tail(q))
  <2> SUFFICES ASSUME NEW i \in 1 .. Len(q) - 1, NEW j \in 1 .. Len(q) - 1, Tail(q)[i] = Tail(q)[j]
               PROVE  i = j
    BY <1>3 DEF IsInjective
  <2>1. q[i + 1] = q[j + 1] /\ i + 1 \in 1 .. Len(q) /\ j + 1 \in 1 .. Len(q)
    BY <1>3
  <2>2. i + 1 = j + 1
    BY <1>5, <2>1
  <2> QED
    BY <2>2
<1>7. ASSUME NEW x PROVE x \in ToSet(Tail(q)) <=> x \in ToSet(q) /\ x # m
  <2>1. ASSUME NEW i \in 1 .. Len(q) - 1, Tail(q)[i] = x PROVE x \in ToSet(q) /\ x # m
    <3>1. i + 1 \in 1 .. Len(q) /\ q[i + 1] = x /\ i + 1 # 1 /\ 1 \in 1 .. Len(q)
      BY <1>3, <2>1
    <3> QED
      BY <1>1, <1>3, <1>5, <3>1 DEF ToSet
  <2>2. ASSUME NEW i \in 1 .. Len(q), q[i] = x, x # m PROVE x \in ToSet(Tail(q))
    <3>1. i # 1
      BY <1>1, <2>2
    <3>2. i - 1 \in 1 .. Len(q) - 1 /\ (i - 1) + 1 = i
      BY <1>3, <3>1
    <3>3. Tail(q)[i - 1] = x
      BY <1>3, <2>2, <3>2
    <3> QED
      BY <1>3, <3>2, <3>3 DEF ToSet
  <2> QED
    BY <1>3, <2>1, <2>2 DEF ToSet
<1>8. m \in ToSet(q)
  BY <1>1, <1>3 DEF ToSet
<1> QED
  BY <1>1, <1>2, <1>3, <1>4, <1>6, <1>7, <1>8

\* All messages are free at the start.
LEMMA ProtocolInitInv == ProtocolInit => ProtocolInv
<1> SUFFICES ASSUME ProtocolInit PROVE ProtocolInv
  OBVIOUS
<1>1. Outgoing = {} /\ Incoming = {}
  BY DEF ProtocolInit, Outgoing, Incoming, ToSet, Directions
<1>2. \A d \in Directions : IsInjective(messages[d])
  BY DEF ProtocolInit, IsInjective
<1>3. ProtocolTypeOK
  <2>1. caller \in [Callers -> CallerRecords]
    BY DEF ProtocolInit, CallerRecords
  <2>2. message \in [Messages -> MessageRecords]
    BY ClearedFacts DEF ProtocolInit
  <2>3. messages \in [Directions -> Seq(Messages)]
    BY DEF ProtocolInit
  <2> QED
    BY <2>1, <2>2, <2>3 DEF ProtocolInit, ProtocolTypeOK, CallerRecords, MessageRecords
<1>4. HandsMatchSteps
  BY MessagesAssumption DEF ProtocolInit, HandsMatchSteps
<1>5. \A c \in Callers : caller[c].msg = NoMessage /\ \A m \in Messages : ~Answers(c, m)
  BY MessagesAssumption DEF ProtocolInit, Answers, Looks
<1>6. ActorSide = {NoMessage} /\ NoMessage \notin Messages
  BY <1>1, MessagesAssumption DEF ProtocolInit, ActorSide
<1>7. OnePlace /\ SomePlace
  BY <1>1, <1>2, <1>5, <1>6 DEF ProtocolInit, OnePlace, SomePlace
<1>8. SecondReleaseFrees /\ RepliesAreSeen
  BY <1>1, <1>5, <1>6, ClearedFacts
  DEF ProtocolInit, SecondReleaseFrees, ActorsRelease, CallersRelease, RepliesAreSeen,
      AnsweredOnce, BelongsTo, Settled
<1> QED
  BY <1>3, <1>4, <1>7, <1>8 DEF ProtocolInv

-----------------------------------------------------------------------------
\* A caller takes a free message for a new call.
LEMMA CallerGetsKeeps ==
  ASSUME ProtocolInv, NEW c \in Callers, NEW sync \in BOOLEAN, CallerGets(c, sync)
  PROVE  ProtocolInv'
<1> DEFINE m == Unused
           p == (sync # caller[c].parity)
           r == [Cleared EXCEPT !.isSync = sync, !.call = <<c, p>>]
           k == [caller[c] EXCEPT !.at = "push", !.msg = m, !.parity = p]
<1>1. unused # {}
  BY FS_EmptySet DEF CallerGets
<1>2. m \in unused /\ m \in Messages /\ NoMessage \notin Messages /\ ProtocolTypeOK
  BY <1>1, ProtocolFacts DEF ProtocolInv
<1>3. /\ caller[c].at = "idle"
      /\ unused' = unused \ {m}
      /\ UNCHANGED <<leaked, messages, containerEvent, actor, collector, m_bStop>>
  BY DEF CallerGets
<1>4. r \in MessageRecords /\ ~r.isSyncFini /\ ~r.isSyncTimeout /\ ~r.event
      /\ r.replyMessage = NoMessage /\ r.call = <<c, p>>
  BY ClearedFacts DEF MessageRecords, Calls, Cleared
<1>5. message' = [message EXCEPT ![m] = r]
  BY DEF CallerGets
<1>6. caller' = [caller EXCEPT ![c] = k]
  BY <1>2 DEF CallerGets, ProtocolTypeOK
<1>7. k \in CallerRecords /\ k.at = "push" /\ k.msg = m /\ k.retMsg = caller[c].retMsg
      /\ k.parity = p
  <2>1. caller[c] \in CallerRecords /\ p \in BOOLEAN
    BY <1>2 DEF CallerRecords, ProtocolTypeOK
  <2> QED
    BY <1>2, <2>1 DEF CallerRecords
<1>8. caller[c].msg = NoMessage /\ caller[c].retMsg = NoMessage
  BY <1>3 DEF ProtocolInv, HandsMatchSteps
<1> HIDE DEF m, r, k, p
<1>9. ProtocolTypeOK'
  BY <1>2, <1>3, <1>4, <1>5, <1>6, <1>7 DEF ProtocolTypeOK, MessageRecords, CallerRecords
<1>10. /\ message'[m] = r /\ \A x \in Messages : x # m => message'[x] = message[x]
       /\ caller'[c] = k /\ \A b \in Callers : b # c => caller'[b] = caller[b]
  BY <1>2, <1>5, <1>6 DEF ProtocolTypeOK
<1>11. HandsMatchSteps'
  BY <1>2, <1>3, <1>7, <1>8, <1>10 DEF HandsMatchSteps, ProtocolInv
<1>12. Outgoing' = Outgoing /\ Incoming' = Incoming /\ ActorSide' = ActorSide
  BY <1>3 DEF Outgoing, Incoming, ActorSide
<1>13. \A b \in Callers, x \in Messages : Answers(b, x)' <=> Answers(b, x)
  <2> SUFFICES ASSUME NEW b \in Callers, NEW x \in Messages
               PROVE  Answers(b, x)' <=> Answers(b, x)
    OBVIOUS
  <2>1. CASE b = c
    BY <2>1, <1>3, <1>7, <1>8, <1>10 DEF Answers, Looks
  <2>2. CASE b # c
    <3>1. caller[b].msg # m /\ (caller[b].msg # NoMessage => caller[b].msg \in Messages)
      BY <1>2 DEF ProtocolInv, OnePlace, ProtocolTypeOK
    <3> QED
      BY <2>2, <3>1, <1>10 DEF Answers, Looks
  <2> QED
    BY <2>1, <2>2
<1>14. \A b \in Callers, x \in Messages :
         caller'[b].msg = x <=> caller[b].msg = x \/ (b = c /\ x = m)
  BY <1>2, <1>7, <1>8, <1>10
<1>15. OnePlace'
  BY <1>2, <1>3, <1>7, <1>10, <1>12, <1>13, <1>14 DEF OnePlace, ProtocolInv
<1>16. SomePlace'
  BY <1>2, <1>3, <1>12, <1>13, <1>14 DEF SomePlace, ProtocolInv
<1>17. SecondReleaseFrees'
  <2> SUFFICES ASSUME NEW x \in Messages
               PROVE  ActorsRelease(x)' /\ \A b \in Callers : CallersRelease(b, x)'
    BY DEF SecondReleaseFrees
  <2>1. CASE x = m
    BY <2>1, <1>2, <1>3, <1>4, <1>7, <1>10, <1>12, <1>13, <1>14
    DEF ActorsRelease, CallersRelease, OnePlace, ProtocolInv
  <2>2. CASE x # m
    BY <2>2, <1>2, <1>3, <1>4, <1>7, <1>10, <1>12, <1>13, <1>14
    DEF ActorsRelease, CallersRelease, SecondReleaseFrees, ProtocolInv
  <2> QED
    BY <2>1, <2>2
<1>18. RepliesAreSeen'
  <2>1. \A x \in Messages : ~Answers(c, x)
    BY <1>2, <1>3, <1>8 DEF Answers, Looks
  <2> SUFFICES ASSUME NEW x \in Messages
               PROVE  AnsweredOnce(x)' /\ \A b \in Callers : BelongsTo(b, x)'
    BY DEF RepliesAreSeen
  <2>2. CASE x = m
    BY <2>1, <2>2, <1>2, <1>3, <1>4, <1>7, <1>10, <1>12, <1>13, <1>14
    DEF AnsweredOnce, BelongsTo, OnePlace, ProtocolInv, ActorSide, Settled
  <2>3. CASE x # m
    BY <2>1, <2>3, <1>2, <1>3, <1>4, <1>7, <1>10, <1>12, <1>13, <1>14
    DEF AnsweredOnce, BelongsTo, RepliesAreSeen, ProtocolInv, Settled, Looks
  <2> QED
    BY <2>2, <2>3
<1> QED
  BY <1>9, <1>11, <1>15, <1>16, <1>17, <1>18 DEF ProtocolInv

-----------------------------------------------------------------------------
\* What the parts of the invariant say about one caller or message.
LEMMA ProtocolInvFacts ==
  ASSUME ProtocolInv
  PROVE  /\ ProtocolTypeOK /\ HandsMatchSteps /\ OnePlace /\ SomePlace
         /\ message \in [Messages -> MessageRecords]
         /\ caller \in [Callers -> CallerRecords]
         /\ \A c \in Callers : caller[c] \in CallerRecords
         /\ \A m \in Messages : message[m] \in MessageRecords
         /\ NoMessage \notin Messages
         /\ \A m \in Messages :
              /\ ActorsRelease(m) /\ AnsweredOnce(m)
              /\ \A c \in Callers : CallersRelease(c, m) /\ BelongsTo(c, m)
<1>1. ProtocolTypeOK /\ HandsMatchSteps /\ OnePlace /\ SomePlace
  BY DEF ProtocolInv
<1>2. /\ message \in [Messages -> MessageRecords]
      /\ caller \in [Callers -> CallerRecords]
  BY <1>1 DEF ProtocolTypeOK, MessageRecords, CallerRecords
<1>3. NoMessage \notin Messages
  BY <1>1, ProtocolFacts
<1>4. \A m \in Messages :
              /\ ActorsRelease(m) /\ AnsweredOnce(m)
              /\ \A c \in Callers : CallersRelease(c, m) /\ BelongsTo(c, m)
  BY DEF ProtocolInv, SecondReleaseFrees, RepliesAreSeen
<1> QED
  BY <1>1, <1>2, <1>3, <1>4

\* A caller that goes on, still looking for its reply or still not.
LEMMA CallerMoves ==
  ASSUME ProtocolInv, NEW c \in Callers,
         NEW a \in {"idle", "signal", "wait", "late"},
         caller[c].at \in {"idle", "signal", "wait", "late"},
         caller' = [caller EXCEPT ![c].at = a],
         a = "idle" <=> caller[c].msg = NoMessage,
         containerEvent' \in [Directions -> BOOLEAN],
         UNCHANGED <<leaked, unused, message, messages, actor, collector, m_bStop>>
  PROVE  ProtocolInv'
<1> USE ProtocolInvFacts
<1> DEFINE k == [caller[c] EXCEPT !.at = a]
<1>1. k \in CallerRecords /\ k.at = a /\ k.msg = caller[c].msg /\ k.retMsg = caller[c].retMsg
      /\ k.parity = caller[c].parity
  BY DEF CallerRecords
<1>2. caller' = [caller EXCEPT ![c] = k]
  OBVIOUS
<1> HIDE DEF k
<1>3. caller'[c] = k /\ \A b \in Callers : b # c => caller'[b] = caller[b]
  BY <1>2
<1>4. ProtocolTypeOK'
  <2>1. caller' \in [Callers -> CallerRecords]
    BY <1>1, <1>2
  <2> QED
    BY <2>1 DEF ProtocolTypeOK, CallerRecords
<1>5. HandsMatchSteps'
  BY <1>1, <1>3 DEF HandsMatchSteps
<1>6. Outgoing' = Outgoing /\ Incoming' = Incoming /\ ActorSide' = ActorSide
  BY DEF Outgoing, Incoming, ActorSide
<1>7. \A b \in Callers : Looks(b)' <=> Looks(b)
  BY <1>1, <1>3 DEF Looks, HandsMatchSteps
<1>8. \A b \in Callers : caller'[b].msg = caller[b].msg /\ caller'[b].retMsg = caller[b].retMsg
                         /\ caller'[b].parity = caller[b].parity
                         /\ (caller'[b].at = "push" <=> caller[b].at = "push")
                         /\ (caller'[b].at = "release" <=> caller[b].at = "release")
  BY <1>1, <1>3
<1>9. \A b \in Callers, x \in Messages : Answers(b, x)' <=> Answers(b, x)
  BY <1>7, <1>8 DEF Answers
<1>10. OnePlace'
  BY <1>6, <1>8, <1>9 DEF OnePlace
<1>11. SomePlace'
  BY <1>6, <1>8, <1>9 DEF SomePlace
<1>12. ASSUME NEW x \in Messages PROVE ActorsRelease(x)' /\ AnsweredOnce(x)'
  BY <1>6, <1>7, <1>8 DEF ActorsRelease, AnsweredOnce, Settled
<1>13. ASSUME NEW x \in Messages, NEW b \in Callers PROVE CallersRelease(b, x)' /\ BelongsTo(b, x)'
  BY <1>6, <1>8, <1>9 DEF CallersRelease, BelongsTo
<1> QED
  BY <1>4, <1>5, <1>10, <1>11, <1>12, <1>13 DEF ProtocolInv, SecondReleaseFrees, RepliesAreSeen

\* The caller pushes: it shares the message with the actor now, or gives it up.
LEMMA CallerPushesKeeps ==
  ASSUME ProtocolInv, NEW c \in Callers, CallerPushes(c)
  PROVE  ProtocolInv'
<1> USE ProtocolInvFacts
<1>1. CASE caller[c].at = "signal" /\ caller' = [caller EXCEPT ![c].at =
             IF caller[c].msg = NoMessage THEN "idle" ELSE "wait"]
           /\ containerEvent' = [containerEvent EXCEPT !["out"] = TRUE]
           /\ UNCHANGED <<leaked, unused, message, messages, actor, collector, m_bStop>>
  <2>1. containerEvent' \in [Directions -> BOOLEAN]
    BY <1>1 DEF ProtocolTypeOK
  <2>2. CASE caller[c].msg = NoMessage
    BY <1>1, <2>1, <2>2, CallerMoves
  <2>3. CASE caller[c].msg # NoMessage
    BY <1>1, <2>1, <2>3, CallerMoves
  <2> QED
    BY <2>2, <2>3
<1>2. CASE /\ caller[c].at = "push"
           /\ Push("out", caller[c].msg)
           /\ caller' = [caller EXCEPT ![c].at = "signal",
                           ![c].msg = IF message[@].isSync THEN @ ELSE NoMessage]
           /\ UNCHANGED <<leaked, unused, message, containerEvent, actor, collector, m_bStop>>
  <2> DEFINE m == caller[c].msg
             k == [caller[c] EXCEPT !.at = "signal", !.msg = IF message[m].isSync THEN m ELSE NoMessage]
  <2>1. m \in Messages /\ caller[c].retMsg = NoMessage
    BY <1>2 DEF HandsMatchSteps, CallerRecords
  <2>2. k \in CallerRecords /\ k.at = "signal" /\ k.retMsg = NoMessage
        /\ k.parity = caller[c].parity /\ k.msg = IF message[m].isSync THEN m ELSE NoMessage
    BY <2>1 DEF CallerRecords
  <2>3. caller' = [caller EXCEPT ![c] = k]
    BY <1>2
  <2>4. /\ m \notin unused /\ m \notin Incoming /\ m \notin ActorSide
        /\ \A b \in Callers : caller[b].msg = m => b = c
        /\ \A b \in Callers : ~Answers(b, m)
        /\ CallersRelease(c, m) /\ BelongsTo(c, m)
    BY <1>2, <2>1 DEF OnePlace
  <2>5. /\ ~message[m].isSyncFini /\ message[m].replyMessage = NoMessage
        /\ message[m].call = <<c, caller[c].parity>>
        /\ ~message[m].isSyncTimeout /\ ~message[m].event
    BY <1>2, <2>4 DEF CallersRelease, BelongsTo
  <2> HIDE DEF k
  <2>6. caller'[c] = k /\ \A b \in Callers : b # c => caller'[b] = caller[b]
    BY <2>3
  <2>7. /\ messages' \in [Directions -> Seq(Messages)]
        /\ Outgoing' = Outgoing \cup {m} /\ Incoming' = Incoming
        /\ \A d \in Directions : IsInjective(messages'[d])
    <3>1. m \notin ToSet(messages["out"]) /\ IsInjective(messages["out"]) /\ IsInjective(messages["in"])
      BY <2>4 DEF ActorSide, Outgoing, OnePlace, Directions
    <3>2. /\ messages' \in [Directions -> Seq(Messages)]
          /\ ToSet(messages'["out"]) = ToSet(messages["out"]) \cup {m}
          /\ IsInjective(messages'["out"])
          /\ \A e \in Directions \ {"out"} : messages'[e] = messages[e]
      BY <1>2, <2>1, <3>1, ProtocolFacts, PushFacts
    <3> QED
      BY <3>1, <3>2 DEF Outgoing, Incoming, Directions
  <2>8. ActorSide' = ActorSide \cup {m}
    BY <1>2, <2>7 DEF ActorSide
  <2>9. ProtocolTypeOK'
    <3>1. caller' \in [Callers -> CallerRecords]
      BY <2>2, <2>3
    <3> QED
      BY <1>2, <2>7, <3>1 DEF ProtocolTypeOK, CallerRecords
  <2>10. HandsMatchSteps'
    BY <1>2, <2>2, <2>6 DEF HandsMatchSteps
  <2>11. \A b \in Callers : b # c => (Looks(b)' <=> Looks(b))
    BY <2>6 DEF Looks
  <2>12. Looks(c)' <=> message[m].isSync
    BY <2>1, <2>2, <2>6 DEF Looks
  <2>13. \A b \in Callers, x \in Messages : Answers(b, x)' <=> Answers(b, x)
    <3> SUFFICES ASSUME NEW b \in Callers, NEW x \in Messages
                 PROVE  Answers(b, x)' <=> Answers(b, x)
      OBVIOUS
    <3>1. CASE b = c
      BY <3>1, <1>2, <2>1, <2>2, <2>5, <2>6 DEF Answers, Looks
    <3>2. CASE b # c
      BY <3>2, <1>2, <2>6, <2>11 DEF Answers
    <3> QED
      BY <3>1, <3>2
  <2>14. \A b \in Callers, x \in Messages : caller'[b].msg = x <=>
           caller[b].msg = x /\ (b = c => message[m].isSync)
    BY <2>2, <2>6
  <2>15. OnePlace'
    BY <1>2, <2>2, <2>4, <2>6, <2>7, <2>8, <2>13, <2>14 DEF OnePlace, ActorSide
  <2>16. SomePlace'
    BY <1>2, <2>1, <2>8, <2>7, <2>13, <2>14 DEF SomePlace
  <2>17. ASSUME NEW x \in Messages PROVE ActorsRelease(x)' /\ AnsweredOnce(x)'
    <3>1. CASE x = m
      BY <3>1, <1>2, <2>1, <2>2, <2>4, <2>5, <2>6, <2>7, <2>8, <2>12, <2>14
      DEF ActorsRelease, AnsweredOnce, Settled, ActorSide
    <3>2. CASE x # m
      BY <3>2, <1>2, <2>1, <2>2, <2>6, <2>7, <2>8, <2>11, <2>14
      DEF ActorsRelease, AnsweredOnce, Settled
    <3> QED
      BY <3>1, <3>2
  <2>18. ASSUME NEW x \in Messages, NEW b \in Callers PROVE CallersRelease(b, x)' /\ BelongsTo(b, x)'
    <3>1. CASE x = m
      BY <3>1, <1>2, <2>1, <2>2, <2>4, <2>5, <2>6, <2>8, <2>13, <2>14 DEF CallersRelease, BelongsTo
    <3>2. CASE x # m
      BY <3>2, <1>2, <2>1, <2>2, <2>6, <2>8, <2>13, <2>14 DEF CallersRelease, BelongsTo
    <3> QED
      BY <3>1, <3>2
  <2> QED
    BY <2>9, <2>10, <2>15, <2>16, <2>17, <2>18 DEF ProtocolInv, SecondReleaseFrees, RepliesAreSeen
<1> QED
  BY <1>1, <1>2 DEF CallerPushes

\* A caller stops looking: with the reply in its hands, or having told that it
\* wants none.
LEMMA CallerLeavesWait ==
  ASSUME ProtocolInv, NEW c \in Callers, caller[c].at \in {"wait", "late"},
         NEW m \in Messages, m = caller[c].msg,
         NEW r \in MessageRecords, r.isSync = message[m].isSync,
         r.isSyncFini = message[m].isSyncFini, r.replyMessage = message[m].replyMessage,
         r.call = message[m].call,
         r.replyMessage # NoMessage \/ r.isSyncTimeout,
         message' = [message EXCEPT ![m] = r],
         caller' = [caller EXCEPT ![c] =
                      [caller[c] EXCEPT !.at = "release", !.retMsg = r.replyMessage]],
         UNCHANGED <<leaked, unused, messages, containerEvent, actor, collector, m_bStop>>
  PROVE  ProtocolInv'
<1> USE ProtocolInvFacts
<1> DEFINE k == [caller[c] EXCEPT !.at = "release", !.retMsg = r.replyMessage]
<1>1. k \in CallerRecords /\ k.at = "release" /\ k.retMsg = r.replyMessage /\ k.msg = m
      /\ k.parity = caller[c].parity
  BY DEF CallerRecords, MessageRecords
<1>2. caller' = [caller EXCEPT ![c] = k]
  OBVIOUS
<1> HIDE DEF k
<1>3. /\ caller'[c] = k /\ \A b \in Callers : b # c => caller'[b] = caller[b]
      /\ message'[m] = r /\ \A x \in Messages : x # m => message'[x] = message[x]
  BY <1>2
<1>4. ProtocolTypeOK'
  <2>1. caller' \in [Callers -> CallerRecords] /\ message' \in [Messages -> MessageRecords]
    BY <1>1, <1>2
  <2> QED
    BY <2>1 DEF ProtocolTypeOK, CallerRecords, MessageRecords
<1>5. HandsMatchSteps'
  BY <1>1, <1>3 DEF HandsMatchSteps
<1>6. Outgoing' = Outgoing /\ Incoming' = Incoming /\ ActorSide' = ActorSide
  BY DEF Outgoing, Incoming, ActorSide
<1>7. \A b \in Callers : caller'[b].msg = caller[b].msg /\ caller'[b].parity = caller[b].parity
                         /\ (caller'[b].at = "push" <=> caller[b].at = "push")
                         /\ (caller'[b].at = "release" <=> caller[b].at = "release" \/ b = c)
  BY <1>1, <1>3
<1>8. Looks(c) /\ caller[c].retMsg = NoMessage
  BY DEF Looks, HandsMatchSteps
<1>9. \A b \in Callers : b # c => caller[b].msg # m
  BY DEF OnePlace
<1>10. \A b \in Callers : Looks(b)' <=> Looks(b) /\ b # c
  BY <1>1, <1>3 DEF Looks
<1>11. \A b \in Callers, x \in Messages : Answers(b, x)' <=> Answers(b, x)
  <2> SUFFICES ASSUME NEW b \in Callers, NEW x \in Messages
               PROVE  Answers(b, x)' <=> Answers(b, x)
    OBVIOUS
  <2>1. CASE b = c
    BY <2>1, <1>1, <1>3, <1>8, <1>10 DEF Answers
  <2>2. CASE b # c
    <3>1. Looks(b) => caller[b].msg \in Messages /\ caller[b].msg # m
      BY <1>9, <2>2 DEF Looks, CallerRecords
    <3> QED
      BY <2>2, <3>1, <1>3, <1>10 DEF Answers
  <2> QED
    BY <2>1, <2>2
<1>12. OnePlace'
  BY <1>6, <1>7, <1>11 DEF OnePlace
<1>13. SomePlace'
  BY <1>6, <1>7, <1>11 DEF SomePlace
<1>14. ASSUME NEW x \in Messages PROVE ActorsRelease(x)' /\ AnsweredOnce(x)'
  <2>1. CASE x = m
    <3>1. m \notin unused
      BY DEF OnePlace
    <3> QED
      BY <2>1, <3>1, <1>3, <1>6, <1>7 DEF ActorsRelease, AnsweredOnce, Settled
  <2>2. CASE x # m
    BY <2>2, <1>3, <1>6, <1>7, <1>10 DEF ActorsRelease, AnsweredOnce, Settled
  <2> QED
    BY <2>1, <2>2
<1>15. ASSUME NEW x \in Messages, NEW b \in Callers PROVE CallersRelease(b, x)' /\ BelongsTo(b, x)'
  <2>1. CASE x = m
    BY <2>1, <1>3, <1>6, <1>7, <1>9, <1>11 DEF CallersRelease, BelongsTo
  <2>2. CASE x # m
    BY <2>2, <1>3, <1>6, <1>7, <1>11 DEF CallersRelease, BelongsTo
  <2> QED
    BY <2>1, <2>2
<1> QED
  BY <1>4, <1>5, <1>12, <1>13, <1>14, <1>15 DEF ProtocolInv, SecondReleaseFrees, RepliesAreSeen

\* A caller finds the event of its message set and takes the reply.
LEMMA CallerWakesKeeps ==
  ASSUME ProtocolInv, NEW c \in Callers, CallerWakes(c)
  PROVE  ProtocolInv'
<1> USE ProtocolInvFacts
<1>1. PICK m \in Messages : m = caller[c].msg
  BY DEF CallerWakes, HandsMatchSteps, CallerRecords
<1> DEFINE r == [message[m] EXCEPT !.event = FALSE]
<1>2. /\ r \in MessageRecords /\ r.isSync = message[m].isSync
      /\ r.isSyncFini = message[m].isSyncFini /\ r.replyMessage = message[m].replyMessage
      /\ r.call = message[m].call /\ r.isSyncTimeout = message[m].isSyncTimeout
  BY DEF MessageRecords
<1>3. caller[c].at = "wait" /\ message[m].event
  BY <1>1 DEF CallerWakes
<1>4. r.replyMessage # NoMessage \/ r.isSyncTimeout
  BY <1>2, <1>3 DEF AnsweredOnce, Settled
<1>5. message' = [message EXCEPT ![m] = r]
  BY <1>1 DEF CallerWakes
<1>6. caller' = [caller EXCEPT ![c] =
                   [caller[c] EXCEPT !.at = "release", !.retMsg = r.replyMessage]]
  BY <1>1, <1>2 DEF CallerWakes
<1>7. UNCHANGED <<leaked, unused, messages, containerEvent, actor, collector, m_bStop>>
  BY DEF CallerWakes
<1> HIDE DEF r
<1> QED
  BY <1>1, <1>2, <1>3, <1>4, <1>5, <1>6, <1>7, CallerLeavesWait

\* A caller whose wait timed out marks the message, unless the reply came meanwhile.
LEMMA CallerGivesUpKeeps ==
  ASSUME ProtocolInv, NEW c \in Callers, CallerGivesUp(c)
  PROVE  ProtocolInv'
<1> USE ProtocolInvFacts
<1>1. PICK m \in Messages : m = caller[c].msg
  BY DEF CallerGivesUp, HandsMatchSteps, CallerRecords
<1>2. caller[c].at = "late"
  BY DEF CallerGivesUp
<1>3. CASE message[m].replyMessage # NoMessage
  <2>1. caller' = [caller EXCEPT ![c] =
                     [caller[c] EXCEPT !.at = "release", !.retMsg = message[m].replyMessage]]
    BY <1>1, <1>3 DEF CallerGivesUp
  <2>2. message' = [message EXCEPT ![m] = message[m]]
    BY <1>1, <1>3 DEF CallerGivesUp
  <2> QED
    BY <1>1, <1>2, <1>3, <2>1, <2>2, CallerLeavesWait DEF CallerGivesUp
<1>4. CASE message[m].replyMessage = NoMessage
  <2> DEFINE r == [message[m] EXCEPT !.isSyncTimeout = TRUE]
  <2>1. /\ r \in MessageRecords /\ r.isSync = message[m].isSync
        /\ r.isSyncFini = message[m].isSyncFini /\ r.replyMessage = message[m].replyMessage
        /\ r.call = message[m].call /\ r.isSyncTimeout
    BY DEF MessageRecords
  <2>2. message' = [message EXCEPT ![m] = r]
    BY <1>1, <1>4 DEF CallerGivesUp
  <2>3. caller[c].retMsg = NoMessage
    BY <1>2 DEF HandsMatchSteps
  <2>4. caller' = [caller EXCEPT ![c] = [caller[c] EXCEPT !.at = "release", !.retMsg = r.replyMessage]]
    <3>1. [caller[c] EXCEPT !.at = "release", !.retMsg = r.replyMessage] =
          [caller[c] EXCEPT !.at = "release"]
      BY <2>1, <2>3, <1>4 DEF CallerRecords
    <3>2. caller' = [caller EXCEPT ![c] = [caller[c] EXCEPT !.at = "release"]]
      BY <1>1, <1>4 DEF CallerGivesUp
    <3> QED
      BY <3>1, <3>2
  <2>5. UNCHANGED <<leaked, unused, messages, containerEvent, actor, collector, m_bStop>>
    BY DEF CallerGivesUp
  <2> HIDE DEF r
  <2> QED
    BY <1>1, <1>2, <2>1, <2>2, <2>4, <2>5, CallerLeavesWait
<1> QED
  BY <1>3, <1>4

\* The message or the reply the caller releases is its own.
LEMMA CallerReleasesKeeps ==
  ASSUME ProtocolInv, NEW c \in Callers, CallerReleases(c)
  PROVE  ProtocolInv'
<1> USE ProtocolInvFacts
<1>0. UNCHANGED <<leaked, messages, containerEvent, actor, collector, m_bStop>>
  BY DEF CallerReleases
<1>1. Outgoing' = Outgoing /\ Incoming' = Incoming /\ ActorSide' = ActorSide
  BY <1>0 DEF Outgoing, Incoming, ActorSide
<1>2. CASE caller[c].at = "release"
  <2>1. PICK m \in Messages : m = caller[c].msg
    BY <1>2 DEF HandsMatchSteps, CallerRecords
  <2> DEFINE a == IF caller[c].retMsg = NoMessage THEN "idle" ELSE "reply"
             k == [caller[c] EXCEPT !.msg = NoMessage, !.at = a]
  <2>2. Release(m) /\ caller' = [caller EXCEPT ![c] = k]
    BY <1>2, <2>1 DEF CallerReleases
  <2>3. k \in CallerRecords /\ k.at = a /\ k.retMsg = caller[c].retMsg /\ k.msg = NoMessage
        /\ k.parity = caller[c].parity
    BY DEF CallerRecords
  <2> HIDE DEF k
  <2>4. caller'[c] = k /\ \A b \in Callers : b # c => caller'[b] = caller[b]
    BY <2>2
  <2>5. /\ m \notin unused /\ m \notin Incoming
        /\ \A b \in Callers : caller[b].msg = m => b = c
        /\ \A b \in Callers : ~Answers(b, m)
        /\ message[m].isSync /\ (message[m].isSyncFini <=> m \notin ActorSide)
    BY <1>2, <2>1 DEF OnePlace, CallersRelease
  <2>6. /\ unused' = IF m \in ActorSide THEN unused ELSE unused \cup {m}
        /\ message' = [message EXCEPT ![m] =
             IF m \in ActorSide THEN [message[m] EXCEPT !.isSyncFini = TRUE] ELSE Cleared]
    BY <2>2, <2>5 DEF Release, Free
  <2> DEFINE r == IF m \in ActorSide THEN [message[m] EXCEPT !.isSyncFini = TRUE] ELSE Cleared
  <2>7. /\ r \in MessageRecords
        /\ m \in ActorSide => /\ r.isSync /\ r.isSyncFini /\ r.event = message[m].event
                              /\ r.replyMessage = message[m].replyMessage
                              /\ r.isSyncTimeout = message[m].isSyncTimeout
        /\ m \notin ActorSide => r = Cleared
    BY <2>5, ClearedFacts DEF MessageRecords
  <2>8. message' = [message EXCEPT ![m] = r]
    BY <2>6
  <2> HIDE DEF r
  <2>9. message'[m] = r /\ \A x \in Messages : x # m => message'[x] = message[x]
    BY <2>8
  <2>10. ProtocolTypeOK'
    <3>1. caller' \in [Callers -> CallerRecords] /\ message' \in [Messages -> MessageRecords]
      BY <2>2, <2>3, <2>7, <2>8
    <3> QED
      BY <1>0, <2>6, <3>1 DEF ProtocolTypeOK, CallerRecords, MessageRecords
  <2>11. HandsMatchSteps'
    BY <1>0, <1>2, <2>3, <2>4 DEF HandsMatchSteps
  <2>12. \A b \in Callers : (Looks(b)' <=> Looks(b)) /\ (Looks(b) => b # c)
    BY <1>2, <2>3, <2>4 DEF Looks
  <2>13. \A b \in Callers, x \in Messages : Answers(b, x)' <=> Answers(b, x)
    <3> SUFFICES ASSUME NEW b \in Callers, NEW x \in Messages
                 PROVE  Answers(b, x)' <=> Answers(b, x)
      OBVIOUS
    <3>1. CASE b = c
      BY <3>1, <2>3, <2>4, <2>12 DEF Answers
    <3>2. CASE b # c
      <4>1. Looks(b) => caller[b].msg \in Messages /\ caller[b].msg # m
        BY <2>5, <3>2 DEF Looks, CallerRecords
      <4> QED
        BY <3>2, <4>1, <2>4, <2>9, <2>12 DEF Answers
    <3> QED
      BY <3>1, <3>2
  <2>14. \A b \in Callers, x \in Messages : caller'[b].msg = x <=> caller[b].msg = x /\ x # m
    BY <2>1, <2>3, <2>4, <2>5
  <2>15. OnePlace'
    BY <1>0, <1>1, <2>3, <2>4, <2>5, <2>6, <2>13, <2>14 DEF OnePlace
  <2>16. SomePlace'
    BY <1>1, <2>1, <2>6, <2>13, <2>14 DEF SomePlace
  <2>17. ASSUME NEW x \in Messages PROVE ActorsRelease(x)' /\ AnsweredOnce(x)'
    <3>1. CASE x = m /\ m \in ActorSide
      <4>1. ActorsRelease(x)'
        BY <3>1, <1>1, <2>5, <2>6, <2>7, <2>9 DEF ActorsRelease
      <4>2. m \in Outgoing \cup {actor.msg} => Settled(m)
        BY <2>5, <2>12 DEF AnsweredOnce, ActorSide
      <4>3. AnsweredOnce(m)
        OBVIOUS
      <4>4. AnsweredOnce(m)'
        BY <3>1, <4>2, <4>3, <1>0, <1>1, <2>5, <2>7, <2>9 DEF AnsweredOnce, Settled
      <4> QED
        BY <3>1, <4>1, <4>4
    <3>2. CASE x = m /\ m \notin ActorSide
      BY <3>2, <1>1, <2>5, <2>6, <2>7, <2>9, ClearedFacts
      DEF ActorsRelease, AnsweredOnce, Settled, ActorSide
    <3>3. CASE x # m
      BY <3>3, <1>0, <1>1, <2>6, <2>9, <2>12, <2>14 DEF ActorsRelease, AnsweredOnce, Settled
    <3> QED
      BY <3>1, <3>2, <3>3
  <2>18. ASSUME NEW x \in Messages, NEW b \in Callers PROVE CallersRelease(b, x)' /\ BelongsTo(b, x)'
    <3>1. CASE x = m
      BY <3>1, <2>5, <2>13, <2>14 DEF CallersRelease, BelongsTo
    <3>2. CASE x # m
      <4>1. b = c => caller[b].msg # x
        BY <3>2, <2>1
      <4>2. caller'[b].parity = caller[b].parity
        BY <2>3, <2>4
      <4> QED
        BY <3>2, <4>1, <4>2, <1>1, <2>4, <2>9, <2>13, <2>14 DEF CallersRelease, BelongsTo
    <3> QED
      BY <3>1, <3>2
  <2> QED
    BY <2>10, <2>11, <2>15, <2>16, <2>17, <2>18 DEF ProtocolInv, SecondReleaseFrees, RepliesAreSeen
<1>3. CASE caller[c].at = "reply"
  <2>1. PICK m \in Messages : m = caller[c].retMsg
    BY <1>3 DEF HandsMatchSteps, CallerRecords
  <2> DEFINE k == [caller[c] EXCEPT !.retMsg = NoMessage, !.at = "idle"]
  <2>2. Release(m) /\ caller' = [caller EXCEPT ![c] = k]
    BY <1>3, <2>1 DEF CallerReleases
  <2>3. k \in CallerRecords /\ k.at = "idle" /\ k.retMsg = NoMessage /\ k.msg = caller[c].msg
        /\ k.parity = caller[c].parity /\ caller[c].msg = NoMessage
    BY <1>3 DEF CallerRecords, HandsMatchSteps
  <2> HIDE DEF k
  <2>4. caller'[c] = k /\ \A b \in Callers : b # c => caller'[b] = caller[b]
    BY <2>2
  <2>5. /\ m \notin unused /\ m \notin Incoming /\ m \notin ActorSide
        /\ \A b \in Callers : caller[b].msg # m
        /\ \A b \in Callers : Answers(b, m) <=> b = c
        /\ ~message[m].isSync
    BY <2>1 DEF OnePlace, CallersRelease, Answers
  <2>6. /\ unused' = unused \cup {m}
        /\ message' = [message EXCEPT ![m] = Cleared]
    BY <2>2, <2>5 DEF Release, Free
  <2>7. message'[m] = Cleared /\ \A x \in Messages : x # m => message'[x] = message[x]
    BY <2>6
  <2>8. ProtocolTypeOK'
    <3>1. caller' \in [Callers -> CallerRecords] /\ message' \in [Messages -> MessageRecords]
      BY <2>2, <2>3, <2>6, ClearedFacts
    <3> QED
      BY <1>0, <2>6, <3>1 DEF ProtocolTypeOK, CallerRecords, MessageRecords
  <2>9. HandsMatchSteps'
    BY <1>0, <1>3, <2>3, <2>4 DEF HandsMatchSteps
  <2>10. \A b \in Callers : (Looks(b)' <=> Looks(b)) /\ (Looks(b) => b # c)
    BY <1>3, <2>3, <2>4 DEF Looks
  <2>11. \A b \in Callers, x \in Messages : Answers(b, x)' <=> Answers(b, x) /\ x # m
    <3> SUFFICES ASSUME NEW b \in Callers, NEW x \in Messages
                 PROVE  Answers(b, x)' <=> Answers(b, x) /\ x # m
      OBVIOUS
    <3>1. CASE b = c
      BY <3>1, <2>1, <2>3, <2>4, <2>10 DEF Answers
    <3>2. CASE b # c
      <4>1. Looks(b) => caller[b].msg \in Messages /\ caller[b].msg # m
        BY <2>5 DEF Looks, CallerRecords
      <4>2. ~Answers(b, m)
        BY <3>2, <2>5
      <4> QED
        BY <3>2, <4>1, <4>2, <2>4, <2>7, <2>10 DEF Answers
    <3> QED
      BY <3>1, <3>2
  <2>12. \A b \in Callers : caller'[b].msg = caller[b].msg /\ caller'[b].parity = caller[b].parity
    BY <2>3, <2>4
  <2>13. OnePlace'
    BY <1>0, <1>1, <2>3, <2>4, <2>5, <2>6, <2>11, <2>12 DEF OnePlace
  <2>14. SomePlace'
    BY <1>1, <2>1, <2>6, <2>11, <2>12 DEF SomePlace
  <2>15. ASSUME NEW x \in Messages PROVE ActorsRelease(x)' /\ AnsweredOnce(x)'
    <3>1. CASE x = m
      BY <3>1, <1>0, <1>1, <2>5, <2>6, <2>7, ClearedFacts
      DEF ActorsRelease, AnsweredOnce, Settled, ActorSide
    <3>2. CASE x # m
      BY <3>2, <1>0, <1>1, <2>6, <2>7, <2>10, <2>12 DEF ActorsRelease, AnsweredOnce, Settled
    <3> QED
      BY <3>1, <3>2
  <2>16. ASSUME NEW x \in Messages, NEW b \in Callers PROVE CallersRelease(b, x)' /\ BelongsTo(b, x)'
    <3>1. CASE x = m
      BY <3>1, <2>5, <2>11, <2>12 DEF CallersRelease, BelongsTo
    <3>2. CASE x # m
      <4>1. caller[b].msg = x => b # c
        BY <2>3
      <4> QED
        BY <3>2, <4>1, <1>1, <2>4, <2>7, <2>11, <2>12 DEF CallersRelease, BelongsTo
    <3> QED
      BY <3>1, <3>2
  <2> QED
    BY <2>8, <2>9, <2>13, <2>14, <2>15, <2>16 DEF ProtocolInv, SecondReleaseFrees, RepliesAreSeen
<1> QED
  BY <1>2, <1>3 DEF CallerReleases

-----------------------------------------------------------------------------
\* The callers see nothing of a step that leaves them and the members of the
\* messages alone.
LEMMA CallersUnaware ==
  ASSUME UNCHANGED <<caller, message>>
  PROVE  \A c \in Callers : (Looks(c)' <=> Looks(c)) /\ \A m : Answers(c, m)' <=> Answers(c, m)
BY DEF Looks, Answers

\* The actor's side keeps its messages, or takes one that had no owner but the
\* "in" queue or the pool.
LEMMA ActorTakes ==
  ASSUME ProtocolInv, UNCHANGED <<caller, message>>, ProtocolTypeOK',
         actor'.msg = NoMessage <=> actor'.at \in {"loop", "wait", "ended"},
         \A d \in Directions : IsInjective(messages'[d]),
         unused' \subseteq unused, Incoming' \subseteq Incoming, Outgoing' \subseteq Outgoing,
         \A m \in Messages :
           /\ m \in unused' \cup Incoming' => m \notin ActorSide'
           /\ m \in Outgoing' => m # actor'.msg /\ m \notin leaked'
           /\ m = actor'.msg => m \notin leaked'
           /\ m \in ActorSide => m \in ActorSide'
           /\ m \in ActorSide' => m \in ActorSide \/ m \in Incoming \/ m \in unused
           /\ m \in unused \cup Incoming => m \in unused' \cup Incoming' \cup ActorSide'
           /\ m = actor'.msg /\ m \notin Incoming \cup unused =>
                /\ actor'.at # "set"
                /\ m \in Outgoing \cup {actor.msg}
                /\ actor'.at \in {"handle", "again"} =>
                     m \in Outgoing \/ (m = actor.msg /\ actor.at \in {"handle", "again"})
  PROVE  ProtocolInv'
<1> USE ProtocolInvFacts
<1>1. \A c \in Callers : (Looks(c)' <=> Looks(c)) /\ \A m : Answers(c, m)' <=> Answers(c, m)
  BY CallersUnaware
<1>2. HandsMatchSteps'
  BY DEF HandsMatchSteps
<1>3. \A c \in Callers, m \in Messages : caller[c].msg = m \/ Answers(c, m) =>
        m \notin unused /\ m \notin Incoming /\ (m \in ActorSide' <=> m \in ActorSide)
  BY DEF OnePlace
<1>4. OnePlace'
  <2>1. \A m \in Messages :
          /\ m \in unused' => m \notin ActorSide' /\ m \notin Incoming'
          /\ m \in Incoming' => m \notin ActorSide'
          /\ m \in Outgoing' => m # actor'.msg /\ m \notin leaked'
          /\ m = actor'.msg => m \notin leaked'
    BY DEF OnePlace
  <2>2. \A c \in Callers, m \in Messages :
          /\ caller[c].msg = m =>
               /\ m \notin unused' /\ m \notin Incoming'
               /\ caller[c].at = "push" => m \notin ActorSide'
               /\ \A b \in Callers : caller[b].msg = m => b = c
               /\ \A b \in Callers : ~Answers(b, m)'
          /\ Answers(c, m)' =>
               /\ m \notin unused' /\ m \notin Incoming' /\ m \notin ActorSide'
               /\ \A b \in Callers : Answers(b, m)' => b = c
    BY <1>1, <1>3 DEF OnePlace
  <2> QED
    BY <2>1, <2>2 DEF OnePlace
<1>5. SomePlace'
  BY <1>1 DEF SomePlace
<1>6. ASSUME NEW x \in Messages PROVE ActorsRelease(x)'
  <2>1. CASE x \in unused \cup Incoming
    BY <2>1, ClearedFacts DEF ActorsRelease
  <2>2. CASE x \notin unused \cup Incoming
    BY <2>2 DEF ActorsRelease
  <2> QED
    BY <2>1, <2>2
<1>7. ASSUME NEW x \in Messages PROVE AnsweredOnce(x)'
  <2>1. CASE x \in unused \cup Incoming
    <3>1. ~message[x].isSync
      BY <2>1, ClearedFacts DEF ActorsRelease
    <3> QED
      BY <3>1 DEF AnsweredOnce, Settled
  <2>2. CASE x \notin unused \cup Incoming
    BY <2>2, <1>1 DEF AnsweredOnce, Settled
  <2> QED
    BY <2>1, <2>2
<1>8. ASSUME NEW x \in Messages, NEW c \in Callers PROVE CallersRelease(c, x)' /\ BelongsTo(c, x)'
  BY <1>1, <1>3 DEF CallersRelease, BelongsTo
<1> QED
  BY <1>2, <1>4, <1>5, <1>6, <1>7, <1>8 DEF ProtocolInv, SecondReleaseFrees, RepliesAreSeen

\* A step of the actor that keeps its message.
LEMMA ActorMoves ==
  ASSUME ProtocolInv, NEW a \in {"loop", "wait", "handle", "handled", "again"},
         actor' = [actor EXCEPT !.at = a],
         a \in {"loop", "wait"} <=> actor.at \in {"loop", "wait"}, actor.at # "ended",
         a \in {"handle", "again"} => actor.at \in {"handle", "again"},
         containerEvent' \in [Directions -> BOOLEAN],
         UNCHANGED <<leaked, unused, message, messages, caller, collector, m_bStop>>
  PROVE  ProtocolInv'
<1> USE ProtocolInvFacts
<1>1. actor'.at = a /\ actor'.msg = actor.msg
  BY DEF ProtocolTypeOK
<1>2. ProtocolTypeOK'
  BY DEF ProtocolTypeOK
<1>3. Outgoing' = Outgoing /\ Incoming' = Incoming /\ ActorSide' = ActorSide
  BY <1>1 DEF Outgoing, Incoming, ActorSide
<1>4. actor'.msg = NoMessage <=> actor'.at \in {"loop", "wait", "ended"}
  BY <1>1 DEF HandsMatchSteps
<1> QED
  BY <1>1, <1>2, <1>3, <1>4, ActorTakes DEF OnePlace

\* The actor takes a message to handle it or to purge it.
LEMMA ActorReceivesKeeps ==
  ASSUME ProtocolInv, ActorReceives \/ PurgeReceives
  PROVE  ProtocolInv'
<1> USE ProtocolInvFacts
<1>1. PICK d \in Directions, m \in Messages, a \in {"handle", "purge"} :
        /\ Receive(d, m) /\ actor' = [at |-> a, msg |-> m]
        /\ d = "in" => a = "purge"
        /\ actor.at \in {"loop", "ended"}
        /\ UNCHANGED <<leaked, unused, message, containerEvent, caller, collector, m_bStop>>
  <2>1. CASE ActorReceives
    BY <2>1, ProtocolFacts DEF ActorReceives
  <2>2. CASE PurgeReceives
    BY <2>2 DEF PurgeReceives
  <2> QED
    BY <2>1, <2>2
<1>2. /\ messages' \in [Directions -> Seq(Messages)]
      /\ m \in ToSet(messages[d])
      /\ ToSet(messages'[d]) = ToSet(messages[d]) \ {m}
      /\ \A e \in Directions : IsInjective(messages'[e])
      /\ \A e \in Directions \ {d} : messages'[e] = messages[e]
  BY <1>1, ReceiveFacts DEF OnePlace
<1>3. actor.msg = NoMessage /\ actor'.msg = m /\ actor'.at \in {"handle", "purge"}
  BY <1>1 DEF HandsMatchSteps
<1>4. ProtocolTypeOK'
  BY <1>1, <1>2 DEF ProtocolTypeOK
<1>5. CASE d = "out"
  <2>1. Outgoing' = Outgoing \ {m} /\ Incoming' = Incoming /\ m \in Outgoing
    BY <1>2, <1>5 DEF Outgoing, Incoming, Directions
  <2>2. \A x \in Messages : x \in ActorSide' <=> x \in ActorSide
    BY <1>1, <1>3, <2>1 DEF ActorSide
  <2> QED
    BY <1>1, <1>2, <1>3, <1>4, <2>1, <2>2, ActorTakes DEF OnePlace
<1>6. CASE d = "in"
  <2>1. Incoming' = Incoming \ {m} /\ Outgoing' = Outgoing /\ m \in Incoming
    BY <1>2, <1>6 DEF Outgoing, Incoming, Directions
  <2>2. \A x \in Messages : x \in ActorSide' <=> x \in ActorSide \/ x = m
    BY <1>1, <1>3, <2>1 DEF ActorSide
  <2>3. m \notin ActorSide /\ m \notin unused
    BY <2>1 DEF OnePlace
  <2>4. m \notin Outgoing /\ m \notin leaked
    BY <2>3 DEF ActorSide
  <2> QED
    BY <1>1, <1>2, <1>3, <1>4, <2>1, <2>2, <2>3, <2>4, ActorTakes DEF OnePlace
<1> QED
  BY <1>5, <1>6 DEF Directions

\* The message of the actor's own.
LEMMA ActorTimesOutKeeps ==
  ASSUME ProtocolInv, ActorTimesOut
  PROVE  ProtocolInv'
<1> USE ProtocolInvFacts
<1>1. PICK m \in Messages : m = Unused /\ m \in unused
  BY ProtocolFacts DEF ActorTimesOut
<1>2. /\ actor.at = "wait" /\ actor' = [at |-> "handled", msg |-> m]
      /\ unused' = unused \ {m}
      /\ UNCHANGED <<leaked, message, messages, containerEvent, caller, collector, m_bStop>>
  BY <1>1 DEF ActorTimesOut
<1>3. actor.msg = NoMessage /\ actor'.msg = m /\ actor'.at = "handled"
  BY <1>2 DEF HandsMatchSteps
<1>4. ProtocolTypeOK'
  BY <1>2 DEF ProtocolTypeOK
<1>5. Incoming' = Incoming /\ Outgoing' = Outgoing
  BY <1>2 DEF Outgoing, Incoming
<1>6. \A x \in Messages : x \in ActorSide' <=> x \in ActorSide \/ x = m
  BY <1>2, <1>3, <1>5 DEF ActorSide
<1>7. m \notin ActorSide /\ m \notin Incoming
  BY <1>1 DEF OnePlace
<1>8. m \notin Outgoing /\ m \notin leaked
  BY <1>7 DEF ActorSide
<1> QED
  BY <1>1, <1>2, <1>3, <1>4, <1>5, <1>6, <1>7, <1>8, ActorTakes DEF OnePlace

\* Dropped messages stay on the actor's side.
LEMMA PurgeOutKeeps ==
  ASSUME ProtocolInv, PurgeOut
  PROVE  ProtocolInv'
<1> USE ProtocolInvFacts
<1> DEFINE kept == {m \in Messages : message[m].isSync}
<1>1. /\ messages' = [messages EXCEPT !["out"] = SelectIn(messages["out"], kept)]
      /\ leaked = {} /\ leaked' = Outgoing \ kept
      /\ UNCHANGED <<unused, message, containerEvent, caller, actor, collector, m_bStop>>
  BY DEF PurgeOut, Outgoing
<1> HIDE DEF kept
<1>2. messages["out"] \in Seq(Messages) /\ IsInjective(messages["out"])
      /\ messages \in [Directions -> Seq(Messages)] /\ "out" \in Directions
      /\ \A d \in Directions : IsInjective(messages[d])
  BY ProtocolFacts DEF OnePlace, ProtocolTypeOK
<1>3. /\ SelectIn(messages["out"], kept) \in Seq(Messages)
      /\ IsInjective(SelectIn(messages["out"], kept))
      /\ ToSet(SelectIn(messages["out"], kept)) = ToSet(messages["out"]) \cap kept
  BY <1>2, SelectInType, SelectInInjective, SelectInToSet
<1>4. Outgoing' = Outgoing \cap kept /\ Incoming' = Incoming
  BY <1>1, <1>2, <1>3 DEF Outgoing, Incoming, Directions
<1>5. \A d \in Directions : IsInjective(messages'[d])
  BY <1>1, <1>2, <1>3
<1>6. ProtocolTypeOK'
  <2>1. leaked' \subseteq Messages
    BY <1>1, ProtocolFacts
  <2>2. messages' \in [Directions -> Seq(Messages)]
    BY <1>1, <1>2, <1>3
  <2> QED
    BY <1>1, <2>1, <2>2 DEF ProtocolTypeOK
<1>7. \A x \in Messages : x \in ActorSide' <=> x \in ActorSide
  BY <1>1, <1>4 DEF ActorSide
<1>8. actor.msg = NoMessage <=> actor.at \in {"loop", "wait", "ended"}
  BY DEF HandsMatchSteps
<1>9. actor.at = "handle"
  BY DEF PurgeOut
<1> QED
  BY <1>1, <1>4, <1>5, <1>6, <1>7, <1>8, <1>9, ActorTakes DEF OnePlace

\* The actor's thread ends and forgets the message it triggered itself with.
LEMMA ActorEndsKeeps ==
  ASSUME ProtocolInv, ActorEnds
  PROVE  ProtocolInv'
<1> USE ProtocolInvFacts
<1>1. /\ leaked' = leaked \cup ({actor.msg} \ {NoMessage})
      /\ actor' = [at |-> "ended", msg |-> NoMessage]
      /\ UNCHANGED <<unused, message, messages, containerEvent, caller, collector, m_bStop>>
  BY DEF ActorEnds
<1>2. actor'.at = "ended" /\ actor'.msg = NoMessage
  BY <1>1
<1>3. ProtocolTypeOK'
  BY <1>1 DEF ProtocolTypeOK
<1>4. Outgoing' = Outgoing /\ Incoming' = Incoming
  BY <1>1 DEF Outgoing, Incoming
<1>5. \A x \in Messages : x \in ActorSide' <=> x \in ActorSide
  BY <1>1, <1>4 DEF ActorSide
<1> QED
  BY <1>1, <1>2, <1>3, <1>4, <1>5, ActorTakes DEF OnePlace

-----------------------------------------------------------------------------
\* Reply takes a message from the pool; the caller that looks has it then.
LEMMA ReplyKeeps ==
  ASSUME ProtocolInv, Reply
  PROVE  ProtocolInv'
<1> USE ProtocolInvFacts
<1>1. PICK m \in Messages : m = actor.msg
  BY DEF Reply, HandsMatchSteps, ProtocolTypeOK
<1>2. /\ actor.at = "handle" /\ message[m].isSync /\ actor' = [actor EXCEPT !.at = "set"]
      /\ UNCHANGED <<leaked, messages, containerEvent, caller, collector, m_bStop>>
  BY <1>1 DEF Reply
<1>3. actor'.at = "set" /\ actor'.msg = m
  BY <1>1, <1>2 DEF ProtocolTypeOK
<1>4. Outgoing' = Outgoing /\ Incoming' = Incoming /\ ActorSide' = ActorSide
  BY <1>1, <1>2, <1>3 DEF Outgoing, Incoming, ActorSide
<1>5. HandsMatchSteps'
  BY <1>1, <1>2, <1>3 DEF HandsMatchSteps
<1>6. m \notin unused /\ m \notin Incoming /\ m \notin Outgoing /\ m \in ActorSide
  BY <1>1 DEF OnePlace, ActorSide
<1>7. CASE message[m].isSyncTimeout
  <2>1. UNCHANGED <<unused, message>>
    BY <1>1, <1>7 DEF Reply
  <2>2. \A c \in Callers : (Looks(c)' <=> Looks(c)) /\ \A x : Answers(c, x)' <=> Answers(c, x)
    BY <1>2, <2>1, CallersUnaware
  <2>3. ProtocolTypeOK'
    BY <1>2, <2>1 DEF ProtocolTypeOK
  <2>4. OnePlace' /\ SomePlace'
    BY <1>1, <1>2, <1>3, <1>4, <2>1, <2>2 DEF OnePlace, SomePlace
  <2>5. ASSUME NEW x \in Messages PROVE ActorsRelease(x)' /\ AnsweredOnce(x)'
    BY <1>1, <1>2, <1>3, <1>4, <1>7, <2>1, <2>2 DEF ActorsRelease, AnsweredOnce, Settled
  <2>6. ASSUME NEW x \in Messages, NEW c \in Callers PROVE CallersRelease(c, x)' /\ BelongsTo(c, x)'
    BY <1>2, <1>4, <2>1, <2>2 DEF CallersRelease, BelongsTo
  <2> QED
    BY <1>5, <2>3, <2>4, <2>5, <2>6 DEF ProtocolInv, SecondReleaseFrees, RepliesAreSeen
<1>8. CASE ~message[m].isSyncTimeout
  <2>1. PICK n \in Messages : n = Unused /\ n \in unused
    BY <1>1, <1>8, ProtocolFacts DEF Reply
  <2> DEFINE r == [message[m] EXCEPT !.replyMessage = n]
             s == [Cleared EXCEPT !.call = message[m].call]
  <2>2. /\ unused' = unused \ {n}
        /\ message' = [message EXCEPT ![m].replyMessage = n, ![n] = s]
    BY <1>1, <1>8, <2>1 DEF Reply
  <2>3. n # m
    BY <1>6, <2>1
  <2>4. /\ r \in MessageRecords /\ r.isSync /\ r.isSyncFini = message[m].isSyncFini
        /\ r.call = message[m].call /\ r.replyMessage = n
        /\ r.isSyncTimeout = message[m].isSyncTimeout
    BY <1>2 DEF MessageRecords
  <2>5. /\ s \in MessageRecords /\ s.call = message[m].call /\ ~s.isSync /\ ~s.event
    BY DEF MessageRecords, Cleared
  <2>6. message'[m] = r /\ message'[n] = s /\ \A x \in Messages \ {m, n} : message'[x] = message[x]
    BY <2>2, <2>3
  <2>7. message' \in [Messages -> MessageRecords]
    BY <2>2, <2>4, <2>5
  <2> HIDE DEF r, s
  <2>8. ProtocolTypeOK'
    BY <1>1, <1>2, <1>3, <2>2, <2>7 DEF ProtocolTypeOK, MessageRecords
  <2>9. /\ n \notin ActorSide /\ n \notin Incoming
        /\ \A b \in Callers : caller[b].msg # n /\ ~Answers(b, n)
    BY <2>1 DEF OnePlace
  <2>10. message[m].replyMessage = NoMessage
    BY <1>1, <1>2 DEF AnsweredOnce
  <2>11. PICK c \in Callers : caller[c].msg = m /\ Looks(c)
    BY <1>1, <1>2, <1>8, <2>10 DEF AnsweredOnce, Settled
  <2>12. \A b \in Callers : caller[b].msg = m => b = c
    BY <2>11 DEF OnePlace
  <2>13. \A b \in Callers : Looks(b)' <=> Looks(b)
    BY <1>2 DEF Looks
  <2>14. \A b \in Callers, x \in Messages : Answers(b, x)' <=> Answers(b, x) \/ (b = c /\ x = n)
    <3> SUFFICES ASSUME NEW b \in Callers, NEW x \in Messages
                 PROVE  Answers(b, x)' <=> Answers(b, x) \/ (b = c /\ x = n)
      OBVIOUS
    <3>1. CASE b = c
      <4>1. Answers(c, x)' <=> caller[c].retMsg = x \/ n = x
        BY <1>2, <2>4, <2>6, <2>11, <2>13 DEF Answers
      <4>2. Answers(c, x) <=> caller[c].retMsg = x
        BY <2>10, <2>11 DEF Answers
      <4> QED
        BY <3>1, <4>1, <4>2
    <3>2. CASE b # c
      <4>1. Looks(b) => caller[b].msg \in Messages \ {m, n}
        BY <2>9, <2>12, <3>2 DEF Looks, CallerRecords
      <4> QED
        BY <1>2, <2>6, <2>13, <3>2, <4>1 DEF Answers
    <3> QED
      BY <3>1, <3>2
  <2>15. OnePlace'
    <3>1. /\ \A d \in Directions : IsInjective(messages'[d])
          /\ \A x \in Messages :
               /\ x \in unused' => x \notin ActorSide' /\ x \notin Incoming'
               /\ x \in Incoming' => x \notin ActorSide'
               /\ x \in Outgoing' => x # actor'.msg /\ x \notin leaked'
               /\ x = actor'.msg => x \notin leaked'
      BY <1>1, <1>2, <1>3, <1>4, <2>2 DEF OnePlace
    <3>2. ASSUME NEW b \in Callers, NEW x \in Messages, caller[b].msg = x
          PROVE  /\ x \notin unused' /\ x \notin Incoming'
                 /\ caller[b].at = "push" => x \notin ActorSide'
                 /\ \A d \in Callers : caller[d].msg = x => d = b
                 /\ \A d \in Callers : ~Answers(d, x)'
      BY <1>4, <2>2, <2>9, <2>14, <3>2 DEF OnePlace
    <3>3. ASSUME NEW b \in Callers, NEW x \in Messages, Answers(b, x)'
          PROVE  /\ x \notin unused' /\ x \notin Incoming' /\ x \notin ActorSide'
                 /\ \A d \in Callers : Answers(d, x)' => d = b
      <4>1. CASE x = n
        BY <1>4, <2>2, <2>9, <2>14, <3>3, <4>1
      <4>2. CASE x # n
        BY <1>4, <2>2, <2>14, <3>3, <4>2 DEF OnePlace
      <4> QED
        BY <4>1, <4>2
    <3> QED
      BY <1>2, <3>1, <3>2, <3>3 DEF OnePlace
  <2>16. SomePlace'
    BY <1>2, <1>4, <2>2, <2>14 DEF SomePlace
  <2>17. ASSUME NEW x \in Messages PROVE ActorsRelease(x)' /\ AnsweredOnce(x)'
    <3>1. CASE x = m
      BY <3>1, <1>1, <1>2, <1>3, <1>4, <1>6, <2>2, <2>4, <2>6
      DEF ActorsRelease, AnsweredOnce, Settled
    <3>2. CASE x = n
      BY <3>2, <1>3, <1>4, <2>2, <2>3, <2>5, <2>6, <2>9
      DEF ActorsRelease, AnsweredOnce, Settled, ActorSide
    <3>3. CASE x # m /\ x # n
      BY <3>3, <1>1, <1>2, <1>3, <1>4, <2>2, <2>6, <2>13 DEF ActorsRelease, AnsweredOnce, Settled
    <3> QED
      BY <3>1, <3>2, <3>3
  <2>18. ASSUME NEW x \in Messages, NEW b \in Callers PROVE CallersRelease(b, x)' /\ BelongsTo(b, x)'
    <3>1. CASE x = m
      <4>1. ~Answers(b, m)' /\ (caller[b].msg = m => b = c) /\ caller[c].at # "push"
        BY <2>3, <2>11, <2>12, <2>14 DEF OnePlace, Looks
      <4> QED
        BY <3>1, <4>1, <1>2, <1>4, <2>4, <2>6, <2>11 DEF CallersRelease, BelongsTo
    <3>2. CASE x = n
      <4>1. message[m].call = <<c, caller[c].parity>>
        BY <2>11 DEF BelongsTo
      <4> QED
        BY <3>2, <4>1, <1>2, <2>5, <2>6, <2>9, <2>14 DEF CallersRelease, BelongsTo
    <3>3. CASE x # m /\ x # n
      BY <3>3, <1>2, <1>4, <2>6, <2>14 DEF CallersRelease, BelongsTo
    <3> QED
      BY <3>1, <3>2, <3>3
  <2> QED
    BY <1>5, <2>8, <2>15, <2>16, <2>17, <2>18 DEF ProtocolInv, SecondReleaseFrees, RepliesAreSeen
<1> QED
  BY <1>7, <1>8

\* The reply to an asynchronous message goes through the "in" queue.
LEMMA ReplyAsyncKeeps ==
  ASSUME ProtocolInv, ReplyAsync
  PROVE  ProtocolInv'
<1> USE ProtocolInvFacts
<1>1. PICK n \in Messages : n = Unused /\ n \in unused
  BY ProtocolFacts DEF ReplyAsync
<1>2. PICK m \in Messages : m = actor.msg
  BY DEF ReplyAsync, HandsMatchSteps, ProtocolTypeOK
<1> DEFINE s == [Cleared EXCEPT !.call = message[m].call]
<1>3. /\ actor.at = "handle" /\ ~message[m].isSync /\ actor' = [actor EXCEPT !.at = "set"]
      /\ unused' = unused \ {n}
      /\ message' = [message EXCEPT ![n] = s]
      /\ Push("in", n)
      /\ UNCHANGED <<leaked, containerEvent, caller, collector, m_bStop>>
  BY <1>1, <1>2 DEF ReplyAsync
<1>4. s \in MessageRecords /\ ~s.isSync /\ ~s.event
  BY DEF MessageRecords, Cleared
<1>5. /\ message' \in [Messages -> MessageRecords]
      /\ message'[n] = s /\ \A x \in Messages \ {n} : message'[x] = message[x]
  BY <1>3, <1>4
<1> HIDE DEF s
<1>6. /\ n \notin ActorSide /\ n \notin Incoming
      /\ \A b \in Callers : caller[b].msg # n /\ ~Answers(b, n)
  BY <1>1 DEF OnePlace
<1>7. n \notin Outgoing /\ n \notin leaked /\ n # m
  BY <1>2, <1>6 DEF ActorSide
<1>8. /\ messages' \in [Directions -> Seq(Messages)]
      /\ ToSet(messages'["in"]) = ToSet(messages["in"]) \cup {n}
      /\ IsInjective(messages'["in"])
      /\ \A e \in Directions \ {"in"} : messages'[e] = messages[e]
  BY <1>3, <1>6, ProtocolFacts, PushFacts DEF Incoming, OnePlace
<1>9. /\ Incoming' = Incoming \cup {n} /\ Outgoing' = Outgoing
      /\ \A d \in Directions : IsInjective(messages'[d])
  BY <1>8 DEF Incoming, Outgoing, OnePlace, Directions
<1>10. actor'.at = "set" /\ actor'.msg = m
  BY <1>2, <1>3 DEF ProtocolTypeOK
<1>11. ActorSide' = ActorSide
  BY <1>2, <1>3, <1>9, <1>10 DEF ActorSide
<1>12. ProtocolTypeOK'
  BY <1>2, <1>3, <1>5, <1>8, <1>10 DEF ProtocolTypeOK, MessageRecords
<1>13. HandsMatchSteps'
  BY <1>2, <1>3, <1>10 DEF HandsMatchSteps
<1>14. \A b \in Callers : Looks(b)' <=> Looks(b)
  BY <1>3 DEF Looks
<1>15. \A b \in Callers, x \in Messages : Answers(b, x)' <=> Answers(b, x)
  <2> SUFFICES ASSUME NEW b \in Callers, NEW x \in Messages
               PROVE  Answers(b, x)' <=> Answers(b, x)
    OBVIOUS
  <2>1. Looks(b) => caller[b].msg \in Messages \ {n}
    BY <1>6 DEF Looks, CallerRecords
  <2> QED
    BY <1>3, <1>5, <1>14, <2>1 DEF Answers
<1>16. OnePlace'
  BY <1>2, <1>3, <1>6, <1>7, <1>9, <1>10, <1>11, <1>15 DEF OnePlace
<1>17. SomePlace'
  BY <1>3, <1>9, <1>11, <1>15 DEF SomePlace
<1>18. ASSUME NEW x \in Messages PROVE ActorsRelease(x)' /\ AnsweredOnce(x)'
  <2>1. CASE x = n
    BY <2>1, <1>3, <1>4, <1>5, <1>6, <1>7, <1>9, <1>10, <1>11
    DEF ActorsRelease, AnsweredOnce, Settled
  <2>2. CASE x # n
    BY <2>2, <1>2, <1>3, <1>5, <1>9, <1>10, <1>11, <1>14 DEF ActorsRelease, AnsweredOnce, Settled
  <2> QED
    BY <2>1, <2>2
<1>19. ASSUME NEW x \in Messages, NEW b \in Callers PROVE CallersRelease(b, x)' /\ BelongsTo(b, x)'
  <2>1. CASE x = n
    BY <2>1, <1>3, <1>6, <1>15 DEF CallersRelease, BelongsTo
  <2>2. CASE x # n
    BY <2>2, <1>3, <1>5, <1>11, <1>15 DEF CallersRelease, BelongsTo
  <2> QED
    BY <2>1, <2>2
<1> QED
  BY <1>12, <1>13, <1>16, <1>17, <1>18, <1>19 DEF ProtocolInv, SecondReleaseFrees, RepliesAreSeen

\* The event of a message is set when that message is settled.
LEMMA ReplySetsKeeps ==
  ASSUME ProtocolInv, ReplySets
  PROVE  ProtocolInv'
<1> USE ProtocolInvFacts
<1>1. PICK m \in Messages : m = actor.msg
  BY DEF ReplySets, HandsMatchSteps, ProtocolTypeOK
<1>2. CASE ~message[m].isSync
  <2>1. containerEvent' \in [Directions -> BOOLEAN]
    BY <1>1, <1>2 DEF ReplySets, ProtocolTypeOK
  <2>2. UNCHANGED <<leaked, unused, message, messages, caller, collector, m_bStop>>
        /\ actor.at = "set" /\ actor' = [actor EXCEPT !.at = "handled"]
    BY <1>1, <1>2 DEF ReplySets
  <2> QED
    BY <2>1, <2>2, ActorMoves
<1>3. CASE message[m].isSync
  <2> DEFINE r == [message[m] EXCEPT !.event = TRUE]
  <2>1. /\ actor.at = "set" /\ actor' = [actor EXCEPT !.at = "handled"]
        /\ message' = [message EXCEPT ![m] = r]
        /\ UNCHANGED <<leaked, unused, messages, containerEvent, caller, collector, m_bStop>>
    BY <1>1, <1>3 DEF ReplySets
  <2>2. /\ r \in MessageRecords /\ r.isSync = message[m].isSync
        /\ r.isSyncFini = message[m].isSyncFini /\ r.replyMessage = message[m].replyMessage
        /\ r.call = message[m].call /\ r.isSyncTimeout = message[m].isSyncTimeout
    BY DEF MessageRecords
  <2>3. /\ message' \in [Messages -> MessageRecords]
        /\ message'[m] = r /\ \A x \in Messages \ {m} : message'[x] = message[x]
    BY <2>1, <2>2
  <2> HIDE DEF r
  <2>4. actor'.at = "handled" /\ actor'.msg = m
    BY <1>1, <2>1 DEF ProtocolTypeOK
  <2>5. Outgoing' = Outgoing /\ Incoming' = Incoming /\ ActorSide' = ActorSide
    BY <1>1, <2>1, <2>4 DEF Outgoing, Incoming, ActorSide
  <2>6. ProtocolTypeOK'
    BY <1>1, <2>1, <2>3, <2>4 DEF ProtocolTypeOK, MessageRecords
  <2>7. HandsMatchSteps'
    BY <1>1, <2>1, <2>4 DEF HandsMatchSteps
  <2>8. m \notin unused /\ m \notin Incoming /\ m \notin Outgoing /\ m \in ActorSide
    BY <1>1 DEF OnePlace, ActorSide
  <2>9. Settled(m)
    BY <1>1, <1>3, <2>1 DEF AnsweredOnce
  <2>10. \A b \in Callers : Looks(b)' <=> Looks(b)
    BY <2>1 DEF Looks
  <2>11. \A b \in Callers, x \in Messages : Answers(b, x)' <=> Answers(b, x)
    <3> SUFFICES ASSUME NEW b \in Callers, NEW x \in Messages
                 PROVE  Answers(b, x)' <=> Answers(b, x)
      OBVIOUS
    <3>1. Looks(b) => caller[b].msg \in Messages
      BY DEF Looks, CallerRecords
    <3> QED
      BY <2>1, <2>2, <2>3, <2>10, <3>1 DEF Answers
  <2>12. OnePlace' /\ SomePlace'
    BY <1>1, <2>1, <2>4, <2>5, <2>11 DEF OnePlace, SomePlace
  <2>13. ASSUME NEW x \in Messages PROVE ActorsRelease(x)' /\ AnsweredOnce(x)'
    <3>1. CASE x = m
      BY <3>1, <2>1, <2>2, <2>3, <2>4, <2>5, <2>8, <2>9 DEF ActorsRelease, AnsweredOnce, Settled
    <3>2. CASE x # m
      BY <3>2, <1>1, <2>1, <2>3, <2>4, <2>5, <2>10 DEF ActorsRelease, AnsweredOnce, Settled
    <3> QED
      BY <3>1, <3>2
  <2>14. ASSUME NEW x \in Messages, NEW b \in Callers PROVE CallersRelease(b, x)' /\ BelongsTo(b, x)'
    <3>1. CASE x = m
      <4>1. caller[b].msg = m => caller[b].at # "push"
        BY <2>8 DEF OnePlace
      <4> QED
        BY <3>1, <4>1, <2>1, <2>2, <2>3, <2>5, <2>11 DEF CallersRelease, BelongsTo
    <3>2. CASE x # m
      BY <3>2, <2>1, <2>3, <2>5, <2>11 DEF CallersRelease, BelongsTo
    <3> QED
      BY <3>1, <3>2
  <2> QED
    BY <2>6, <2>7, <2>12, <2>13, <2>14 DEF ProtocolInv, SecondReleaseFrees, RepliesAreSeen
<1> QED
  BY <1>2, <1>3

-----------------------------------------------------------------------------
\* The last owner of a message frees it; the callers do not know of it.
LEMMA FreeKeeps ==
  ASSUME ProtocolInv, NEW m \in Messages, Free(m),
         \A b \in Callers : caller[b].msg # m /\ ~Answers(b, m),
         m \notin ActorSide', m \notin Incoming',
         \A x \in Messages \ {m} : /\ x \in ActorSide' <=> x \in ActorSide
                                   /\ x \in Incoming' <=> x \in Incoming
                                   /\ x \in Outgoing' <=> x \in Outgoing
                                   /\ x = actor'.msg <=> x = actor.msg
                                   /\ x = actor.msg => actor'.at = actor.at,
         messages' \in [Directions -> Seq(Messages)],
         \A d \in Directions : IsInjective(messages'[d]),
         actor'.at \in {"loop", "wait", "handle", "set", "handled", "again", "ended", "purge"},
         actor'.msg = NoMessage <=> actor'.at \in {"loop", "wait", "ended"},
         actor' = [at |-> actor'.at, msg |-> actor'.msg],
         actor'.msg \in Messages \cup {NoMessage},
         UNCHANGED <<leaked, containerEvent, caller, collector, m_bStop>>
  PROVE  ProtocolInv'
<1> USE ProtocolInvFacts
<1>1. /\ unused' = unused \cup {m}
      /\ message' = [message EXCEPT ![m] = Cleared]
  BY DEF Free
<1>2. message'[m] = Cleared /\ \A x \in Messages \ {m} : message'[x] = message[x]
  BY <1>1
<1>3. ProtocolTypeOK'
  <2>1. message' \in [Messages -> MessageRecords]
    BY <1>1, ClearedFacts
  <2>2. actor' \in [at : {"loop", "wait", "handle", "set", "handled", "again",
                          "ended", "purge"}, msg : Messages \cup {NoMessage}]
    OBVIOUS
  <2> QED
    BY <1>1, <2>1, <2>2 DEF ProtocolTypeOK, MessageRecords
<1>4. HandsMatchSteps'
  BY DEF HandsMatchSteps
<1>5. \A b \in Callers : Looks(b)' <=> Looks(b)
  BY DEF Looks
<1>6. \A b \in Callers, x \in Messages : Answers(b, x)' <=> Answers(b, x)
  <2> SUFFICES ASSUME NEW b \in Callers, NEW x \in Messages
               PROVE  Answers(b, x)' <=> Answers(b, x)
    OBVIOUS
  <2>1. Looks(b) => caller[b].msg \in Messages \ {m}
    BY DEF Looks, CallerRecords
  <2> QED
    BY <1>2, <1>5, <2>1 DEF Answers
<1>7. \A x \in Messages : x # m => m # x
  OBVIOUS
<1>8. m \notin Outgoing' /\ m # actor'.msg
  BY DEF ActorSide
<1>9. OnePlace'
  <2>1. /\ \A x \in Messages :
             /\ x \in unused' => x \notin ActorSide' /\ x \notin Incoming'
             /\ x \in Incoming' => x \notin ActorSide'
             /\ x \in Outgoing' => x # actor'.msg /\ x \notin leaked'
             /\ x = actor'.msg => x \notin leaked'
    BY <1>1, <1>8 DEF OnePlace
  <2>2. ASSUME NEW b \in Callers, NEW x \in Messages, caller[b].msg = x
        PROVE  /\ x \notin unused' /\ x \notin Incoming'
               /\ caller[b].at = "push" => x \notin ActorSide'
               /\ \A d \in Callers : caller[d].msg = x => d = b
               /\ \A d \in Callers : ~Answers(d, x)'
    BY <1>1, <1>6, <2>2 DEF OnePlace
  <2>3. ASSUME NEW b \in Callers, NEW x \in Messages, Answers(b, x)'
        PROVE  /\ x \notin unused' /\ x \notin Incoming' /\ x \notin ActorSide'
               /\ \A d \in Callers : Answers(d, x)' => d = b
    BY <1>1, <1>6, <2>3 DEF OnePlace
  <2> QED
    BY <2>1, <2>2, <2>3 DEF OnePlace
<1>10. SomePlace'
  BY <1>1, <1>6 DEF SomePlace
<1>11. ASSUME NEW x \in Messages PROVE ActorsRelease(x)' /\ AnsweredOnce(x)'
  <2>1. CASE x = m
    BY <2>1, <1>1, <1>2, <1>8, ClearedFacts DEF ActorsRelease, AnsweredOnce, Settled
  <2>2. CASE x # m
    BY <2>2, <1>1, <1>2, <1>5 DEF ActorsRelease, AnsweredOnce, Settled
  <2> QED
    BY <2>1, <2>2
<1>12. ASSUME NEW x \in Messages, NEW b \in Callers PROVE CallersRelease(b, x)' /\ BelongsTo(b, x)'
  <2>1. CASE x = m
    BY <2>1, <1>6 DEF CallersRelease, BelongsTo
  <2>2. CASE x # m
    BY <2>2, <1>2, <1>6 DEF CallersRelease, BelongsTo
  <2> QED
    BY <2>1, <2>2
<1> QED
  BY <1>3, <1>4, <1>9, <1>10, <1>11, <1>12 DEF ProtocolInv, SecondReleaseFrees, RepliesAreSeen

\* The collector takes an "in" message and releases it.
LEMMA CollectorReceivesKeeps ==
  ASSUME ProtocolInv, CollectorReceives
  PROVE  ProtocolInv'
<1> USE ProtocolInvFacts
<1>1. PICK m \in Messages : Receive("in", m) /\ Release(m)
  BY DEF CollectorReceives
<1>2. UNCHANGED <<leaked, containerEvent, caller, actor, collector, m_bStop>>
  BY DEF CollectorReceives
<1>3. /\ messages' \in [Directions -> Seq(Messages)]
      /\ m \in Incoming /\ Incoming' = Incoming \ {m} /\ Outgoing' = Outgoing
      /\ \A d \in Directions : IsInjective(messages'[d])
  <2>1. /\ messages' \in [Directions -> Seq(Messages)]
        /\ m \in ToSet(messages["in"])
        /\ ToSet(messages'["in"]) = ToSet(messages["in"]) \ {m}
        /\ IsInjective(messages'["in"])
        /\ \A e \in Directions \ {"in"} : messages'[e] = messages[e]
    BY <1>1, ReceiveFacts, ProtocolFacts DEF OnePlace
  <2> QED
    BY <2>1 DEF Incoming, Outgoing, OnePlace, Directions
<1>4. ActorSide' = ActorSide
  BY <1>2, <1>3 DEF ActorSide
<1>5. m \notin ActorSide /\ \A b \in Callers : caller[b].msg # m /\ ~Answers(b, m)
  BY <1>3 DEF OnePlace
<1>6. ~message[m].isSync
  BY <1>3 DEF ActorsRelease
<1>7. Free(m)
  BY <1>1, <1>6 DEF Release
<1>8. /\ actor.at \in {"loop", "wait", "handle", "set", "handled", "again", "ended", "purge"}
      /\ actor.msg = NoMessage <=> actor.at \in {"loop", "wait", "ended"}
      /\ actor = [at |-> actor.at, msg |-> actor.msg]
      /\ actor.msg \in Messages \cup {NoMessage}
  BY DEF ProtocolTypeOK, HandsMatchSteps
<1> QED
  BY <1>2, <1>3, <1>4, <1>5, <1>7, <1>8, FreeKeeps

\* The actor frees a message that nobody else owns, or leaves it to its caller.
LEMMA ActorReleasesKeeps ==
  ASSUME ProtocolInv, ActorReleases
  PROVE  ProtocolInv'
<1> USE ProtocolInvFacts
<1>1. PICK m \in Messages : m = actor.msg
  BY DEF ActorReleases, HandsMatchSteps, ProtocolTypeOK
<1>2. PICK a \in {"loop", "ended"} : actor' = [at |-> a, msg |-> NoMessage]
  BY DEF ActorReleases
<1>3. /\ Release(m)
      /\ UNCHANGED <<leaked, messages, containerEvent, caller, collector, m_bStop>>
  BY <1>1 DEF ActorReleases
<1>4. actor'.at = a /\ actor'.msg = NoMessage
  BY <1>2
<1>5. Outgoing' = Outgoing /\ Incoming' = Incoming
  BY <1>3 DEF Outgoing, Incoming
<1>6. m \in ActorSide /\ m \notin Incoming /\ m \notin unused /\ m \notin Outgoing /\ m \notin leaked
  BY <1>1 DEF OnePlace, ActorSide
<1>7. \A x \in Messages : x \in ActorSide' <=> x \in ActorSide /\ x # m
  BY <1>1, <1>3, <1>4, <1>5, <1>6 DEF ActorSide
<1>8. \A d \in Directions : IsInjective(messages'[d])
  BY <1>3 DEF OnePlace
<1>9. CASE ~message[m].isSync \/ message[m].isSyncFini
  <2>1. Free(m)
    BY <1>3, <1>9 DEF Release
  <2>2. \A b \in Callers : caller[b].msg # m /\ ~Answers(b, m)
    <3> SUFFICES ASSUME NEW b \in Callers PROVE caller[b].msg # m /\ ~Answers(b, m)
      OBVIOUS
    <3>1. caller[b].msg = m => caller[b].at # "push"
      BY <1>6 DEF OnePlace
    <3>2. CallersRelease(b, m)
      OBVIOUS
    <3>3. ~Answers(b, m)
      BY <1>6 DEF OnePlace
    <3> QED
      BY <1>6, <1>9, <3>1, <3>2, <3>3 DEF CallersRelease
  <2>3. messages' \in [Directions -> Seq(Messages)]
    BY <1>3 DEF ProtocolTypeOK
  <2> QED
    BY <1>1, <1>2, <1>3, <1>4, <1>5, <1>6, <1>7, <1>8, <2>1, <2>2, <2>3, FreeKeeps
<1>10. CASE message[m].isSync /\ ~message[m].isSyncFini
  <2> DEFINE r == [message[m] EXCEPT !.isSyncFini = TRUE]
  <2>1. message' = [message EXCEPT ![m] = r] /\ unused' = unused
    BY <1>3, <1>10 DEF Release
  <2>2. /\ r \in MessageRecords /\ r.isSync /\ r.isSyncFini /\ r.event = message[m].event
        /\ r.replyMessage = message[m].replyMessage
        /\ r.call = message[m].call /\ r.isSyncTimeout = message[m].isSyncTimeout
    BY <1>10 DEF MessageRecords
  <2>3. /\ message' \in [Messages -> MessageRecords]
        /\ message'[m] = r /\ \A x \in Messages \ {m} : message'[x] = message[x]
    BY <2>1, <2>2
  <2> HIDE DEF r
  <2>4. ProtocolTypeOK'
    BY <1>2, <1>3, <2>1, <2>3 DEF ProtocolTypeOK, MessageRecords
  <2>5. HandsMatchSteps'
    BY <1>3, <1>4 DEF HandsMatchSteps
  <2>6. \A b \in Callers : Looks(b)' <=> Looks(b)
    BY <1>3 DEF Looks
  <2>7. \A b \in Callers, x \in Messages : Answers(b, x)' <=> Answers(b, x)
    <3> SUFFICES ASSUME NEW b \in Callers, NEW x \in Messages
                 PROVE  Answers(b, x)' <=> Answers(b, x)
      OBVIOUS
    <3>1. Looks(b) => caller[b].msg \in Messages
      BY DEF Looks, CallerRecords
    <3> QED
      BY <1>3, <2>2, <2>3, <2>6, <3>1 DEF Answers
  <2>8. PICK c \in Callers : caller[c].msg = m
    BY <1>6, <1>10 DEF ActorsRelease
  <2>9. OnePlace'
    BY <1>3, <1>4, <1>5, <1>7, <1>8, <2>1, <2>7 DEF OnePlace
  <2>10. SomePlace'
    BY <1>3, <1>5, <1>7, <2>1, <2>7, <2>8 DEF SomePlace
  <2>11. ASSUME NEW x \in Messages PROVE ActorsRelease(x)' /\ AnsweredOnce(x)'
    <3>1. CASE x = m
      BY <3>1, <1>4, <1>5, <1>6, <1>7, <2>1, <2>2, <2>3 DEF ActorsRelease, AnsweredOnce, Settled
    <3>2. CASE x # m
      BY <3>2, <1>1, <1>3, <1>4, <1>5, <1>7, <2>1, <2>3, <2>6 DEF ActorsRelease, AnsweredOnce, Settled
    <3> QED
      BY <3>1, <3>2
  <2>12. ASSUME NEW x \in Messages, NEW b \in Callers PROVE CallersRelease(b, x)' /\ BelongsTo(b, x)'
    <3>1. CASE x = m
      <4>1. CallersRelease(b, m) /\ BelongsTo(b, m)
        OBVIOUS
      <4>2. caller[b].msg = m => caller[b].at # "push" /\ ~Answers(b, m)
        BY <1>6 DEF OnePlace
      <4>3. ~Answers(b, m)
        BY <1>6 DEF OnePlace
      <4>4. m \notin ActorSide'
        BY <1>7
      <4>5. ~Answers(b, x)'
        BY <3>1, <4>3, <2>7
      <4>6. message'[x] = r /\ caller' = caller
        BY <3>1, <2>3, <1>3
      <4>7. CallersRelease(b, x)'
        BY <3>1, <4>1, <4>2, <4>4, <4>5, <4>6, <2>2 DEF CallersRelease
      <4>8. BelongsTo(b, x)'
        BY <3>1, <4>1, <4>2, <4>5, <4>6, <2>2 DEF BelongsTo
      <4> QED
        BY <4>7, <4>8
    <3>2. CASE x # m
      BY <3>2, <1>3, <1>7, <2>3, <2>7 DEF CallersRelease, BelongsTo
    <3> QED
      BY <3>1, <3>2
  <2> QED
    BY <2>4, <2>5, <2>9, <2>10, <2>11, <2>12 DEF ProtocolInv, SecondReleaseFrees, RepliesAreSeen
<1> QED
  BY <1>9, <1>10

\* Steps that only touch the flags and the events of the port.
LEMMA PortMoves ==
  ASSUME ProtocolInv, containerEvent' \in [Directions -> BOOLEAN],
         collector' \in {"loop", "wait"}, m_bStop' \in BOOLEAN,
         UNCHANGED <<leaked, unused, message, messages, caller, actor>>
  PROVE  ProtocolInv'
BY DEF ProtocolInv, ProtocolTypeOK, HandsMatchSteps, OnePlace, SomePlace, SecondReleaseFrees,
       RepliesAreSeen, ActorsRelease, CallersRelease, AnsweredOnce, BelongsTo, Settled, Answers,
       Looks, ActorSide, Outgoing, Incoming

\* One case for each action.
LEMMA ProtocolInvIsInductive ==
  ProtocolInv /\ [ProtocolNext]_protocolVars => ProtocolInv'
<1> SUFFICES ASSUME ProtocolInv, [ProtocolNext]_protocolVars PROVE ProtocolInv'
  OBVIOUS
<1> USE ProtocolInvFacts
<1>1. ASSUME NEW c \in Callers, NEW sync \in BOOLEAN, CallerGets(c, sync) PROVE ProtocolInv'
  BY <1>1, CallerGetsKeeps
<1>2. ASSUME NEW c \in Callers, CallerStep(c) PROVE ProtocolInv'
  BY <1>2, CallerPushesKeeps, CallerWakesKeeps, CallerGivesUpKeeps, CallerReleasesKeeps
  DEF CallerStep
<1>3. ASSUME NEW c \in Callers, CallerTimesOut(c) PROVE ProtocolInv'
  <2>1. caller[c].at = "wait" /\ caller[c].msg # NoMessage
    BY <1>3 DEF CallerTimesOut, HandsMatchSteps
  <2>2. containerEvent' \in [Directions -> BOOLEAN]
    BY <1>3 DEF CallerTimesOut, ProtocolTypeOK
  <2>3. /\ caller' = [caller EXCEPT ![c].at = "late"]
        /\ UNCHANGED <<leaked, unused, message, messages, actor, collector, m_bStop>>
    BY <1>3 DEF CallerTimesOut
  <2> QED
    BY <2>1, <2>2, <2>3, CallerMoves
<1>4. CASE ActorReceives \/ PurgeReceives
  BY <1>4, ActorReceivesKeeps
<1>5. CASE ActorFindsNothing \/ ActorWakes \/ NoReply \/ ActorTriggersItself
  <2>1. PICK a \in {"loop", "wait", "handle", "handled", "again"} :
          /\ actor' = [actor EXCEPT !.at = a]
          /\ a \in {"loop", "wait"} <=> actor.at \in {"loop", "wait"}
          /\ actor.at # "ended"
          /\ a \in {"handle", "again"} => actor.at \in {"handle", "again"}
    <3>1. CASE ActorFindsNothing
      BY <3>1 DEF ActorFindsNothing
    <3>2. CASE ActorWakes
      BY <3>2 DEF ActorWakes
    <3>3. CASE NoReply
      BY <3>3 DEF NoReply
    <3>4. CASE ActorTriggersItself
      BY <3>4 DEF ActorTriggersItself
    <3> QED
      BY <1>5, <3>1, <3>2, <3>3, <3>4
  <2>2. /\ containerEvent' \in [Directions -> BOOLEAN]
        /\ UNCHANGED <<leaked, unused, message, messages, caller, collector, m_bStop>>
    BY <1>5 DEF ActorFindsNothing, ActorWakes, NoReply, ActorTriggersItself, ProtocolTypeOK
  <2> QED
    BY <2>1, <2>2, ActorMoves
<1>6. CASE Reply \/ ReplyAsync \/ ReplySets
  BY <1>6, ReplyKeeps, ReplyAsyncKeeps, ReplySetsKeeps
<1>7. CASE ActorReleases \/ ActorEnds \/ ActorTimesOut \/ PurgeOut \/ CollectorReceives
  BY <1>7, ActorReleasesKeeps, ActorEndsKeeps, ActorTimesOutKeeps, PurgeOutKeeps,
     CollectorReceivesKeeps
<1>8. CASE Dispose \/ CollectorWaits \/ UNCHANGED protocolVars
  <2>1. /\ containerEvent' \in [Directions -> BOOLEAN]
        /\ collector' \in {"loop", "wait"} /\ m_bStop' \in BOOLEAN
        /\ UNCHANGED <<leaked, unused, message, messages, caller, actor>>
    BY <1>8 DEF Dispose, CollectorWaits, protocolVars, ProtocolTypeOK
  <2> QED
    BY <2>1, PortMoves
<1> QED
  BY <1>1, <1>2, <1>3, <1>4, <1>5, <1>6, <1>7, <1>8
  DEF ProtocolNext, ActorStep, CollectorStep

\* What is not in the pool nor lost is reachable, and the other way round.
LEMMA InvImpliesFreed == ProtocolInv => FreedWithTheLastReference
<1> SUFFICES ASSUME ProtocolInv PROVE FreedWithTheLastReference
  OBVIOUS
<1> USE ProtocolInvFacts
<1>1. \A m \in Messages : m \in Reachable <=>
        \/ m \in Outgoing \/ m \in Incoming \/ m = actor.msg
        \/ \E c \in Callers : caller[c].msg = m \/ Answers(c, m)
  BY DEF Reachable, Outgoing, Incoming, Answers, Looks
<1>2. \A m \in Messages : m \in unused <=> m \notin Reachable \cup leaked
  BY <1>1 DEF OnePlace, SomePlace, ActorSide
<1>3. unused \subseteq Messages
  BY DEF ProtocolTypeOK
<1> QED
  BY <1>2, <1>3 DEF FreedWithTheLastReference

\* A reply in the hands of a caller belongs to it (BelongsTo).
LEMMA InvImpliesReplies == ProtocolInv => RepliesAnswerTheCall
<1> SUFFICES ASSUME ProtocolInv, NEW c \in Callers, caller[c].retMsg # NoMessage
             PROVE  message[caller[c].retMsg].call = <<c, caller[c].parity>>
  BY DEF RepliesAnswerTheCall
<1>1. caller[c].retMsg \in Messages
  BY ProtocolInvFacts DEF CallerRecords
<1> QED
  BY <1>1, ProtocolInvFacts DEF BelongsTo, Answers

-----------------------------------------------------------------------------
\* The inductive invariant of the protocol holds in every reachable state.
THEOREM ProtocolInvHolds == ProtocolSpec => []ProtocolInv
BY ProtocolInitInv, ProtocolInvIsInductive, PTL DEF ProtocolSpec

\* Message::Release gives a message back exactly when nobody has it any more:
\* none is reused in somebody's hands, and none is lost but those of leaked.
THEOREM FreedWithTheLastReferenceHolds == ProtocolSpec => []FreedWithTheLastReference
BY ProtocolInvHolds, InvImpliesFreed, PTL

\* SendOutMessageSync returns the reply to this very call, never the late reply to
\* an earlier one that timed out (ActorProtocol.cpp).
THEOREM RepliesAnswerTheCallHolds == ProtocolSpec => []RepliesAnswerTheCall
BY ProtocolInvHolds, InvImpliesReplies, PTL

-----------------------------------------------------------------------------
\* The message of sender s must be somewhere.
Waits(s) == sender[s] = "wait" /\ ~waitEvent[s]

InQueue(s, l, i) == i \in DOMAIN vecMessages[l] /\ vecMessages[l][i] = Awaited(s)
InHand(s, i) == i \in DOMAIN frames /\ frames[i].msg = Awaited(s)

\* The message of a waiting sender is somewhere.
NotLost(s) ==
  Waits(s) => \/ \E l \in Loops, i \in Nat : InQueue(s, l, i)
              \/ \E i \in Nat : InHand(s, i)

\* It is nowhere else, and nowhere when the sender does not wait.
NotTwice(s) ==
  /\ \A l \in Loops, i \in Nat : InQueue(s, l, i) =>
       /\ Waits(s)
       /\ \A k \in Loops, j \in Nat : InQueue(s, k, j) => k = l /\ j = i
       /\ \A j \in Nat : ~InHand(s, j)
  /\ \A i \in Nat : InHand(s, i) =>
       /\ Waits(s)
       /\ \A j \in Nat : InHand(s, j) => j = i

\* The event was reset before the message is pushed.
ResetFirst(s) == sender[s] = "checked" => ~waitEvent[s]

MessengerInv ==
  /\ MessengerTypeOK
  /\ \A s \in Senders : NotLost(s) /\ NotTwice(s) /\ ResetFirst(s)

-----------------------------------------------------------------------------
\* The positions of a sender's message, without indices out of range.
LEMMA MessengerFacts ==
  ASSUME MessengerTypeOK
  PROVE  /\ \A l \in Loops : /\ vecMessages[l] \in Seq(ThreadMessages)
                             /\ Len(vecMessages[l]) \in Nat
                             /\ DOMAIN vecMessages[l] = 1 .. Len(vecMessages[l])
         /\ frames \in Seq([loop : Loops, msg : ThreadMessages \cup {NoMsg}])
         /\ Len(frames) \in Nat
         /\ DOMAIN frames = 1 .. Len(frames)
         /\ \A i \in DOMAIN frames :
              frames[i] \in [loop : Loops, msg : ThreadMessages \cup {NoMsg}]
         /\ frames # <<>> => 1 \in DOMAIN frames
         /\ \A s \in Senders : Awaited(s) # NoMsg /\ Awaited(s) \in ThreadMessages
<1>1. \A l \in Loops : vecMessages[l] \in Seq(ThreadMessages)
  BY DEF MessengerTypeOK
<1>2. \A s \in Senders : Awaited(s) # NoMsg /\ Awaited(s) \in ThreadMessages
  BY SendersAssumption DEF Awaited, NoMsg, ThreadMessages
<1>3. frames \in Seq([loop : Loops, msg : ThreadMessages \cup {NoMsg}])
  BY DEF MessengerTypeOK
<1>4. \A i \in DOMAIN frames :
        frames[i] \in [loop : Loops, msg : ThreadMessages \cup {NoMsg}]
  <2> DEFINE F == [loop : Loops, msg : ThreadMessages \cup {NoMsg}]
  <2> HIDE DEF F
  <2>1. frames \in Seq(F)
    BY <1>3 DEF F
  <2>2. \A i \in DOMAIN frames : frames[i] \in F
    BY <2>1
  <2> QED
    BY <2>2 DEF F
<1> QED
  BY <1>1, <1>2, <1>3, <1>4

\* Nobody waits at the start, and nothing is queued.
LEMMA MessengerInitInv == MessengerInit => MessengerInv
<1> SUFFICES ASSUME MessengerInit PROVE MessengerInv
  OBVIOUS
<1>1. MessengerTypeOK
  BY DEF MessengerInit, MessengerTypeOK
<1>2. \A s \in Senders : NotLost(s) /\ NotTwice(s) /\ ResetFirst(s)
  BY DEF MessengerInit, NotLost, NotTwice, ResetFirst, Waits, InQueue, InHand
<1> QED
  BY <1>1, <1>2 DEF MessengerInv

\* No message moves while a sender resets its event.
LEMMA SenderChecksKeeps ==
  ASSUME MessengerInv, NEW s \in Senders, SenderChecks(s)
  PROVE  MessengerInv'
<1>1. MessengerTypeOK'
  BY DEF MessengerInv, MessengerTypeOK, SenderChecks
<1>2. ASSUME NEW t \in Senders PROVE NotLost(t)' /\ NotTwice(t)' /\ ResetFirst(t)'
  <2>1. \A l, i : (InQueue(t, l, i)' <=> InQueue(t, l, i)) /\ (InHand(t, i)' <=> InHand(t, i))
    BY DEF SenderChecks, InQueue, InHand
  <2>2. Waits(t)' <=> Waits(t)
    BY DEF SenderChecks, Waits, MessengerInv, MessengerTypeOK
  <2>3. ResetFirst(t)'
    BY DEF SenderChecks, ResetFirst, MessengerInv, MessengerTypeOK
  <2> QED
    BY <2>1, <2>2, <2>3 DEF NotLost, NotTwice, MessengerInv
<1> QED
  BY <1>1, <1>2 DEF MessengerInv

\* A sender that stops waiting: its own message is nowhere, the others are where they were.
LEMMA SenderReturnsKeeps ==
  ASSUME MessengerInv, NEW s \in Senders, SenderReturns(s)
  PROVE  MessengerInv'
<1>1. MessengerTypeOK'
  BY DEF MessengerInv, MessengerTypeOK, SenderReturns
<1>2. ASSUME NEW t \in Senders PROVE NotLost(t)' /\ NotTwice(t)' /\ ResetFirst(t)'
  <2>1. \A l, i : (InQueue(t, l, i)' <=> InQueue(t, l, i)) /\ (InHand(t, i)' <=> InHand(t, i))
    BY DEF SenderReturns, InQueue, InHand
  <2>2. Waits(t)' <=> Waits(t)
    BY DEF SenderReturns, Waits, MessengerInv, MessengerTypeOK
  <2>3. ResetFirst(t)'
    BY DEF SenderReturns, ResetFirst, MessengerInv, MessengerTypeOK
  <2> QED
    BY <2>1, <2>2, <2>3 DEF NotLost, NotTwice, MessengerInv
<1> QED
  BY <1>1, <1>2 DEF MessengerInv

\* The sender of the message had none anywhere; it has this one now.
LEMMA SenderPushesKeeps ==
  ASSUME MessengerInv, NEW s \in Senders, NEW l \in Loops, NEW wait \in BOOLEAN,
         SenderPushes(s, l, wait)
  PROVE  MessengerInv'
<1> USE DEF MessengerInv
<1> DEFINE m == [from |-> s, waitEvent |-> wait]
           n == Len(vecMessages[l]) + 1
<1>1. /\ sender[s] = "checked"
      /\ vecMessages' = [vecMessages EXCEPT ![l] = Append(vecMessages[l], m)]
      /\ sender' = [sender EXCEPT ![s] = IF wait THEN "wait" ELSE "idle"]
      /\ UNCHANGED <<frames, waitEvent, stage>>
  BY DEF SenderPushes
<1>2. m \in ThreadMessages
  BY DEF ThreadMessages
<1>3. Append(vecMessages[l], m) \in Seq(ThreadMessages)
  BY <1>2, MessengerFacts
<1>4. MessengerTypeOK'
  BY <1>1, <1>3 DEF MessengerTypeOK
<1>5. ASSUME NEW t \in Senders PROVE NotLost(t)' /\ NotTwice(t)' /\ ResetFirst(t)'
  <2>1. \A i \in Nat : InHand(t, i)' <=> InHand(t, i)
    BY <1>1 DEF InHand
  <2>2. \A k \in Loops, i \in Nat : InQueue(t, k, i)' <=>
          InQueue(t, k, i) \/ (k = l /\ i = n /\ m = Awaited(t))
    <3> SUFFICES ASSUME NEW k \in Loops, NEW i \in Nat
                 PROVE  InQueue(t, k, i)' <=>
                          InQueue(t, k, i) \/ (k = l /\ i = n /\ m = Awaited(t))
      OBVIOUS
    <3>1. CASE k # l
      BY <1>1, <3>1 DEF InQueue, MessengerTypeOK
    <3>2. CASE k = l
      <4>1. vecMessages'[l] = Append(vecMessages[l], m)
        BY <1>1 DEF MessengerTypeOK
      <4>2. /\ Len(vecMessages'[l]) = n
            /\ DOMAIN vecMessages'[l] = 1 .. n
            /\ \A j \in 1 .. n : vecMessages'[l][j] = IF j = n THEN m ELSE vecMessages[l][j]
        BY <1>2, <4>1, MessengerFacts, AppendProperties
      <4> QED
        BY <3>2, <4>2, MessengerFacts DEF InQueue
    <3> QED
      BY <3>1, <3>2
  <2>3. CASE t # s
    <3>1. m # Awaited(t)
      BY <2>3 DEF Awaited
    <3>2. sender'[t] = sender[t] /\ waitEvent'[t] = waitEvent[t]
      BY <1>1, <2>3 DEF MessengerTypeOK
    <3> QED
      BY <2>1, <2>2, <3>1, <3>2 DEF NotLost, NotTwice, ResetFirst, Waits
  <2>4. CASE t = s
    <3>1. m = Awaited(t) <=> wait
      BY <2>4 DEF Awaited
    <3>2. sender'[t] = (IF wait THEN "wait" ELSE "idle") /\ waitEvent'[t] = waitEvent[t]
      BY <1>1, <2>4 DEF MessengerTypeOK
    <3>3. ~Waits(t) /\ ~waitEvent[t]
      BY <1>1, <2>4 DEF Waits, ResetFirst
    <3>4. Waits(t)' <=> wait
      BY <3>2, <3>3 DEF Waits
    <3>5. /\ \A k \in Loops, i \in Nat : ~InQueue(t, k, i)
          /\ \A i \in Nat : ~InHand(t, i)
      BY <3>3 DEF NotTwice
    <3>6. n \in Nat
      BY MessengerFacts
    <3>7. ResetFirst(t)'
      BY <3>2 DEF ResetFirst
    <3>8. NotLost(t)'
      BY <2>2, <3>1, <3>4, <3>6 DEF NotLost
    <3>9. NotTwice(t)'
      BY <2>1, <2>2, <3>1, <3>4, <3>5 DEF NotTwice
    <3> QED
      BY <3>7, <3>8, <3>9
  <2> QED
    BY <2>3, <2>4
<1> QED
  BY <1>4, <1>5

-----------------------------------------------------------------------------
\* A loop that takes, ends or begins: entering shifts the hands by one.
LEMMA EnterKeeps ==
  ASSUME MessengerInv, Enter, UNCHANGED <<vecMessages, sender, waitEvent, stage>>
  PROVE  MessengerInv'
<1> USE DEF MessengerInv
<1> DEFINE f == [loop |-> "window", msg |-> NoMsg]
<1>1. frames' = <<f>> \o frames
  BY DEF Enter
<1>2. f \in [loop : Loops, msg : ThreadMessages \cup {NoMsg}]
  BY DEF Loops
<1>3. /\ frames' \in Seq([loop : Loops, msg : ThreadMessages \cup {NoMsg}])
      /\ Len(frames') = Len(frames) + 1
      /\ DOMAIN frames' = 1 .. Len(frames) + 1
      /\ frames'[1] = f
      /\ \A i \in 1 .. Len(frames) : frames'[i + 1] = frames[i]
  BY <1>1, <1>2, MessengerFacts
<1>4. MessengerTypeOK'
  BY <1>3 DEF MessengerTypeOK
<1>5. ASSUME NEW t \in Senders PROVE NotLost(t)' /\ NotTwice(t)' /\ ResetFirst(t)'
  <2>1. \A k \in Loops, i \in Nat : InQueue(t, k, i)' <=> InQueue(t, k, i)
    BY DEF InQueue
  <2>2. \A i \in Nat : InHand(t, i)' => i - 1 \in Nat /\ InHand(t, i - 1)
    <3> SUFFICES ASSUME NEW i \in Nat, InHand(t, i)'
                 PROVE  i - 1 \in Nat /\ InHand(t, i - 1)
      OBVIOUS
    <3>1. i \in 1 .. Len(frames) + 1 /\ frames'[i].msg = Awaited(t)
      BY <1>3 DEF InHand
    <3>2. i # 1
      BY <1>3, <3>1, MessengerFacts
    <3>3. i - 1 \in 1 .. Len(frames) /\ (i - 1) + 1 = i
      BY <3>1, <3>2, MessengerFacts
    <3>4. frames'[i] = frames[i - 1]
      BY <1>3, <3>3
    <3> QED
      BY <3>1, <3>3, <3>4, MessengerFacts DEF InHand
  <2>3. \A i \in Nat : InHand(t, i) => i + 1 \in Nat /\ InHand(t, i + 1)'
    BY <1>3, MessengerFacts DEF InHand
  <2>4. (Waits(t)' <=> Waits(t)) /\ ResetFirst(t)'
    BY DEF Waits, ResetFirst
  <2>5. NotLost(t)'
    BY <2>1, <2>3, <2>4 DEF NotLost
  <2>6. NotTwice(t)'
    <3>1. \A i, j \in Nat : InHand(t, i)' /\ InHand(t, j)' => j = i /\ Waits(t)
      BY <2>2 DEF NotTwice
    <3>2. \A i \in Nat, k \in Loops, j \in Nat : ~(InHand(t, i)' /\ InQueue(t, k, j))
      BY <2>2 DEF NotTwice
    <3> QED
      BY <2>1, <2>4, <3>1, <3>2 DEF NotTwice
  <2> QED
    BY <2>4, <2>5, <2>6
<1> QED
  BY <1>4, <1>5

\* The message at the front of a queue moves into the hands of the innermost loop.
LEMMA LoopTakesKeeps ==
  ASSUME MessengerInv, LoopTakes
  PROVE  MessengerInv'
<1> USE DEF MessengerInv
<1>1. PICK l \in Loops : l = frames[1].loop
  BY MessengerFacts DEF LoopTakes, Looping
<1> DEFINE q == vecMessages[l]
<1>2. /\ q # <<>> /\ Len(q) \in Nat \ {0} /\ q \in Seq(ThreadMessages)
      /\ 1 \in DOMAIN frames /\ frames[1].msg = NoMsg
      /\ frames' = [frames EXCEPT ![1].msg = q[1]]
      /\ vecMessages' = [vecMessages EXCEPT ![l] = Tail(q)]
      /\ UNCHANGED <<sender, waitEvent, stage>>
  BY <1>1, MessengerFacts DEF LoopTakes, Looping
<1>3. /\ Tail(q) \in Seq(ThreadMessages)
      /\ Len(Tail(q)) = Len(q) - 1
      /\ \A i \in 1 .. Len(q) - 1 : Tail(q)[i] = q[i + 1]
  BY <1>2, HeadTailProperties
<1>4. q[1] \in ThreadMessages
  BY <1>2
<1>5. /\ frames' \in Seq([loop : Loops, msg : ThreadMessages \cup {NoMsg}])
      /\ DOMAIN frames' = DOMAIN frames
      /\ frames'[1].msg = q[1]
      /\ \A i \in DOMAIN frames : i # 1 => frames'[i] = frames[i]
  <2>1. [frames[1] EXCEPT !.msg = q[1]] \in [loop : Loops, msg : ThreadMessages \cup {NoMsg}]
    BY <1>2, <1>4, MessengerFacts
  <2>2. frames' = [frames EXCEPT ![1] = [frames[1] EXCEPT !.msg = q[1]]]
    BY <1>2
  <2>3. frames[1] \in [loop : Loops, msg : ThreadMessages \cup {NoMsg}]
    BY <1>2, MessengerFacts
  <2>4. [frames[1] EXCEPT !.msg = q[1]].msg = q[1]
    BY <2>3
  <2>5. /\ frames' \in Seq([loop : Loops, msg : ThreadMessages \cup {NoMsg}])
    BY <2>1, <2>2, <1>2, MessengerFacts, ExceptSeq
  <2> QED
    BY <2>1, <2>2, <2>4, <2>5, <1>2, MessengerFacts
<1>6. MessengerTypeOK'
  BY <1>2, <1>3, <1>5 DEF MessengerTypeOK
<1>7. ASSUME NEW t \in Senders PROVE NotLost(t)' /\ NotTwice(t)' /\ ResetFirst(t)'
  <2>1. \A k \in Loops, i \in Nat : InQueue(t, k, i)' <=>
          IF k = l THEN i \in Nat \ {0} /\ InQueue(t, k, i + 1) ELSE InQueue(t, k, i)
    <3> SUFFICES ASSUME NEW k \in Loops, NEW i \in Nat
                 PROVE  InQueue(t, k, i)' <=>
          IF k = l THEN i \in Nat \ {0} /\ InQueue(t, k, i + 1) ELSE InQueue(t, k, i)
      OBVIOUS
    <3>1. CASE k # l
      BY <1>2, <3>1 DEF InQueue, MessengerTypeOK
    <3>2. CASE k = l
      <4>1. vecMessages'[l] = Tail(q)
        BY <1>2 DEF MessengerTypeOK
      <4>2. DOMAIN vecMessages'[l] = 1 .. Len(q) - 1 /\ DOMAIN q = 1 .. Len(q)
        BY <4>1, <1>3, <1>2
      <4>3. i \in 1 .. Len(q) - 1 <=> i \in Nat \ {0} /\ i + 1 \in 1 .. Len(q)
        BY <1>2
      <4> QED
        BY <3>2, <4>1, <4>2, <4>3, <1>3 DEF InQueue
    <3> QED
      BY <3>1, <3>2
  <2>2. \A i \in Nat : InHand(t, i)' <=> InHand(t, i) \/ (i = 1 /\ InQueue(t, l, 1))
    <3> SUFFICES ASSUME NEW i \in Nat
                 PROVE  InHand(t, i)' <=> InHand(t, i) \/ (i = 1 /\ InQueue(t, l, 1))
      OBVIOUS
    <3>1. 1 \in DOMAIN q /\ ~InHand(t, 1)
      BY <1>2, MessengerFacts DEF InHand
    <3>2. CASE i = 1
      BY <3>1, <3>2, <1>5, <1>2 DEF InHand, InQueue
    <3>3. CASE i # 1
      BY <3>3, <1>5 DEF InHand
    <3> QED
      BY <3>2, <3>3
  <2>3. (Waits(t)' <=> Waits(t)) /\ ResetFirst(t)'
    BY <1>2 DEF Waits, ResetFirst
  <2>4. NotLost(t)'
    <3> SUFFICES ASSUME Waits(t) PROVE (\E k \in Loops, i \in Nat : InQueue(t, k, i)')
                                       \/ \E i \in Nat : InHand(t, i)'
      BY <2>3 DEF NotLost
    <3>1. CASE \E i \in Nat : InHand(t, i)
      BY <2>2, <3>1
    <3>2. ASSUME NEW k \in Loops, NEW i \in Nat, InQueue(t, k, i)
          PROVE  (\E kk \in Loops, j \in Nat : InQueue(t, kk, j)') \/ \E j \in Nat : InHand(t, j)'
      <4>1. CASE k # l
        BY <2>1, <3>2, <4>1
      <4>2. CASE k = l /\ i = 1
        BY <2>2, <3>2, <4>2
      <4>3. CASE k = l /\ i # 1
        <5>1. i # 0
          BY <3>2, MessengerFacts DEF InQueue
        <5>2. i - 1 \in Nat \ {0} /\ (i - 1) + 1 = i
          BY <4>3, <5>1
        <5> QED
          BY <2>1, <3>2, <4>3, <5>2
      <4> QED
        BY <4>1, <4>2, <4>3
    <3> QED
      BY <3>1, <3>2 DEF NotLost
  <2>5. ASSUME NEW k \in Loops, NEW i \in Nat, InQueue(t, k, i)'
        PROVE  /\ Waits(t)'
               /\ \A kk \in Loops, j \in Nat : InQueue(t, kk, j)' => kk = k /\ j = i
               /\ \A j \in Nat : ~InHand(t, j)'
    <3> DEFINE at(kk, j) == IF kk = l THEN j + 1 ELSE j
    <3>1. InQueue(t, k, at(k, i)) /\ at(k, i) \in Nat /\ (k = l => at(k, i) # 1)
      BY <2>1, <2>5
    <3>2. Waits(t) /\ \A j \in Nat : ~InHand(t, j)
      BY <3>1 DEF NotTwice
    <3>3. ~InQueue(t, l, 1)
      BY <3>1 DEF NotTwice
    <3>4. ASSUME NEW kk \in Loops, NEW j \in Nat, InQueue(t, kk, j)'
          PROVE  kk = k /\ j = i
      <4>1. InQueue(t, kk, at(kk, j)) /\ at(kk, j) \in Nat
        BY <2>1, <3>4
      <4>2. kk = k /\ at(kk, j) = at(k, i)
        BY <3>1, <4>1 DEF NotTwice
      <4> QED
        BY <4>2
    <3> QED
      BY <2>2, <2>3, <3>2, <3>3, <3>4
  <2>6. ASSUME NEW i \in Nat, InHand(t, i)'
        PROVE  Waits(t)' /\ \A j \in Nat : InHand(t, j)' => j = i
    <3>1. 1 \in Nat
      OBVIOUS
    <3>2. CASE InQueue(t, l, 1)
      BY <2>2, <2>3, <2>6, <3>1, <3>2 DEF NotTwice
    <3>3. CASE ~InQueue(t, l, 1)
      BY <2>2, <2>3, <2>6, <3>3 DEF NotTwice
    <3> QED
      BY <3>2, <3>3
  <2> QED
    BY <2>3, <2>4, <2>5, <2>6 DEF NotTwice
<1> QED
  BY <1>6, <1>7

\* The loop changes its queue, or is left with no message in its hands.
LEMMA LoopEndsKeeps ==
  ASSUME MessengerInv, LoopEnds
  PROVE  MessengerInv'
<1> USE DEF MessengerInv
<1>1. /\ 1 \in DOMAIN frames /\ frames[1].msg = NoMsg
      /\ UNCHANGED <<vecMessages, sender, waitEvent, stage>>
  BY MessengerFacts DEF LoopEnds, Looping
<1>2. \A t \in Senders, k \in Loops, i \in Nat : InQueue(t, k, i)' <=> InQueue(t, k, i)
  BY <1>1 DEF InQueue
<1>3. \A t \in Senders : (Waits(t)' <=> Waits(t)) /\ ResetFirst(t)'
  BY <1>1 DEF Waits, ResetFirst
<1>4. CASE frames[1].loop = "window"
  <2> DEFINE f == [frames[1] EXCEPT !.loop = "message"]
  <2>1. frames' = [frames EXCEPT ![1] = f]
    BY <1>4 DEF LoopEnds
  <2>2. f \in [loop : Loops, msg : ThreadMessages \cup {NoMsg}] /\ f.msg = NoMsg
    BY <1>1, MessengerFacts DEF Loops
  <2>3. frames' \in Seq([loop : Loops, msg : ThreadMessages \cup {NoMsg}])
    BY <2>1, <2>2, <1>1, MessengerFacts, ExceptSeq
  <2>4. MessengerTypeOK'
    BY <1>1, <2>3 DEF MessengerTypeOK
  <2>5. \A t \in Senders, i \in Nat : InHand(t, i)' <=> InHand(t, i)
    BY <1>1, <2>1, <2>2 DEF InHand
  <2> QED
    BY <1>2, <1>3, <2>4, <2>5 DEF NotLost, NotTwice
<1>5. CASE frames[1].loop # "window"
  <2>1. frames' = Tail(frames) /\ frames # <<>>
    BY <1>5 DEF LoopEnds, Looping
  <2>2. /\ frames' \in Seq([loop : Loops, msg : ThreadMessages \cup {NoMsg}])
        /\ DOMAIN frames' = 1 .. Len(frames) - 1
        /\ \A i \in 1 .. Len(frames) - 1 : frames'[i] = frames[i + 1]
    <3> DEFINE F == [loop : Loops, msg : ThreadMessages \cup {NoMsg}]
    <3> HIDE DEF F
    <3>1. frames \in Seq(F)
      BY MessengerFacts DEF F
    <3> QED
      BY <2>1, <3>1, HeadTailProperties DEF F
  <2>3. MessengerTypeOK'
    BY <1>1, <2>2 DEF MessengerTypeOK
  <2>4. \A t \in Senders, i \in Nat : InHand(t, i)' => InHand(t, i + 1)
    BY <2>2, MessengerFacts DEF InHand
  <2>5. ASSUME NEW t \in Senders, NEW i \in Nat, InHand(t, i)
        PROVE  i - 1 \in Nat /\ InHand(t, i - 1)'
    <3>1. i \in 1 .. Len(frames) /\ i # 1
      BY <1>1, <2>5, MessengerFacts DEF InHand
    <3>2. i - 1 \in 1 .. Len(frames) - 1 /\ (i - 1) + 1 = i
      BY <3>1, MessengerFacts
    <3> QED
      BY <2>2, <2>5, <3>2 DEF InHand
  <2>6. \A t \in Senders : NotLost(t)'
    BY <1>2, <1>3, <2>5 DEF NotLost
  <2>7. \A t \in Senders, i, j \in Nat : InHand(t, i)' /\ InHand(t, j)' => j = i /\ Waits(t)
    <3> SUFFICES ASSUME NEW t \in Senders, NEW i \in Nat, NEW j \in Nat,
                        InHand(t, i)', InHand(t, j)'
                 PROVE  j = i /\ Waits(t)
      OBVIOUS
    <3>1. i + 1 \in Nat /\ j + 1 \in Nat /\ InHand(t, i + 1) /\ InHand(t, j + 1)
      BY <2>4
    <3>2. j + 1 = i + 1 /\ Waits(t)
      BY <3>1 DEF NotTwice
    <3> QED
      BY <3>2
  <2>8. \A t \in Senders, i \in Nat, k \in Loops, j \in Nat : ~(InHand(t, i)' /\ InQueue(t, k, j))
    BY <2>4 DEF NotTwice
  <2> QED
    BY <1>2, <1>3, <2>3, <2>6, <2>7, <2>8 DEF NotTwice
<1> QED
  BY <1>4, <1>5

\* SetEvents wakes the senders of messages that are waited for, no others.
LEMMA SetEventsWakes ==
  ASSUME MessengerInv, NEW ms \in SUBSET (ThreadMessages), SetEvents(ms), NEW t \in Senders
  PROVE  /\ waitEvent' \in [Senders -> BOOLEAN]
         /\ waitEvent'[t] <=> waitEvent[t] \/ Awaited(t) \in ms
<1>1. \A m \in ms : (m.from = t /\ m.waitEvent) <=> m = Awaited(t)
  BY DEF ThreadMessages, Awaited
<1>2. waitEvent'[t] = (waitEvent[t] \/ \E m \in ms : m.from = t /\ m.waitEvent)
  BY DEF SetEvents
<1>3. waitEvent' \in [Senders -> BOOLEAN]
  <2>1. \A s \in Senders : waitEvent[s] \in BOOLEAN
    BY DEF MessengerInv, MessengerTypeOK
  <2>2. \A s \in Senders : (waitEvent[s] \/ \E m \in ms : m.from = s /\ m.waitEvent) \in BOOLEAN
    BY <2>1
  <2> QED
    BY <2>2, Zenon DEF SetEvents
<1> QED
  BY <1>1, <1>2, <1>3

\* The innermost handler returns: its message is gone, and its sender is woken.
LEMMA HandlerReturnsKeeps ==
  ASSUME MessengerInv, HandlerReturns
  PROVE  MessengerInv'
<1> USE DEF MessengerInv
<1> DEFINE m == frames[1].msg
           f == [frames[1] EXCEPT !.msg = NoMsg]
<1>1. /\ 1 \in DOMAIN frames /\ m \in ThreadMessages
      /\ UNCHANGED <<vecMessages, sender, stage>>
      /\ frames' = [frames EXCEPT ![1] = f]
      /\ SetEvents({m})
  BY MessengerFacts DEF HandlerReturns, Handling
<1>2. f \in [loop : Loops, msg : ThreadMessages \cup {NoMsg}] /\ f.msg = NoMsg
  BY <1>1, MessengerFacts
<1>3. frames' \in Seq([loop : Loops, msg : ThreadMessages \cup {NoMsg}])
  BY <1>1, <1>2, MessengerFacts, ExceptSeq
<1>4. \A t \in Senders : /\ waitEvent' \in [Senders -> BOOLEAN]
                         /\ waitEvent'[t] <=> waitEvent[t] \/ Awaited(t) = m
  BY <1>1, SetEventsWakes
<1>5. waitEvent' \in [Senders -> BOOLEAN]
  <2>1. CASE Senders = {}
    BY <2>1, <1>1 DEF SetEvents
  <2> QED
    BY <2>1, <1>4
<1>6. MessengerTypeOK'
  BY <1>1, <1>3, <1>5 DEF MessengerTypeOK
<1>7. ASSUME NEW t \in Senders PROVE NotLost(t)' /\ NotTwice(t)' /\ ResetFirst(t)'
  <2>1. \A k \in Loops, i \in Nat : InQueue(t, k, i)' <=> InQueue(t, k, i)
    BY <1>1 DEF InQueue
  <2>2. \A i \in Nat : InHand(t, i)' <=> InHand(t, i) /\ i # 1
    BY <1>1, <1>2, MessengerFacts DEF InHand
  <2>3. InHand(t, 1) <=> m = Awaited(t)
    BY <1>1 DEF InHand
  <2>4. sender'[t] = sender[t]
    BY <1>1
  <2>5. CASE m = Awaited(t)
    <3>1. 1 \in Nat /\ Waits(t)
      BY <2>3, <2>5 DEF NotTwice
    <3>2. /\ \A i \in Nat : ~InHand(t, i)'
          /\ \A k \in Loops, i \in Nat : ~InQueue(t, k, i)'
      BY <2>1, <2>2, <2>3, <2>5, <3>1 DEF NotTwice
    <3>3. ~Waits(t)' /\ ResetFirst(t)'
      BY <1>4, <2>4, <2>5, <3>1 DEF Waits, ResetFirst
    <3> QED
      BY <3>2, <3>3 DEF NotLost, NotTwice
  <2>6. CASE m # Awaited(t)
    <3>1. \A i \in Nat : InHand(t, i)' <=> InHand(t, i)
      BY <2>2, <2>3, <2>6
    <3>2. (Waits(t)' <=> Waits(t)) /\ ResetFirst(t)'
      BY <1>4, <2>4, <2>6 DEF Waits, ResetFirst
    <3> QED
      BY <2>1, <3>1, <3>2 DEF NotLost, NotTwice
  <2> QED
    BY <2>5, <2>6
<1> QED
  BY <1>6, <1>7

\* CApplicationMessenger::Cleanup: who waited for a queued message is told.
LEMMA CleanupKeeps ==
  ASSUME MessengerInv,
         SetEvents(UNION {ToSet(vecMessages[l]) : l \in Loops}),
         vecMessages' = [l \in Loops |-> <<>>],
         stage' \in {"stopped", "gone"},
         UNCHANGED <<frames, sender>>
  PROVE  MessengerInv'
<1> USE DEF MessengerInv
<1> DEFINE ms == UNION {ToSet(vecMessages[l]) : l \in Loops}
<1>1. ms \in SUBSET ThreadMessages
  BY MessengerFacts DEF ToSet
<1>2. \A t \in Senders : Awaited(t) \in ms <=> \E l \in Loops, i \in Nat : InQueue(t, l, i)
  BY MessengerFacts DEF ToSet, InQueue
<1>3. \A t \in Senders : /\ waitEvent' \in [Senders -> BOOLEAN]
                         /\ waitEvent'[t] <=> waitEvent[t] \/ Awaited(t) \in ms
  BY <1>1, SetEventsWakes
<1>4. waitEvent' \in [Senders -> BOOLEAN]
  <2>1. CASE Senders = {}
    BY <2>1 DEF SetEvents
  <2> QED
    BY <2>1, <1>3
<1>5. <<>> \in Seq(ThreadMessages)
  OBVIOUS
<1>6. MessengerTypeOK'
  BY <1>4, <1>5 DEF MessengerTypeOK
<1>7. ASSUME NEW t \in Senders PROVE NotLost(t)' /\ NotTwice(t)' /\ ResetFirst(t)'
  <2>1. \A k \in Loops, i \in Nat : ~InQueue(t, k, i)'
    BY DEF InQueue
  <2>2. \A i \in Nat : InHand(t, i)' <=> InHand(t, i)
    BY DEF InHand
  <2>3. CASE Awaited(t) \in ms
    <3>1. Waits(t) /\ \A i \in Nat : ~InHand(t, i)
      BY <1>2, <2>3 DEF NotTwice
    <3>2. ~Waits(t)' /\ ResetFirst(t)'
      BY <1>3, <2>3, <3>1 DEF Waits, ResetFirst
    <3> QED
      BY <2>1, <2>2, <3>1, <3>2 DEF NotLost, NotTwice
  <2>4. CASE Awaited(t) \notin ms
    <3>1. (Waits(t)' <=> Waits(t)) /\ ResetFirst(t)'
      BY <1>3, <2>4 DEF Waits, ResetFirst
    <3>2. \A k \in Loops, i \in Nat : ~InQueue(t, k, i)
      BY <1>2, <2>4
    <3> QED
      BY <2>1, <2>2, <3>1, <3>2 DEF NotLost, NotTwice
  <2> QED
    BY <2>3, <2>4
<1> QED
  BY <1>6, <1>7

\* One case for each action of the application thread and of the senders.
LEMMA MessengerInvIsInductive ==
  MessengerInv /\ [MessengerNext]_messengerVars => MessengerInv'
<1> SUFFICES ASSUME MessengerInv, [MessengerNext]_messengerVars PROVE MessengerInv'
  OBVIOUS
<1>1. CASE AppProcesses \/ HandlerNests
  BY <1>1, EnterKeeps DEF AppProcesses, HandlerNests
<1>2. CASE LoopTakes \/ LoopEnds \/ HandlerReturns
  BY <1>2, LoopTakesKeeps, LoopEndsKeeps, HandlerReturnsKeeps
<1>3. CASE Cleanup \/ Destroy
  BY <1>3, CleanupKeeps DEF Cleanup, Destroy
<1>4. CASE StopBegins
  BY <1>4 DEF StopBegins, MessengerInv, MessengerTypeOK, NotLost, NotTwice, ResetFirst,
              Waits, InQueue, InHand
<1>5. CASE \E s \in Senders : SenderChecks(s) \/ SenderSends(s) \/ SenderReturns(s)
  BY <1>5, SenderChecksKeeps, SenderPushesKeeps, SenderReturnsKeeps DEF SenderSends
<1>6. CASE UNCHANGED messengerVars
  <2>1. UNCHANGED <<vecMessages, frames, sender, waitEvent, stage>>
    BY <1>6 DEF messengerVars
  <2>2. MessengerTypeOK'
    BY <2>1 DEF MessengerInv, MessengerTypeOK
  <2>3. \A s \in Senders : NotLost(s)' /\ NotTwice(s)' /\ ResetFirst(s)'
    BY <2>1 DEF MessengerInv, NotLost, NotTwice, ResetFirst, Waits, InQueue, InHand
  <2> QED
    BY <2>2, <2>3 DEF MessengerInv
<1> QED
  BY <1>1, <1>2, <1>3, <1>4, <1>5, <1>6 DEF MessengerNext, AppStep

\* In states of the invariant the places of a sender's message are as many as
\* OneMessageForOneWait counts.
LEMMA InvImpliesOneMessage == MessengerInv => OneMessageForOneWait
<1> SUFFICES ASSUME MessengerInv, NEW s \in Senders
             PROVE  Cardinality(Places(s)) = IF Waits(s) THEN 1 ELSE 0
  BY DEF MessengerInv, OneMessageForOneWait, Waits
<1>1. \A l \in Loops : \A p : p \in QueuePlaces(s, l) <=>
        \E i \in Nat : InQueue(s, l, i) /\ p = <<l, i>>
  BY MessengerFacts DEF InQueue, MessengerInv, QueuePlaces
<1>2. \A p : p \in FramePlaces(s) <=> \E i \in Nat : InHand(s, i) /\ p = <<"frames", i>>
  BY MessengerFacts DEF InHand, MessengerInv, FramePlaces
<1>3. \A p : p \in Places(s) <=>
        (\E l \in Loops : p \in QueuePlaces(s, l)) \/ p \in FramePlaces(s)
  BY DEF Places, Loops
<1>4. \A p : p \in Places(s) <=>
        \/ \E l \in Loops, i \in Nat : InQueue(s, l, i) /\ p = <<l, i>>
        \/ \E i \in Nat : InHand(s, i) /\ p = <<"frames", i>>
  BY <1>1, <1>2, <1>3
<1>5. CASE Waits(s)
  <2>1. PICK p : p \in Places(s)
    BY <1>4, <1>5 DEF MessengerInv, NotLost
  <2>2. \A q \in Places(s) : q = p
    BY <1>4, <2>1 DEF MessengerInv, NotTwice
  <2>3. Places(s) = {p}
    BY <2>1, <2>2
  <2> QED
    BY <1>5, <2>3, FS_Singleton
<1>6. CASE ~Waits(s)
  <2>1. Places(s) = {}
    BY <1>4, <1>6 DEF MessengerInv, NotTwice
  <2> QED
    BY <1>6, <2>1, FS_EmptySet
<1> QED
  BY <1>5, <1>6

\* While a sender waits in SendMsg its message is in exactly one queue or in the
\* hands of exactly one loop, and otherwise nowhere (ApplicationMessenger.cpp).
THEOREM OneMessageForOneWaitHolds == MessengerSpec => []OneMessageForOneWait
BY MessengerInitInv, MessengerInvIsInductive, InvImpliesOneMessage, PTL DEF MessengerSpec

=============================================================================
