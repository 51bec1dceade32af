----------------------- MODULE DVDMessageQueueProofs ------------------------
(***************************************************************************)
(* Theorems about DVDMessageQueue, for every set of messages, sizes and    *)
(* priorities.                                                             *)
(*                                                                         *)
(* QueueInv says where the messages are: no message is in the two lists    *)
(* twice, the urgent list ascends by priority, what m_iDataSize counts is  *)
(* left to decode, and a consumer that sleeps on an event that is not set  *)
(* has nothing to take.  The refinement looks at the line of each priority: *)
(* a step of the queue changes one line at one end, or takes messages out. *)
(***************************************************************************)
EXTENDS DVDMessageQueue, SequenceFilterProofs, FiniteSetTheorems, TLAPS

\* The messages of the two lists, l and q.
Listed(l, q) == ToSet(l) \cup ToSet(q)

\* l and q have no message twice; those of l have priority 0, those of q are
\* urgent, the most urgent last.
ListsOK(l, q, priority) ==
  /\ IsInjective(l) /\ IsInjective(q) /\ ToSet(l) \cap ToSet(q) = {}
  /\ \A m \in ToSet(l) : priority[m] = 0
  /\ \A m \in ToSet(q) : priority[m] > 0
  /\ Ascends(q, priority)

\* What is left to decode of some packets, by the sizes of size.
BytesOf(packets, size) == UNION {{m} \X (1 .. size[m]) : m \in packets}

SizeOK ==
  LET bytes == BytesOf(ToSet(m_messages) \cap Packets, iSize)
  IN  IsFiniteSet(bytes) /\ m_iDataSize = Cardinality(bytes)

\* A message is in a list, in the consumer's hands or not created yet.
MessagesAreApart ==
  /\ Listed(m_messages, m_prioMessages) \cap fresh = {}
  /\ held \notin Listed(m_messages, m_prioMessages) \cup fresh

SleepIsSound ==
  cpc = "wait" /\ ~m_hEvent =>
    ~m_bAbortRequest /\ m_prioMessages = <<>> /\ (cpriority = 0 => m_messages = <<>>)

QueueInv ==
  /\ TypeOK
  /\ ListsOK(m_messages, m_prioMessages, itemPriority)
  /\ SizeOK
  /\ MessagesAreApart
  /\ cpc = "handle" <=> held # NoMsg
  /\ ~m_bInitialized => cpc = "off" /\ m_messages = <<>> /\ m_prioMessages = <<>>
  /\ SleepIsSound

-----------------------------------------------------------------------------
\* A sequence that is not empty, and its last element.
LEMMA FrontLast ==
  ASSUME NEW S, NEW s \in Seq(S), s # <<>>
  PROVE  Front(s) \in Seq(S) /\ Last(s) \in S /\ s = Append(Front(s), Last(s))
<1>1. PICK t \in Seq(S), e \in S : s = Append(t, e)
  BY SequenceEmptyOrAppend
<1>2. /\ Len(t) \in Nat /\ DOMAIN t = 1 .. Len(t) /\ \A i \in 1 .. Len(t) : t[i] \in S
      /\ Len(s) = Len(t) + 1 /\ s[Len(s)] = e /\ \A i \in 1 .. Len(t) : s[i] = t[i]
  BY <1>1, LenProperties, ElementOfSeq, AppendProperties
<1>3. Last(s) = e
  BY <1>2 DEF Last
<1>4. Front(s) = t
  <2>1. Front(s) = SubSeq(s, 1, Len(t))
    <3>1. Len(s) - 1 = Len(t)
      BY <1>2
    <3> QED
      BY <3>1 DEF Front
  <2>2. SubSeq(s, 1, Len(t)) = [i \in 1 .. Len(t) |-> s[i]]
    <3>1. SubSeq(s, 1, Len(t)) = [i \in 1 .. Len(t) - 1 + 1 |-> s[1 + i - 1]]
      BY <1>2
    <3>2. Len(t) - 1 + 1 = Len(t) /\ \A i \in 1 .. Len(t) : 1 + i - 1 = i
      BY <1>2
    <3> QED
      BY <3>1, <3>2
  <2>3. Front(s) \in Seq(S) /\ Len(Front(s)) = Len(t)
        /\ \A i \in 1 .. Len(t) : Front(s)[i] = t[i]
    BY <1>2, <2>1, <2>2
  <2> QED
    BY <2>3, SeqEqual
<1> QED
  BY <1>1, <1>3, <1>4

\* A list of messages lists messages only.
LEMMA ElementsAreMessages ==
  ASSUME NEW s \in Seq(Msgs)
  PROVE  ToSet(s) \subseteq Msgs
BY LenProperties DEF ToSet

\* Some messages are taken away from both lists.
LEMMA FlushedLists ==
  ASSUME NEW l \in Seq(Msgs), NEW q \in Seq(Msgs), NEW priority,
         ListsOK(l, q, priority), NEW K
  PROVE  /\ SelectIn(l, K) \in Seq(Msgs) /\ SelectIn(q, K) \in Seq(Msgs)
         /\ ListsOK(SelectIn(l, K), SelectIn(q, K), priority)
<1>1. IsInjective(l) /\ IsInjective(q) /\ Ascends(q, priority)
  BY DEF ListsOK
<1>2. IsInjective(SelectIn(l, K)) /\ IsInjective(SelectIn(q, K))
      /\ Ascends(SelectIn(q, K), priority)
  BY <1>1, SelectInInjective, AscendsSelectIn
<1>3. ToSet(SelectIn(l, K)) \subseteq ToSet(l) /\ ToSet(SelectIn(q, K)) \subseteq ToSet(q)
  BY SelectInToSet
<1> QED
  BY <1>2, <1>3, SelectInType DEF ListsOK

\* The messages of q below p, then m, then the others.
Inserted(q, m, priority, p) ==
  Append(SelectIn(q, {x \in Msgs : priority[x] < p}), m)
    \o SelectIn(q, {x \in Msgs : priority[x] >= p})

\* ... has them all.
LEMMA InsertedHas ==
  ASSUME NEW q \in Seq(Msgs), NEW m \in Msgs, NEW priority \in [Msgs -> Nat], NEW p \in Nat
  PROVE  /\ Inserted(q, m, priority, p) \in Seq(Msgs)
         /\ ToSet(Inserted(q, m, priority, p)) = ToSet(q) \cup {m}
<1> DEFINE L == {x \in Msgs : priority[x] < p}
           H == {x \in Msgs : priority[x] >= p}
           a == SelectIn(q, L)
           b == SelectIn(q, H)
<1>1. a \in Seq(Msgs) /\ b \in Seq(Msgs)
      /\ ToSet(a) = ToSet(q) \cap L /\ ToSet(b) = ToSet(q) \cap H
  BY SelectInType, SelectInToSet
<1>2. L \cup H = Msgs
  OBVIOUS
<1>3. Inserted(q, m, priority, p) = Append(a, m) \o b
  BY DEF Inserted
<1> HIDE DEF a, b, L, H
<1>4. Append(a, m) \in Seq(Msgs) /\ ToSet(Append(a, m)) = ToSet(a) \cup {m}
  BY <1>1, AppendProperties, ToSetAppend
<1> DEFINE t == Append(a, m)
<1> HIDE DEF t
<1>5. t \o b \in Seq(Msgs) /\ ToSet(t \o b) = ToSet(t) \cup ToSet(b)
  <2>1. t \in Seq(Msgs) /\ b \in Seq(Msgs)
    BY <1>1, <1>4 DEF t
  <2> QED
    BY <2>1, ConcatProperties, ToSetConcat
<1>6. ToSet(q) \subseteq Msgs
  BY ElementsAreMessages
<1> QED
  BY <1>1, <1>2, <1>3, <1>4, <1>5, <1>6 DEF t

\* ... in the order of their priorities.
LEMMA InsertedLists ==
  ASSUME NEW l \in Seq(Msgs), NEW q \in Seq(Msgs), NEW priority \in [Msgs -> Nat],
         ListsOK(l, q, priority), NEW m \in Msgs, m \notin Listed(l, q),
         NEW p \in Nat, p > 0
  PROVE  ListsOK(l, Inserted(q, m, priority, p), [priority EXCEPT ![m] = p])
<1> DEFINE L == {x \in Msgs : priority[x] < p}
           H == {x \in Msgs : priority[x] >= p}
           a == SelectIn(q, L)
           b == SelectIn(q, H)
           f == [priority EXCEPT ![m] = p]
           t == Append(a, m)
<1>1. /\ a \in Seq(Msgs) /\ b \in Seq(Msgs)
      /\ ToSet(a) = ToSet(q) \cap L /\ ToSet(b) = ToSet(q) \cap H
      /\ IsInjective(a) /\ IsInjective(b) /\ Ascends(a, priority) /\ Ascends(b, priority)
  <2>1. IsInjective(q) /\ Ascends(q, priority)
    BY DEF ListsOK
  <2> QED
    BY <2>1, SelectInType, SelectInToSet, SelectInInjective, AscendsSelectIn
<1>2. f[m] = p /\ \A x \in Msgs \ {m} : f[x] = priority[x]
  OBVIOUS
<1>3. m \notin ToSet(l) /\ m \notin ToSet(q)
  BY DEF Listed
<1>4. ToSet(l) \subseteq Msgs /\ ToSet(q) \subseteq Msgs
  BY ElementsAreMessages
<1>5. \A x \in ToSet(a) : x \in Msgs \ {m} /\ f[x] < p /\ f[x] \in Nat
  <2> TAKE x \in ToSet(a)
  <2>1. x \in ToSet(q) /\ x \in L
    BY <1>1
  <2>2. x \in Msgs \ {m} /\ priority[x] < p
    BY <2>1, <1>3
  <2> QED
    BY <1>2, <2>2
<1>6. \A x \in ToSet(b) : x \in Msgs \ {m} /\ f[x] >= p /\ f[x] \in Nat
  <2> TAKE x \in ToSet(b)
  <2>1. x \in ToSet(q) /\ x \in H
    BY <1>1
  <2>2. x \in Msgs \ {m} /\ priority[x] >= p
    BY <2>1, <1>3
  <2> QED
    BY <1>2, <2>2
<1>7. /\ Inserted(q, m, priority, p) = t \o b
      /\ ToSet(Inserted(q, m, priority, p)) = ToSet(q) \cup {m}
  <2>1. Inserted(q, m, priority, p) = t \o b
    BY DEF Inserted
  <2>2. ToSet(Inserted(q, m, priority, p)) = ToSet(q) \cup {m}
    BY InsertedHas
  <2> QED
    BY <2>1, <2>2
<1>8. Ascends(a, f) /\ Ascends(b, f)
  <2>1. (\A i \in DOMAIN a : a[i] \in ToSet(a)) /\ (\A i \in DOMAIN b : b[i] \in ToSet(b))
    BY DEF ToSet
  <2>2. (\A x \in ToSet(a) : f[x] = priority[x]) /\ (\A x \in ToSet(b) : f[x] = priority[x])
    BY <1>2, <1>5, <1>6
  <2> HIDE DEF a, b, f
  <2> QED
    BY <1>1, <2>1, <2>2 DEF Ascends
<1>9. ToSet(a) \cap ToSet(b) = {}
  BY <1>5, <1>6, SMTT(30)
<1> HIDE DEF a, b, L, H, f
<1>10. t \in Seq(Msgs) /\ ToSet(t) = ToSet(a) \cup {m}
       /\ (IsInjective(t) <=> IsInjective(a) /\ m \notin ToSet(a))
       /\ (Ascends(t, f) <=> Ascends(a, f) /\ \A x \in ToSet(a) : f[x] <= f[m])
  BY <1>1, AppendProperties, ToSetAppend, InjectiveAppend, AscendsAppend
<1>11. m \notin ToSet(a) /\ m \notin ToSet(b)
  BY <1>5, <1>6
<1>12. IsInjective(t) /\ Ascends(t, f)
  BY <1>1, <1>2, <1>5, <1>8, <1>10, <1>11
<1> HIDE DEF t
<1>13. IsInjective(t \o b) <=> IsInjective(t) /\ IsInjective(b) /\ ToSet(t) \cap ToSet(b) = {}
  BY <1>1, <1>10, InjectiveConcat
<1>14. IsInjective(t \o b)
  BY <1>1, <1>9, <1>10, <1>11, <1>12, <1>13
<1>15. \A x \in ToSet(t), y \in ToSet(b) : f[x] <= f[y]
  BY <1>2, <1>5, <1>6, <1>10
<1>16. Ascends(t \o b, f)
  BY <1>1, <1>8, <1>10, <1>12, <1>15, AscendsConcat
<1>17. ToSet(t \o b) = ToSet(q) \cup {m}
  BY <1>7
<1>18. \A x \in ToSet(l) : f[x] = 0
  BY <1>2, <1>3, <1>4 DEF ListsOK
<1>19. \A x \in ToSet(q) \cup {m} : f[x] > 0
  BY <1>2, <1>3, <1>4 DEF ListsOK
<1>20. ToSet(l) \cap (ToSet(q) \cup {m}) = {} /\ IsInjective(l)
  BY <1>3 DEF ListsOK
<1>21. ListsOK(l, t \o b, f)
  BY <1>14, <1>16, <1>17, <1>18, <1>19, <1>20 DEF ListsOK
<1> QED
  BY <1>7, <1>21 DEF f

\* A message of priority 0 joins the other list, at either end.
LEMMA AddedLists ==
  ASSUME NEW l \in Seq(Msgs), NEW q \in Seq(Msgs), NEW priority \in [Msgs -> Nat],
         ListsOK(l, q, priority), NEW m \in Msgs, m \notin Listed(l, q),
         NEW t, t = Append(l, m) \/ t = Cons(m, l)
  PROVE  /\ t \in Seq(Msgs) /\ ToSet(t) = ToSet(l) \cup {m}
         /\ ListsOK(t, q, [priority EXCEPT ![m] = 0])
<1> DEFINE f == [priority EXCEPT ![m] = 0]
<1>1. m \notin ToSet(l) /\ m \notin ToSet(q)
  BY DEF Listed
<1>2. f[m] = 0 /\ \A x \in Msgs \ {m} : f[x] = priority[x]
  OBVIOUS
<1>3. ToSet(l) \subseteq Msgs /\ ToSet(q) \subseteq Msgs
  BY ElementsAreMessages
<1>4. IsInjective(l)
  BY DEF ListsOK
<1>5. t \in Seq(Msgs) /\ ToSet(t) = ToSet(l) \cup {m} /\ IsInjective(t)
  <2>1. CASE t = Append(l, m)
    BY <1>1, <1>4, <2>1, AppendProperties, ToSetAppend, InjectiveAppend
  <2>2. CASE t = Cons(m, l)
    <3>1. /\ Cons(m, l) \in Seq(Msgs) /\ ToSet(Cons(m, l)) = {m} \cup ToSet(l)
          /\ IsInjective(Cons(m, l)) <=> IsInjective(l) /\ m \notin ToSet(l)
      BY ConsKeeps
    <3> QED
      BY <1>1, <1>4, <2>2, <3>1
  <2> QED
    BY <2>1, <2>2
<1>6. Ascends(q, f)
  <2>1. \A i \in DOMAIN q : q[i] \in ToSet(q)
    BY DEF ToSet
  <2>2. \A x \in ToSet(q) : f[x] = priority[x]
    BY <1>1, <1>2, <1>3
  <2>3. Ascends(q, priority)
    BY DEF ListsOK
  <2> HIDE DEF f
  <2> QED
    BY <2>1, <2>2, <2>3 DEF Ascends
<1> HIDE DEF f
<1>7. \A x \in ToSet(l) \cup {m} : f[x] = 0
  BY <1>1, <1>2, <1>3 DEF ListsOK
<1>8. \A x \in ToSet(q) : f[x] > 0
  BY <1>1, <1>2, <1>3 DEF ListsOK
<1>9. IsInjective(q) /\ (ToSet(l) \cup {m}) \cap ToSet(q) = {}
  BY <1>1 DEF ListsOK
<1>10. ListsOK(t, q, f)
  BY <1>5, <1>6, <1>7, <1>8, <1>9 DEF ListsOK
<1> QED
  BY <1>5, <1>10 DEF f

\* A list that ends with m, and without it.
LEMMA TakenLists ==
  ASSUME NEW l \in Seq(Msgs), NEW q \in Seq(Msgs), NEW priority, NEW m \in Msgs
  PROVE  /\ ListsOK(Append(l, m), q, priority) =>
              ListsOK(l, q, priority) /\ m \notin Listed(l, q) /\ priority[m] = 0
         /\ ListsOK(l, Append(q, m), priority) =>
              /\ ListsOK(l, q, priority) /\ m \notin Listed(l, q) /\ priority[m] > 0
              /\ \A x \in ToSet(q) : priority[x] <= priority[m]
<1>1. ASSUME NEW s \in Seq(Msgs)
      PROVE  /\ ToSet(Append(s, m)) = ToSet(s) \cup {m}
             /\ IsInjective(Append(s, m)) <=> IsInjective(s) /\ m \notin ToSet(s)
  BY <1>1, ToSetAppend, InjectiveAppend
<1>2. Ascends(Append(q, m), priority) <=>
        Ascends(q, priority) /\ \A x \in ToSet(q) : priority[x] <= priority[m]
  BY AscendsAppend
<1> QED
  BY <1>1, <1>2 DEF ListsOK, Listed

-----------------------------------------------------------------------------
\* The bytes of no packets, and of one more.
LEMMA BytesOfNone ==
  ASSUME NEW size
  PROVE  IsFiniteSet(BytesOf({}, size)) /\ Cardinality(BytesOf({}, size)) = 0
<1>1. BytesOf({}, size) = {}
  BY DEF BytesOf
<1> QED
  BY <1>1, FS_EmptySet

\* A packet adds its own bytes, which no other has.
LEMMA BytesOfOneMore ==
  ASSUME NEW P, NEW m, m \notin P, NEW size, size[m] \in Nat, IsFiniteSet(BytesOf(P, size))
  PROVE  /\ IsFiniteSet(BytesOf(P \cup {m}, size))
         /\ Cardinality(BytesOf(P \cup {m}, size)) = Cardinality(BytesOf(P, size)) + size[m]
<1> DEFINE A == BytesOf(P, size)
           B == {m} \X (1 .. size[m])
<1>1. BytesOf(P \cup {m}, size) = A \cup B
  BY DEF BytesOf
<1>2. A \cap B = {}
  BY DEF BytesOf
<1>3. IsFiniteSet(B) /\ Cardinality(B) = size[m]
  <2>1. IsFiniteSet({m}) /\ Cardinality({m}) = 1
    BY FS_Singleton
  <2>2. IsFiniteSet(1 .. size[m]) /\ Cardinality(1 .. size[m]) = size[m]
    BY FS_Interval, SMTT(30)
  <2>3. IsFiniteSet({m} \X (1 .. size[m]))
        /\ Cardinality({m} \X (1 .. size[m])) = Cardinality({m}) * Cardinality(1 .. size[m])
    BY <2>1, <2>2, FS_Product
  <2>4. Cardinality({m}) * Cardinality(1 .. size[m]) = size[m]
    BY <2>1, <2>2
  <2> QED
    BY <2>3, <2>4
<1> HIDE DEF A, B
<1>4. IsFiniteSet(A) /\ Cardinality(A) \in Nat
  BY FS_CardinalityType DEF A
<1>5. /\ IsFiniteSet(A \cup B)
      /\ Cardinality(A \cup B) = Cardinality(A) + Cardinality(B) - Cardinality(A \cap B)
  BY <1>3, <1>4, FS_Union
<1>6. Cardinality(A \cap B) = 0
  BY <1>2, FS_EmptySet
<1>7. IsFiniteSet(A \cup B) /\ Cardinality(A \cup B) = Cardinality(A) + size[m]
  BY <1>3, <1>4, <1>5, <1>6
<1> QED
  BY <1>1, <1>7 DEF A

\* ... and of one less.
LEMMA BytesOfOneLess ==
  ASSUME NEW P, NEW m, m \notin P, NEW size, size[m] \in Nat,
         IsFiniteSet(BytesOf(P \cup {m}, size))
  PROVE  /\ IsFiniteSet(BytesOf(P, size))
         /\ Cardinality(BytesOf(P, size)) = Cardinality(BytesOf(P \cup {m}, size)) - size[m]
<1>1. BytesOf(P, size) \subseteq BytesOf(P \cup {m}, size)
  BY DEF BytesOf
<1>2. IsFiniteSet(BytesOf(P, size)) /\ Cardinality(BytesOf(P, size)) \in Nat
  BY <1>1, FS_Subset, FS_CardinalityType
<1>3. Cardinality(BytesOf(P \cup {m}, size)) = Cardinality(BytesOf(P, size)) + size[m]
  BY <1>2, BytesOfOneMore
<1> QED
  BY <1>2, <1>3

\* Only their own sizes matter.
LEMMA BytesOfSame ==
  ASSUME NEW P, NEW f, NEW g, \A m \in P : f[m] = g[m]
  PROVE  BytesOf(P, f) = BytesOf(P, g)
BY DEF BytesOf

-----------------------------------------------------------------------------
\* The parts of the invariant that are always needed.
LEMMA QueueFacts ==
  ASSUME QueueInv
  PROVE  /\ m_messages \in Seq(Msgs) /\ m_prioMessages \in Seq(Msgs)
         /\ itemPriority \in [Msgs -> Nat]
         /\ ListsOK(m_messages, m_prioMessages, itemPriority)
         /\ ToSet(m_messages) \subseteq Msgs /\ ToSet(m_prioMessages) \subseteq Msgs
<1>1. Priorities \subseteq Nat
  BY PrioritiesAssumption
<1>2. itemPriority \in [Msgs -> Priorities]
  BY DEF QueueInv, TypeOK
<1>3. itemPriority \in [Msgs -> Nat]
  BY <1>1, <1>2
<1>4. m_messages \in Seq(Msgs) /\ m_prioMessages \in Seq(Msgs)
  BY DEF QueueInv, TypeOK
<1> QED
  BY <1>3, <1>4, ElementsAreMessages DEF QueueInv

\* Where Put puts a message.
LEMMA PutsOne ==
  ASSUME QueueInv, NEW m \in Msgs, NEW p \in Priorities, NEW front \in BOOLEAN,
         p > 0 => front, Put(m, p, front)
  PROVE  /\ p \in Nat /\ itemPriority' = [itemPriority EXCEPT ![m] = p]
         /\ \/ /\ p > 0
               /\ m_prioMessages' = Inserted(m_prioMessages, m, itemPriority, p)
               /\ m_messages' = m_messages
            \/ /\ p = 0
               /\ m_messages' = IF front THEN Cons(m, m_messages) ELSE Append(m_messages, m)
               /\ m_prioMessages' = m_prioMessages
<1>1. p \in Nat
  BY PrioritiesAssumption
<1>2. itemPriority' = [itemPriority EXCEPT ![m] = p]
  BY DEF Put
<1>3. CASE p > 0
  <2>1. m_prioMessages' = (Below(p) \o <<m>>) \o AtLeast(p) /\ m_messages' = m_messages
    BY <1>3 DEF Put, PrioList
  <2>2. Below(p) \in Seq(Msgs)
    BY QueueFacts, SelectInType DEF Below
  <2>3. Append(Below(p), m) = Below(p) \o <<m>>
    BY <2>2, AppendIsConcat
  <2> QED
    BY <1>1, <1>2, <1>3, <2>1, <2>3 DEF Below, AtLeast, Inserted
<1>4. CASE p = 0
  BY <1>1, <1>2, <1>4 DEF Put, Cons
<1> QED
  BY <1>1, <1>3, <1>4

\* What Put keeps of the invariant, when the message was in no list and the
\* sizes of the other packets do not change.
LEMMA PutKeeps ==
  ASSUME QueueInv, NEW m \in Msgs, NEW p \in Priorities, NEW front \in BOOLEAN,
         p > 0 => front, Put(m, p, front),
         m \notin Listed(m_messages, m_prioMessages),
         iSize' \in [Packets -> Nat], \A x \in Packets \ {m} : iSize'[x] = iSize[x]
  PROVE  /\ m_messages' \in Seq(Msgs) /\ m_prioMessages' \in Seq(Msgs)
         /\ itemPriority' \in [Msgs -> Priorities] /\ m_iDataSize' \in Nat
         /\ ListsOK(m_messages, m_prioMessages, itemPriority)'
         /\ Listed(m_messages, m_prioMessages)' = Listed(m_messages, m_prioMessages) \cup {m}
         /\ SizeOK'
<1> DEFINE P == ToSet(m_messages) \cap Packets
<1>1. /\ p \in Nat /\ itemPriority' = [itemPriority EXCEPT ![m] = p]
      /\ \/ /\ p > 0
            /\ m_prioMessages' = Inserted(m_prioMessages, m, itemPriority, p)
            /\ m_messages' = m_messages
         \/ /\ p = 0
            /\ m_messages' = IF front THEN Cons(m, m_messages) ELSE Append(m_messages, m)
            /\ m_prioMessages' = m_prioMessages
  BY PutsOne
<1>2. itemPriority' \in [Msgs -> Priorities]
  <2>1. itemPriority \in [Msgs -> Priorities]
    BY DEF QueueInv, TypeOK
  <2> QED
    BY <1>1, <2>1
<1>3. m \notin ToSet(m_messages) /\ m \notin P
  BY DEF Listed
<1>4. BytesOf(P, iSize') = BytesOf(P, iSize)
  BY <1>3, BytesOfSame
<1>5. IsFiniteSet(BytesOf(P, iSize')) /\ m_iDataSize = Cardinality(BytesOf(P, iSize'))
      /\ m_iDataSize \in Nat
  BY <1>4, FS_CardinalityType DEF QueueInv, SizeOK
<1>6. m_iDataSize' = IF m \in Packets /\ p = 0 THEN m_iDataSize + iSize'[m] ELSE m_iDataSize
  BY DEF Put, Counted
<1>7. m \in Packets => iSize'[m] \in Nat
  OBVIOUS
<1>8. CASE p > 0
  <2>1. m_prioMessages' = Inserted(m_prioMessages, m, itemPriority, p) /\ m_messages' = m_messages
    BY <1>1, <1>8
  <2>2. /\ Inserted(m_prioMessages, m, itemPriority, p) \in Seq(Msgs)
        /\ ToSet(Inserted(m_prioMessages, m, itemPriority, p)) = ToSet(m_prioMessages) \cup {m}
    <3>1. p \in Nat /\ m_prioMessages \in Seq(Msgs) /\ itemPriority \in [Msgs -> Nat]
      BY <1>1, QueueFacts
    <3> QED
      BY <3>1, InsertedHas
  <2>3. ListsOK(m_messages, Inserted(m_prioMessages, m, itemPriority, p),
                [itemPriority EXCEPT ![m] = p])
    BY <1>1, <1>8, QueueFacts, InsertedLists
  <2>4. ListsOK(m_messages, m_prioMessages, itemPriority)'
    BY <1>1, <2>1, <2>3 DEF ListsOK
  <2>5. m_iDataSize' = m_iDataSize
    BY <1>1, <1>6, <1>8
  <2>6. SizeOK'
    BY <1>5, <2>1, <2>5 DEF SizeOK
  <2>7. Listed(m_messages, m_prioMessages)' = Listed(m_messages, m_prioMessages) \cup {m}
    BY <2>1, <2>2 DEF Listed
  <2> QED
    BY <1>2, <1>5, <2>1, <2>2, <2>4, <2>5, <2>6, <2>7, QueueFacts
<1>9. CASE p = 0
  <2>1. m_messages' = Append(m_messages, m) \/ m_messages' = Cons(m, m_messages)
    BY <1>1, <1>9
  <2>a. m_prioMessages' = m_prioMessages
    BY <1>1, <1>9
  <2>2. PICK t : m_messages' = t /\ (t = Append(m_messages, m) \/ t = Cons(m, m_messages))
    BY <2>1
  <2>3. /\ t \in Seq(Msgs) /\ ToSet(t) = ToSet(m_messages) \cup {m}
        /\ ListsOK(t, m_prioMessages, [itemPriority EXCEPT ![m] = 0])
    <3>1. /\ m_messages \in Seq(Msgs) /\ m_prioMessages \in Seq(Msgs)
          /\ itemPriority \in [Msgs -> Nat]
          /\ ListsOK(m_messages, m_prioMessages, itemPriority)
      BY QueueFacts
    <3>2. (t = Append(m_messages, m) \/ t = Cons(m, m_messages))
          /\ m \notin Listed(m_messages, m_prioMessages)
      BY <2>2
    <3> QED
      BY <3>1, <3>2, AddedLists
  <2>4. ListsOK(m_messages, m_prioMessages, itemPriority)'
    BY <1>1, <1>9, <2>a, <2>2, <2>3 DEF ListsOK
  <2>5. Listed(m_messages, m_prioMessages)' = Listed(m_messages, m_prioMessages) \cup {m}
    BY <2>a, <2>2, <2>3 DEF Listed
  <2>6. m_iDataSize' \in Nat /\ SizeOK'
    <3>1. CASE m \in Packets
      <4>1. ToSet(m_messages') \cap Packets = P \cup {m}
        BY <2>2, <2>3, <3>1
      <4>2. m_iDataSize' = m_iDataSize + iSize'[m]
        BY <1>6, <1>9, <3>1
      <4>3. /\ IsFiniteSet(BytesOf(P \cup {m}, iSize'))
            /\ Cardinality(BytesOf(P \cup {m}, iSize'))
                 = Cardinality(BytesOf(P, iSize')) + iSize'[m]
        BY <1>3, <1>5, <1>7, <3>1, BytesOfOneMore
      <4> QED
        <5> DEFINE bytes == BytesOf(P \cup {m}, iSize')
        <5>1. bytes = BytesOf(ToSet(m_messages') \cap Packets, iSize')
          BY <4>1
        <5>2. IsFiniteSet(bytes) /\ m_iDataSize' = Cardinality(bytes)
          BY <1>5, <4>2, <4>3
        <5>3. m_iDataSize' \in Nat
          BY <5>2, FS_CardinalityType
        <5> HIDE DEF bytes
        <5> QED
          BY <5>1, <5>2, <5>3 DEF SizeOK
    <3>2. CASE m \notin Packets
      <4>1. ToSet(m_messages') \cap Packets = P
        BY <2>2, <2>3, <3>2
      <4> QED
        BY <1>5, <1>6, <3>2, <4>1 DEF SizeOK
    <3> QED
      BY <3>1, <3>2
  <2> QED
    BY <1>2, <2>a, <2>2, <2>3, <2>4, <2>5, <2>6, QueueFacts
<1> QED
  BY <1>1, <1>8, <1>9

\* Where Get takes one from.
LEMMA TakesOne ==
  ASSUME QueueInv, NEW p \in {0, 1}, GetTakes(p)
  PROVE  \E m \in Msgs, rest \in Seq(Msgs) :
           /\ held' = m
           /\ \/ /\ m_prioMessages = Append(rest, m) /\ m_prioMessages' = rest
                 /\ m_messages' = m_messages
                 /\ m_iDataSize' = m_iDataSize
              \/ /\ m_messages = Append(rest, m) /\ m_messages' = rest
                 /\ m_prioMessages = <<>> /\ m_prioMessages' = <<>>
                 /\ m_iDataSize' = m_iDataSize - IF m \in Packets THEN iSize[m] ELSE 0
<1> DEFINE s == Source(p)
           m == Last(s)
<1>1. s \in Seq(Msgs) /\ s # <<>>
  BY QueueFacts DEF GetTakes, Deliverable, Source
<1>2. Front(s) \in Seq(Msgs) /\ m \in Msgs /\ s = Append(Front(s), m)
  BY <1>1, FrontLast
<1>3. /\ held' = m
      /\ IF s = m_prioMessages
         THEN m_prioMessages' = Front(m_prioMessages) /\ m_messages' = m_messages
         ELSE m_messages' = Front(m_messages) /\ m_prioMessages' = m_prioMessages
      /\ m_iDataSize' = m_iDataSize - IF Counted(m, itemPriority[m]) THEN iSize[m] ELSE 0
  BY DEF GetTakes
<1>4. m_iDataSize \in Nat
  BY DEF QueueInv, TypeOK
<1>5. m \in ToSet(s)
  <2>1. ToSet(Append(Front(s), m)) = ToSet(Front(s)) \cup {m}
    BY <1>2, ToSetAppend
  <2> QED
    BY <1>2, <2>1
<1>6. CASE s = m_prioMessages
  <2>1. itemPriority[m] > 0 /\ itemPriority[m] \in Nat
    BY <1>2, <1>5, <1>6, QueueFacts DEF ListsOK
  <2>2. ~Counted(m, itemPriority[m])
    BY <2>1 DEF Counted
  <2>3. m_iDataSize' = m_iDataSize
    BY <1>3, <1>4, <2>2
  <2> HIDE DEF m, s
  <2> QED
    BY <1>2, <1>3, <1>6, <2>3
<1>7. CASE s # m_prioMessages
  <2>1. s = m_messages /\ m_prioMessages = <<>>
    BY <1>7 DEF Source
  <2>2. itemPriority[m] = 0
    BY <1>5, <2>1, QueueFacts DEF ListsOK
  <2>3. Counted(m, itemPriority[m]) <=> m \in Packets
    BY <2>2 DEF Counted
  <2>4. m_iDataSize' = m_iDataSize - IF m \in Packets THEN iSize[m] ELSE 0
    BY <1>3, <2>3
  <2> HIDE DEF m, s
  <2> QED
    BY <1>2, <1>3, <1>7, <2>1, <2>4
<1> QED
  BY <1>6, <1>7

-----------------------------------------------------------------------------
\* Nothing happens to the messages that are queued.
LEMMA QueueStays ==
  ASSUME QueueInv, UNCHANGED <<listVars, m_iDataSize, iSize>>
  PROVE  /\ m_messages' \in Seq(Msgs) /\ m_prioMessages' \in Seq(Msgs)
         /\ itemPriority' \in [Msgs -> Priorities] /\ m_iDataSize' \in Nat
         /\ iSize' \in [Packets -> Nat]
         /\ m_messages' = m_messages /\ m_prioMessages' = m_prioMessages
         /\ ListsOK(m_messages, m_prioMessages, itemPriority)'
         /\ SizeOK'
         /\ Listed(m_messages, m_prioMessages)' = Listed(m_messages, m_prioMessages)
<1>1. /\ m_messages' = m_messages /\ m_prioMessages' = m_prioMessages
      /\ itemPriority' = itemPriority /\ m_iDataSize' = m_iDataSize /\ iSize' = iSize
  BY DEF listVars
<1>2. ListsOK(m_messages, m_prioMessages, itemPriority)' /\ SizeOK'
  BY <1>1 DEF QueueInv, ListsOK, SizeOK
<1>3. Listed(m_messages, m_prioMessages)' = Listed(m_messages, m_prioMessages)
  BY <1>1 DEF Listed
<1>4. /\ m_messages \in Seq(Msgs) /\ m_prioMessages \in Seq(Msgs)
      /\ itemPriority \in [Msgs -> Priorities] /\ m_iDataSize \in Nat
      /\ iSize \in [Packets -> Nat]
  BY DEF QueueInv, TypeOK
<1> QED
  BY <1>1, <1>2, <1>3, <1>4

\* No message is queued.
LEMMA EmptyQueue ==
  ASSUME m_messages = <<>>, m_prioMessages = <<>>, m_iDataSize = 0
  PROVE  /\ m_messages \in Seq(Msgs) /\ m_prioMessages \in Seq(Msgs)
         /\ ListsOK(m_messages, m_prioMessages, itemPriority) /\ SizeOK
         /\ Listed(m_messages, m_prioMessages) = {}
<1>1. ToSet(<<>>) = {} /\ IsInjective(<<>>) /\ \A f : Ascends(<<>>, f)
  BY DEF ToSet, IsInjective, Ascends
<1>2. ToSet(m_messages) = {} /\ ToSet(m_prioMessages) = {}
  BY <1>1
<1>3. ListsOK(m_messages, m_prioMessages, itemPriority)
  BY <1>1 DEF ListsOK
<1>4. SizeOK
  <2>1. ToSet(m_messages) \cap Packets = {}
    BY <1>2
  <2> QED
    BY <2>1, BytesOfNone DEF SizeOK
<1> QED
  BY <1>2, <1>3, <1>4 DEF Listed

\* A queue that was never opened.
LEMMA InitKeeps == ASSUME Init PROVE QueueInv
<1>1. /\ m_messages = <<>> /\ m_prioMessages = <<>> /\ m_iDataSize = 0
      /\ itemPriority = [m \in Msgs |-> 0] /\ iSize = Size /\ fresh = Msgs
      /\ m_bAbortRequest = FALSE /\ m_bInitialized = FALSE /\ m_hEvent = FALSE
      /\ cpc = "off" /\ cpriority = 0 /\ held = NoMsg
  BY DEF Init
<1>2. /\ m_messages \in Seq(Msgs) /\ m_prioMessages \in Seq(Msgs)
      /\ ListsOK(m_messages, m_prioMessages, itemPriority) /\ SizeOK
      /\ Listed(m_messages, m_prioMessages) = {}
  BY <1>1, EmptyQueue
<1>3. itemPriority \in [Msgs -> Priorities]
  BY <1>1, PrioritiesAssumption
<1>4. iSize \in [Packets -> Nat]
  BY <1>1, PacketsAssumption
<1>5. TypeOK
  BY <1>1, <1>2, <1>3, <1>4 DEF TypeOK
<1>6. MessagesAreApart
  BY <1>1, <1>2, MsgsAssumption DEF MessagesAreApart
<1> QED
  BY <1>1, <1>2, <1>5, <1>6 DEF QueueInv, SleepIsSound

\* Init of the queue, and the start of its consumer.
LEMMA OpenStreamKeeps == ASSUME QueueInv, OpenStream PROVE QueueInv'
<1>1. /\ m_messages = <<>> /\ m_prioMessages = <<>> /\ cpc = "off"
  BY DEF QueueInv, OpenStream
<1>2. /\ m_messages' = m_messages /\ m_prioMessages' = m_prioMessages
      /\ itemPriority' = itemPriority /\ m_iDataSize' = 0 /\ iSize' = iSize
      /\ m_bAbortRequest' = FALSE /\ m_bInitialized' = TRUE /\ cpc' = "call"
      /\ fresh' = fresh /\ held' = held /\ m_hEvent' = m_hEvent /\ cpriority' = cpriority
  BY DEF OpenStream, listVars
<1>3. /\ m_messages' \in Seq(Msgs) /\ m_prioMessages' \in Seq(Msgs)
      /\ ListsOK(m_messages, m_prioMessages, itemPriority)' /\ SizeOK'
      /\ Listed(m_messages, m_prioMessages)' = {}
  <2>1. m_messages' = <<>> /\ m_prioMessages' = <<>> /\ m_iDataSize' = 0
    BY <1>1, <1>2
  <2>2. ListsOK(m_messages, m_prioMessages, itemPriority)'
    BY <1>2 DEF QueueInv, ListsOK
  <2>3. ToSet(<<>>) = {}
    BY DEF ToSet
  <2>4. ToSet(m_messages') \cap Packets = {}
    BY <2>1, <2>3
  <2>5. SizeOK'
    BY <2>1, <2>4, BytesOfNone DEF SizeOK
  <2> QED
    BY <2>1, <2>2, <2>3, <2>5 DEF Listed
<1>4. TypeOK'
  BY <1>2, <1>3 DEF QueueInv, TypeOK
<1>5. MessagesAreApart'
  BY <1>2, <1>3 DEF QueueInv, MessagesAreApart
<1>6. held' = NoMsg
  BY <1>1, <1>2 DEF QueueInv
<1> QED
  BY <1>2, <1>3, <1>4, <1>5, <1>6 DEF QueueInv, SleepIsSound

\* Flush, and the flush of everything in End.
LEMMA FlushKeeps ==
  ASSUME QueueInv, NEW ms \in FlushTypes, m_bInitialized, Flush(ms) PROVE QueueInv'
<1>1. /\ m_messages' = SelectIn(m_messages, Msgs \ ms)
      /\ m_prioMessages' = SelectIn(m_prioMessages, Msgs \ ms)
      /\ m_iDataSize' = IF ms \cap Packets # {} THEN 0 ELSE m_iDataSize
      /\ itemPriority' = itemPriority /\ iSize' = iSize
      /\ m_bAbortRequest' = m_bAbortRequest /\ m_bInitialized' = m_bInitialized
      /\ cpc' = cpc /\ cpriority' = cpriority
      /\ fresh' = fresh /\ held' = held /\ m_hEvent' = m_hEvent
  BY DEF Flush, Without, consumerVars
<1>2. /\ m_messages' \in Seq(Msgs) /\ m_prioMessages' \in Seq(Msgs)
      /\ ListsOK(m_messages, m_prioMessages, itemPriority)'
  <2>1. /\ m_messages \in Seq(Msgs) /\ m_prioMessages \in Seq(Msgs)
        /\ ListsOK(m_messages, m_prioMessages, itemPriority)
    BY QueueFacts
  <2>2. /\ SelectIn(m_messages, Msgs \ ms) \in Seq(Msgs)
        /\ SelectIn(m_prioMessages, Msgs \ ms) \in Seq(Msgs)
        /\ ListsOK(SelectIn(m_messages, Msgs \ ms), SelectIn(m_prioMessages, Msgs \ ms),
                   itemPriority)
    BY <2>1, FlushedLists
  <2> QED
    BY <1>1, <2>2 DEF ListsOK
<1>3. /\ ToSet(m_messages') = ToSet(m_messages) \cap (Msgs \ ms)
      /\ ToSet(m_prioMessages') = ToSet(m_prioMessages) \cap (Msgs \ ms)
  BY <1>1, QueueFacts, SelectInToSet
<1>4. m_iDataSize' \in Nat /\ SizeOK'
  <2>1. ms = Packets \/ ms \cap Packets = {}
    BY FlushAssumption
  <2>2. CASE ms \cap Packets # {}
    <3>1. ToSet(m_messages') \cap Packets = {} /\ m_iDataSize' = 0
      BY <1>1, <1>3, <2>1, <2>2
    <3> QED
      BY <3>1, BytesOfNone DEF SizeOK
  <2>3. CASE ms \cap Packets = {}
    <3>1. ToSet(m_messages') \cap Packets = ToSet(m_messages) \cap Packets
      BY <1>3, <2>3, QueueFacts
    <3>2. m_iDataSize' = m_iDataSize /\ m_iDataSize \in Nat
      BY <1>1, <2>3 DEF QueueInv, TypeOK
    <3> QED
      BY <1>1, <3>1, <3>2 DEF QueueInv, SizeOK
  <2> QED
    BY <2>2, <2>3
<1>5. TypeOK'
  BY <1>1, <1>2, <1>4 DEF QueueInv, TypeOK
<1>6. MessagesAreApart'
  BY <1>1, <1>3 DEF QueueInv, MessagesAreApart, Listed
<1>7. /\ m_messages = <<>> => m_messages' = <<>>
      /\ m_prioMessages = <<>> => m_prioMessages' = <<>>
  BY <1>1, SelectInEmpty
<1>8. SleepIsSound'
  BY <1>1, <1>7 DEF QueueInv, SleepIsSound
<1> QED
  BY <1>1, <1>2, <1>4, <1>5, <1>6, <1>7, <1>8 DEF QueueInv

\* End flushes what is left, when there is no consumer any more.
LEMMA EndKeeps == ASSUME QueueInv, End PROVE QueueInv'
<1>1. /\ m_messages' = <<>> /\ m_prioMessages' = <<>> /\ m_iDataSize' = 0
      /\ itemPriority' = itemPriority /\ iSize' = iSize
      /\ m_bAbortRequest' = FALSE /\ m_bInitialized' = FALSE
      /\ cpc = "off" /\ cpc' = cpc /\ cpriority' = cpriority
      /\ fresh' = fresh /\ held' = held /\ m_hEvent' = m_hEvent
  BY DEF End, consumerVars
<1>2. ToSet(<<>>) = {} /\ IsInjective(<<>>) /\ \A f : Ascends(<<>>, f)
  BY DEF ToSet, IsInjective, Ascends
<1>3. /\ m_messages' \in Seq(Msgs) /\ m_prioMessages' \in Seq(Msgs)
      /\ ToSet(m_messages') = {} /\ ToSet(m_prioMessages') = {}
  BY <1>1, <1>2
<1>4. ListsOK(m_messages, m_prioMessages, itemPriority)'
  BY <1>1, <1>2 DEF ListsOK
<1>5. SizeOK'
  <2>1. ToSet(m_messages') \cap Packets = {}
    BY <1>3
  <2> QED
    BY <1>1, <2>1, BytesOfNone DEF SizeOK
<1>6. TypeOK'
  BY <1>1, <1>3 DEF QueueInv, TypeOK
<1>7. MessagesAreApart'
  BY <1>1, <1>3 DEF QueueInv, MessagesAreApart, Listed
<1> QED
  BY <1>1, <1>4, <1>5, <1>6, <1>7 DEF QueueInv, SleepIsSound

\* A fresh message is put, and the event set.
LEMMA SendKeeps ==
  ASSUME QueueInv, NEW m \in Msgs, NEW p \in Priorities, Send(m, p) PROVE QueueInv'
<1>1. /\ m \in fresh /\ iSize' = iSize /\ Put(m, p, TRUE) /\ fresh' = fresh \ {m}
      /\ cpc' = cpc /\ cpriority' = cpriority /\ held' = held
  BY DEF Send, consumerVars
<1>2. m \notin Listed(m_messages, m_prioMessages) /\ m # held
  BY <1>1 DEF QueueInv, MessagesAreApart
<1>3. iSize' \in [Packets -> Nat] /\ \A x \in Packets \ {m} : iSize'[x] = iSize[x]
  BY <1>1 DEF QueueInv, TypeOK
<1>4. /\ m_messages' \in Seq(Msgs) /\ m_prioMessages' \in Seq(Msgs)
      /\ itemPriority' \in [Msgs -> Priorities] /\ m_iDataSize' \in Nat
      /\ ListsOK(m_messages, m_prioMessages, itemPriority)'
      /\ Listed(m_messages, m_prioMessages)' = Listed(m_messages, m_prioMessages) \cup {m}
      /\ SizeOK'
  BY <1>1, <1>2, <1>3, PutKeeps
<1>5. /\ m_hEvent' = TRUE /\ m_bAbortRequest' = m_bAbortRequest
      /\ m_bInitialized' = m_bInitialized /\ m_bInitialized
  BY <1>1 DEF Put
<1>6. TypeOK'
  BY <1>1, <1>3, <1>4, <1>5 DEF QueueInv, TypeOK
<1>7. MessagesAreApart'
  BY <1>1, <1>2, <1>4 DEF QueueInv, MessagesAreApart
<1> QED
  BY <1>1, <1>4, <1>5, <1>6, <1>7 DEF QueueInv, SleepIsSound

\* The consumer puts back what it has: a synchronize message, or the rest of a packet.
LEMMA PutBackKeeps ==
  ASSUME QueueInv, NEW p \in Priorities, NEW front \in BOOLEAN, p > 0 => front,
         cpc = "handle", Put(held, p, front), cpc' = "call", held' = NoMsg,
         UNCHANGED <<fresh, cpriority>>,
         iSize' \in [Packets -> Nat], \A x \in Packets \ {held} : iSize'[x] = iSize[x]
  PROVE  QueueInv'
<1>1. held # NoMsg /\ held \in Msgs
  BY DEF QueueInv, TypeOK
<1>2. held \notin Listed(m_messages, m_prioMessages) /\ held \notin fresh
  BY DEF QueueInv, MessagesAreApart
<1>3. /\ m_messages' \in Seq(Msgs) /\ m_prioMessages' \in Seq(Msgs)
      /\ itemPriority' \in [Msgs -> Priorities] /\ m_iDataSize' \in Nat
      /\ ListsOK(m_messages, m_prioMessages, itemPriority)'
      /\ Listed(m_messages, m_prioMessages)' = Listed(m_messages, m_prioMessages) \cup {held}
      /\ SizeOK'
  BY <1>1, <1>2, PutKeeps
<1>4. /\ m_hEvent' = TRUE /\ m_bAbortRequest' = m_bAbortRequest
      /\ m_bInitialized' = m_bInitialized /\ m_bInitialized
  BY DEF Put
<1>5. TypeOK'
  BY <1>3, <1>4 DEF QueueInv, TypeOK
<1>6. MessagesAreApart'
  <2>1. Listed(m_messages, m_prioMessages) \subseteq Msgs /\ fresh \subseteq Msgs
    BY QueueFacts DEF Listed, QueueInv, TypeOK
  <2> QED
    BY <1>1, <1>2, <1>3, <2>1, MsgsAssumption DEF QueueInv, MessagesAreApart
<1> QED
  BY <1>3, <1>4, <1>5, <1>6 DEF QueueInv, SleepIsSound

\* Get takes the most urgent message, or the last of m_messages.
LEMMA GetTakesKeeps ==
  ASSUME QueueInv, NEW p \in {0, 1}, GetTakes(p) PROVE QueueInv'
<1>1. /\ cpc' = "handle" /\ cpriority' = 0 /\ itemPriority' = itemPriority
      /\ iSize' = iSize /\ fresh' = fresh /\ cpc \in {"call", "again"}
      /\ m_bAbortRequest' = m_bAbortRequest /\ m_bInitialized' = m_bInitialized
      /\ m_hEvent' = m_hEvent
  BY DEF GetTakes, InGet
<1>2. PICK m \in Msgs, rest \in Seq(Msgs) :
           /\ held' = m
           /\ \/ /\ m_prioMessages = Append(rest, m) /\ m_prioMessages' = rest
                 /\ m_messages' = m_messages
                 /\ m_iDataSize' = m_iDataSize
              \/ /\ m_messages = Append(rest, m) /\ m_messages' = rest
                 /\ m_prioMessages = <<>> /\ m_prioMessages' = <<>>
                 /\ m_iDataSize' = m_iDataSize - IF m \in Packets THEN iSize[m] ELSE 0
  BY TakesOne
<1>3. /\ m_messages \in Seq(Msgs) /\ m_prioMessages \in Seq(Msgs)
      /\ ListsOK(m_messages, m_prioMessages, itemPriority)
  BY QueueFacts
<1>4. ToSet(Append(rest, m)) = ToSet(rest) \cup {m}
  BY ToSetAppend
<1>5. /\ m_messages' \in Seq(Msgs) /\ m_prioMessages' \in Seq(Msgs)
      /\ ListsOK(m_messages, m_prioMessages, itemPriority)'
      /\ m \notin Listed(m_messages, m_prioMessages)'
      /\ Listed(m_messages, m_prioMessages) = Listed(m_messages, m_prioMessages)' \cup {m}
      /\ m_iDataSize' \in Nat /\ SizeOK'
  <2>1. CASE /\ m_prioMessages = Append(rest, m) /\ m_prioMessages' = rest
             /\ m_messages' = m_messages
             /\ m_iDataSize' = m_iDataSize
    <3>1. ListsOK(m_messages, Append(rest, m), itemPriority)
      BY <1>3, <2>1
    <3>2. ListsOK(m_messages, rest, itemPriority) /\ m \notin Listed(m_messages, rest)
      BY <1>3, <3>1, TakenLists
    <3>3. ListsOK(m_messages, m_prioMessages, itemPriority)'
      BY <1>1, <2>1, <3>2 DEF ListsOK
    <3>4. m_iDataSize' \in Nat /\ SizeOK'
      BY <1>1, <2>1 DEF QueueInv, TypeOK, SizeOK
    <3> QED
      BY <1>3, <1>4, <2>1, <3>2, <3>3, <3>4 DEF Listed
  <2>2. CASE /\ m_messages = Append(rest, m) /\ m_messages' = rest
             /\ m_prioMessages = <<>> /\ m_prioMessages' = <<>>
             /\ m_iDataSize' = m_iDataSize - IF m \in Packets THEN iSize[m] ELSE 0
    <3>1. ListsOK(Append(rest, m), m_prioMessages, itemPriority)
      BY <1>3, <2>2
    <3>2. ListsOK(rest, m_prioMessages, itemPriority) /\ m \notin Listed(rest, m_prioMessages)
      BY <1>3, <3>1, TakenLists
    <3>3. ListsOK(m_messages, m_prioMessages, itemPriority)'
      BY <1>1, <2>2, <3>2 DEF ListsOK
    <3>4. m_iDataSize' \in Nat /\ SizeOK'
      <4> DEFINE P == ToSet(rest) \cap Packets
      <4>1. IsFiniteSet(BytesOf(ToSet(m_messages) \cap Packets, iSize))
            /\ m_iDataSize = Cardinality(BytesOf(ToSet(m_messages) \cap Packets, iSize))
        BY DEF QueueInv, SizeOK
      <4>2. CASE m \in Packets
        <5>1. ToSet(m_messages) \cap Packets = P \cup {m} /\ m \notin P
          BY <1>4, <2>2, <3>2, <4>2 DEF Listed
        <5>2. iSize[m] \in Nat
          BY <4>2 DEF QueueInv, TypeOK
        <5> HIDE DEF P
        <5>3. IsFiniteSet(BytesOf(P \cup {m}, iSize))
              /\ m_iDataSize = Cardinality(BytesOf(P \cup {m}, iSize))
          BY <4>1, <5>1
        <5>4. IsFiniteSet(BytesOf(P, iSize))
              /\ Cardinality(BytesOf(P, iSize)) = m_iDataSize - iSize[m]
          BY <5>1, <5>2, <5>3, BytesOfOneLess
        <5>5. m_iDataSize' = Cardinality(BytesOf(P, iSize)) /\ m_iDataSize' \in Nat
          BY <2>2, <4>2, <5>4, FS_CardinalityType
        <5>6. ToSet(m_messages') \cap Packets = P
          BY <2>2 DEF P
        <5> QED
          BY <1>1, <5>4, <5>5, <5>6 DEF SizeOK
      <4>3. CASE m \notin Packets
        <5>1. ToSet(m_messages') \cap Packets = ToSet(m_messages) \cap Packets
          BY <1>4, <2>2, <4>3
        <5>2. m_iDataSize' = m_iDataSize /\ m_iDataSize \in Nat
          BY <2>2, <4>3 DEF QueueInv, TypeOK
        <5> QED
          BY <1>1, <4>1, <5>1, <5>2 DEF SizeOK
      <4> QED
        BY <4>2, <4>3
    <3>5. <<>> \in Seq(Msgs)
      OBVIOUS
    <3> QED
      BY <1>4, <2>2, <3>2, <3>3, <3>4, <3>5 DEF Listed
  <2> QED
    BY <1>2, <2>1, <2>2
<1>6. TypeOK'
  BY <1>1, <1>2, <1>5 DEF QueueInv, TypeOK
<1>7. m \notin fresh
  BY <1>5 DEF QueueInv, MessagesAreApart
<1>8. MessagesAreApart'
  BY <1>1, <1>2, <1>5, <1>7 DEF QueueInv, MessagesAreApart
<1>9. held' # NoMsg
  BY <1>2, MsgsAssumption
<1>10. m_bInitialized
  BY <1>1 DEF QueueInv
<1> QED
  BY <1>1, <1>5, <1>6, <1>8, <1>9, <1>10 DEF QueueInv, SleepIsSound

\* Nothing to deliver, to the consumer that asks for p.
LEMMA NothingToDeliver ==
  ASSUME QueueInv, NEW p \in {0, 1}
  PROVE  ~Deliverable(p) <=> m_prioMessages = <<>> /\ (p = 0 => m_messages = <<>>)
<1>1. /\ m_messages \in Seq(Msgs) /\ m_prioMessages \in Seq(Msgs)
      /\ itemPriority \in [Msgs -> Nat]
      /\ ListsOK(m_messages, m_prioMessages, itemPriority)
  BY QueueFacts
<1>2. ASSUME NEW s \in Seq(Msgs), s # <<>>
      PROVE  Last(s) \in ToSet(s) /\ Last(s) \in Msgs
  <2>1. Front(s) \in Seq(Msgs) /\ Last(s) \in Msgs /\ s = Append(Front(s), Last(s))
    BY <1>2, FrontLast
  <2>2. ToSet(Append(Front(s), Last(s))) = ToSet(Front(s)) \cup {Last(s)}
    BY <2>1, ToSetAppend
  <2> QED
    BY <2>1, <2>2
<1>3. CASE m_prioMessages # <<>>
  <2>1. Last(m_prioMessages) \in ToSet(m_prioMessages) /\ Last(m_prioMessages) \in Msgs
    BY <1>1, <1>2, <1>3
  <2>2. itemPriority[Last(m_prioMessages)] > 0 /\ itemPriority[Last(m_prioMessages)] \in Nat
    BY <1>1, <2>1 DEF ListsOK
  <2>3. itemPriority[Last(m_prioMessages)] >= p
    BY <2>2
  <2> QED
    BY <1>3, <2>3 DEF Deliverable, Source
<1>4. CASE m_prioMessages = <<>> /\ p = 0 /\ m_messages # <<>>
  <2>1. Last(m_messages) \in ToSet(m_messages) /\ Last(m_messages) \in Msgs
    BY <1>1, <1>2, <1>4
  <2>2. itemPriority[Last(m_messages)] \in Nat
    BY <1>1, <2>1
  <2>3. itemPriority[Last(m_messages)] >= p
    BY <1>4, <2>2
  <2>4. Source(p) = m_messages
    BY <1>4 DEF Source
  <2> QED
    BY <1>4, <2>3, <2>4 DEF Deliverable
<1>5. CASE m_prioMessages = <<>> /\ (p = 0 => m_messages = <<>>)
  BY <1>5 DEF Deliverable, Source
<1> QED
  BY <1>3, <1>4, <1>5

\* The steps that leave the messages where they are.
LEMMA OtherStepsKeep ==
  ASSUME QueueInv,
         \/ Abort
         \/ \E m \in Msgs : SendRefused(m)
         \/ \E p \in {0, 1} : GetSleeps(p)
         \/ WaitReturns \/ WaitExpires \/ GetAborts \/ HandleDone
         \/ UNCHANGED vars
  PROVE  QueueInv'
<1>1. /\ UNCHANGED <<listVars, m_iDataSize, iSize>>
      /\ m_bInitialized' = m_bInitialized
      /\ fresh' \subseteq fresh /\ held' \in {held, NoMsg}
  BY DEF Abort, SendRefused, GetSleeps, WaitReturns, WaitExpires, GetAborts, HandleDone,
         vars, consumerVars
<1>2. /\ m_messages' \in Seq(Msgs) /\ m_prioMessages' \in Seq(Msgs)
      /\ itemPriority' \in [Msgs -> Priorities] /\ m_iDataSize' \in Nat
      /\ iSize' \in [Packets -> Nat]
      /\ m_messages' = m_messages /\ m_prioMessages' = m_prioMessages
      /\ ListsOK(m_messages, m_prioMessages, itemPriority)'
      /\ SizeOK'
      /\ Listed(m_messages, m_prioMessages)' = Listed(m_messages, m_prioMessages)
  BY <1>1, QueueStays
<1>3. MessagesAreApart'
  <2>1. Listed(m_messages, m_prioMessages) \subseteq Msgs /\ fresh \subseteq Msgs
    BY QueueFacts DEF Listed, QueueInv, TypeOK
  <2>2. NoMsg \notin Listed(m_messages, m_prioMessages) \cup fresh
    BY <2>1, MsgsAssumption
  <2> QED
    BY <1>1, <1>2, <2>2 DEF QueueInv, MessagesAreApart
<1>4. /\ m_bAbortRequest' \in BOOLEAN /\ m_hEvent' \in BOOLEAN
      /\ cpc' \in {"off", "call", "wait", "again", "handle"} /\ cpriority' \in {0, 1}
      /\ cpc' = "handle" <=> held' # NoMsg
      /\ ~m_bInitialized => cpc' = "off"
  <2>1. /\ m_bAbortRequest \in BOOLEAN /\ m_hEvent \in BOOLEAN
        /\ cpc \in {"off", "call", "wait", "again", "handle"} /\ cpriority \in {0, 1}
        /\ cpc = "handle" <=> held # NoMsg
        /\ ~m_bInitialized => cpc = "off"
    BY DEF QueueInv, TypeOK
  <2>2. CASE Abort \/ \E m \in Msgs : SendRefused(m)
    BY <2>1, <2>2 DEF Abort, SendRefused, consumerVars
  <2>3. CASE \E p \in {0, 1} : GetSleeps(p)
    BY <2>1, <2>3 DEF GetSleeps, InGet
  <2>4. CASE WaitReturns \/ WaitExpires \/ HandleDone
    BY <2>1, <2>4 DEF WaitReturns, WaitExpires, HandleDone
  <2>5. CASE GetAborts
    BY <2>1, <2>5 DEF GetAborts, InGet
  <2>6. CASE UNCHANGED vars
    BY <2>1, <2>6 DEF vars, consumerVars
  <2> QED
    BY <2>2, <2>3, <2>4, <2>5, <2>6
<1>5. SleepIsSound'
  <2>1. CASE \E p \in {0, 1} : GetSleeps(p)
    <3>1. PICK p \in {0, 1} : GetSleeps(p)
      BY <2>1
    <3>2. ~Deliverable(p) /\ ~m_bAbortRequest /\ m_bAbortRequest' = m_bAbortRequest
          /\ cpriority' = p
      BY <3>1 DEF GetSleeps
    <3> QED
      BY <1>2, <3>2, NothingToDeliver DEF SleepIsSound
  <2>2. CASE Abort
    BY <2>2 DEF Abort, SleepIsSound
  <2>3. CASE (\E m \in Msgs : SendRefused(m)) \/ UNCHANGED vars
    <3>1. /\ cpc' = cpc /\ cpriority' = cpriority /\ m_hEvent' = m_hEvent
          /\ m_bAbortRequest' = m_bAbortRequest
      BY <2>3 DEF SendRefused, vars, consumerVars
    <3> QED
      BY <1>2, <3>1 DEF QueueInv, SleepIsSound
  <2>4. CASE WaitReturns \/ WaitExpires \/ GetAborts \/ HandleDone
    <3>1. cpc' # "wait"
      BY <2>4 DEF WaitReturns, WaitExpires, GetAborts, HandleDone
    <3> QED
      BY <3>1 DEF SleepIsSound
  <2> QED
    BY <2>1, <2>2, <2>3, <2>4
<1>6. TypeOK'
  <2>1. fresh' \in SUBSET Msgs /\ held' \in Msgs \cup {NoMsg} /\ m_bInitialized' \in BOOLEAN
    BY <1>1 DEF QueueInv, TypeOK
  <2> QED
    BY <1>2, <1>4, <2>1 DEF TypeOK
<1> QED
  BY <1>1, <1>2, <1>3, <1>4, <1>5, <1>6 DEF QueueInv

\* Every step keeps the invariant.
LEMMA QueueInvIsInductive == QueueInv /\ [Next]_vars => QueueInv'
<1> SUFFICES ASSUME QueueInv, [Next]_vars PROVE QueueInv'
  OBVIOUS
<1>1. CASE OpenStream
  BY <1>1, OpenStreamKeeps
<1>2. CASE End
  BY <1>2, EndKeeps
<1>3. CASE \E ms \in FlushTypes : m_bInitialized /\ Flush(ms)
  BY <1>3, FlushKeeps
<1>4. CASE \E m \in Msgs, p \in Priorities : Send(m, p)
  BY <1>4, SendKeeps
<1>5. CASE \E p \in {0, 1} : GetTakes(p)
  BY <1>5, GetTakesKeeps
<1>6. CASE PutBackUrgent
  <2>1. 1 \in Priorities /\ iSize' = iSize /\ iSize \in [Packets -> Nat]
    BY <1>6, PrioritiesAssumption DEF PutBackUrgent, QueueInv, TypeOK
  <2>2. /\ cpc = "handle" /\ Put(held, 1, TRUE) /\ cpc' = "call" /\ held' = NoMsg
        /\ UNCHANGED <<fresh, cpriority>>
    BY <1>6 DEF PutBackUrgent
  <2> QED
    BY <2>1, <2>2, PutBackKeeps
<1>7. CASE PutBackRest
  <2>1. 0 \in Priorities /\ iSize \in [Packets -> Nat] /\ held \in Packets
    BY <1>7, PrioritiesAssumption DEF PutBackRest, QueueInv, TypeOK
  <2>2. /\ cpc = "handle" /\ Put(held, 0, FALSE) /\ cpc' = "call" /\ held' = NoMsg
        /\ UNCHANGED <<fresh, cpriority>>
        /\ iSize[held] > 1 /\ iSize' = [iSize EXCEPT ![held] = @ - 1]
    BY <1>7 DEF PutBackRest
  <2>3. iSize[held] - 1 \in Nat
    BY <2>1, <2>2
  <2>4. iSize' \in [Packets -> Nat] /\ \A x \in Packets \ {held} : iSize'[x] = iSize[x]
    BY <2>1, <2>2, <2>3
  <2>5. ~(0 > 0)
    OBVIOUS
  <2> QED
    BY <2>1, <2>2, <2>4, <2>5, PutBackKeeps
<1> QED
  BY <1>1, <1>2, <1>3, <1>4, <1>5, <1>6, <1>7, OtherStepsKeep DEF Next, ConsumerStep

(***************************************************************************)
(* The inductive invariant of the message queue holds in every reachable   *)
(* state.                                                                  *)
(***************************************************************************)
THEOREM QueueInvHolds == Spec => []QueueInv
<1>1. Init => QueueInv
  BY InitKeeps
<1> QED
  BY <1>1, QueueInvIsInductive, PTL DEF Spec

(***************************************************************************)
(* m_iDataSize is the size of the packets that are queued, although their  *)
(* sizes change between Get and the Put that gives them back, and Flush    *)
(* and End take them out.                                                  *)
(***************************************************************************)
THEOREM DataSizeIsWhatIsQueuedHolds == Spec => []DataSizeIsWhatIsQueued
<1>1. QueueInv => DataSizeIsWhatIsQueued
  BY DEF QueueInv, SizeOK, DataSizeIsWhatIsQueued, Bytes, BytesOf
<1> QED
  BY <1>1, QueueInvHolds, PTL

(***************************************************************************)
(* No lost wakeup in Get: a consumer that sleeps has nothing to take, or   *)
(* the event is set.                                                       *)
(***************************************************************************)
THEOREM NoSleepOnWorkHolds == Spec => []NoSleepOnWork
<1>1. QueueInv => NoSleepOnWork
  <2> SUFFICES ASSUME QueueInv, cpc = "wait", ~m_hEvent
               PROVE  ~m_bAbortRequest /\ ~Deliverable(cpriority)
    BY DEF NoSleepOnWork
  <2>1. cpriority \in {0, 1} /\ SleepIsSound
    BY DEF QueueInv, TypeOK
  <2> QED
    BY <2>1, NothingToDeliver DEF SleepIsSound
<1> QED
  BY <1>1, QueueInvHolds, PTL

-----------------------------------------------------------------------------
\* The line of priority p, the newest message first.
LineOf(l, q, priority, p) ==
  IF p = 0 THEN l ELSE SelectIn(q, {m \in Msgs : priority[m] = p})

\* The abstract lines.
Lines == [p \in Priorities |-> Reverse(Line(p))]

\* A line has listed messages only.
LEMMA LineOfType ==
  ASSUME NEW l \in Seq(Msgs), NEW q \in Seq(Msgs), NEW priority, NEW p
  PROVE  /\ LineOf(l, q, priority, p) \in Seq(Msgs)
         /\ ToSet(LineOf(l, q, priority, p)) \subseteq Listed(l, q)
<1>1. ASSUME NEW K PROVE SelectIn(q, K) \in Seq(Msgs) /\ ToSet(SelectIn(q, K)) \subseteq ToSet(q)
  BY SelectInType, SelectInToSet
<1> QED
  BY <1>1 DEF LineOf, Listed

\* SelectInConcat, for messages.
LEMMA SelectedTogether ==
  ASSUME NEW s \in Seq(Msgs), NEW t \in Seq(Msgs), NEW K
  PROVE  SelectIn(s \o t, K) = SelectIn(s, K) \o SelectIn(t, K)
BY SelectInConcat, SMT

\* A sequence with m between its two parts.
Around(a, m, b) == Append(a, m) \o b

\* What is selected of it.
LEMMA SelectedAround ==
  ASSUME NEW a \in Seq(Msgs), NEW b \in Seq(Msgs), NEW m \in Msgs, NEW F
  PROVE  /\ m \in F => SelectIn(Around(a, m, b), F) = Around(SelectIn(a, F), m, SelectIn(b, F))
         /\ m \notin F => SelectIn(Around(a, m, b), F) = SelectIn(a, F) \o SelectIn(b, F)
<1>1. PICK t \in Seq(Msgs) : t = Append(a, m)
  BY AppendProperties
<1>2. SelectIn(t \o b, F) = SelectIn(t, F) \o SelectIn(b, F)
  BY SelectedTogether
<1>3. SelectIn(t, F) = IF m \in F THEN Append(SelectIn(a, F), m) ELSE SelectIn(a, F)
  BY <1>1, SelectInAppend
<1> QED
  BY <1>1, <1>2, <1>3 DEF Around

\* What is selected when only one part has something to select.
OneSideOnly(a, b, m, F, e) ==
  /\ m \notin F /\ SelectIn(a, F) = e /\ SelectIn(b, F) = <<>>
      => SelectIn(Around(a, m, b), F) = e
  /\ m \notin F /\ SelectIn(a, F) = <<>> /\ SelectIn(b, F) = e
      => SelectIn(Around(a, m, b), F) = e
  /\ m \in F /\ SelectIn(a, F) = <<>> /\ SelectIn(b, F) = e
      => SelectIn(Around(a, m, b), F) = Cons(m, e)

\* Selecting around one element, when one of the two sides has nothing selected.
LEMMA SelectedAroundOnce ==
  ASSUME NEW a \in Seq(Msgs), NEW b \in Seq(Msgs), NEW m \in Msgs, NEW F, NEW e \in Seq(Msgs)
  PROVE  OneSideOnly(a, b, m, F, e)
<1>1. e \o <<>> = e /\ <<>> \o e = e
  BY ConcatEmptySeq
<1>2. Around(<<>>, m, e) = Cons(m, e)
  <2>1. Append(<<>>, m) = <<m>>
    OBVIOUS
  <2> QED
    BY <2>1 DEF Around, Cons
<1>3. /\ m \in F => SelectIn(Around(a, m, b), F) = Around(SelectIn(a, F), m, SelectIn(b, F))
      /\ m \notin F => SelectIn(Around(a, m, b), F) = SelectIn(a, F) \o SelectIn(b, F)
  BY SelectedAround
<1> QED
  BY <1>1, <1>2, <1>3 DEF OneSideOnly

\* An urgent message joins its line, and the other lines stay.
Joins(l, q, m, priority, p, f, r) ==
  LineOf(l, Inserted(q, m, priority, p), f, r)
    = IF r = p THEN Cons(m, LineOf(l, q, priority, r)) ELSE LineOf(l, q, priority, r)

\* An urgent message joins the line of its priority at the back, and no other.
LEMMA InsertedLine ==
  ASSUME NEW l \in Seq(Msgs), NEW q \in Seq(Msgs), NEW priority \in [Msgs -> Nat],
         NEW m \in Msgs, m \notin Listed(l, q), NEW p \in Nat, p > 0, NEW r \in Nat,
         NEW f, f[m] = p, \A x \in Msgs \ {m} : f[x] = priority[x]
  PROVE  Joins(l, q, m, priority, p, f, r)
<1> SUFFICES LineOf(l, Inserted(q, m, priority, p), f, r)
               = IF r = p THEN Cons(m, LineOf(l, q, priority, r)) ELSE LineOf(l, q, priority, r)
  BY DEF Joins
<1> DEFINE L == {x \in Msgs : priority[x] < p}
           H == {x \in Msgs : priority[x] >= p}
           a == SelectIn(q, L)
           b == SelectIn(q, H)
           E == {x \in Msgs : priority[x] = r}
           F == {x \in Msgs : f[x] = r}
<1>1. CASE r = 0
  BY <1>1 DEF LineOf
<1>2. CASE r # 0
  <2>1. LineOf(l, Inserted(q, m, priority, p), f, r) = SelectIn(Around(a, m, b), F)
        /\ LineOf(l, q, priority, r) = SelectIn(q, E)
    BY <1>2 DEF LineOf, Inserted, Around
  <2>2. m \notin ToSet(q) /\ ToSet(q) \subseteq Msgs
    BY ElementsAreMessages DEF Listed
  <2>3. f[m] = p /\ \A x \in ToSet(q) : f[x] = priority[x]
    BY <2>2
  <2>6. SelectIn(a, F) = SelectIn(q, L \cap F) /\ SelectIn(b, F) = SelectIn(q, H \cap F)
    <3> HIDE DEF L, H, F
    <3> QED
      BY SelectInTwice, SMTT(30)
  <2>7. m \in F <=> r = p
    BY <2>3
  <2>8. /\ r < p => ToSet(q) \cap (L \cap F) = ToSet(q) \cap E
                    /\ ToSet(q) \cap (H \cap F) = {}
        /\ r >= p => ToSet(q) \cap (L \cap F) = {}
                     /\ ToSet(q) \cap (H \cap F) = ToSet(q) \cap E
    BY <2>2, <2>3
  <2>9. /\ r < p => SelectIn(q, L \cap F) = SelectIn(q, E) /\ SelectIn(q, H \cap F) = <<>>
        /\ r >= p => SelectIn(q, L \cap F) = <<>> /\ SelectIn(q, H \cap F) = SelectIn(q, E)
    <3> HIDE DEF L, H, E, F
    <3> QED
      BY <2>8, SelectInSame, SelectInNone
  <2>10. SelectIn(q, E) \in Seq(Msgs)
    BY SelectInType
  <2>11. PICK A \in Seq(Msgs), B \in Seq(Msgs), e \in Seq(Msgs), G \in {F} :
           A = a /\ B = b /\ e = SelectIn(q, E)
    BY <2>10, SelectInType
  <2>12. OneSideOnly(A, B, m, G, e)
    BY <2>11, SelectedAroundOnce
  <2> HIDE DEF a, b, L, H, E, F
  <2>13. /\ m \notin F /\ SelectIn(a, F) = e /\ SelectIn(b, F) = <<>>
              => SelectIn(Around(a, m, b), F) = e
         /\ m \notin F /\ SelectIn(a, F) = <<>> /\ SelectIn(b, F) = e
              => SelectIn(Around(a, m, b), F) = e
         /\ m \in F /\ SelectIn(a, F) = <<>> /\ SelectIn(b, F) = e
              => SelectIn(Around(a, m, b), F) = Cons(m, e)
    BY <2>11, <2>12 DEF OneSideOnly
  <2>14. CASE r < p
    <3>1. SelectIn(a, F) = e /\ SelectIn(b, F) = <<>> /\ m \notin F
      BY <2>6, <2>7, <2>9, <2>11, <2>14
    <3> QED
      BY <2>1, <2>11, <2>13, <2>14, <3>1
  <2>15. CASE r = p
    <3>1. SelectIn(a, F) = <<>> /\ SelectIn(b, F) = e /\ m \in F
      BY <2>6, <2>7, <2>9, <2>11, <2>15
    <3> QED
      BY <2>1, <2>11, <2>13, <2>15, <3>1
  <2>16. CASE r > p
    <3>1. SelectIn(a, F) = <<>> /\ SelectIn(b, F) = e /\ m \notin F
      BY <2>6, <2>7, <2>9, <2>11, <2>16
    <3> QED
      BY <2>1, <2>11, <2>13, <2>16, <3>1
  <2> QED
    BY <2>14, <2>15, <2>16
<1> QED
  BY <1>1, <1>2

\* A message of priority 0 does not change the urgent lines.
LEMMA AddedLine ==
  ASSUME NEW l \in Seq(Msgs), NEW q \in Seq(Msgs), NEW priority \in [Msgs -> Nat],
         NEW m \in Msgs, m \notin Listed(l, q), NEW t, NEW r \in Nat,
         NEW f, f[m] = 0, \A x \in Msgs \ {m} : f[x] = priority[x]
  PROVE  LineOf(t, q, f, r)
           = IF r = 0 THEN t ELSE LineOf(l, q, priority, r)
<1> DEFINE E == {x \in Msgs : priority[x] = r}
           F == {x \in Msgs : f[x] = r}
<1>1. CASE r = 0
  BY <1>1 DEF LineOf
<1>2. CASE r # 0
  <2>1. m \notin ToSet(q) /\ ToSet(q) \subseteq Msgs
    BY ElementsAreMessages DEF Listed
  <2>2. ToSet(q) \cap F = ToSet(q) \cap E
    BY <2>1
  <2>3. LineOf(t, q, f, r) = SelectIn(q, F) /\ LineOf(l, q, priority, r) = SelectIn(q, E)
    BY <1>2 DEF LineOf
  <2> HIDE DEF E, F
  <2>4. SelectIn(q, F) = SelectIn(q, E)
    BY <2>2, SelectInSame
  <2> QED
    BY <1>2, <2>3, <2>4
<1> QED
  BY <1>1, <1>2

\* The most urgent message is the oldest of its line, and the lines of higher
\* priorities are empty.
LEMMA TakenLine ==
  ASSUME NEW l \in Seq(Msgs), NEW q \in Seq(Msgs), NEW priority \in [Msgs -> Nat],
         NEW m \in Msgs, ListsOK(l, Append(q, m), priority), NEW r \in Nat
  PROVE  /\ LineOf(l, Append(q, m), priority, r)
              = IF r = priority[m] THEN Append(LineOf(l, q, priority, r), m)
                                   ELSE LineOf(l, q, priority, r)
         /\ r > priority[m] => LineOf(l, Append(q, m), priority, r) = <<>>
<1> DEFINE E == {x \in Msgs : priority[x] = r}
<1>1. priority[m] > 0 /\ \A x \in ToSet(q) : priority[x] <= priority[m]
  BY TakenLists
<1>2. CASE r = 0
  BY <1>1, <1>2 DEF LineOf
<1>3. CASE r # 0
  <2>1. LineOf(l, q, priority, r) = SelectIn(q, E)
        /\ LineOf(l, Append(q, m), priority, r) = SelectIn(Append(q, m), E)
    BY <1>3 DEF LineOf
  <2>2. m \in E <=> r = priority[m]
    OBVIOUS
  <2>3. SelectIn(Append(q, m), E) = IF m \in E THEN Append(SelectIn(q, E), m) ELSE SelectIn(q, E)
    BY SelectInAppend
  <2>4. ASSUME r > priority[m] PROVE SelectIn(q, E) = <<>>
    <3>1. ToSet(q) \subseteq Msgs
      BY ElementsAreMessages
    <3>2. ToSet(q) \cap E = {}
      BY <1>1, <2>4, <3>1
    <3> HIDE DEF E
    <3> QED
      BY <3>2, SelectInNone
  <2> HIDE DEF E
  <2> QED
    BY <2>1, <2>2, <2>3, <2>4
<1> QED
  BY <1>2, <1>3

\* Taking some messages away from the lists takes them away from the lines.
LEMMA FlushedLine ==
  ASSUME NEW l \in Seq(Msgs), NEW q \in Seq(Msgs), NEW priority, NEW K, NEW r
  PROVE  LineOf(SelectIn(l, K), SelectIn(q, K), priority, r)
           = SelectIn(LineOf(l, q, priority, r), K)
<1> DEFINE E == {x \in Msgs : priority[x] = r}
<1>1. SelectIn(SelectIn(q, K), E) = SelectIn(q, K \cap E)
      /\ SelectIn(SelectIn(q, E), K) = SelectIn(q, E \cap K)
  BY SelectInTwice
<1>2. K \cap E = E \cap K
  OBVIOUS
<1>3. SelectIn(SelectIn(q, K), E) = SelectIn(SelectIn(q, E), K)
  BY <1>1, <1>2
<1>4. LineOf(SelectIn(l, K), SelectIn(q, K), priority, r)
        = IF r = 0 THEN SelectIn(l, K) ELSE SelectIn(SelectIn(q, K), E)
  BY DEF LineOf
<1>5. LineOf(l, q, priority, r) = IF r = 0 THEN l ELSE SelectIn(q, E)
  BY DEF LineOf
<1> HIDE DEF E
<1> QED
  BY <1>3, <1>4, <1>5

-----------------------------------------------------------------------------
\* The lines of a state, and what waits in them.
LEMMA LinesFacts ==
  ASSUME QueueInv
  PROVE  /\ \A p \in Priorities :
              /\ p \in Nat
              /\ Line(p) = LineOf(m_messages, m_prioMessages, itemPriority, p)
              /\ Line(p) \in Seq(Msgs)
              /\ Lines[p] = Reverse(Line(p))
              /\ ToSet(Lines[p]) \subseteq Listed(m_messages, m_prioMessages)
         /\ Service!Waiting = UNION {ToSet(Lines[p]) : p \in Priorities}
         /\ Service!Waiting \subseteq Listed(m_messages, m_prioMessages)
<1>1. m_messages \in Seq(Msgs) /\ m_prioMessages \in Seq(Msgs)
  BY QueueFacts
<1>2. ASSUME NEW p \in Priorities
      PROVE  /\ p \in Nat
             /\ Line(p) = LineOf(m_messages, m_prioMessages, itemPriority, p)
             /\ Line(p) \in Seq(Msgs)
             /\ Lines[p] = Reverse(Line(p))
             /\ ToSet(Lines[p]) \subseteq Listed(m_messages, m_prioMessages)
  <2>1. p \in Nat /\ Line(p) = LineOf(m_messages, m_prioMessages, itemPriority, p)
        /\ Lines[p] = Reverse(Line(p))
    BY PrioritiesAssumption DEF Line, LineOf, Lines
  <2>2. Line(p) \in Seq(Msgs) /\ ToSet(Line(p)) \subseteq Listed(m_messages, m_prioMessages)
    BY <1>1, <2>1, LineOfType
  <2>3. ToSet(Reverse(Line(p))) = ToSet(Line(p))
    BY <2>2, ReverseKeeps
  <2> QED
    BY <2>1, <2>2, <2>3
<1>3. Service!Waiting = UNION {ToSet(Lines[p]) : p \in Priorities}
  BY DEF Service!Waiting, Lines, ToSet
<1> QED
  BY <1>2, <1>3

\* A step of the lines.
LEMMA LinesStep ==
  ASSUME QueueInv, QueueInv'
  PROVE  /\ \A p \in Priorities :
              /\ Line(p)' = LineOf(m_messages', m_prioMessages', itemPriority', p)
              /\ Line(p)' \in Seq(Msgs)
         /\ Lines' = [p \in Priorities |-> Reverse(Line(p)')]
<1>1. m_messages' \in Seq(Msgs) /\ m_prioMessages' \in Seq(Msgs)
  BY DEF QueueInv, TypeOK
<1>2. ASSUME NEW p \in Priorities
      PROVE  /\ Line(p)' = LineOf(m_messages', m_prioMessages', itemPriority', p)
             /\ Line(p)' \in Seq(Msgs)
  <2>1. Line(p)' = LineOf(m_messages', m_prioMessages', itemPriority', p)
    BY DEF Line, LineOf
  <2> QED
    BY <1>1, <2>1, LineOfType
<1>3. Lines' = [p \in Priorities |-> Reverse(Line(p)')]
  BY DEF Lines
<1> QED
  BY <1>2, <1>3

\* The lines stay.
LEMMA LinesStay ==
  ASSUME QueueInv, UNCHANGED listVars
  PROVE  Lines' = Lines
<1>1. m_messages' = m_messages /\ m_prioMessages' = m_prioMessages /\ itemPriority' = itemPriority
  BY DEF listVars
<1>2. ASSUME NEW p \in Priorities PROVE Line(p)' = Line(p)
  BY <1>1 DEF Line
<1> QED
  BY <1>2 DEF Lines

\* Put makes the message the last of its line, or the first.
LEMMA PutArrives ==
  ASSUME QueueInv, QueueInv', NEW m \in Msgs, NEW p \in Priorities, NEW front \in BOOLEAN,
         p > 0 => front, Put(m, p, front), m \notin Listed(m_messages, m_prioMessages)
  PROVE  /\ m \notin Service!Waiting
         /\ Lines' = [Lines EXCEPT ![p] = IF front THEN Append(@, m) ELSE Cons(m, @)]
<1>1. /\ p \in Nat /\ itemPriority' = [itemPriority EXCEPT ![m] = p]
      /\ \/ /\ p > 0
            /\ m_prioMessages' = Inserted(m_prioMessages, m, itemPriority, p)
            /\ m_messages' = m_messages
         \/ /\ p = 0
            /\ m_messages' = IF front THEN Cons(m, m_messages) ELSE Append(m_messages, m)
            /\ m_prioMessages' = m_prioMessages
  BY PutsOne
<1>2. /\ m_messages \in Seq(Msgs) /\ m_prioMessages \in Seq(Msgs)
      /\ itemPriority \in [Msgs -> Nat]
  BY QueueFacts
<1>3. \A r \in Priorities :
        /\ r \in Nat
        /\ Line(r) = LineOf(m_messages, m_prioMessages, itemPriority, r)
        /\ Line(r) \in Seq(Msgs)
        /\ Lines[r] = Reverse(Line(r))
  BY LinesFacts
<1>4. /\ \A r \in Priorities :
              /\ Line(r)' = LineOf(m_messages', m_prioMessages', itemPriority', r)
              /\ Line(r)' \in Seq(Msgs)
      /\ Lines' = [r \in Priorities |-> Reverse(Line(r)')]
  BY LinesStep
<1>5. ASSUME NEW r \in Priorities
      PROVE  Line(r)' = IF r = p THEN IF front THEN Cons(m, Line(r)) ELSE Append(Line(r), m)
                                 ELSE Line(r)
  <2>1. r \in Nat
    BY <1>3
  <2>a. itemPriority'[m] = p /\ \A x \in Msgs \ {m} : itemPriority'[x] = itemPriority[x]
    BY <1>1, <1>2
  <2>2. CASE p > 0
    <3>1. /\ m_prioMessages' = Inserted(m_prioMessages, m, itemPriority, p)
          /\ m_messages' = m_messages /\ front
      BY <1>1, <2>2
    <3>2. LineOf(m_messages, Inserted(m_prioMessages, m, itemPriority, p), itemPriority', r)
            = IF r = p THEN Cons(m, LineOf(m_messages, m_prioMessages, itemPriority, r))
                       ELSE LineOf(m_messages, m_prioMessages, itemPriority, r)
      <4>1. p \in Nat
        BY <1>1
      <4>2. Joins(m_messages, m_prioMessages, m, itemPriority, p, itemPriority', r)
        BY <1>2, <2>1, <2>a, <2>2, <4>1, InsertedLine
      <4> QED
        BY <4>2 DEF Joins
    <3> QED
      BY <1>1, <1>3, <1>4, <3>1, <3>2
  <2>3. CASE p = 0
    <3>1. /\ m_messages' = IF front THEN Cons(m, m_messages) ELSE Append(m_messages, m)
          /\ m_prioMessages' = m_prioMessages
      BY <1>1, <2>3
    <3>2. LineOf(m_messages', m_prioMessages, itemPriority', r)
            = IF r = 0 THEN m_messages' ELSE LineOf(m_messages, m_prioMessages, itemPriority, r)
      <4>1. itemPriority'[m] = 0
        BY <2>a, <2>3
      <4> QED
        BY <1>2, <2>1, <2>a, <4>1, AddedLine, SMTT(30)
    <3>3. Line(r)' = IF r = 0 THEN m_messages' ELSE Line(r)
      BY <1>1, <1>3, <1>4, <2>3, <3>1, <3>2
    <3>4. r = 0 => Line(r) = m_messages
      BY <1>3 DEF Line
    <3> QED
      BY <2>3, <3>1, <3>3, <3>4
  <2> QED
    BY <1>1, <2>2, <2>3
<1>6. ASSUME NEW r \in Priorities
      PROVE  Reverse(Line(r)') = IF r = p THEN IF front THEN Append(Lines[r], m) ELSE Cons(m, Lines[r])
                                          ELSE Lines[r]
  <2>1. Reverse(Cons(m, Line(r))) = Append(Reverse(Line(r)), m)
    BY <1>3, ReverseCons
  <2>2. Reverse(Append(Line(r), m)) = Cons(m, Reverse(Line(r)))
    BY <1>3, ReverseAppend
  <2> QED
    BY <1>3, <1>5, <2>1, <2>2
<1>7. Lines' = [Lines EXCEPT ![p] = IF front THEN Append(@, m) ELSE Cons(m, @)]
  <2>1. Lines = [r \in Priorities |-> Lines[r]]
    BY DEF Lines
  <2> QED
    BY <1>4, <1>6, <2>1
<1>8. m \notin Service!Waiting
  BY LinesFacts
<1> QED
  BY <1>7, <1>8

-----------------------------------------------------------------------------
\* Init opens the service.
LEMMA OpenImplements == ASSUME QueueInv, OpenStream PROVE Service!Open
<1>1. Lines' = Lines
  BY LinesStay DEF OpenStream
<1> QED
  BY <1>1 DEF OpenStream, Service!Open, Lines

\* A Put of a fresh message enters the line of its priority at the back.
LEMMA SendImplements ==
  ASSUME QueueInv, QueueInv', NEW m \in Msgs, NEW p \in Priorities, Send(m, p)
  PROVE  Service!Put(m, p)
<1>1. m \in fresh /\ Put(m, p, TRUE) /\ held' = held
  BY DEF Send, consumerVars
<1>2. m # held /\ m \notin Listed(m_messages, m_prioMessages)
  BY <1>1 DEF QueueInv, MessagesAreApart
<1>3. m \notin Service!Waiting /\ Lines' = [Lines EXCEPT ![p] = Append(@, m)]
  BY <1>1, <1>2, PutArrives
<1>4. m_bInitialized /\ m_bInitialized' = m_bInitialized
  BY <1>1 DEF Put
<1> QED
  BY <1>1, <1>2, <1>3, <1>4 DEF Service!Put, Service!Arrive, Lines

\* A put-back at priority 1 enters that line.
LEMMA PutBackUrgentImplements ==
  ASSUME QueueInv, QueueInv', PutBackUrgent
  PROVE  Service!Postpone(1)
<1>1. Put(held, 1, TRUE) /\ held' = NoMsg /\ cpc = "handle" /\ 1 \in Priorities
  BY PrioritiesAssumption DEF PutBackUrgent
<1>2. held # NoMsg /\ held \in Msgs /\ held \notin Listed(m_messages, m_prioMessages)
  BY <1>1 DEF QueueInv, TypeOK, MessagesAreApart
<1>3. held \notin Service!Waiting /\ Lines' = [Lines EXCEPT ![1] = Append(@, held)]
  BY <1>1, <1>2, PutArrives
<1>4. m_bInitialized /\ m_bInitialized' = m_bInitialized
  BY <1>1 DEF Put
<1> QED
  BY <1>1, <1>2, <1>3, <1>4 DEF Service!Postpone, Service!Arrive, Lines

\* What is left of a packet is the next of its line again.
LEMMA PutBackRestImplements ==
  ASSUME QueueInv, QueueInv', PutBackRest
  PROVE  Service!Return
<1>1. Put(held, 0, FALSE) /\ held' = NoMsg /\ cpc = "handle" /\ 0 \in Priorities
  BY PrioritiesAssumption DEF PutBackRest
<1>2. held # NoMsg /\ held \in Msgs /\ held \notin Listed(m_messages, m_prioMessages)
  BY <1>1 DEF QueueInv, TypeOK, MessagesAreApart
<1>3. ~(0 > 0)
  OBVIOUS
<1>4. Lines' = [Lines EXCEPT ![0] = Cons(held, @)]
  BY <1>1, <1>2, <1>3, PutArrives
<1>5. m_bInitialized /\ m_bInitialized' = m_bInitialized
  BY <1>1 DEF Put
<1> QED
  BY <1>1, <1>2, <1>4, <1>5 DEF Service!Return, Lines, Cons

\* A flush drops its messages from the lines, which keep their order.
LEMMA FlushImplements ==
  ASSUME QueueInv, QueueInv', NEW ms \in FlushTypes, m_bInitialized, Flush(ms)
  PROVE  Service!Drop(ms \cap Service!Waiting)
<1>0. PICK W : W = ms \cap Service!Waiting
  OBVIOUS
<1>1. /\ m_messages' = SelectIn(m_messages, Msgs \ ms)
      /\ m_prioMessages' = SelectIn(m_prioMessages, Msgs \ ms)
      /\ itemPriority' = itemPriority /\ held' = held /\ m_bInitialized' = m_bInitialized
  BY DEF Flush, Without, consumerVars
<1>2. m_messages \in Seq(Msgs) /\ m_prioMessages \in Seq(Msgs)
  BY QueueFacts
<1>3. ASSUME NEW p \in Priorities
      PROVE  Reverse(Line(p)') = SelectIn(Lines[p], Msgs \ W)
  <2>1. /\ Line(p) = LineOf(m_messages, m_prioMessages, itemPriority, p)
        /\ Line(p) \in Seq(Msgs) /\ Lines[p] = Reverse(Line(p))
        /\ ToSet(Lines[p]) \subseteq Service!Waiting
    BY LinesFacts
  <2>2. Line(p)' = LineOf(m_messages', m_prioMessages', itemPriority', p)
    BY LinesStep
  <2>3. LineOf(SelectIn(m_messages, Msgs \ ms), SelectIn(m_prioMessages, Msgs \ ms), itemPriority, p)
          = SelectIn(LineOf(m_messages, m_prioMessages, itemPriority, p), Msgs \ ms)
    BY <1>2, FlushedLine
  <2>4. Line(p)' = SelectIn(Line(p), Msgs \ ms)
    BY <1>1, <2>1, <2>2, <2>3
  <2>5. Lines[p] \in Seq(Msgs)
        /\ SelectIn(Lines[p], Msgs \ ms) = Reverse(SelectIn(Line(p), Msgs \ ms))
    BY <2>1, ReverseKeeps
  <2>6. ToSet(Lines[p]) \cap (Msgs \ ms) = ToSet(Lines[p]) \cap (Msgs \ W)
    BY <1>0, <2>1
  <2>7. SelectIn(Lines[p], Msgs \ ms) = SelectIn(Lines[p], Msgs \ W)
    BY <2>5, <2>6, SelectInSame
  <2> QED
    BY <2>4, <2>5, <2>7
<1>4. Lines' = [p \in Priorities |-> Reverse(Line(p)')]
  BY LinesStep
<1>5. Lines' = [p \in Priorities |-> SelectIn(Lines[p], Msgs \ W)]
  BY <1>3, <1>4
<1>6. Service!Drop(W)
  <2>1. \A s, K : Service!SelectIn(s, K) = SelectIn(s, K)
    BY DEF Service!SelectIn, SelectIn
  <2>2. Lines' = [p \in Priorities |-> Service!SelectIn(Lines[p], Msgs \ W)]
    BY <1>5, <2>1
  <2> QED
    BY <1>1, <2>2 DEF Service!Drop, Lines
<1> QED
  BY <1>0, <1>6

\* End closes the service, whose lines are then empty.
LEMMA EndImplements == ASSUME QueueInv, End PROVE Service!Close
<1>1. m_messages' = <<>> /\ m_prioMessages' = <<>> /\ m_bInitialized /\ m_bInitialized' = FALSE
      /\ held' = held /\ cpc = "off"
  BY DEF End, consumerVars
<1>2. held = NoMsg
  BY <1>1 DEF QueueInv
<1>3. ASSUME NEW p \in Priorities PROVE Reverse(Line(p)') = <<>>
  <2>1. Line(p)' = <<>>
    BY <1>1, SelectInEmpty DEF Line
  <2> QED
    BY <2>1, ReverseEmpty
<1>4. Lines' = [p \in Priorities |-> <<>>]
  BY <1>3 DEF Lines
<1> QED
  BY <1>1, <1>2, <1>4 DEF Service!Close, Lines

\* Get takes the head of the line of the most urgent message.
LEMMA GetTakesImplements ==
  ASSUME QueueInv, QueueInv', NEW p \in {0, 1}, GetTakes(p)
  PROVE  \E r \in Priorities : Service!Take(r)
<1>1. /\ itemPriority' = itemPriority /\ cpc \in {"call", "again"}
      /\ m_bInitialized' = m_bInitialized
  BY DEF GetTakes, InGet
<1>2. PICK m \in Msgs, rest \in Seq(Msgs) :
           /\ held' = m
           /\ \/ /\ m_prioMessages = Append(rest, m) /\ m_prioMessages' = rest
                 /\ m_messages' = m_messages
                 /\ m_iDataSize' = m_iDataSize
              \/ /\ m_messages = Append(rest, m) /\ m_messages' = rest
                 /\ m_prioMessages = <<>> /\ m_prioMessages' = <<>>
                 /\ m_iDataSize' = m_iDataSize - IF m \in Packets THEN iSize[m] ELSE 0
  BY TakesOne
<1>3. /\ m_messages \in Seq(Msgs) /\ m_prioMessages \in Seq(Msgs)
      /\ itemPriority \in [Msgs -> Nat]
      /\ ListsOK(m_messages, m_prioMessages, itemPriority)
  BY QueueFacts
<1>4. held = NoMsg
  BY <1>1 DEF QueueInv
<1>5. itemPriority[m] \in Priorities
  BY DEF QueueInv, TypeOK
<1> PICK r \in Priorities : r = itemPriority[m]
  BY <1>5
<1>a. r \in Nat
  BY PrioritiesAssumption
<1>6. \A t \in Priorities :
        /\ t \in Nat
        /\ Line(t) = LineOf(m_messages, m_prioMessages, itemPriority, t)
        /\ Line(t) \in Seq(Msgs)
        /\ Lines[t] = Reverse(Line(t))
        /\ Line(t)' = LineOf(m_messages', m_prioMessages', itemPriority', t)
        /\ Line(t)' \in Seq(Msgs)
  BY LinesFacts, LinesStep
<1>7. ASSUME NEW t \in Priorities
      PROVE  /\ Line(t) = IF t = r THEN Append(Line(t)', m) ELSE Line(t)'
             /\ t > r => Line(t) = <<>>
  <2>1. CASE m_prioMessages = Append(rest, m) /\ m_prioMessages' = rest /\ m_messages' = m_messages
    <3>1. ListsOK(m_messages, Append(rest, m), itemPriority)
      BY <1>3, <2>1
    <3>2. /\ LineOf(m_messages, Append(rest, m), itemPriority, t)
               = IF t = itemPriority[m] THEN Append(LineOf(m_messages, rest, itemPriority, t), m)
                                        ELSE LineOf(m_messages, rest, itemPriority, t)
          /\ t > itemPriority[m] => LineOf(m_messages, Append(rest, m), itemPriority, t) = <<>>
      <4>1. t \in Nat
        BY <1>6
      <4> QED
        BY <1>3, <3>1, <4>1, TakenLine, ZenonT(40)
    <3> QED
      BY <1>1, <1>6, <2>1, <3>2
  <2>2. CASE /\ m_messages = Append(rest, m) /\ m_messages' = rest
             /\ m_prioMessages = <<>> /\ m_prioMessages' = <<>>
    <3>1. ListsOK(Append(rest, m), m_prioMessages, itemPriority)
      BY <1>3, <2>2
    <3>2. r = 0
      BY <1>3, <3>1, TakenLists
    <3>3. Line(t) = IF t = 0 THEN Append(rest, m) ELSE <<>>
      BY <2>2, SelectInEmpty DEF Line
    <3>4. Line(t)' = IF t = 0 THEN rest ELSE <<>>
      BY <2>2, SelectInEmpty DEF Line
    <3>5. t \in Nat
      BY <1>6
    <3> QED
      BY <3>2, <3>3, <3>4, <3>5
  <2> QED
    BY <1>2, <2>1, <2>2
<1>8. ASSUME NEW t \in Priorities
      PROVE  /\ t # r => Reverse(Line(t)') = Lines[t]
             /\ t = r => Lines[t] = Cons(m, Reverse(Line(t)')) /\ Reverse(Line(t)') \in Seq(Msgs)
             /\ t > r => Lines[t] = <<>>
  <2>1. Line(t)' \in Seq(Msgs) /\ Lines[t] = Reverse(Line(t))
    BY <1>6
  <2>2. PICK s \in Seq(Msgs) : s = Line(t)'
    BY <2>1
  <2>3. Reverse(Append(s, m)) = Cons(m, Reverse(s)) /\ Reverse(s) \in Seq(Msgs)
    BY ReverseAppend
  <2>4. Line(t) = IF t = r THEN Append(s, m) ELSE s
    BY <1>7, <2>2
  <2>5. t > r => Line(t) = <<>>
    BY <1>7
  <2> QED
    BY <2>1, <2>2, <2>3, <2>4, <2>5, ReverseEmpty
<1>9. ASSUME NEW s \in Seq(Msgs)
      PROVE  Cons(m, s) # <<>> /\ Head(Cons(m, s)) = m /\ Tail(Cons(m, s)) = s
  <2>1. Cons(m, s) = <<m>> \o s
    BY DEF Cons
  <2>2. <<m>> \in Seq(Msgs) /\ Len(<<m>>) = 1 /\ <<m>>[1] = m
    OBVIOUS
  <2> DEFINE u == <<m>> \o s
  <2>3. u \in Seq(Msgs) /\ Len(u) = 1 + Len(s) /\ Len(s) \in Nat
        /\ u[1] = m /\ \A i \in 1 .. Len(s) : u[i + 1] = s[i]
    BY <1>9, <2>2
  <2> HIDE DEF u
  <2>4. u # <<>> /\ Head(u) = m
    BY <2>3
  <2>5. Tail(u) \in Seq(Msgs) /\ Len(Tail(u)) = Len(s)
        /\ \A i \in 1 .. Len(s) : Tail(u)[i] = u[i + 1]
    BY <2>3, <2>4
  <2>6. Tail(u) = s
    BY <1>9, <2>3, <2>5, SeqEqual
  <2> QED
    BY <2>1, <2>4, <2>6 DEF u
<1>10. Lines[r] # <<>> /\ held' = Head(Lines[r]) /\ Reverse(Line(r)') = Tail(Lines[r])
  <2>1. Lines[r] = Cons(m, Reverse(Line(r)')) /\ Reverse(Line(r)') \in Seq(Msgs)
    BY <1>8
  <2>2. PICK s \in Seq(Msgs) : s = Reverse(Line(r)')
    BY <2>1
  <2>3. Cons(m, s) # <<>> /\ Head(Cons(m, s)) = m /\ Tail(Cons(m, s)) = s
    BY <1>9
  <2>4. held' = m
    BY <1>2
  <2> QED
    BY <2>1, <2>2, <2>3, <2>4
<1>11. Lines' = [Lines EXCEPT ![r] = Tail(@)]
  <2>1. Lines' = [t \in Priorities |-> Reverse(Line(t)')]
    BY LinesStep
  <2>2. Lines = [t \in Priorities |-> Lines[t]]
    BY DEF Lines
  <2>3. ASSUME NEW t \in Priorities
        PROVE  Reverse(Line(t)') = IF t = r THEN Tail(Lines[t]) ELSE Lines[t]
    <3>1. CASE t = r
      BY <1>10, <3>1
    <3>2. CASE t # r
      BY <1>8, <3>2
    <3> QED
      BY <3>1, <3>2
  <2>4. Lines' = [t \in Priorities |-> IF t = r THEN Tail(Lines[t]) ELSE Lines[t]]
    BY <2>1, <2>3
  <2> QED
    BY <2>2, <2>4
<1>12. \A t \in Priorities : t > r => Lines[t] = <<>>
  BY <1>8
<1>13. Service!Take(r)
  BY <1>1, <1>4, <1>10, <1>11, <1>12 DEF Service!Take, Lines
<1> QED
  BY <1>13

\* The steps the service does not see.
LEMMA OthersStutter ==
  ASSUME QueueInv,
         \/ Abort
         \/ \E m \in Msgs : SendRefused(m)
         \/ \E p \in {0, 1} : GetSleeps(p)
         \/ WaitReturns \/ WaitExpires \/ GetAborts
         \/ UNCHANGED vars
  PROVE  UNCHANGED Service!vars
<1>1. UNCHANGED listVars /\ held' = held /\ m_bInitialized' = m_bInitialized
  BY DEF Abort, SendRefused, GetSleeps, WaitReturns, WaitExpires, GetAborts, vars, consumerVars
<1>2. Lines' = Lines
  BY <1>1, LinesStay
<1> QED
  BY <1>1, <1>2 DEF Service!vars, Lines

\* The consumer is done with the message it took.
LEMMA HandleDoneImplements == ASSUME QueueInv, HandleDone PROVE Service!Done
<1>1. Lines' = Lines /\ m_bInitialized' = m_bInitialized /\ held' = NoMsg /\ held # NoMsg
  BY LinesStay DEF HandleDone, QueueInv
<1> QED
  BY <1>1 DEF Service!Done, Lines

\* Every step is one of the service, or none.
LEMMA StepImplements ==
  ASSUME QueueInv, QueueInv', [Next]_vars
  PROVE  [Service!Next]_Service!vars
<1>1. CASE OpenStream
  BY <1>1, OpenImplements DEF Service!Next
<1>2. CASE End
  BY <1>2, EndImplements DEF Service!Next
<1>3. CASE \E ms \in FlushTypes : m_bInitialized /\ Flush(ms)
  <2>1. PICK ms \in FlushTypes : m_bInitialized /\ Flush(ms)
    BY <1>3
  <2>2. Service!Drop(ms \cap Service!Waiting)
    BY <2>1, FlushImplements
  <2>3. ms \cap Service!Waiting \in SUBSET Service!Waiting
    OBVIOUS
  <2> QED
    BY <2>2, <2>3 DEF Service!Next
<1>4. CASE \E m \in Msgs, p \in Priorities : Send(m, p)
  BY <1>4, SendImplements DEF Service!Next
<1>5. CASE \E p \in {0, 1} : GetTakes(p)
  BY <1>5, GetTakesImplements DEF Service!Next
<1>6. CASE PutBackUrgent
  BY <1>6, PutBackUrgentImplements, PrioritiesAssumption DEF Service!Next
<1>7. CASE PutBackRest
  BY <1>7, PutBackRestImplements DEF Service!Next
<1>8. CASE HandleDone
  BY <1>8, HandleDoneImplements DEF Service!Next
<1> QED
  BY <1>1, <1>2, <1>3, <1>4, <1>5, <1>6, <1>7, <1>8, OthersStutter DEF Next, ConsumerStep

\* A queue that was never opened has empty lines.
LEMMA InitImplements == Init => Service!Init
<1> SUFFICES ASSUME Init PROVE Service!Init
  OBVIOUS
<1>1. m_messages = <<>> /\ m_prioMessages = <<>> /\ m_bInitialized = FALSE /\ held = NoMsg
  BY DEF Init
<1>2. ASSUME NEW p \in Priorities PROVE Reverse(Line(p)) = <<>>
  <2>1. Line(p) = <<>>
    BY <1>1, SelectInEmpty DEF Line
  <2> QED
    BY <2>1, ReverseEmpty
<1>3. Lines = [p \in Priorities |-> <<>>]
  BY <1>2 DEF Lines
<1> QED
  BY <1>1, <1>3 DEF Service!Init, Lines

(***************************************************************************)
(* CDVDMessageQueue implements MessageService: for any messages and        *)
(* priorities it is one first-in first-out line per priority.              *)
(***************************************************************************)
THEOREM ImplementsMessageServiceHolds == Spec => ImplementsMessageService
<1>1. QueueInv /\ QueueInv' /\ [Next]_vars => [Service!Next]_Service!vars
  BY StepImplements
<1>2. Spec => []QueueInv
  BY QueueInvHolds
<1> QED
  BY <1>1, <1>2, InitImplements, PTL DEF Spec, ImplementsMessageService, Service!Spec

=============================================================================
