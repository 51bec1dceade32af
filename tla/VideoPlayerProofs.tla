------------------------- MODULE VideoPlayerProofs --------------------------
(***************************************************************************)
(* Theorems about DVDSynchronize, for every number of players, and about   *)
(* RenderManager, for every number of buffers.                             *)
(*                                                                         *)
(* DVDSynchronize: each thread has a weight, the number of references it   *)
(* stands for where it is.  A step moves one thread and changes m_refs by  *)
(* the difference of its weights; that notifyAll also moves the waiting    *)
(* ones changes none.  What gets through then depends on who is counted    *)
(* among the arrived and is gone (NobodyIsThrough).                        *)
(*                                                                         *)
(* RenderManager: the buffer on the screen and the three queues together   *)
(* have every buffer once; the buffer the video thread writes stays the    *)
(* first free one.                                                         *)
(***************************************************************************)
EXTENDS DVDSynchronize, RenderManager, SequenceFilterProofs, FiniteSetTheorems,
        TLAPS

-----------------------------------------------------------------------------
\* The references to a synchronize message.
Places == {"away", "queued", "handle", "wait", "woken", "false", "putback",
           "true", "gone"}

\* The references of thread t at place p.
Weight(t, p) == IF p = "putback" THEN 2
                ELSE IF p = "gone" \/ (p = "away" /\ t # Owner) THEN 0 ELSE 1

Holders == {t \in Threads : Holds(t)}

PuttingBack == {t \in Threads : pc[t] = "putback"}

PlacesOK == pc \in [Threads -> Places] /\ reached \subseteq Threads
              /\ overdue \in BOOLEAN /\ stop \in BOOLEAN

References == Cardinality(Holders) + Cardinality(PuttingBack)

SyncInv == PlacesOK /\ m_refs = References

\* Thread t moves to place p, and the others at most wake up.
Moved(t, p) ==
  /\ pc' \in [Threads -> Places]
  /\ pc'[t] = p
  /\ \A u \in Threads \ {t} :
       pc'[u] = pc[u] \/ (pc[u] = "wait" /\ pc'[u] = "woken")

-----------------------------------------------------------------------------
\* The owner and finitely many players.
LEMMA ThreadsAreFinite == IsFiniteSet(Threads)
BY PlayersAssumption, FS_AddElement DEF Threads

\* Counting with and without one element.
LEMMA CountOne ==
  ASSUME NEW S, IsFiniteSet(S), NEW x
  PROVE  /\ Cardinality(S) \in Nat
         /\ Cardinality(S) = Cardinality(S \ {x}) + (IF x \in S THEN 1 ELSE 0)
<1>1. Cardinality(S) \in Nat
  BY FS_CardinalityType
<1>2. CASE x \in S
  <2>1. Cardinality(S \ {x}) = Cardinality(S) - 1
    BY <1>2, FS_RemoveElement
  <2> QED BY <1>1, <1>2, <2>1
<1>3. CASE x \notin S
  <2>1. S \ {x} = S
    BY <1>3
  <2>2. Cardinality(S \ {x}) = Cardinality(S)
    BY <2>1
  <2>3. (IF x \in S THEN 1 ELSE 0) = 0
    BY <1>3
  <2> QED BY <1>1, <2>2, <2>3
<1> QED BY <1>1, <1>2, <1>3

\* So their references can be counted.
LEMMA HoldersAreFinite == IsFiniteSet(Holders) /\ IsFiniteSet(PuttingBack)
<1>1. Holders \subseteq Threads /\ PuttingBack \subseteq Threads
  BY DEF Holders, PuttingBack
<1> QED BY <1>1, ThreadsAreFinite, FS_Subset

\* A move changes the number of references by the weights of the one thread.
LEMMA MoveCounts ==
  ASSUME PlacesOK, NEW t \in Threads, NEW p \in Places, Moved(t, p)
  PROVE  References' = References + Weight(t, p) - Weight(t, pc[t])
<1>1. Holders' \ {t} = Holders \ {t}
  BY DEF Moved, Holders, Holds
<1>2. PuttingBack' \ {t} = PuttingBack \ {t}
  BY DEF Moved, PuttingBack
<1>3. IsFiniteSet(Holders) /\ IsFiniteSet(PuttingBack)
  BY HoldersAreFinite
<1>4. IsFiniteSet(Holders') /\ IsFiniteSet(PuttingBack')
  <2>1. Holders' \subseteq Threads /\ PuttingBack' \subseteq Threads
    BY DEF Holders, PuttingBack
  <2> QED BY <2>1, ThreadsAreFinite, FS_Subset
<1>5. PICK h \in Nat, b \in Nat :
        h = Cardinality(Holders \ {t}) /\ b = Cardinality(PuttingBack \ {t})
  <2>1. IsFiniteSet(Holders \ {t}) /\ IsFiniteSet(PuttingBack \ {t})
    BY <1>3, FS_Subset
  <2> QED BY <2>1, FS_CardinalityType
<1>6. /\ Cardinality(Holders) = h + (IF t \in Holders THEN 1 ELSE 0)
      /\ Cardinality(PuttingBack) = b + (IF t \in PuttingBack THEN 1 ELSE 0)
  BY <1>3, <1>5, CountOne
<1>7. /\ Cardinality(Holders') = h + (IF t \in Holders' THEN 1 ELSE 0)
      /\ Cardinality(PuttingBack') = b + (IF t \in PuttingBack' THEN 1 ELSE 0)
  BY <1>1, <1>2, <1>4, <1>5, CountOne
<1>8. /\ t \in Holders <=> ~(pc[t] = "gone" \/ (pc[t] = "away" /\ t # Owner))
      /\ t \in PuttingBack <=> pc[t] = "putback"
  BY DEF Holders, PuttingBack, Holds
<1>9. /\ t \in Holders' <=> ~(p = "gone" \/ (p = "away" /\ t # Owner))
      /\ t \in PuttingBack' <=> p = "putback"
  BY DEF Holders, PuttingBack, Holds, Moved
<1>10. References = h + b + Weight(t, pc[t])
  BY <1>5, <1>6, <1>8 DEF References, Weight
<1>11. References' = h + b + Weight(t, p)
  BY <1>5, <1>7, <1>9 DEF References, Weight
<1> QED BY <1>5, <1>10, <1>11 DEF Weight

\* The two ways a step moves a thread.
LEMMA ExceptMoves ==
  ASSUME PlacesOK, NEW t \in Threads, NEW p \in Places, pc' = [pc EXCEPT ![t] = p]
  PROVE  Moved(t, p)
BY DEF PlacesOK, Moved

\* A step of one thread that also notifies all moves only that thread.
LEMMA NotifyMoves ==
  ASSUME PlacesOK, NEW t \in Threads, NEW p \in Places, NotifyAll(t, p)
  PROVE  Moved(t, p)
<1>1. pc' = [u \in Threads |-> IF u = t THEN p
                               ELSE IF pc[u] = "wait" THEN "woken" ELSE pc[u]]
  BY DEF NotifyAll
<1>2. pc' \in [Threads -> Places]
  BY <1>1 DEF PlacesOK, Places
<1> QED BY <1>1, <1>2 DEF Moved

\* What is to be shown of a step: it moves a thread and counts its weights.
LEMMA MoveKeeps ==
  ASSUME SyncInv, NEW t \in Threads, NEW p \in Places, Moved(t, p),
         m_refs' = m_refs + Weight(t, p) - Weight(t, pc[t]),
         reached' \subseteq Threads, UNCHANGED <<overdue, stop>>
  PROVE  SyncInv'
<1>1. m_refs' = References'
  BY MoveCounts DEF SyncInv
<1>2. PlacesOK'
  BY DEF SyncInv, PlacesOK, Moved
<1> QED BY <1>1, <1>2 DEF SyncInv

\* What m_refs is compared with is a number.
LEMMA ReferencesAreNumbers == References \in Nat
BY HoldersAreFinite, FS_CardinalityType DEF References

-----------------------------------------------------------------------------
\* A Release by a thread that moves to a place with one reference less.
LEMMA ReleaseKeeps ==
  ASSUME SyncInv, NEW t \in Threads, NEW p \in Places, Release(t, p),
         Weight(t, p) = Weight(t, pc[t]) - 1
  PROVE  SyncInv'
<1>1. Moved(t, p)
  BY NotifyMoves DEF Release, SyncInv
<1>2. /\ m_refs' = m_refs - 1
      /\ UNCHANGED <<reached, overdue, stop>>
  BY DEF Release
<1>3. m_refs \in Nat /\ Weight(t, pc[t]) \in Nat
  BY ReferencesAreNumbers DEF SyncInv, Weight
<1>4. reached' \subseteq Threads
  BY <1>2 DEF SyncInv, PlacesOK
<1> QED BY <1>1, <1>2, <1>3, <1>4, MoveKeeps

\* A step that leaves the count and moves a thread to a place of equal weight.
LEMMA StepKeeps ==
  ASSUME SyncInv, NEW t \in Threads, NEW p \in Places, pc' = [pc EXCEPT ![t] = p],
         m_refs' = m_refs, Weight(t, p) = Weight(t, pc[t]),
         reached' \subseteq Threads, UNCHANGED <<overdue, stop>>
  PROVE  SyncInv'
<1>1. Moved(t, p)
  BY ExceptMoves DEF SyncInv
<1>2. m_refs \in Nat /\ Weight(t, p) \in Nat
  BY ReferencesAreNumbers DEF SyncInv, Weight
<1> QED BY <1>1, <1>2, MoveKeeps

\* The owner has the only reference.
LEMMA SyncInitHolds == SyncInit => SyncInv
<1> SUFFICES ASSUME SyncInit PROVE SyncInv
  OBVIOUS
<1>1. Holders = {Owner}
  BY DEF SyncInit, Holders, Holds, Threads
<1>2. PuttingBack = {}
  BY DEF SyncInit, PuttingBack
<1>3. References = 1
  <2>1. Cardinality(Holders) = 1
    BY <1>1, FS_Singleton
  <2>2. Cardinality(PuttingBack) = 0
    BY <1>2, FS_EmptySet
  <2> QED BY <2>1, <2>2 DEF References
<1> QED BY <1>3 DEF SyncInit, SyncInv, PlacesOK, Places

\* The owner acquires a reference per player it sends to.
LEMMA SendingKeeps == ASSUME SyncInv, OwnerSends PROVE SyncInv'
<1>1. Owner \in Threads /\ Owner \notin Players /\ Players \subseteq Threads
  BY PlayersAssumption DEF Threads
<1>2. reached \subseteq Threads
  BY DEF SyncInv, PlacesOK
<1>3. ASSUME NEW t \in Players, SendReference(t) PROVE SyncInv'
  <2>1. Moved(t, "queued")
    BY <1>1, <1>3, ExceptMoves DEF SendReference, SyncInv, Places
  <2>2. Weight(t, "queued") = 1 /\ Weight(t, pc[t]) = 0
    BY <1>1, <1>3 DEF SendReference, Weight
  <2>3. m_refs \in Nat
    BY ReferencesAreNumbers DEF SyncInv
  <2> QED BY <1>1, <1>2, <1>3, <2>1, <2>2, <2>3, MoveKeeps DEF SendReference, Places
<1>4. ASSUME NEW t \in Players, SendNot(t) PROVE SyncInv'
  <2>1. Weight(t, "gone") = Weight(t, pc[t])
    BY <1>1, <1>4 DEF SendNot, Weight
  <2> QED BY <1>1, <1>2, <1>4, <2>1, StepKeeps DEF SendNot, Places
<1>5. CASE OwnerWaits
  <2>1. Weight(Owner, "handle") = Weight(Owner, pc[Owner])
    BY <1>5 DEF OwnerWaits, Weight
  <2> QED BY <1>1, <1>2, <1>5, <2>1, StepKeeps DEF OwnerWaits, Places
<1>6. CASE OwnerReleases
  <2>1. Weight(Owner, "gone") = Weight(Owner, pc[Owner]) - 1
    BY <1>6 DEF OwnerReleases, Weight
  <2> QED BY <1>1, <1>6, <2>1, ReleaseKeeps DEF OwnerReleases, Places
<1> QED BY <1>3, <1>4, <1>5, <1>6 DEF OwnerSends

\* The steps of a thread in Wait, whichever thread it is.
LEMMA WaitingKeeps ==
  ASSUME SyncInv, NEW t \in Threads,
         EnterWait(t) \/ LookAgain(t) \/ ConditionExpires(t) \/ Leave(t)
  PROVE  SyncInv'
<1>1. reached \subseteq Threads
  BY DEF SyncInv, PlacesOK
<1>2. CASE EnterWait(t)
  <2>1. PICK p \in {"true", "wait"} : pc' = [pc EXCEPT ![t] = p]
    BY <1>2 DEF EnterWait
  <2>2. Weight(t, p) = Weight(t, pc[t])
    BY <1>2 DEF EnterWait, Weight
  <2> QED BY <1>1, <1>2, <2>1, <2>2, StepKeeps DEF EnterWait, Places
<1>3. CASE LookAgain(t)
  <2>1. PICK p \in {"true", "wait"} : pc' = [pc EXCEPT ![t] = p]
    BY <1>3 DEF LookAgain
  <2>2. Weight(t, p) = Weight(t, pc[t])
    BY <1>3 DEF LookAgain, Weight
  <2> QED BY <1>1, <1>3, <2>1, <2>2, StepKeeps DEF LookAgain, Places
<1>4. CASE ConditionExpires(t)
  <2>1. PICK p \in {"true", "false"} : pc' = [pc EXCEPT ![t] = p]
    BY <1>4 DEF ConditionExpires
  <2>2. Weight(t, p) = Weight(t, pc[t])
    BY <1>4 DEF ConditionExpires, Weight
  <2> QED BY <1>1, <1>4, <2>1, <2>2, StepKeeps DEF ConditionExpires, Places
<1>5. CASE Leave(t)
  <2>1. Weight(t, "gone") = Weight(t, pc[t]) - 1
    BY <1>5 DEF Leave, Weight
  <2> QED BY <1>5, <2>1, ReleaseKeeps DEF Leave, Places
<1> QED BY <1>2, <1>3, <1>4, <1>5

\* Whatever a player does with its message.
LEMMA PlayerKeeps ==
  ASSUME SyncInv, NEW t \in Players, PlayerStep(t) \/ DropMessage(t)
  PROVE  SyncInv'
<1>1. t \in Threads /\ reached \subseteq Threads
  BY DEF Threads, SyncInv, PlacesOK
<1>2. CASE GetMessage(t)
  <2>1. Weight(t, "handle") = Weight(t, pc[t])
    BY <1>2 DEF GetMessage, Weight
  <2> QED BY <1>1, <1>2, <2>1, StepKeeps DEF GetMessage, Places
<1>3. CASE PutBack(t)
  <2>1. Moved(t, "putback")
    BY <1>1, <1>3, NotifyMoves DEF PutBack, SyncInv, Places
  <2>2. Weight(t, "putback") = 2 /\ Weight(t, pc[t]) = 1
    BY <1>3 DEF PutBack, Weight
  <2>3. m_refs \in Nat
    BY ReferencesAreNumbers DEF SyncInv
  <2> QED BY <1>1, <1>3, <2>1, <2>2, <2>3, MoveKeeps DEF PutBack, Places
<1>4. CASE pc[t] = "putback" /\ Release(t, "queued")
  <2>1. Weight(t, "queued") = Weight(t, pc[t]) - 1
    BY <1>4 DEF Weight
  <2> QED BY <1>1, <1>4, <2>1, ReleaseKeeps DEF Places
<1>5. CASE DropMessage(t)
  <2>1. Weight(t, "gone") = Weight(t, pc[t]) - 1
    BY <1>5 DEF DropMessage, Weight
  <2> QED BY <1>1, <1>5, <2>1, ReleaseKeeps DEF DropMessage, Places
<1>6. CASE EnterWait(t) \/ LookAgain(t) \/ Leave(t)
  BY <1>1, <1>6, WaitingKeeps
<1> QED BY <1>2, <1>3, <1>4, <1>5, <1>6 DEF PlayerStep

\* Whatever the owner does after it sent.
LEMMA OwnerKeeps == ASSUME SyncInv, OwnerStep PROVE SyncInv'
<1>1. Owner \in Threads /\ reached \subseteq Threads
  BY DEF Threads, SyncInv, PlacesOK
<1>2. CASE OwnerWaitsAgain
  <2>1. Weight(Owner, "handle") = Weight(Owner, pc[Owner])
    BY <1>2 DEF OwnerWaitsAgain, Weight
  <2> QED BY <1>1, <1>2, <2>1, StepKeeps DEF OwnerWaitsAgain, Places
<1>3. CASE OwnerStops
  <2>1. Weight(Owner, "gone") = Weight(Owner, pc[Owner]) - 1
    BY <1>3 DEF OwnerStops, Weight
  <2> QED BY <1>1, <1>3, <2>1, ReleaseKeeps DEF OwnerStops, Places
<1>4. CASE EnterWait(Owner) \/ LookAgain(Owner) \/ Leave(Owner)
  BY <1>1, <1>4, WaitingKeeps
<1> QED BY <1>2, <1>3, <1>4 DEF OwnerStep

\* Every step keeps the count.
LEMMA SyncInvIsInductive == SyncInv /\ [SyncNext]_syncVars => SyncInv'
<1> SUFFICES ASSUME SyncInv, [SyncNext]_syncVars PROVE SyncInv'
  OBVIOUS
<1>1. CASE OwnerSends
  BY <1>1, SendingKeeps
<1>2. CASE OwnerStep
  BY <1>2, OwnerKeeps
<1>3. ASSUME NEW t \in Players, PlayerStep(t) \/ DropMessage(t) PROVE SyncInv'
  BY <1>3, PlayerKeeps
<1>4. ASSUME NEW t \in Threads, ConditionExpires(t) PROVE SyncInv'
  BY <1>4, WaitingKeeps
<1>5. CASE Overdue \/ Stop \/ UNCHANGED syncVars
  <2>1. UNCHANGED <<m_refs, reached, pc>> /\ overdue' \in BOOLEAN /\ stop' \in BOOLEAN
    BY <1>5 DEF Overdue, Stop, syncVars, SyncInv, PlacesOK
  <2> QED BY <2>1 DEF SyncInv, PlacesOK, References, Holders, PuttingBack, Holds
<1> QED BY <1>1, <1>2, <1>3, <1>4, <1>5 DEF SyncNext

-----------------------------------------------------------------------------
(***************************************************************************)
(* Release deletes the message exactly when the last reference is gone,    *)
(* and Wait compares with the number of threads that still have it,        *)
(* whatever is sent, put back, dropped or timed out.                       *)
(***************************************************************************)
THEOREM CountsReferencesHolds == SyncSpec => []CountsReferences
<1>1. SyncInv => CountsReferences
  <2> SUFFICES ASSUME SyncInv PROVE CountsReferences
    OBVIOUS
  <2>1. Holders \subseteq Threads /\ PuttingBack \subseteq Threads
    BY DEF Holders, PuttingBack
  <2>2. /\ Cardinality(Holders) \in Nat /\ Cardinality(Holders) <= Cardinality(Threads)
        /\ Cardinality(PuttingBack) \in Nat
        /\ Cardinality(PuttingBack) <= Cardinality(Threads)
    BY <2>1, ThreadsAreFinite, HoldersAreFinite, FS_Subset, FS_CardinalityType
  <2>3. m_refs \in 0 .. 2 * Cardinality(Threads)
    BY <2>2, ThreadsAreFinite, FS_CardinalityType DEF SyncInv, References
  <2>4. SyncTypeOK
    BY <2>3 DEF SyncInv, PlacesOK, Places, SyncTypeOK
  <2> QED BY <2>4 DEF SyncInv, References, Holders, PuttingBack, CountsReferences
<1> QED BY <1>1, SyncInitHolds, SyncInvIsInductive, PTL DEF SyncSpec

-----------------------------------------------------------------------------
(***************************************************************************)
(* The barrier.  Until a first thread gets through, a thread that arrived  *)
(* and has no reference is a player whose queue was closed, and the owner  *)
(* did not wait; from then on everybody who has the message has arrived.   *)
(***************************************************************************)
Early == ~overdue /\ ~stop

AllArrived == Holders \subseteq reached

Departed == reached \ Holders

NobodyIsThrough ==
  /\ \A t \in Threads : pc[t] # "true"
  /\ Departed \subseteq Players
  /\ Departed # {} => pc[Owner] = "gone"

BarrierInv ==
  /\ \A t \in Threads : pc[t] = "away" => t \notin reached
  /\ \A t \in Threads : pc[t] \in {"wait", "woken"} => t \in reached
  /\ Early => AllArrived \/ NobodyIsThrough

\* A place of the message's life with the thread's reference, or without one.
LEMMA HoldsAt ==
  ASSUME NEW t \in Threads
  PROVE  t \in Holders <=> pc[t] # "gone" /\ (pc[t] = "away" => t = Owner)
BY DEF Holders, Holds

\* One who looks at the count while nobody is through sees that all arrived.
LEMMA AllAreSeen ==
  ASSUME SyncInv, NobodyIsThrough, Cardinality(Players) <= 2,
         NEW t \in Holders, NEW r, r = reached \cup {t}, AllReached(r)
  PROVE  Holders \subseteq r
<1> SUFFICES ASSUME NEW u \in Holders, u \notin r PROVE FALSE
  OBVIOUS
<1>1. /\ IsFiniteSet(Holders) /\ Holders \subseteq Threads /\ r \subseteq Threads
      /\ Cardinality(Holders) \in Nat
  BY HoldersAreFinite, FS_CardinalityType DEF Holders, SyncInv, PlacesOK
<1>2. Cardinality(r) >= Cardinality(Holders)
  <2>1. Cardinality(PuttingBack) \in Nat /\ Cardinality(r) \in Nat
    BY <1>1, HoldersAreFinite, ThreadsAreFinite, FS_Subset, FS_CardinalityType
  <2> QED
    BY <1>1, <2>1 DEF AllReached, SyncInv, References
<1>3. CASE r \subseteq Holders
  <2>1. Cardinality(r) <= Cardinality(Holders) /\ r # Holders
    BY <1>1, <1>3, FS_Subset
  <2>2. Cardinality(r) = Cardinality(Holders)
    BY <1>1, <1>2, <1>3, <2>1, FS_Subset, FS_CardinalityType
  <2> QED
    BY <1>1, <1>3, <2>1, <2>2, FS_Subset
<1>4. CASE ~(r \subseteq Holders)
  <2>1. PICK g \in Departed : g \in Players
    BY <1>4 DEF Departed, NobodyIsThrough
  <2>2. t \in Players /\ u \in Players /\ g # t /\ g # u /\ t # u
    <3>1. pc[Owner] = "gone"
      BY <2>1 DEF NobodyIsThrough
    <3>2. Owner \notin Holders
      BY <3>1 DEF Holders, Holds
    <3> QED
      BY <1>1, <2>1, <3>2 DEF Threads, Departed
  <2>3. PICK three, two, one : /\ three = {g, t, u} /\ two = three \ {u} /\ one = two \ {t}
    OBVIOUS
  <2>4. /\ IsFiniteSet(three) /\ IsFiniteSet(two) /\ Cardinality(three) <= Cardinality(Players)
        /\ Cardinality(Players) \in Nat
    <3>1. three \subseteq Players /\ two \subseteq Players
      BY <2>1, <2>2, <2>3
    <3> QED
      BY <3>1, PlayersAssumption, FS_Subset, FS_CardinalityType
  <2>5. Cardinality(three) = Cardinality(two) + 1
    <3>1. u \in three
      BY <2>3
    <3> QED
      BY <2>3, <2>4, <3>1, CountOne
  <2>6. Cardinality(two) = Cardinality(one) + 1
    <3>1. t \in two
      BY <2>2, <2>3
    <3> QED
      BY <2>3, <2>4, <3>1, CountOne
  <2>7. Cardinality(one) = 1
    <3>1. one = {g}
      BY <2>2, <2>3
    <3> QED
      BY <3>1, FS_Singleton
  <2> QED
    BY <2>4, <2>5, <2>6, <2>7
<1> QED
  BY <1>3, <1>4

\* A step changes the places of one thread, and may wake others: who has a
\* reference has had one, unless the owner sends it now.
LEMMA MoveHolds ==
  ASSUME PlacesOK, NEW t \in Threads, NEW p \in Places, Moved(t, p), p # "away"
  PROVE  /\ Holders' = IF p = "gone" THEN Holders \ {t} ELSE Holders \cup {t}
         /\ \A u \in Threads : pc'[u] = "away" => pc[u] = "away"
         /\ \A u \in Threads \ {t} : pc'[u] = "true" <=> pc[u] = "true"
         /\ \A u \in Threads \ {t} : pc'[u] = "gone" <=> pc[u] = "gone"
         /\ \A u \in Threads \ {t} : pc'[u] \in {"wait", "woken"} <=> pc[u] \in {"wait", "woken"}
         /\ pc'[t] = p
<1>1. \A u \in Threads \ {t} : pc'[u] = pc[u] \/ (pc[u] = "wait" /\ pc'[u] = "woken")
  BY DEF Moved
<1>2. pc'[t] = p
  BY DEF Moved
<1> QED
  BY <1>1, <1>2 DEF Holders, Holds

\* A thread that keeps its reference, reaches no new source and does not get
\* through.
LEMMA StayKeeps ==
  ASSUME SyncInv, BarrierInv, NEW t \in Threads, NEW p \in Places, Moved(t, p),
         t \in Holders, t = Owner => pc[Owner] # "away",
         p \notin {"away", "gone", "true", "wait", "woken"},
         UNCHANGED <<reached, overdue, stop>>
  PROVE  BarrierInv'
<1>1. /\ Holders' = Holders
      /\ \A u \in Threads : pc'[u] = "away" => pc[u] = "away"
      /\ \A u \in Threads : pc'[u] = "true" => pc[u] = "true"
      /\ \A u \in Threads : pc[u] = "gone" => pc'[u] = "gone"
      /\ \A u \in Threads : pc'[u] \in {"wait", "woken"} => pc[u] \in {"wait", "woken"}
  BY MoveHolds DEF SyncInv, Holders, Holds
<1>2. Owner \in Threads
  BY DEF Threads
<1> QED
  BY <1>1, <1>2 DEF BarrierInv, Early, AllArrived, NobodyIsThrough, Departed

\* A thread gives its reference up.
LEMMA GoneKeeps ==
  ASSUME SyncInv, BarrierInv, NEW t \in Threads, Moved(t, "gone"),
         UNCHANGED <<reached, overdue, stop>>,
         Early /\ NobodyIsThrough => t \notin reached \/ (t \in Players /\ pc[Owner] = "gone")
  PROVE  BarrierInv'
<1>1. /\ Holders' = Holders \ {t}
      /\ \A u \in Threads : pc'[u] = "away" => pc[u] = "away"
      /\ \A u \in Threads : pc'[u] = "true" => pc[u] = "true"
      /\ \A u \in Threads : pc[u] = "gone" => pc'[u] = "gone"
      /\ \A u \in Threads : pc'[u] \in {"wait", "woken"} => pc[u] \in {"wait", "woken"}
  BY MoveHolds DEF SyncInv, Places
<1>2. Owner \in Threads
  BY DEF Threads
<1> QED
  BY <1>1, <1>2 DEF BarrierInv, Early, AllArrived, NobodyIsThrough, Departed

\* A thread looks at the count.
LEMMA LookKeeps ==
  ASSUME SyncInv, BarrierInv, Cardinality(Players) <= 2, NEW t \in Threads,
         t \in Holders, pc[t] # "away", NEW p \in {"true", "wait"}, Moved(t, p),
         p = "true" => AllReached(reached'), reached' = reached \cup {t},
         UNCHANGED <<overdue, stop>>
  PROVE  BarrierInv' /\ (Early /\ p = "true" => Holders \subseteq reached')
<1>1. /\ Holders' = Holders
      /\ \A u \in Threads : pc'[u] = "away" => pc[u] = "away" /\ u # t
      /\ \A u \in Threads \ {t} : pc'[u] = "true" => pc[u] = "true"
      /\ \A u \in Threads : pc[u] = "gone" => pc'[u] = "gone"
      /\ pc'[t] = p
      /\ \A u \in Threads \ {t} : pc'[u] \in {"wait", "woken"} => pc[u] \in {"wait", "woken"}
  BY MoveHolds DEF SyncInv, Places, Holders, Holds
<1>2. Owner \in Threads
  BY DEF Threads
<1>3. Early /\ p = "true" => Holders \subseteq reached'
  BY AllAreSeen DEF BarrierInv, AllArrived
<1>4. CASE p = "true"
  BY <1>1, <1>3, <1>4 DEF BarrierInv, Early, AllArrived
<1>5. CASE p = "wait"
  BY <1>1, <1>2, <1>5 DEF BarrierInv, Early, AllArrived, NobodyIsThrough, Departed
<1> QED
  BY <1>3, <1>4, <1>5

\* What is to be shown of each step.
BarrierKept ==
  /\ BarrierInv'
  /\ \A t \in Threads : pc[t] # "true" /\ pc'[t] = "true" /\ Early => Holders \subseteq reached'

\* No thread gets through without looking at the count.
LEMMA OthersStay ==
  ASSUME PlacesOK, NEW t \in Threads, NEW p \in Places, Moved(t, p)
  PROVE  \A u \in Threads : pc[u] # "true" /\ pc'[u] = "true" => u = t /\ p = "true"
BY DEF Moved

\* The owner sends, or not, and waits, or not.
LEMMA SendingKeepsBarrier ==
  ASSUME SyncInv, BarrierInv, OwnerSends
  PROVE  BarrierKept
<1>1. Owner \in Threads /\ Owner \notin Players /\ Players \subseteq Threads /\ PlacesOK
  BY PlayersAssumption DEF Threads, SyncInv
<1>2. Owner \in Holders /\ pc[Owner] = "away" /\ Owner \notin reached
  BY <1>1 DEF OwnerSends, SendReference, SendNot, OwnerWaits, OwnerReleases, Holders, Holds,
              BarrierInv
<1>3. Early => NobodyIsThrough /\ Departed = {}
  BY <1>2 DEF BarrierInv, AllArrived, NobodyIsThrough
<1>4. ASSUME NEW t \in Players, SendReference(t) PROVE BarrierKept
  <2>1. Moved(t, "queued")
    BY <1>1, <1>4, ExceptMoves DEF SendReference, Places
  <2>2. /\ Holders' = Holders \cup {t}
        /\ \A u \in Threads : pc'[u] = "away" => pc[u] = "away"
        /\ \A u \in Threads : pc'[u] = "true" => pc[u] = "true"
        /\ \A u \in Threads : pc'[u] \in {"wait", "woken"} => pc[u] \in {"wait", "woken"}
    BY <1>1, <2>1, MoveHolds DEF Places
  <2>3. UNCHANGED <<reached, overdue, stop>>
    BY <1>4 DEF SendReference
  <2>4. BarrierInv'
    BY <1>3, <2>2, <2>3 DEF BarrierInv, Early, NobodyIsThrough, Departed
  <2> QED
    BY <2>2, <2>4 DEF BarrierKept
<1>5. ASSUME NEW t \in Players, SendNot(t) PROVE BarrierKept
  <2>1. Moved(t, "gone")
    BY <1>1, <1>5, ExceptMoves DEF SendNot, Places
  <2>2. UNCHANGED <<reached, overdue, stop>> /\ t \notin reached
    BY <1>1, <1>5 DEF SendNot, BarrierInv
  <2>3. BarrierInv'
    BY <1>1, <2>1, <2>2, GoneKeeps
  <2> QED
    BY <1>1, <2>1, <2>3, OthersStay DEF BarrierKept, Places
<1>6. CASE OwnerWaits
  <2>1. Moved(Owner, "handle")
    BY <1>1, <1>6, ExceptMoves DEF OwnerWaits, Places
  <2>2. /\ Holders' = Holders \cup {Owner}
        /\ \A u \in Threads : pc'[u] = "away" => pc[u] = "away"
        /\ \A u \in Threads : pc'[u] = "true" => pc[u] = "true"
        /\ \A u \in Threads : pc'[u] \in {"wait", "woken"} => pc[u] \in {"wait", "woken"}
    BY <1>1, <2>1, MoveHolds DEF Places
  <2>3. UNCHANGED <<reached, overdue, stop>>
    BY <1>6 DEF OwnerWaits
  <2>4. BarrierInv'
    BY <1>2, <1>3, <2>2, <2>3 DEF BarrierInv, Early, NobodyIsThrough, Departed
  <2> QED
    BY <2>2, <2>4 DEF BarrierKept
<1>7. CASE OwnerReleases
  <2>1. Moved(Owner, "gone") /\ UNCHANGED <<reached, overdue, stop>>
    BY <1>1, <1>7, NotifyMoves DEF OwnerReleases, Release, Places
  <2>2. BarrierInv'
    BY <1>1, <1>2, <2>1, GoneKeeps
  <2> QED
    BY <1>1, <2>1, <2>2, OthersStay DEF BarrierKept, Places
<1> QED
  BY <1>4, <1>5, <1>6, <1>7 DEF OwnerSends

\* The steps of a thread in Wait, and its Release after.
LEMMA WaitingKeepsBarrier ==
  ASSUME SyncInv, BarrierInv, Cardinality(Players) <= 2, NEW t \in Threads,
         EnterWait(t) \/ LookAgain(t) \/ ConditionExpires(t) \/ Leave(t)
  PROVE  BarrierKept
<1>1. t \in Holders /\ pc[t] # "away" /\ PlacesOK
  BY DEF EnterWait, LookAgain, ConditionExpires, Leave, Holders, Holds, SyncInv
<1>2. CASE EnterWait(t)
  <2>1. PICK p \in {"true", "wait"} :
          pc' = [pc EXCEPT ![t] = p] /\ (p = "true" => AllReached(reached'))
    BY <1>2 DEF EnterWait
  <2>2. Moved(t, p) /\ p \in Places
    BY <1>1, <2>1, ExceptMoves DEF Places
  <2>3. BarrierInv' /\ (Early /\ p = "true" => Holders \subseteq reached')
    BY <1>1, <1>2, <2>1, <2>2, LookKeeps DEF EnterWait
  <2> QED
    BY <1>1, <2>2, <2>3, OthersStay DEF BarrierKept
<1>3. CASE LookAgain(t)
  <2>1. PICK p \in {"true", "wait"} :
          pc' = [pc EXCEPT ![t] = p] /\ (p = "true" => AllReached(reached'))
    BY <1>3 DEF LookAgain
  <2>2. Moved(t, p) /\ p \in Places
    BY <1>1, <2>1, ExceptMoves DEF Places
  <2>3. reached' = reached \cup {t} /\ UNCHANGED <<overdue, stop>>
    BY <1>3 DEF LookAgain, BarrierInv
  <2>4. BarrierInv' /\ (Early /\ p = "true" => Holders \subseteq reached')
    BY <1>1, <2>1, <2>2, <2>3, LookKeeps
  <2> QED
    BY <1>1, <2>2, <2>4, OthersStay DEF BarrierKept
<1>4. CASE ConditionExpires(t) /\ overdue
  <2>1. Moved(t, "true") /\ UNCHANGED <<reached, overdue, stop>>
    BY <1>1, <1>4, ExceptMoves DEF ConditionExpires, Places
  <2>2. /\ \A u \in Threads : pc'[u] = "away" => pc[u] = "away"
        /\ \A u \in Threads : pc'[u] \in {"wait", "woken"} => pc[u] \in {"wait", "woken"}
    BY <1>1, <2>1, MoveHolds DEF Places
  <2> QED
    BY <1>4, <2>1, <2>2 DEF BarrierInv, BarrierKept, Early
<1>5. CASE ConditionExpires(t) /\ ~overdue
  <2>1. Moved(t, "false") /\ UNCHANGED <<reached, overdue, stop>>
    BY <1>1, <1>5, ExceptMoves DEF ConditionExpires, Places
  <2>2. BarrierInv'
    BY <1>1, <2>1, StayKeeps DEF Places
  <2> QED
    BY <1>1, <2>1, <2>2, OthersStay DEF BarrierKept, Places
<1>6. CASE Leave(t)
  <2>1. Moved(t, "gone") /\ UNCHANGED <<reached, overdue, stop>> /\ pc[t] = "true"
    BY <1>1, <1>6, NotifyMoves DEF Leave, Release, Places
  <2>2. BarrierInv'
    BY <2>1, GoneKeeps DEF NobodyIsThrough
  <2> QED
    BY <1>1, <2>1, <2>2, OthersStay DEF BarrierKept, Places
<1> QED
  BY <1>2, <1>3, <1>4, <1>5, <1>6

\* A player's own steps, and the end of its queue.
LEMMA PlayerKeepsBarrier ==
  ASSUME SyncInv, BarrierInv, Cardinality(Players) <= 2, NEW t \in Players,
         PlayerStep(t) \/ DropMessage(t)
  PROVE  BarrierKept
<1>1. t \in Threads /\ t # Owner /\ PlacesOK
  BY PlayersAssumption DEF Threads, SyncInv
<1>2. ASSUME NEW p \in {"handle", "putback", "queued"}, Moved(t, p), t \in Holders,
             UNCHANGED <<reached, overdue, stop>>
      PROVE  BarrierKept
  <2>1. BarrierInv'
    BY <1>1, <1>2, StayKeeps DEF Places
  <2> QED
    BY <1>1, <1>2, <2>1, OthersStay DEF BarrierKept, Places
<1>3. CASE GetMessage(t)
  <2>1. Moved(t, "handle") /\ t \in Holders /\ UNCHANGED <<reached, overdue, stop>>
    BY <1>1, <1>3, ExceptMoves DEF GetMessage, Places, Holders, Holds
  <2> QED
    BY <1>2, <2>1
<1>4. CASE PutBack(t)
  <2>1. Moved(t, "putback") /\ t \in Holders /\ UNCHANGED <<reached, overdue, stop>>
    BY <1>1, <1>4, NotifyMoves DEF PutBack, Places, Holders, Holds
  <2> QED
    BY <1>2, <2>1
<1>5. CASE pc[t] = "putback" /\ Release(t, "queued")
  <2>1. Moved(t, "queued") /\ t \in Holders /\ UNCHANGED <<reached, overdue, stop>>
    BY <1>1, <1>5, NotifyMoves DEF Release, Places, Holders, Holds
  <2> QED
    BY <1>2, <2>1
<1>6. CASE DropMessage(t)
  <2>1. Moved(t, "gone") /\ UNCHANGED <<reached, overdue, stop>> /\ pc[Owner] = "gone"
    BY <1>1, <1>6, NotifyMoves DEF DropMessage, Release, Places
  <2>2. BarrierInv'
    BY <1>1, <2>1, GoneKeeps
  <2> QED
    BY <1>1, <2>1, <2>2, OthersStay DEF BarrierKept, Places
<1>7. CASE EnterWait(t) \/ LookAgain(t) \/ Leave(t)
  BY <1>1, <1>7, WaitingKeepsBarrier
<1> QED
  BY <1>3, <1>4, <1>5, <1>6, <1>7 DEF PlayerStep

\* The owner waits again, or is stopped.
LEMMA OwnerKeepsBarrier ==
  ASSUME SyncInv, BarrierInv, Cardinality(Players) <= 2, OwnerStep
  PROVE  BarrierKept
<1>1. Owner \in Threads /\ PlacesOK
  BY DEF Threads, SyncInv
<1>2. CASE OwnerWaitsAgain
  <2>1. Moved(Owner, "handle") /\ Owner \in Holders /\ pc[Owner] # "away"
        /\ UNCHANGED <<reached, overdue, stop>>
    BY <1>1, <1>2, ExceptMoves DEF OwnerWaitsAgain, Places, Holders, Holds
  <2>2. BarrierInv'
    BY <1>1, <2>1, StayKeeps DEF Places
  <2> QED
    BY <1>1, <2>1, <2>2, OthersStay DEF BarrierKept, Places
<1>3. CASE OwnerStops
  <2>1. Moved(Owner, "gone") /\ UNCHANGED <<reached, overdue, stop>> /\ stop
    BY <1>1, <1>3, NotifyMoves DEF OwnerStops, Release, Places
  <2>2. BarrierInv'
    BY <1>1, <2>1, GoneKeeps DEF Early
  <2> QED
    BY <1>1, <2>1, <2>2, OthersStay DEF BarrierKept, Places
<1>4. CASE EnterWait(Owner) \/ LookAgain(Owner) \/ Leave(Owner)
  BY <1>1, <1>4, WaitingKeepsBarrier
<1> QED
  BY <1>2, <1>3, <1>4 DEF OwnerStep

\* Every step of two players keeps BarrierInv, and lets nobody through early.
LEMMA BarrierIsKept ==
  ASSUME Cardinality(Players) <= 2, SyncInv, BarrierInv, [SyncNext]_syncVars
  PROVE  BarrierKept
<1>1. CASE OwnerSends
  BY <1>1, SendingKeepsBarrier
<1>2. CASE OwnerStep
  BY <1>2, OwnerKeepsBarrier
<1>3. ASSUME NEW t \in Players, PlayerStep(t) \/ DropMessage(t) PROVE BarrierKept
  BY <1>3, PlayerKeepsBarrier
<1>4. ASSUME NEW t \in Threads, ConditionExpires(t) PROVE BarrierKept
  BY <1>4, WaitingKeepsBarrier
<1>5. CASE Overdue \/ Stop \/ UNCHANGED syncVars
  <2>1. UNCHANGED <<reached, pc>> /\ (Early' => Early)
    BY <1>5 DEF Overdue, Stop, syncVars, Early
  <2> QED
    BY <2>1 DEF BarrierInv, BarrierKept, AllArrived, NobodyIsThrough, Departed, Holders, Holds
<1> QED
  BY <1>1, <1>2, <1>3, <1>4, <1>5 DEF SyncNext

(***************************************************************************)
(* With the two players to whom SynchronizePlayers and FlushBuffers send   *)
(* the message, and any fewer, Wait lets a thread through in time only     *)
(* when everybody who still has the message has arrived, although it only  *)
(* compares two counts, one of threads and one of references, and a player *)
(* whose queue was closed stays counted by the first alone.                *)
(***************************************************************************)
THEOREM BarrierHolds ==
  ASSUME Cardinality(Players) <= 2
  PROVE  SyncSpec => Barrier
<1>1. SyncInit => BarrierInv
  <2> SUFFICES ASSUME SyncInit PROVE BarrierInv
    OBVIOUS
  <2>1. reached = {} /\ \A t \in Threads : pc[t] = "away"
    BY DEF SyncInit
  <2> QED
    BY <2>1 DEF BarrierInv, NobodyIsThrough, Departed
<1>2. SyncInv /\ BarrierInv /\ [SyncNext]_syncVars => BarrierInv'
  BY BarrierIsKept DEF BarrierKept
<1>3. SyncInv /\ BarrierInv /\ [SyncNext]_syncVars
        => [\A t \in Threads :
              pc[t] # "true" /\ pc'[t] = "true" /\ ~overdue /\ ~stop =>
                \A u \in Threads : Holds(u) => u \in reached']_syncVars
  BY BarrierIsKept DEF BarrierKept, Early, Holders
<1> QED
  BY <1>1, <1>2, <1>3, SyncInitHolds, SyncInvIsInductive, PTL DEF SyncSpec, Barrier

-----------------------------------------------------------------------------
\* x, f, q and d together have every buffer, and none of them twice.
Apart(x, f, q, d) ==
  /\ x \in Buffers /\ f \in Seq(Buffers) /\ q \in Seq(Buffers) /\ d \in Seq(Buffers)
  /\ IsInjective(f) /\ IsInjective(q) /\ IsInjective(d)
  /\ x \notin ToSet(f) /\ x \notin ToSet(q) /\ x \notin ToSet(d)
  /\ ToSet(f) \cap ToSet(q) = {} /\ ToSet(f) \cap ToSet(d) = {} /\ ToSet(q) \cap ToSet(d) = {}
  /\ Buffers \subseteq {x} \cup ToSet(f) \cup ToSet(q) \cup ToSet(d)

NothingQueued(f, q, d) == f = <<>> /\ q = <<>> /\ d = <<>>

\* The buffer the video thread fills is the first free one, still.
FillsTheFirst ==
  output \in {"write", "flip"} /\ ~reset => m_free # <<>> /\ m_free[1] = index

RenderInv ==
  /\ RenderTypeOK
  /\ \/ NothingQueued(m_free, m_queued, m_discard)
     \/ Apart(m_presentsource, m_free, m_queued, m_discard)
  /\ FillsTheFirst

-----------------------------------------------------------------------------
\* The empty sequence and those of one buffer.
LEMMA ShortSequences ==
  /\ <<>> \in Seq(Buffers) /\ IsInjective(<<>>) /\ ToSet(<<>>) = {}
  /\ \A b \in Buffers : <<b>> \in Seq(Buffers) /\ IsInjective(<<b>>) /\ ToSet(<<b>>) = {b}
<1>1. <<>> \in Seq(Buffers) /\ IsInjective(<<>>) /\ ToSet(<<>>) = {}
  BY EmptySeq DEF IsInjective, ToSet
<1>2. ASSUME NEW b \in Buffers PROVE <<b>> \in Seq(Buffers) /\ IsInjective(<<b>>) /\ ToSet(<<b>>) = {b}
  BY DEF IsInjective, ToSet
<1> QED
  BY <1>1, <1>2

\* What one must know of a concatenation.
LEMMA Joined ==
  ASSUME NEW s \in Seq(Buffers), NEW t \in Seq(Buffers)
  PROVE  /\ s \o t \in Seq(Buffers)
         /\ ToSet(s \o t) = ToSet(s) \cup ToSet(t)
         /\ IsInjective(s \o t) <=>
              IsInjective(s) /\ IsInjective(t) /\ ToSet(s) \cap ToSet(t) = {}
BY ConcatProperties, ToSetConcat, InjectiveConcat

\* The same of a sequence with one more buffer at its front.
LEMMA JoinedFront ==
  ASSUME NEW b \in Buffers, NEW t \in Seq(Buffers)
  PROVE  /\ <<b>> \o t \in Seq(Buffers)
         /\ ToSet(<<b>> \o t) = {b} \cup ToSet(t)
         /\ IsInjective(<<b>> \o t) <=> IsInjective(t) /\ b \notin ToSet(t)
<1>1. <<b>> \in Seq(Buffers) /\ IsInjective(<<b>>) /\ ToSet(<<b>>) = {b}
  BY ShortSequences
<1> DEFINE s == <<b>>
<1> HIDE DEF s
<1>2. /\ s \o t \in Seq(Buffers)
      /\ ToSet(s \o t) = ToSet(s) \cup ToSet(t)
      /\ IsInjective(s \o t) <=>
           IsInjective(s) /\ IsInjective(t) /\ ToSet(s) \cap ToSet(t) = {}
  BY <1>1, Joined DEF s
<1> QED
  BY <1>1, <1>2 DEF s

\* The sequence of all places, taken apart.
LEMMA PlacesAreApart ==
  ASSUME NEW x, NEW f, NEW q, NEW d, Apart(x, f, q, d)
  PROVE  /\ IsInjective(<<x>> \o (f \o (q \o d)))
         /\ ToSet(<<x>> \o (f \o (q \o d))) = Buffers
<1>0. x \in Buffers /\ f \in Seq(Buffers) /\ q \in Seq(Buffers) /\ d \in Seq(Buffers)
  BY DEF Apart
<1>1. /\ q \o d \in Seq(Buffers) /\ ToSet(q \o d) = ToSet(q) \cup ToSet(d)
      /\ IsInjective(q \o d) <=>
           IsInjective(q) /\ IsInjective(d) /\ ToSet(q) \cap ToSet(d) = {}
  BY <1>0, Joined
<1> DEFINE u == q \o d
<1> HIDE DEF u
<1>2. u \in Seq(Buffers) /\ IsInjective(u) /\ ToSet(u) = ToSet(q) \cup ToSet(d)
  BY <1>1 DEF u, Apart
<1>3. /\ f \o u \in Seq(Buffers) /\ ToSet(f \o u) = ToSet(f) \cup ToSet(u)
      /\ IsInjective(f \o u) <=>
           IsInjective(f) /\ IsInjective(u) /\ ToSet(f) \cap ToSet(u) = {}
  BY <1>0, <1>2, Joined
<1> DEFINE v == f \o u
<1> HIDE DEF v
<1>4. v \in Seq(Buffers) /\ IsInjective(v) /\ ToSet(v) = ToSet(f) \cup ToSet(q) \cup ToSet(d)
  BY <1>2, <1>3 DEF v, Apart
<1>5. /\ ToSet(<<x>> \o v) = {x} \cup ToSet(v)
      /\ IsInjective(<<x>> \o v) <=> IsInjective(v) /\ x \notin ToSet(v)
  BY <1>0, <1>4, JoinedFront
<1>6. ToSet(f) \subseteq Buffers /\ ToSet(q) \subseteq Buffers /\ ToSet(d) \subseteq Buffers
  BY <1>0, LenProperties DEF ToSet
<1>7. x \notin ToSet(v) /\ {x} \cup ToSet(v) = Buffers
  BY <1>0, <1>4, <1>6 DEF Apart
<1> QED
  BY <1>4, <1>5, <1>7 DEF u, v

\* A frame comes to the screen; the one before it and the late ones are discarded.
LEMMA FlipApart ==
  ASSUME NEW x, NEW f, NEW q, NEW d, Apart(x, f, q, d), NEW n \in 1 .. Len(q)
  PROVE  Apart(q[n], f, SubSeq(q, n + 1, Len(q)), Append(d \o SubSeq(q, 1, n - 1), x))
<1> DEFINE l == SubSeq(q, 1, n - 1)
           r == SubSeq(q, n + 1, Len(q))
           y == q[n]
<1>0. x \in Buffers /\ f \in Seq(Buffers) /\ q \in Seq(Buffers) /\ d \in Seq(Buffers)
  BY DEF Apart
<1>1. l \in Seq(Buffers) /\ r \in Seq(Buffers) /\ y \in Buffers /\ q = l \o (<<y>> \o r)
  BY <1>0, CutAt
<1> HIDE DEF l, r, y
<1> DEFINE w == <<y>> \o r
<1>2. /\ w \in Seq(Buffers) /\ ToSet(w) = {y} \cup ToSet(r)
      /\ IsInjective(w) <=> IsInjective(r) /\ y \notin ToSet(r)
  BY <1>1, JoinedFront
<1>3. q = l \o w
  BY <1>1
<1> HIDE DEF w
<1>4. /\ ToSet(l \o w) = ToSet(l) \cup ToSet(w)
      /\ IsInjective(l \o w) <=>
           IsInjective(l) /\ IsInjective(w) /\ ToSet(l) \cap ToSet(w) = {}
  BY <1>1, <1>2, Joined
<1>5. /\ ToSet(q) = ToSet(l) \cup ToSet(w)
      /\ IsInjective(l) /\ IsInjective(w) /\ ToSet(l) \cap ToSet(w) = {}
  BY <1>3, <1>4 DEF Apart
<1> DEFINE e == d \o l
<1>6. /\ e \in Seq(Buffers) /\ ToSet(e) = ToSet(d) \cup ToSet(l)
      /\ IsInjective(e) <=>
           IsInjective(d) /\ IsInjective(l) /\ ToSet(d) \cap ToSet(l) = {}
  BY <1>0, <1>1, Joined
<1> HIDE DEF e
<1>7. IsInjective(e) /\ x \notin ToSet(e)
  BY <1>5, <1>6 DEF Apart
<1>8. /\ Append(e, x) \in Seq(Buffers) /\ ToSet(Append(e, x)) = ToSet(e) \cup {x}
      /\ IsInjective(Append(e, x))
  BY <1>0, <1>6, <1>7, AppendProperties, ToSetAppend, InjectiveAppend
<1> DEFINE a == Append(e, x)
<1>9. /\ a \in Seq(Buffers) /\ ToSet(a) = ToSet(d) \cup ToSet(l) \cup {x} /\ IsInjective(a)
  BY <1>6, <1>8
<1> HIDE DEF a
<1>10. /\ IsInjective(r) /\ y \notin ToSet(r) /\ y \notin ToSet(l) /\ ToSet(l) \cap ToSet(r) = {}
       /\ ToSet(q) = ToSet(l) \cup {y} \cup ToSet(r)
  BY <1>2, <1>5
<1>11. Apart(y, f, r, a)
  <2>1. IsInjective(f) /\ IsInjective(r) /\ IsInjective(a)
    BY <1>9, <1>10 DEF Apart
  <2>2. y \in ToSet(q) /\ ToSet(r) \subseteq ToSet(q) /\ ToSet(l) \subseteq ToSet(q)
    BY <1>10
  <2>3. y \notin ToSet(f) /\ y \notin ToSet(r) /\ y \notin ToSet(a)
    BY <1>9, <1>10, <2>2 DEF Apart
  <2>4. ToSet(f) \cap ToSet(r) = {} /\ ToSet(f) \cap ToSet(a) = {} /\ ToSet(r) \cap ToSet(a) = {}
    BY <1>9, <1>10, <2>2 DEF Apart
  <2>5. Buffers \subseteq {y} \cup ToSet(f) \cup ToSet(r) \cup ToSet(a)
    BY <1>9, <1>10 DEF Apart
  <2> QED
    BY <1>0, <1>1, <1>9, <2>1, <2>3, <2>4, <2>5 DEF Apart
<1> QED
  BY <1>11 DEF a, e, y, r, l

\* The discarded buffers that the renderer does not keep are free again.
LEMMA ReleaseApart ==
  ASSUME NEW x, NEW f, NEW q, NEW d, Apart(x, f, q, d), NEW kept
  PROVE  Apart(x, f \o SelectIn(d, Buffers \ kept), q, SelectIn(d, kept))
<1> USE DEF Apart
<1> DEFINE a == SelectIn(d, Buffers \ kept)
           b == SelectIn(d, kept)
<1>1. a \in Seq(Buffers) /\ IsInjective(a) /\ ToSet(a) = ToSet(d) \cap (Buffers \ kept)
  BY SelectInType, SelectInToSet, SelectInInjective
<1>2. b \in Seq(Buffers) /\ IsInjective(b) /\ ToSet(b) = ToSet(d) \cap kept
  BY SelectInType, SelectInToSet, SelectInInjective
<1>3. ToSet(d) \subseteq Buffers
  BY LenProperties DEF ToSet
<1> HIDE DEF a, b
<1>4. f \o a \in Seq(Buffers) /\ IsInjective(f \o a) /\ ToSet(f \o a) = ToSet(f) \cup ToSet(a)
  BY <1>1, ConcatProperties, ToSetConcat, InjectiveConcat
<1>5. Apart(x, f \o a, q, b)
  BY <1>1, <1>2, <1>3, <1>4
<1> QED
  BY <1>5 DEF a, b

\* The queued buffers are discarded.
LEMMA DiscardApart ==
  ASSUME NEW x, NEW f, NEW q, NEW d, Apart(x, f, q, d)
  PROVE  Apart(x, f, <<>>, d \o q)
<1>1. d \o q \in Seq(Buffers) /\ IsInjective(d \o q) /\ ToSet(d \o q) = ToSet(d) \cup ToSet(q)
  BY ConcatProperties, ToSetConcat, InjectiveConcat DEF Apart
<1> QED
  BY <1>1, ShortSequences DEF Apart

\* The first free buffer is queued.
LEMMA QueueApart ==
  ASSUME NEW x, NEW f, NEW q, NEW d, Apart(x, f, q, d), f # <<>>
  PROVE  Apart(x, Tail(f), Append(q, f[1]), d) /\ f[1] \in Buffers
<1> USE DEF Apart
<1> DEFINE y == f[1]
           r == Tail(f)
<1>1. 1 \in 1 .. Len(f)
  BY EmptySeq, LenProperties
<1>2. r = SubSeq(f, 2, Len(f)) /\ SubSeq(f, 1, 0) = <<>>
  BY TailIsSubSeq, SubSeqEmpty
<1>3. r \in Seq(Buffers) /\ y \in Buffers
  BY <1>1, HeadTailProperties, ElementOfSeq
<1>4. f = <<>> \o (<<y>> \o r)
  BY <1>1, <1>2, CutAt
<1>5. f = <<y>> \o r
  BY <1>3, <1>4, ShortSequences, ConcatProperties, ConcatEmptySeq
<1> HIDE DEF y, r
<1>6. ToSet(f) = {y} \cup ToSet(r) /\ IsInjective(r) /\ y \notin ToSet(r)
  BY <1>3, <1>5, JoinedFront
<1>7. Append(q, y) \in Seq(Buffers) /\ IsInjective(Append(q, y)) /\ ToSet(Append(q, y)) = ToSet(q) \cup {y}
  BY <1>3, <1>6, AppendProperties, ToSetAppend, InjectiveAppend
<1>8. Apart(x, r, Append(q, y), d)
  BY <1>3, <1>6, <1>7
<1> QED
  BY <1>3, <1>8 DEF y, r

\* All buffers but the first one are free.
LEMMA ResetApart == Apart(0, [i \in 1 .. m_QueueSize - 1 |-> i], <<>>, <<>>)
<1> DEFINE f == [i \in 1 .. m_QueueSize - 1 |-> i]
<1>1. m_QueueSize - 1 \in Nat /\ 0 \in Buffers /\ \A i \in 1 .. m_QueueSize - 1 : i \in Buffers
  BY QueueSizeAssumption DEF Buffers
<1>2. f \in Seq(Buffers) /\ DOMAIN f = 1 .. m_QueueSize - 1
  BY <1>1
<1>3. IsInjective(f) /\ ToSet(f) = 1 .. m_QueueSize - 1
  BY <1>1, <1>2 DEF IsInjective, ToSet
<1>4. Buffers = {0} \cup 1 .. m_QueueSize - 1
  BY QueueSizeAssumption DEF Buffers
<1> HIDE DEF f
<1>5. Apart(0, f, <<>>, <<>>)
  BY <1>1, <1>2, <1>3, <1>4, ShortSequences DEF Apart
<1> QED
  BY <1>5 DEF f

-----------------------------------------------------------------------------
\* What FrameMove makes of the queues before it releases buffers.
LEMMA StageApart ==
  ASSUME RenderInv, NEW due,
         NEW s \in IF Begun(Stage).step = "READY" THEN Prepared(Begun(Stage), due)
                   ELSE {Begun(Stage)}
  PROVE  /\ s.step \in {"IDLE", "READY", "FRAME", "FRAME2"}
         /\ s.source \in Buffers /\ s.queued \in Seq(Buffers) /\ s.discard \in Seq(Buffers)
         /\ ToSet(s.queued) \subseteq ToSet(m_queued)
         /\ NothingQueued(m_free, m_queued, m_discard) =>
               NothingQueued(m_free, s.queued, s.discard)
         /\ Apart(m_presentsource, m_free, m_queued, m_discard) =>
               Apart(s.source, m_free, s.queued, s.discard)
<1> DEFINE b == Begun(Stage)
<1>1. /\ m_presentsource \in Buffers /\ m_queued \in Seq(Buffers) /\ m_discard \in Seq(Buffers)
      /\ m_presentstep \in {"IDLE", "READY", "FRAME", "FRAME2"}
  BY DEF RenderInv, RenderTypeOK
<1>2. /\ b.source = m_presentsource /\ b.queued = m_queued /\ b.discard = m_discard
      /\ b.step \in {"IDLE", "READY", "FRAME", "FRAME2"}
      /\ b = [step |-> b.step, source |-> m_presentsource, queued |-> m_queued,
              discard |-> m_discard]
  BY <1>1 DEF Begun, Stage
<1> HIDE DEF b
<1>3. CASE s = b
  BY <1>1, <1>2, <1>3
<1>4. CASE s = [b EXCEPT !.step = "IDLE"]
  BY <1>1, <1>2, <1>4
<1>5. ASSUME NEW n \in 1 .. Len(b.queued), s = Flip(b, n)
      PROVE  /\ s.step \in {"IDLE", "READY", "FRAME", "FRAME2"}
             /\ s.source \in Buffers /\ s.queued \in Seq(Buffers) /\ s.discard \in Seq(Buffers)
             /\ ToSet(s.queued) \subseteq ToSet(m_queued)
             /\ m_queued # <<>>
             /\ Apart(m_presentsource, m_free, m_queued, m_discard) =>
                   Apart(s.source, m_free, s.queued, s.discard)
  <2>1. n \in 1 .. Len(m_queued)
    BY <1>2, <1>5
  <2> DEFINE l == SubSeq(m_queued, 1, n - 1)
             r == SubSeq(m_queued, n + 1, Len(m_queued))
  <2>2. /\ s.step = "FRAME" /\ s.source = m_queued[n] /\ s.queued = r
        /\ s.discard = Append(m_discard \o l, m_presentsource)
    BY <1>2, <1>5 DEF Flip
  <2>3. /\ l \in Seq(Buffers) /\ r \in Seq(Buffers) /\ m_queued[n] \in Buffers
        /\ m_queued = l \o (<<m_queued[n]>> \o r)
    BY <1>1, <2>1, CutAt
  <2>4. Apart(m_presentsource, m_free, m_queued, m_discard) =>
          Apart(s.source, m_free, s.queued, s.discard)
    BY <2>1, <2>2, FlipApart
  <2> HIDE DEF l, r
  <2>5. s.discard \in Seq(Buffers)
    BY <1>1, <2>2, <2>3, Joined, AppendProperties
  <2>6. ToSet(r) \subseteq ToSet(m_queued)
    <3> DEFINE y == m_queued[n]
               w == <<y>> \o r
    <3>1. y \in Buffers /\ m_queued = l \o w
      BY <2>3
    <3> HIDE DEF y
    <3>2. w \in Seq(Buffers) /\ ToSet(w) = {y} \cup ToSet(r)
      BY <2>3, <3>1, JoinedFront
    <3> HIDE DEF w
    <3>3. ToSet(m_queued) = ToSet(l) \cup ToSet(w)
      BY <2>3, <3>1, <3>2, Joined
    <3> QED
      BY <3>2, <3>3
  <2>7. m_queued # <<>>
    BY <2>1
  <2> QED
    BY <2>2, <2>3, <2>4, <2>5, <2>6, <2>7
<1>6. \/ s = b \/ s = [b EXCEPT !.step = "IDLE"]
      \/ \E n \in 1 .. Len(b.queued) : s = Flip(b, n)
  BY DEF Prepared, b
<1> QED
  BY <1>3, <1>4, <1>5, <1>6 DEF NothingQueued

\* FrameMove shows a frame and releases buffers behind those that are free.
LEMMA FramePresentsKeeps ==
  ASSUME RenderInv, NEW due, FramePresents(due)
  PROVE  RenderInv' /\ ToSet(m_queued') \subseteq ToSet(m_queued)
<1>1. PICK s \in IF Begun(Stage).step = "READY" THEN Prepared(Begun(Stage), due)
                 ELSE {Begun(Stage)} :
      \E kept \in SUBSET ToSet(s.discard) :
        /\ m_presentstep' = s.step
        /\ m_presentsource' = s.source
        /\ m_queued' = s.queued
        /\ m_free' = Released(s.discard, kept)
        /\ m_discard' = SelectIn(s.discard, kept)
        /\ doublePass' = doublePass \ ToSet(m_free')
  BY DEF FramePresents
<1>2. PICK kept :
        /\ m_presentstep' = s.step
        /\ m_presentsource' = s.source
        /\ m_queued' = s.queued
        /\ m_free' = m_free \o SelectIn(s.discard, Buffers \ kept)
        /\ m_discard' = SelectIn(s.discard, kept)
        /\ doublePass' = doublePass \ ToSet(m_free')
  BY <1>1 DEF Released
<1>3. /\ m_bRenderGUI' = TRUE /\ frame' = "render"
      /\ UNCHANGED <<m_renderState, m_format, m_stateEvent, output, index, reset>>
  BY DEF FramePresents, stateVars, videoVars
<1>4. /\ s.step \in {"IDLE", "READY", "FRAME", "FRAME2"}
      /\ s.source \in Buffers /\ s.queued \in Seq(Buffers) /\ s.discard \in Seq(Buffers)
      /\ ToSet(s.queued) \subseteq ToSet(m_queued)
      /\ NothingQueued(m_free, m_queued, m_discard) =>
            NothingQueued(m_free, s.queued, s.discard)
      /\ Apart(m_presentsource, m_free, m_queued, m_discard) =>
            Apart(s.source, m_free, s.queued, s.discard)
  BY StageApart
<1> DEFINE a == SelectIn(s.discard, Buffers \ kept)
<1>5. m_free \in Seq(Buffers) /\ a \in Seq(Buffers) /\ m_discard' \in Seq(Buffers)
  BY <1>2, <1>4, SelectInType DEF RenderInv, RenderTypeOK
<1>6. m_free' \in Seq(Buffers)
  BY <1>2, <1>5, Joined
<1>7. RenderTypeOK'
  BY <1>2, <1>3, <1>4, <1>5, <1>6 DEF RenderInv, RenderTypeOK
<1>8. \/ NothingQueued(m_free', m_queued', m_discard')
      \/ Apart(m_presentsource', m_free', m_queued', m_discard')
  <2>1. CASE NothingQueued(m_free, m_queued, m_discard)
    <3>1. m_free = <<>> /\ s.queued = <<>> /\ s.discard = <<>>
      BY <1>4, <2>1 DEF NothingQueued
    <3>2. a = <<>> /\ m_discard' = <<>>
      BY <1>2, <3>1, SelectInEmpty
    <3>3. m_free' = <<>>
      BY <1>2, <3>1, <3>2, ShortSequences, ConcatEmptySeq
    <3> QED
      BY <1>2, <3>1, <3>2, <3>3 DEF NothingQueued
  <2>2. CASE Apart(m_presentsource, m_free, m_queued, m_discard)
    <3>1. Apart(s.source, m_free, s.queued, s.discard)
      BY <1>4, <2>2
    <3>2. Apart(s.source, m_free \o a, s.queued, SelectIn(s.discard, kept))
      BY <3>1, ReleaseApart
    <3> QED
      BY <1>2, <3>2
  <2> QED
    BY <2>1, <2>2 DEF RenderInv
<1>9. FillsTheFirst'
  <2> SUFFICES ASSUME output \in {"write", "flip"}, ~reset PROVE m_free' # <<>> /\ m_free'[1] = index
    BY <1>3 DEF FillsTheFirst
  <2>1. m_free # <<>> /\ m_free[1] = index
    BY DEF RenderInv, FillsTheFirst
  <2>2. Len(m_free) \in Nat \ {0} /\ Len(a) \in Nat
    BY <1>5, <2>1, EmptySeq, LenProperties
  <2>3. m_free' = m_free \o a
    BY <1>2
  <2> HIDE DEF a
  <2>4. 1 \in 1 .. Len(m_free) + Len(a) /\ 1 <= Len(m_free)
    BY <2>2
  <2>5. Len(m_free') = Len(m_free) + Len(a) /\ m_free'[1] = m_free[1]
    BY <1>5, <2>3, <2>4, ConcatProperties
  <2> QED
    BY <1>6, <2>1, <2>2, <2>5, EmptySeq
<1> QED
  BY <1>2, <1>4, <1>7, <1>8, <1>9 DEF RenderInv

\* Configure and Flush: the buffer being filled may be another one from now on.
LEMMA ResetQueuesKeeps ==
  ASSUME RenderInv, ResetQueues, UNCHANGED <<output, index>>,
         m_bRenderGUI' \in BOOLEAN, frame' \in {"move", "present", "render"},
         m_renderState' \in {"UNCONFIGURED", "CONFIGURING", "CONFIGURED"},
         m_format' \in Formats \cup {NoFormat}, m_stateEvent' \in BOOLEAN
  PROVE  RenderInv'
<1>1. /\ m_queued' = <<>> /\ m_discard' = <<>> /\ m_free' = [i \in 1 .. m_QueueSize - 1 |-> i]
      /\ m_presentsource' = 0 /\ m_presentstep' = "IDLE" /\ doublePass' = {}
      /\ reset' = (output # "idle")
  BY DEF ResetQueues
<1>2. Apart(m_presentsource', m_free', m_queued', m_discard')
  BY <1>1, ResetApart
<1>3. /\ m_presentsource' \in Buffers /\ m_free' \in Seq(Buffers)
      /\ m_queued' \in Seq(Buffers) /\ m_discard' \in Seq(Buffers)
  BY <1>2 DEF Apart
<1> HIDE DEF Apart
<1>4. RenderTypeOK'
  BY <1>1, <1>3 DEF RenderInv, RenderTypeOK
<1>5. FillsTheFirst'
  BY <1>1 DEF FillsTheFirst
<1> QED
  BY <1>2, <1>4, <1>5 DEF RenderInv

\* The queued frames are given up.
LEMMA DiscardBufferKeeps ==
  ASSUME RenderInv, DiscardBuffer
  PROVE  RenderInv' /\ m_queued' = <<>>
<1>1. /\ m_discard' = m_discard \o m_queued /\ m_queued' = <<>>
      /\ m_presentstep' \in {"IDLE", "READY", "FRAME", "FRAME2"}
      /\ output' \in {"add", "idle"}
      /\ UNCHANGED <<m_free, m_presentsource, doublePass, m_bRenderGUI, m_renderState, m_format,
                     m_stateEvent, frame, index, reset>>
  BY DEF DiscardBuffer, stateVars, RenderInv, RenderTypeOK
<1>2. m_discard \in Seq(Buffers) /\ m_queued \in Seq(Buffers)
  BY DEF RenderInv, RenderTypeOK
<1>3. m_discard' \in Seq(Buffers) /\ m_queued' \in Seq(Buffers)
  BY <1>1, <1>2, Joined, ShortSequences
<1>4. RenderTypeOK'
  BY <1>1, <1>3 DEF RenderInv, RenderTypeOK
<1>5. NothingQueued(m_free, m_queued, m_discard) => NothingQueued(m_free', m_queued', m_discard')
  BY <1>1, ShortSequences, ConcatEmptySeq DEF NothingQueued
<1>6. Apart(m_presentsource, m_free, m_queued, m_discard) =>
        Apart(m_presentsource', m_free', m_queued', m_discard')
  BY <1>1, DiscardApart
<1> QED
  BY <1>1, <1>4, <1>5, <1>6 DEF RenderInv, FillsTheFirst

\* The buffer that was filled is queued.
LEMMA FlipPageKeeps ==
  ASSUME RenderInv, FlipPage
  PROVE  /\ RenderInv'
         /\ \A b \in ToSet(m_queued') \ ToSet(m_queued) : b = index \/ reset
<1>1. output = "flip" /\ output' = "idle"
      /\ UNCHANGED <<m_discard, m_presentsource, m_bRenderGUI, m_renderState, m_format,
                     m_stateEvent, frame, index, reset>>
  BY DEF FlipPage, stateVars
<1>2. CASE m_free = <<>>
  <2>1. UNCHANGED <<m_free, m_queued, m_presentstep, doublePass>>
    BY <1>2 DEF FlipPage
  <2>2. RenderTypeOK'
    BY <1>1, <2>1 DEF RenderInv, RenderTypeOK
  <2> QED
    BY <1>1, <2>1, <2>2 DEF RenderInv, FillsTheFirst
<1>3. CASE m_free # <<>>
  <2>1. /\ m_free' = Tail(m_free) /\ m_queued' = Append(m_queued, m_free[1])
        /\ doublePass' \in {doublePass, doublePass \cup {m_free[1]}}
        /\ m_presentstep' \in {"IDLE", "READY", "FRAME", "FRAME2"}
    BY <1>3 DEF FlipPage, RenderInv, RenderTypeOK
  <2>2. /\ m_free \in Seq(Buffers) /\ m_queued \in Seq(Buffers) /\ m_free[1] \in Buffers
        /\ ~NothingQueued(m_free, m_queued, m_discard)
    BY <1>3 DEF RenderInv, RenderTypeOK, NothingQueued
  <2>3. Apart(m_presentsource', m_free', m_queued', m_discard')
    BY <1>1, <1>3, <2>1, <2>2, QueueApart DEF RenderInv
  <2>4. m_free' \in Seq(Buffers) /\ m_queued' \in Seq(Buffers)
    BY <2>3 DEF Apart
  <2>5. RenderTypeOK'
    BY <1>1, <2>1, <2>2, <2>4 DEF RenderInv, RenderTypeOK
  <2>6. ToSet(m_queued') = ToSet(m_queued) \cup {m_free[1]}
    BY <2>1, <2>2, ToSetAppend
  <2>7. m_free[1] = index \/ reset
    BY <1>1 DEF RenderInv, FillsTheFirst
  <2> QED
    BY <1>1, <2>3, <2>5, <2>6, <2>7 DEF RenderInv, FillsTheFirst
<1> QED
  BY <1>2, <1>3

\* Steps that leave the queues alone.
LEMMA QueuesStay ==
  ASSUME RenderInv, RenderTypeOK', FillsTheFirst',
         UNCHANGED <<m_free, m_queued, m_discard, m_presentsource>>
  PROVE  RenderInv' /\ m_queued' = m_queued
BY DEF RenderInv

\* One case for each action.  What comes into m_queued comes with FlipPage.
LEMMA RenderInvIsInductive ==
  ASSUME RenderInv, [RenderNext]_renderVars
  PROVE  /\ RenderInv'
         /\ \A b \in ToSet(m_queued') \ ToSet(m_queued) : b = index \/ reset
<1> USE DEF RenderTypeOK, FillsTheFirst, queueVars, stateVars, videoVars
<1>0. RenderTypeOK /\ FillsTheFirst
  BY DEF RenderInv
<1>1. CASE AppConfigures
  <2>1. CASE ResetQueues
    BY <1>1, <2>1, ResetQueuesKeeps, ShortSequences DEF AppConfigures, ResetQueues, RenderInv
  <2>2. CASE UNCHANGED <<m_free, m_queued, m_discard, m_presentsource,
                         m_presentstep, doublePass, m_bRenderGUI, reset>>
    BY <1>0, <1>1, <2>2, QueuesStay DEF AppConfigures
  <2> QED
    BY <1>1, <2>1, <2>2 DEF AppConfigures
<1>2. CASE FlushRenderer
  BY <1>2, ResetQueuesKeeps, ShortSequences DEF FlushRenderer, ResetQueues, RenderInv
<1>3. CASE FrameMoves
  BY <1>0, <1>3, QueuesStay DEF FrameMoves
<1>4. CASE Renders
  BY <1>0, <1>4, QueuesStay DEF Renders, StepAfter
<1>5. CASE FramePresents(TRUE) \/ FramePresents(FALSE)
  BY <1>5, FramePresentsKeeps
<1>6. CASE \E f \in Formats : OutputBegins(f) \/ AsksToConfigure(f)
  <2>1. m_queued' = m_queued
    BY <1>6 DEF OutputBegins, AsksToConfigure
  <2>2. CASE \E f \in Formats : OutputBegins(f)
    <3>1. 0 \in Buffers
      BY QueueSizeAssumption DEF Buffers
    <3> QED
      BY <1>0, <2>2, <3>1, QueuesStay DEF OutputBegins
  <2>3. CASE \E f \in Formats : AsksToConfigure(f)
    BY <1>0, <2>3, QueuesStay DEF AsksToConfigure
  <2> QED
    BY <1>6, <2>1, <2>2, <2>3
<1>7. CASE Configured \/ GetsBuffer \/ WritesPicture \/ WaitsForIdle
  BY <1>0, <1>7, QueuesStay, ZenonT(40) DEF Configured, GetsBuffer, WritesPicture, WaitsForIdle
<1>8. CASE ChoosesBuffer
  <2>1. m_free # <<>> => m_free[1] \in Buffers
    BY <1>0
  <2> QED
    BY <1>0, <1>8, <2>1, QueuesStay DEF ChoosesBuffer
<1>9. CASE OutputFails \/ GuiIsOff
  BY <1>0, <1>9, QueuesStay DEF OutputFails, GuiIsOff
<1>10. CASE DiscardBuffer
  BY <1>10, DiscardBufferKeeps, ShortSequences
<1>11. CASE FlipPage
  BY <1>11, FlipPageKeeps
<1>12. CASE UNCHANGED renderVars
  BY <1>0, <1>12, QueuesStay DEF renderVars
<1> QED
  BY <1>1, <1>2, <1>3, <1>4, <1>5, <1>6, <1>7, <1>8, <1>9, <1>10, <1>11, <1>12
  DEF RenderNext, AppStep, OutputStep

-----------------------------------------------------------------------------
\* Before the first Configure there is no buffer anywhere.
LEMMA RenderInitInv == RenderInit => RenderInv
<1> SUFFICES ASSUME RenderInit PROVE RenderInv
  OBVIOUS
<1>1. 0 \in Buffers
  BY QueueSizeAssumption DEF Buffers
<1>2. m_free \in Seq(Buffers) /\ m_queued \in Seq(Buffers) /\ m_discard \in Seq(Buffers)
  BY ShortSequences DEF RenderInit
<1> QED
  BY <1>1, <1>2 DEF RenderInit, RenderInv, RenderTypeOK, NothingQueued, FillsTheFirst

\* The inductive invariant of the render manager holds in every reachable state.
THEOREM RenderInvHolds == RenderSpec => []RenderInv
BY RenderInitInv, RenderInvIsInductive, PTL DEF RenderSpec

\* Once configured, each buffer is on the screen, free, queued or discarded, and
\* at one of these places only (CRenderManager::PrepareNextRender, FlipPage,
\* DiscardBuffer and FrameMove move them).
THEOREM BuffersAreInOnePlaceHolds == RenderSpec => []BuffersAreInOnePlace
<1>1. RenderInv => BuffersAreInOnePlace
  BY PlacesAreApart DEF RenderInv, BuffersAreInOnePlace, NothingQueued
<1> QED
  BY <1>1, RenderInvHolds, PTL

\* FlipPage queues the buffer that the video thread has filled, unless the queues
\* were reset in between, although AddVideoPicture gives the lock up before.
THEOREM ShowsWhatWasWrittenHolds == RenderSpec => ShowsWhatWasWritten
<1>1. RenderInv /\ [RenderNext]_renderVars =>
        [\A b \in Buffers :
           b \in ToSet(m_queued') \ ToSet(m_queued) => b = index \/ reset]_renderVars
  BY RenderInvIsInductive
<1> QED
  BY <1>1, RenderInvHolds, PTL DEF RenderSpec, ShowsWhatWasWritten

=============================================================================
