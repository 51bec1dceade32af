-------------------------- MODULE JobClientsProofs --------------------------
(***************************************************************************)
(* Theorems about the two clients of CJobManager that keep books of their  *)
(* own on its jobs: CGUILargeTextureManager (LargeTextureManager.tla) and  *)
(* CJobQueue (JobQueue.tla).                                               *)
(*                                                                         *)
(* Each theorem follows from an inductive invariant that relates the       *)
(* client's lists to the jobs the manager has: TextureInv and LoadInv for  *)
(* the texture manager, QueueInv for the queue.  Beneath them is           *)
(* ManagerInv, what JobManagerProofs shows of the manager, which any       *)
(* client whose steps are the manager's keeps.                             *)
(***************************************************************************)
EXTENDS JobQueue, LargeTextureManager, JobManagerProofs, SequenceFilterProofs

\* A set of natural numbers has a least one.
LEMMA MinOfNats ==
  ASSUME NEW I, I \subseteq Nat, I # {}
  PROVE  Min(I) \in I /\ \A k \in I : Min(I) <= k
<1>1. PICK n \in I : \A k \in I : ~ (<<k, n>> \in OpToRel(<, Nat))
  BY NatLessThanWellFounded, WFMin
<1>2. \A k \in I : n <= k
  <2>1. \A k \in I : ~ (k < n)
    BY <1>1 DEF OpToRel
  <2> QED
    BY <2>1
<1> QED
  BY <1>2 DEF Min

\* The place of a listed path.
LEMMA PlaceOfListed ==
  ASSUME NEW S, NEW list \in Seq(S), NEW path, IsListed(list, path)
  PROVE  Place(list, path) \in DOMAIN list /\ list[Place(list, path)].path = path
<1> DEFINE I == {i \in 1 .. Len(list) : list[i].path = path}
<1>1. I # {} /\ I \subseteq Nat
  BY DEF IsListed
<1>2. Place(list, path) = Min(I)
  BY <1>1 DEF Place, SelectInSeq
<1> HIDE DEF I
<1>3. Min(I) \in I
  BY <1>1, MinOfNats
<1> QED
  BY <1>2, <1>3 DEF I

\* The place of a queued id, or 0.
LEMMA PlaceOfQueued ==
  ASSUME m_queued \in Seq([id : 1 .. IdModulus - 1, path : Paths, refs : Nat \ {0}]), NEW id
  PROVE  /\ QueuedAt(id) # 0 <=> IsQueued(id)
         /\ IsQueued(id) => QueuedAt(id) \in DOMAIN m_queued /\ m_queued[QueuedAt(id)].id = id
<1> DEFINE I == {i \in 1 .. Len(m_queued) : m_queued[i].id = id}
<1>1. I \subseteq Nat /\ (I # {} <=> IsQueued(id))
  <2>1. DOMAIN m_queued = 1 .. Len(m_queued)
    BY LenProperties
  <2> QED
    BY <2>1 DEF IsQueued
<1>2. QueuedAt(id) = IF I # {} THEN Min(I) ELSE 0
  BY DEF QueuedAt, SelectInSeq
<1>3. \A i \in I : i \in DOMAIN m_queued /\ m_queued[i].id = id /\ i # 0
  OBVIOUS
<1> HIDE DEF I
<1>4. I # {} => Min(I) \in I
  BY <1>1, MinOfNats
<1> QED
  BY <1>1, <1>2, <1>3, <1>4

\* r is s without its element at i; old tells where each element was.
IsWithout(r, s, i, old) ==
  /\ old \in [DOMAIN r -> DOMAIN s \ {i}]
  /\ \A k \in DOMAIN r : r[k] = s[old[k]]
  /\ \A k, l \in DOMAIN r : old[k] = old[l] => k = l
  /\ \A l \in DOMAIN s \ {i} : \E k \in DOMAIN r : old[k] = l

\* What RemoveAt leaves: every element but one, each once.
LEMMA RemoveAtKeeps ==
  ASSUME NEW S, NEW s \in Seq(S), NEW i \in DOMAIN s, NEW r, r = RemoveAt(s, i)
  PROVE  r \in Seq(S) /\ \E old : IsWithout(r, s, i, old)
<1> DEFINE old == [k \in DOMAIN r |-> IF k < i THEN k ELSE k + 1]
<1>1. r = DropAt(s, i)
  BY DEF RemoveAt, DropAt
<1>2. /\ r \in Seq(S) /\ DOMAIN r = 1 .. Len(s) - 1
      /\ \A k \in DOMAIN r : r[k] = IF k < i THEN s[k] ELSE s[k + 1]
  BY <1>1, DropAtElements, DropAtType
<1>3. i \in 1 .. Len(s) /\ DOMAIN s = 1 .. Len(s) /\ Len(s) \in Nat
  OBVIOUS
<1>4. old \in [DOMAIN r -> DOMAIN s \ {i}]
  BY <1>2, <1>3
<1>5. \A k \in DOMAIN r : r[k] = s[old[k]]
  BY <1>2
<1>6. \A k, l \in DOMAIN r : old[k] = old[l] => k = l
  BY <1>2, <1>3
<1>7. ASSUME NEW l \in DOMAIN s \ {i} PROVE \E k \in DOMAIN r : old[k] = l
  <2>1. CASE l < i
    BY <2>1, <1>2, <1>3
  <2>2. CASE l > i
    <3>1. l - 1 \in DOMAIN r /\ ~(l - 1 < i) /\ l - 1 + 1 = l
      BY <2>2, <1>2, <1>3
    <3> QED
      BY <3>1
  <2> QED
    BY <2>1, <2>2, <1>3
<1> HIDE DEF old
<1>8. IsWithout(r, s, i, old)
  BY <1>4, <1>5, <1>6, <1>7 DEF IsWithout
<1> QED
  BY <1>2, <1>8

-----------------------------------------------------------------------------
\* The references of an image: finitely many controls hold it.
LEMMA HoldersAreFinite ==
  ASSUME NEW path
  PROVE  IsFiniteSet(Holders(path)) /\ Cardinality(Holders(path)) \in Nat
<1>1. Holders(path) \in SUBSET Controls
  BY DEF Holders
<1> QED
  BY <1>1, ControlsAssumption, FS_Subset, FS_CardinalityType DEF ControlsAssumption

\* A control that had no image asks for one, or one that has is told of it.
LEMMA HolderComes ==
  ASSUME TextureTypeOK, NEW c \in Controls, NEW v, v # "NO",
         m_isAllocated' = [m_isAllocated EXCEPT ![c] = v]
  PROVE  /\ Cardinality(Holders(Path[c])') = IF m_isAllocated[c] = "NO"
              THEN Cardinality(Holders(Path[c])) + 1 ELSE Cardinality(Holders(Path[c]))
         /\ \A path : path # Path[c] => Holders(path)' = Holders(path)
<1>1. m_isAllocated'[c] = v /\ \A d \in Controls \ {c} : m_isAllocated'[d] = m_isAllocated[d]
  BY DEF TextureTypeOK
<1>2. Holders(Path[c])' = Holders(Path[c]) \cup {c}
  BY <1>1 DEF Holders
<1>3. c \in Holders(Path[c]) <=> m_isAllocated[c] # "NO"
  BY DEF Holders
<1>4. \A path : path # Path[c] => Holders(path)' = Holders(path)
  BY <1>1 DEF Holders
<1>5. Cardinality(Holders(Path[c]) \cup {c}) = IF c \in Holders(Path[c])
        THEN Cardinality(Holders(Path[c])) ELSE Cardinality(Holders(Path[c])) + 1
  BY HoldersAreFinite, FS_AddElement
<1> QED
  BY <1>2, <1>3, <1>4, <1>5

\* A control gives its image up.
LEMMA HolderGoes ==
  ASSUME TextureTypeOK, NEW c \in Controls, m_isAllocated[c] # "NO",
         m_isAllocated' = [m_isAllocated EXCEPT ![c] = "NO"]
  PROVE  /\ Cardinality(Holders(Path[c])') = Cardinality(Holders(Path[c])) - 1
         /\ Cardinality(Holders(Path[c])) > 0
         /\ \A path : path # Path[c] => Holders(path)' = Holders(path)
<1>1. m_isAllocated'[c] = "NO" /\ \A d \in Controls \ {c} : m_isAllocated'[d] = m_isAllocated[d]
  BY DEF TextureTypeOK
<1>2. Holders(Path[c])' = Holders(Path[c]) \ {c} /\ c \in Holders(Path[c])
  BY <1>1 DEF Holders
<1>3. \A path : path # Path[c] => Holders(path)' = Holders(path)
  BY <1>1 DEF Holders
<1>4. Cardinality(Holders(Path[c]) \ {c}) = Cardinality(Holders(Path[c])) - 1
  BY <1>2, HoldersAreFinite, FS_RemoveElement
<1>5. Cardinality(Holders(Path[c])) # 0
  BY <1>2, HoldersAreFinite, FS_EmptySet
<1> QED
  BY <1>2, <1>3, <1>4, <1>5, HoldersAreFinite

-----------------------------------------------------------------------------
(***************************************************************************)
(* The inductive invariant of the two lists: an image is listed once, its  *)
(* references are the controls that hold it, and those find it.            *)
(***************************************************************************)
QueuedImages == [id : 1 .. IdModulus - 1, path : Paths, refs : Nat \ {0}]
AllocatedImages == [path : Paths, refs : Nat, loaded : BOOLEAN]

ImagesApart ==
  /\ \A i, k \in DOMAIN m_queued : m_queued[i].path = m_queued[k].path => i = k
  /\ \A i, k \in DOMAIN m_allocated : m_allocated[i].path = m_allocated[k].path => i = k
  /\ \A i \in DOMAIN m_queued, k \in DOMAIN m_allocated : m_queued[i].path # m_allocated[k].path

RefsAreHolders ==
  /\ \A i \in DOMAIN m_queued : m_queued[i].refs = Cardinality(Holders(m_queued[i].path))
  /\ \A i \in DOMAIN m_allocated :
       m_allocated[i].refs = Cardinality(Holders(m_allocated[i].path))

HoldersAreListed ==
  \A c \in Controls : m_isAllocated[c] # "NO" =>
    IsListed(m_queued, Path[c]) \/ IsListed(m_allocated, Path[c])

ShownAreLoaded ==
  \A c \in Controls : m_isAllocated[c] = "SHOWN" =>
    \E i \in DOMAIN m_allocated : m_allocated[i].path = Path[c] /\ m_allocated[i].loaded

TextureInv ==
  /\ TextureTypeOK
  /\ ImagesApart
  /\ RefsAreHolders
  /\ HoldersAreListed
  /\ ShownAreLoaded

\* Only the counter of one loaded image changes.
LEMMA AllocatedRefs ==
  ASSUME m_allocated \in Seq(AllocatedImages), NEW i \in DOMAIN m_allocated, NEW r \in Nat,
         m_allocated' = [m_allocated EXCEPT ![i].refs = r]
  PROVE  /\ m_allocated' \in Seq(AllocatedImages)
         /\ DOMAIN m_allocated' = DOMAIN m_allocated
         /\ \A k \in DOMAIN m_allocated :
              /\ m_allocated'[k].path = m_allocated[k].path
              /\ m_allocated'[k].loaded = m_allocated[k].loaded
              /\ m_allocated'[k].refs = IF k = i THEN r ELSE m_allocated[k].refs
<1>1. \A k \in DOMAIN m_allocated : m_allocated[k] \in AllocatedImages
  BY ElementOfSeq, LenProperties
<1>2. DOMAIN m_allocated' = DOMAIN m_allocated /\ m_allocated' = [k \in DOMAIN m_allocated |->
        IF k = i THEN [m_allocated[i] EXCEPT !.refs = r] ELSE m_allocated[k]]
  OBVIOUS
<1>3. /\ [m_allocated[i] EXCEPT !.refs = r] \in AllocatedImages
      /\ [m_allocated[i] EXCEPT !.refs = r].path = m_allocated[i].path
      /\ [m_allocated[i] EXCEPT !.refs = r].loaded = m_allocated[i].loaded
      /\ [m_allocated[i] EXCEPT !.refs = r].refs = r
  BY <1>1 DEF AllocatedImages
<1>4. \A k \in DOMAIN m_allocated : m_allocated'[k] \in AllocatedImages
  BY <1>1, <1>2, <1>3
<1>5. m_allocated' \in Seq(AllocatedImages)
  BY <1>2, <1>4, SeqDef, LenProperties
<1> QED
  BY <1>2, <1>3, <1>5

\* Only the counter of one queued image changes.
LEMMA QueuedRefs ==
  ASSUME m_queued \in Seq(QueuedImages), NEW i \in DOMAIN m_queued, NEW r \in Nat \ {0},
         m_queued' = [m_queued EXCEPT ![i].refs = r]
  PROVE  /\ m_queued' \in Seq(QueuedImages)
         /\ DOMAIN m_queued' = DOMAIN m_queued
         /\ \A k \in DOMAIN m_queued :
              /\ m_queued'[k].path = m_queued[k].path
              /\ m_queued'[k].id = m_queued[k].id
              /\ m_queued'[k].refs = IF k = i THEN r ELSE m_queued[k].refs
<1>1. \A k \in DOMAIN m_queued : m_queued[k] \in QueuedImages
  BY ElementOfSeq, LenProperties
<1>2. DOMAIN m_queued' = DOMAIN m_queued /\ m_queued' = [k \in DOMAIN m_queued |->
        IF k = i THEN [m_queued[i] EXCEPT !.refs = r] ELSE m_queued[k]]
  OBVIOUS
<1>3. /\ [m_queued[i] EXCEPT !.refs = r] \in QueuedImages
      /\ [m_queued[i] EXCEPT !.refs = r].path = m_queued[i].path
      /\ [m_queued[i] EXCEPT !.refs = r].id = m_queued[i].id
      /\ [m_queued[i] EXCEPT !.refs = r].refs = r
  BY <1>1 DEF QueuedImages
<1>4. \A k \in DOMAIN m_queued : m_queued'[k] \in QueuedImages
  BY <1>1, <1>2, <1>3
<1>5. m_queued' \in Seq(QueuedImages)
  BY <1>2, <1>4, SeqDef, LenProperties
<1> QED
  BY <1>2, <1>3, <1>5

\* Every control's path is one of Paths.
LEMMA PathOfControl == \A c \in Controls : Path[c] \in Paths
BY DEF Paths

\* What the types say of the elements of the lists.
LEMMA TextureTypes ==
  ASSUME TextureTypeOK
  PROVE  /\ m_queued \in Seq(QueuedImages)
         /\ \A i \in DOMAIN m_queued : m_queued[i] \in QueuedImages
         /\ m_allocated \in Seq(AllocatedImages)
         /\ \A i \in DOMAIN m_allocated : m_allocated[i] \in AllocatedImages
<1>1. m_queued \in Seq(QueuedImages) /\ m_allocated \in Seq(AllocatedImages)
  BY DEF TextureTypeOK, QueuedImages, AllocatedImages
<1> QED
  BY <1>1, ElementOfSeq, LenProperties

\* A control finds its image loaded.
LEMMA GetAllocatedImageKeeps ==
  ASSUME TextureInv, NEW c \in Controls, GetAllocatedImage(c)
  PROVE  TextureInv'
<1> USE DEF TextureInv
<1>1. PICK i \in DOMAIN m_allocated : i = Place(m_allocated, Path[c]) /\ m_allocated[i].path = Path[c]
  BY PlaceOfListed, TextureTypes DEF GetAllocatedImage
<1>2. PICK r \in Nat : r = IF m_isAllocated[c] = "NO" THEN m_allocated[i].refs + 1 ELSE m_allocated[i].refs
  BY TextureTypes DEF AllocatedImages
<1>3. PICK v \in {"SHOWN", "LARGE_FAILED"} :
        /\ v = IF m_allocated[i].loaded THEN "SHOWN" ELSE "LARGE_FAILED"
        /\ m_isAllocated' = [m_isAllocated EXCEPT ![c] = v]
  BY <1>1 DEF GetAllocatedImage
<1>4. m_allocated' = [m_allocated EXCEPT ![i].refs = r] /\ m_queued' = m_queued
  BY <1>1, <1>2 DEF GetAllocatedImage
<1>5. /\ m_allocated' \in Seq(AllocatedImages)
      /\ DOMAIN m_allocated' = DOMAIN m_allocated
      /\ \A k \in DOMAIN m_allocated :
           /\ m_allocated'[k].path = m_allocated[k].path
           /\ m_allocated'[k].loaded = m_allocated[k].loaded
           /\ m_allocated'[k].refs = IF k = i THEN r ELSE m_allocated[k].refs
  BY <1>4, AllocatedRefs, TextureTypes
<1>6. TextureTypeOK'
  BY <1>3, <1>4, <1>5 DEF TextureTypeOK, AllocatedImages
<1>7. ImagesApart'
  BY <1>4, <1>5 DEF ImagesApart
<1>8. /\ Cardinality(Holders(Path[c])') = r
      /\ \A path : path # Path[c] => Holders(path)' = Holders(path)
  BY <1>1, <1>2, <1>3, HolderComes DEF RefsAreHolders
<1>9. RefsAreHolders'
  BY <1>1, <1>4, <1>5, <1>8 DEF RefsAreHolders, ImagesApart
<1>10. /\ m_isAllocated'[c] = v
       /\ \A d \in Controls \ {c} : m_isAllocated'[d] = m_isAllocated[d]
  BY <1>3 DEF TextureTypeOK
<1>11. HoldersAreListed'
  BY <1>1, <1>4, <1>5, <1>10 DEF HoldersAreListed, IsListed
<1>12. ShownAreLoaded'
  <2> SUFFICES ASSUME NEW d \in Controls, m_isAllocated'[d] = "SHOWN"
               PROVE  \E k \in DOMAIN m_allocated' : m_allocated'[k].path = Path[d] /\ m_allocated'[k].loaded
    BY DEF ShownAreLoaded
  <2>1. \E k \in DOMAIN m_allocated : m_allocated[k].path = Path[d] /\ m_allocated[k].loaded
    BY <1>1, <1>3, <1>10 DEF ShownAreLoaded
  <2> QED
    BY <2>1, <1>5
<1> QED
  BY <1>6, <1>7, <1>9, <1>11, <1>12

\* Another control asked for the image before.
LEMMA GetQueuedImageKeeps ==
  ASSUME TextureInv, NEW c \in Controls, GetQueuedImage(c)
  PROVE  TextureInv'
<1> USE DEF TextureInv
<1>1. PICK i \in DOMAIN m_queued : i = Place(m_queued, Path[c]) /\ m_queued[i].path = Path[c]
  BY PlaceOfListed, TextureTypes DEF GetQueuedImage
<1>2. PICK r \in Nat \ {0} : r = m_queued[i].refs + 1
  BY TextureTypes DEF QueuedImages
<1>3. /\ m_queued' = [m_queued EXCEPT ![i].refs = r] /\ m_allocated' = m_allocated
      /\ m_isAllocated' = [m_isAllocated EXCEPT ![c] = "LARGE"]
      /\ m_isAllocated[c] = "NO"
  BY <1>1, <1>2 DEF GetQueuedImage
<1>4. /\ m_queued' \in Seq(QueuedImages)
      /\ DOMAIN m_queued' = DOMAIN m_queued
      /\ \A k \in DOMAIN m_queued :
           /\ m_queued'[k].path = m_queued[k].path
           /\ m_queued'[k].refs = IF k = i THEN r ELSE m_queued[k].refs
  BY <1>3, QueuedRefs, TextureTypes
<1>5. TextureTypeOK'
  BY <1>3, <1>4 DEF TextureTypeOK, QueuedImages
<1>6. ImagesApart'
  BY <1>3, <1>4 DEF ImagesApart
<1>7. /\ Cardinality(Holders(Path[c])') = r
      /\ \A path : path # Path[c] => Holders(path)' = Holders(path)
  BY <1>1, <1>2, <1>3, HolderComes DEF RefsAreHolders
<1>8. RefsAreHolders'
  BY <1>1, <1>3, <1>4, <1>7 DEF RefsAreHolders, ImagesApart
<1>9. /\ m_isAllocated'[c] = "LARGE"
      /\ \A d \in Controls \ {c} : m_isAllocated'[d] = m_isAllocated[d]
  BY <1>3 DEF TextureTypeOK
<1>10. HoldersAreListed' /\ ShownAreLoaded'
  BY <1>1, <1>3, <1>4, <1>9 DEF HoldersAreListed, IsListed, ShownAreLoaded
<1> QED
  BY <1>5, <1>6, <1>8, <1>10

\* A first control asks for the image, and holds its only reference.
LEMMA QueueImageKeeps ==
  ASSUME TextureInv, TypeOK, NEW c \in Controls, QueueImage(c)
  PROVE  TextureInv'
<1> USE DEF TextureInv
<1> DEFINE image == [id |-> NextId, path |-> Path[c], refs |-> 1]
<1>1. /\ m_queued' = Append(m_queued, image) /\ m_allocated' = m_allocated
      /\ m_isAllocated' = [m_isAllocated EXCEPT ![c] = "LARGE"]
      /\ m_isAllocated[c] = "NO"
      /\ ~IsListed(m_allocated, Path[c]) /\ ~IsListed(m_queued, Path[c])
  BY DEF QueueImage
<1>2. image \in QueuedImages /\ image.path = Path[c] /\ image.refs = 1
  BY NextIdIsValid, PathOfControl DEF TypeOK, QueuedImages
<1> HIDE DEF image
<1>3. /\ m_queued' \in Seq(QueuedImages)
      /\ \A k \in DOMAIN m_queued : k \in DOMAIN m_queued' /\ m_queued'[k] = m_queued[k]
      /\ \A k \in DOMAIN m_queued' : k \notin DOMAIN m_queued =>
           k = Len(m_queued) + 1 /\ m_queued'[k] = image
      /\ Len(m_queued) + 1 \in DOMAIN m_queued' /\ m_queued'[Len(m_queued) + 1] = image
  BY <1>1, <1>2, TextureTypes
<1>4. TextureTypeOK'
  BY <1>1, <1>3 DEF TextureTypeOK, QueuedImages
<1>5. ImagesApart'
  BY <1>1, <1>2, <1>3 DEF ImagesApart, IsListed
<1>6. /\ Cardinality(Holders(Path[c])') = 1
      /\ \A path : path # Path[c] => Holders(path)' = Holders(path)
  <2>1. Holders(Path[c]) = {}
    BY <1>1 DEF HoldersAreListed, Holders, IsListed
  <2>2. Cardinality(Holders(Path[c])) = 0
    BY <2>1, FS_EmptySet
  <2>3. /\ Cardinality(Holders(Path[c])') = Cardinality(Holders(Path[c])) + 1
        /\ \A path : path # Path[c] => Holders(path)' = Holders(path)
    BY <1>1, HolderComes
  <2> QED
    BY <2>2, <2>3
<1>7. RefsAreHolders'
  BY <1>1, <1>2, <1>3, <1>6 DEF RefsAreHolders, IsListed
<1>8. /\ m_isAllocated'[c] = "LARGE"
      /\ \A d \in Controls \ {c} : m_isAllocated'[d] = m_isAllocated[d]
  BY <1>1 DEF TextureTypeOK
<1>9. HoldersAreListed' /\ ShownAreLoaded'
  BY <1>1, <1>2, <1>3, <1>8 DEF HoldersAreListed, IsListed, ShownAreLoaded
<1> QED
  BY <1>4, <1>5, <1>7, <1>9

-----------------------------------------------------------------------------
\* Nobody holds an image any more when its last holder has gone.
LEMMA NoHolders ==
  ASSUME NEW path, Cardinality(Holders(path)) = 0
  PROVE  \A c \in Controls : Path[c] = path => m_isAllocated[c] = "NO"
<1>1. Holders(path) = {}
  BY HoldersAreFinite, FS_EmptySet
<1> QED
  BY <1>1 DEF Holders

\* A control releases an image that is loaded.
LEMMA ReleaseAllocatedImageKeeps ==
  ASSUME TextureInv, NEW c \in Controls, NEW immediately \in BOOLEAN,
         ReleaseAllocatedImage(c, immediately)
  PROVE  TextureInv'
<1> USE DEF TextureInv
<1>1. PICK i \in DOMAIN m_allocated : i = Place(m_allocated, Path[c]) /\ m_allocated[i].path = Path[c]
  BY PlaceOfListed, TextureTypes DEF ReleaseAllocatedImage
<1>2. /\ m_isAllocated[c] # "NO" /\ m_queued' = m_queued
      /\ m_isAllocated' = [m_isAllocated EXCEPT ![c] = "NO"]
  BY DEF ReleaseAllocatedImage
<1>3. /\ Cardinality(Holders(Path[c])') = m_allocated[i].refs - 1
      /\ m_allocated[i].refs > 0
      /\ \A path : path # Path[c] => Holders(path)' = Holders(path)
  BY <1>1, <1>2, HolderGoes DEF RefsAreHolders
<1>4. /\ m_isAllocated'[c] = "NO"
      /\ \A d \in Controls \ {c} : m_isAllocated'[d] = m_isAllocated[d]
      /\ m_isAllocated' \in [Controls -> {"NO", "LARGE", "SHOWN", "LARGE_FAILED"}]
  BY <1>2 DEF TextureTypeOK
<1>5. \A k \in DOMAIN m_queued : m_queued[k].path # Path[c]
  BY <1>1 DEF ImagesApart
<1>6. CASE m_allocated' = [m_allocated EXCEPT ![i].refs = @ - 1]
  <2>1. PICK r \in Nat : r = m_allocated[i].refs - 1
    BY <1>3, TextureTypes DEF AllocatedImages
  <2>2. m_allocated' = [m_allocated EXCEPT ![i].refs = r]
    BY <1>6, <2>1
  <2>3. /\ m_allocated' \in Seq(AllocatedImages)
        /\ DOMAIN m_allocated' = DOMAIN m_allocated
        /\ \A k \in DOMAIN m_allocated :
             /\ m_allocated'[k].path = m_allocated[k].path
             /\ m_allocated'[k].loaded = m_allocated[k].loaded
             /\ m_allocated'[k].refs = IF k = i THEN r ELSE m_allocated[k].refs
    BY <2>2, AllocatedRefs, TextureTypes
  <2>4. TextureTypeOK'
    BY <1>2, <1>4, <2>3 DEF TextureTypeOK, AllocatedImages
  <2>5. ImagesApart'
    BY <1>2, <2>3 DEF ImagesApart
  <2>6. RefsAreHolders'
    BY <1>1, <1>2, <1>3, <1>5, <2>1, <2>3 DEF RefsAreHolders, ImagesApart
  <2>7. HoldersAreListed' /\ ShownAreLoaded'
    BY <1>2, <1>4, <2>3 DEF HoldersAreListed, IsListed, ShownAreLoaded
  <2> QED
    BY <2>4, <2>5, <2>6, <2>7
<1>7. CASE m_allocated[i].refs = 1 /\ m_allocated' = RemoveAt(m_allocated, i)
  <2>0. m_allocated \in Seq(AllocatedImages)
    BY TextureTypes
  <2>1. PICK old : IsWithout(m_allocated', m_allocated, i, old)
    BY <1>7, <2>0, RemoveAtKeeps
  <2>2. m_allocated' \in Seq(AllocatedImages)
    BY <1>7, <2>0, RemoveAtKeeps
  <2>3. TextureTypeOK'
    BY <1>2, <1>4, <2>2 DEF TextureTypeOK, AllocatedImages
  <2>4. ImagesApart'
    BY <1>2, <2>1 DEF ImagesApart, IsWithout
  <2>5. \A k \in DOMAIN m_allocated' : m_allocated'[k].path # Path[c]
    BY <1>1, <2>1 DEF ImagesApart, IsWithout
  <2>6. RefsAreHolders'
    BY <1>2, <1>3, <1>5, <2>1, <2>5 DEF RefsAreHolders, IsWithout
  <2>7. \A d \in Controls : Path[d] = Path[c] => m_isAllocated'[d] = "NO"
    <3>1. Cardinality(Holders(Path[c])') = 0
      BY <1>3, <1>7
    <3>2. Holders(Path[c])' \in SUBSET Controls
      BY DEF Holders
    <3>3. IsFiniteSet(Holders(Path[c])')
      BY <3>2, ControlsAssumption, FS_Subset DEF ControlsAssumption
    <3>4. Holders(Path[c])' = {}
      BY <3>1, <3>3, FS_EmptySet
    <3> QED
      BY <3>4 DEF Holders
  <2>8. \A l \in DOMAIN m_allocated \ {i} : \E k \in DOMAIN m_allocated' : m_allocated'[k] = m_allocated[l]
    BY <2>1 DEF IsWithout
  <2>9. HoldersAreListed'
    BY <1>1, <1>2, <1>4, <2>7, <2>8 DEF HoldersAreListed, IsListed
  <2>10. ShownAreLoaded'
    BY <1>1, <1>2, <1>4, <2>7, <2>8 DEF ShownAreLoaded
  <2> QED
    BY <2>3, <2>4, <2>6, <2>9, <2>10
<1> QED
  BY <1>1, <1>6, <1>7 DEF ReleaseAllocatedImage

\* A control releases an image that is being loaded.
LEMMA ReleaseQueuedImageKeeps ==
  ASSUME TextureInv, NEW c \in Controls, ReleaseQueuedImage(c)
  PROVE  TextureInv'
<1> USE DEF TextureInv
<1>1. PICK i \in DOMAIN m_queued : i = Place(m_queued, Path[c]) /\ m_queued[i].path = Path[c]
  BY PlaceOfListed, TextureTypes DEF ReleaseQueuedImage
<1>2. /\ m_isAllocated[c] # "NO" /\ m_allocated' = m_allocated
      /\ m_isAllocated' = [m_isAllocated EXCEPT ![c] = "NO"]
  BY DEF ReleaseQueuedImage
<1>3. /\ Cardinality(Holders(Path[c])') = m_queued[i].refs - 1
      /\ m_queued[i].refs > 0
      /\ \A path : path # Path[c] => Holders(path)' = Holders(path)
  BY <1>1, <1>2, HolderGoes DEF RefsAreHolders
<1>4. /\ m_isAllocated'[c] = "NO"
      /\ \A d \in Controls \ {c} : m_isAllocated'[d] = m_isAllocated[d]
      /\ m_isAllocated' \in [Controls -> {"NO", "LARGE", "SHOWN", "LARGE_FAILED"}]
  BY <1>2 DEF TextureTypeOK
<1>5. \A k \in DOMAIN m_allocated : m_allocated[k].path # Path[c]
  BY <1>1 DEF ImagesApart
<1>6. CASE m_queued[i].refs > 1 /\ m_queued' = [m_queued EXCEPT ![i].refs = @ - 1]
  <2>1. PICK r \in Nat \ {0} : r = m_queued[i].refs - 1
    BY <1>6, TextureTypes DEF QueuedImages
  <2>2. m_queued' = [m_queued EXCEPT ![i].refs = r]
    BY <1>6, <2>1
  <2>3. /\ m_queued' \in Seq(QueuedImages)
        /\ DOMAIN m_queued' = DOMAIN m_queued
        /\ \A k \in DOMAIN m_queued :
             /\ m_queued'[k].path = m_queued[k].path
             /\ m_queued'[k].refs = IF k = i THEN r ELSE m_queued[k].refs
    BY <2>2, QueuedRefs, TextureTypes
  <2>4. TextureTypeOK'
    BY <1>2, <1>4, <2>3 DEF TextureTypeOK, QueuedImages
  <2>5. ImagesApart'
    BY <1>2, <2>3 DEF ImagesApart
  <2>6. RefsAreHolders'
    BY <1>1, <1>2, <1>3, <1>5, <2>1, <2>3 DEF RefsAreHolders, ImagesApart
  <2>7. HoldersAreListed' /\ ShownAreLoaded'
    BY <1>2, <1>4, <2>3 DEF HoldersAreListed, IsListed, ShownAreLoaded
  <2> QED
    BY <2>4, <2>5, <2>6, <2>7
<1>7. CASE m_queued[i].refs = 1 /\ m_queued' = RemoveAt(m_queued, i)
  <2>0. m_queued \in Seq(QueuedImages)
    BY TextureTypes
  <2>1. PICK old : IsWithout(m_queued', m_queued, i, old)
    BY <1>7, <2>0, RemoveAtKeeps
  <2>2. m_queued' \in Seq(QueuedImages)
    BY <1>7, <2>0, RemoveAtKeeps
  <2>3. TextureTypeOK'
    BY <1>2, <1>4, <2>2 DEF TextureTypeOK, QueuedImages
  <2>4. ImagesApart'
    BY <1>2, <2>1 DEF ImagesApart, IsWithout
  <2>5. \A k \in DOMAIN m_queued' : m_queued'[k].path # Path[c]
    BY <1>1, <2>1 DEF ImagesApart, IsWithout
  <2>6. RefsAreHolders'
    BY <1>2, <1>3, <1>5, <2>1, <2>5 DEF RefsAreHolders, IsWithout
  <2>7. \A d \in Controls : Path[d] = Path[c] => m_isAllocated'[d] = "NO"
    <3>1. Cardinality(Holders(Path[c])') = 0
      BY <1>3, <1>7
    <3>2. Holders(Path[c])' \in SUBSET Controls
      BY DEF Holders
    <3>3. IsFiniteSet(Holders(Path[c])')
      BY <3>2, ControlsAssumption, FS_Subset DEF ControlsAssumption
    <3>4. Holders(Path[c])' = {}
      BY <3>1, <3>3, FS_EmptySet
    <3> QED
      BY <3>4 DEF Holders
  <2>8. \A l \in DOMAIN m_queued \ {i} : \E k \in DOMAIN m_queued' : m_queued'[k] = m_queued[l]
    BY <2>1 DEF IsWithout
  <2>9. HoldersAreListed'
    BY <1>1, <1>2, <1>4, <2>7, <2>8 DEF HoldersAreListed, IsListed
  <2>10. ShownAreLoaded'
    BY <1>2, <1>4 DEF ShownAreLoaded
  <2> QED
    BY <2>3, <2>4, <2>6, <2>9, <2>10
<1> QED
  BY <1>1, <1>6, <1>7 DEF ReleaseQueuedImage

\* The elements a filter leaves, each where it was in the list before.
LEMMA SelectInKeeps ==
  ASSUME NEW S, NEW s \in Seq(S), NEW K, \A k, l \in DOMAIN s : s[k] = s[l] => k = l
  PROVE  /\ SelectIn(s, K) \in Seq(S)
         /\ \A k \in DOMAIN SelectIn(s, K) : SelectIn(s, K)[k] \in K
         /\ \A k \in DOMAIN SelectIn(s, K) : \E l \in DOMAIN s : SelectIn(s, K)[k] = s[l]
         /\ \A k, l \in DOMAIN SelectIn(s, K) : SelectIn(s, K)[k] = SelectIn(s, K)[l] => k = l
         /\ \A l \in DOMAIN s : s[l] \in K => \E k \in DOMAIN SelectIn(s, K) : SelectIn(s, K)[k] = s[l]
<1> DEFINE t == SelectIn(s, K)
<1>1. IsInjective(s)
  BY DEF IsInjective
<1>2. t \in Seq(S) /\ ToSet(t) = ToSet(s) \cap K /\ IsInjective(t)
  BY <1>1, SelectInType, SelectInToSet, SelectInInjective
<1> HIDE DEF t
<1>3. \A k \in DOMAIN t : t[k] \in K /\ \E l \in DOMAIN s : t[k] = s[l]
  BY <1>2 DEF ToSet
<1>4. \A l \in DOMAIN s : s[l] \in K => \E k \in DOMAIN t : t[k] = s[l]
  BY <1>2 DEF ToSet
<1>5. \A k, l \in DOMAIN t : t[k] = t[l] => k = l
  BY <1>2 DEF IsInjective
<1> QED
  BY <1>2, <1>3, <1>4, <1>5 DEF t

\* Unreferenced images go.
LEMMA CleanupUnusedImagesKeeps ==
  ASSUME TextureInv, CleanupUnusedImages
  PROVE  TextureInv'
<1> USE DEF TextureInv
<1>1. PICK due \in SUBSET {m_allocated[i].path : i \in DOMAIN m_allocated} :
        m_allocated' = SelectIn(m_allocated,
          {image \in ToSet(m_allocated) : image.refs > 0 \/ image.path \notin due})
  BY DEF CleanupUnusedImages
<1> DEFINE K == {image \in ToSet(m_allocated) : image.refs > 0 \/ image.path \notin due}
<1>2. m_queued' = m_queued /\ m_isAllocated' = m_isAllocated
  BY DEF CleanupUnusedImages
<1>3. \A l \in DOMAIN m_allocated : m_allocated[l].refs > 0 => m_allocated[l] \in K
  BY DEF ToSet
<1>4. \A k, l \in DOMAIN m_allocated : m_allocated[k] = m_allocated[l] => k = l
  BY DEF ImagesApart
<1> HIDE DEF K
<1>5. /\ m_allocated' \in Seq(AllocatedImages)
      /\ \A k \in DOMAIN m_allocated' : \E l \in DOMAIN m_allocated : m_allocated'[k] = m_allocated[l]
      /\ \A k, l \in DOMAIN m_allocated' : m_allocated'[k] = m_allocated'[l] => k = l
      /\ \A l \in DOMAIN m_allocated : m_allocated[l] \in K =>
           \E k \in DOMAIN m_allocated' : m_allocated'[k] = m_allocated[l]
  <2>1. m_allocated' = SelectIn(m_allocated, K)
    BY <1>1 DEF K
  <2> QED
    BY <2>1, <1>4, SelectInKeeps, TextureTypes
<1>6. TextureTypeOK'
  BY <1>2, <1>5 DEF TextureTypeOK, AllocatedImages
<1>7. ImagesApart'
  <2>1. \A k, l \in DOMAIN m_allocated' : m_allocated'[k].path = m_allocated'[l].path => k = l
    <3> SUFFICES ASSUME NEW k \in DOMAIN m_allocated', NEW l \in DOMAIN m_allocated',
                        m_allocated'[k].path = m_allocated'[l].path
                 PROVE  k = l
      OBVIOUS
    <3>1. PICK m \in DOMAIN m_allocated : m_allocated'[k] = m_allocated[m]
      BY <1>5
    <3>2. PICK n \in DOMAIN m_allocated : m_allocated'[l] = m_allocated[n]
      BY <1>5
    <3>3. m = n
      BY <3>1, <3>2 DEF ImagesApart
    <3> QED
      BY <1>5, <3>1, <3>2, <3>3
  <2>2. \A k \in DOMAIN m_queued, l \in DOMAIN m_allocated' : m_queued[k].path # m_allocated'[l].path
    BY <1>5 DEF ImagesApart
  <2> QED
    BY <1>2, <2>1, <2>2 DEF ImagesApart
<1>8. \A path : Holders(path)' = Holders(path)
  BY <1>2 DEF Holders
<1>9. RefsAreHolders'
  BY <1>2, <1>5, <1>8 DEF RefsAreHolders
<1>10. \A c \in Controls, l \in DOMAIN m_allocated :
         m_isAllocated[c] # "NO" /\ m_allocated[l].path = Path[c] => m_allocated[l] \in K
  <2> SUFFICES ASSUME NEW c \in Controls, NEW l \in DOMAIN m_allocated,
                      m_isAllocated[c] # "NO", m_allocated[l].path = Path[c]
               PROVE  m_allocated[l].refs > 0
    BY <1>3
  <2>1. Cardinality(Holders(Path[c])) # 0
    BY NoHolders
  <2>2. m_allocated[l].refs = Cardinality(Holders(Path[c]))
    BY DEF RefsAreHolders
  <2> QED
    BY <2>1, <2>2, HoldersAreFinite
<1>11. HoldersAreListed'
  BY <1>2, <1>5, <1>10 DEF HoldersAreListed, IsListed
<1>12. ShownAreLoaded'
  BY <1>2, <1>5, <1>10 DEF ShownAreLoaded
<1> QED
  BY <1>6, <1>7, <1>9, <1>11, <1>12

\* The image of a completed job moves to the other list.
LEMMA ImageLoadedKeeps ==
  ASSUME TextureInv, NEW id, ImageLoaded(id), UNCHANGED m_isAllocated
  PROVE  /\ TextureInv'
         /\ \E i \in DOMAIN m_queued : m_queued[i].id = id /\ m_queued' = RemoveAt(m_queued, i)
<1> USE DEF TextureInv
<1>1. PICK i \in DOMAIN m_queued : i = QueuedAt(id) /\ m_queued[i].id = id
  BY PlaceOfQueued DEF ImageLoaded, TextureTypeOK
<1>2. PICK loaded \in BOOLEAN : m_allocated' = Append(m_allocated,
        [path |-> m_queued[i].path, refs |-> m_queued[i].refs, loaded |-> loaded])
  BY <1>1 DEF ImageLoaded
<1> DEFINE image == [path |-> m_queued[i].path, refs |-> m_queued[i].refs, loaded |-> loaded]
<1>3. m_queued' = RemoveAt(m_queued, i) /\ m_isAllocated' = m_isAllocated
  BY <1>1 DEF ImageLoaded
<1>4. m_queued[i] \in QueuedImages
  BY TextureTypes
<1>5. image \in AllocatedImages /\ image.path = m_queued[i].path /\ image.refs = m_queued[i].refs
  BY <1>4 DEF QueuedImages, AllocatedImages
<1> HIDE DEF image
<1>6. /\ m_allocated' \in Seq(AllocatedImages)
      /\ \A k \in DOMAIN m_allocated : k \in DOMAIN m_allocated' /\ m_allocated'[k] = m_allocated[k]
      /\ \A k \in DOMAIN m_allocated' : k \notin DOMAIN m_allocated =>
           k = Len(m_allocated) + 1 /\ m_allocated'[k] = image
      /\ Len(m_allocated) + 1 \in DOMAIN m_allocated' /\ m_allocated'[Len(m_allocated) + 1] = image
  <2>1. m_allocated' = Append(m_allocated, image)
    BY <1>2 DEF image
  <2> QED
    BY <2>1, <1>5, TextureTypes
<1>0. m_queued \in Seq(QueuedImages)
  BY TextureTypes
<1>7. PICK old : IsWithout(m_queued', m_queued, i, old)
  BY <1>3, <1>0, RemoveAtKeeps
<1>8. m_queued' \in Seq(QueuedImages)
  BY <1>3, <1>0, RemoveAtKeeps
<1>9. TextureTypeOK'
  BY <1>3, <1>6, <1>8 DEF TextureTypeOK, AllocatedImages, QueuedImages
<1>10. ImagesApart'
  <2>1. \A k, l \in DOMAIN m_queued' : m_queued'[k].path = m_queued'[l].path => k = l
    BY <1>7 DEF ImagesApart, IsWithout
  <2>2. \A k, l \in DOMAIN m_allocated' : m_allocated'[k].path = m_allocated'[l].path => k = l
    BY <1>5, <1>6 DEF ImagesApart
  <2>3. \A k \in DOMAIN m_queued', l \in DOMAIN m_allocated' : m_queued'[k].path # m_allocated'[l].path
    BY <1>5, <1>6, <1>7 DEF ImagesApart, IsWithout
  <2> QED
    BY <2>1, <2>2, <2>3 DEF ImagesApart
<1>11. \A path : Holders(path)' = Holders(path)
  BY <1>3 DEF Holders
<1>12. RefsAreHolders'
  BY <1>5, <1>6, <1>7, <1>11 DEF RefsAreHolders, IsWithout
<1>13. HoldersAreListed'
  <2> SUFFICES ASSUME NEW c \in Controls, m_isAllocated[c] # "NO"
               PROVE  IsListed(m_queued, Path[c])' \/ IsListed(m_allocated, Path[c])'
    BY <1>3 DEF HoldersAreListed
  <2>1. CASE m_queued[i].path = Path[c]
    BY <2>1, <1>5, <1>6 DEF IsListed
  <2>2. CASE IsListed(m_allocated, Path[c])
    BY <2>2, <1>6 DEF IsListed
  <2>3. ASSUME NEW l \in DOMAIN m_queued \ {i}, m_queued[l].path = Path[c]
        PROVE  IsListed(m_queued, Path[c])'
    BY <2>3, <1>7 DEF IsListed, IsWithout
  <2> QED
    BY <2>1, <2>2, <2>3 DEF HoldersAreListed, IsListed
<1>14. ShownAreLoaded'
  BY <1>3, <1>6 DEF ShownAreLoaded
<1> QED
  BY <1>1, <1>3, <1>9, <1>10, <1>12, <1>13, <1>14

-----------------------------------------------------------------------------
\* u has the elements of s, then those of t.
IsJoined(u, s, t) ==
  /\ DOMAIN u = 1 .. Len(s) + Len(t)
  /\ \A i \in 1 .. Len(s) : u[i] = s[i]
  /\ \A i \in 1 .. Len(t) : u[Len(s) + i] = t[i]

\* The elements of one sequence after another.
LEMMA ConcatElements ==
  ASSUME NEW S, NEW s \in Seq(S), NEW t \in Seq(S), NEW u, u = s \o t
  PROVE  IsJoined(u, s, t)
<1>1. Len(s) \in Nat /\ Len(t) \in Nat
  BY LenProperties
<1>2. /\ u \in Seq(S) /\ Len(u) = Len(s) + Len(t)
      /\ \A i \in 1 .. Len(s) + Len(t) : u[i] = IF i <= Len(s) THEN s[i] ELSE t[i - Len(s)]
  BY ConcatProperties
<1>3. DOMAIN u = 1 .. Len(s) + Len(t)
  BY <1>2, LenProperties
<1>4. \A i \in 1 .. Len(t) :
        Len(s) + i \in 1 .. Len(s) + Len(t) /\ ~(Len(s) + i <= Len(s)) /\ Len(s) + i - Len(s) = i
  BY <1>1
<1> QED
  BY <1>1, <1>2, <1>3, <1>4 DEF IsJoined

\* Nothing of the manager's own disturbs the two lists.
LEMMA TextureUnchanged ==
  ASSUME TextureInv, UNCHANGED textureVars
  PROVE  TextureInv'
BY DEF textureVars, TextureInv, TextureTypeOK, ImagesApart, RefsAreHolders,
       HoldersAreListed, ShownAreLoaded, IsListed, Holders

\* The worker's call of OnJobComplete.
LEMMA TextureOnJobCompleteKeeps ==
  ASSUME TextureInv, NEW w \in Workers, TextureOnJobComplete(w)
  PROVE  TextureInv'
<1>1. CASE ImageLoaded(jobId[wjob[w]])
  BY <1>1, ImageLoadedKeeps DEF TextureOnJobComplete
<1>2. CASE UNCHANGED <<m_queued, m_allocated>>
  BY <1>2, TextureUnchanged DEF TextureOnJobComplete, textureVars
<1> QED
  BY <1>1, <1>2 DEF TextureOnJobComplete

\* Each operation of the texture manager keeps its invariant.
LEMMA TextureNextKeeps ==
  ASSUME TypeOK, TextureInv, [TextureNext]_textureAllVars
  PROVE  TextureInv'
<1>1. ASSUME NEW c \in Controls, GetAllocatedImage(c) PROVE TextureInv'
  BY <1>1, GetAllocatedImageKeeps
<1>2. ASSUME NEW c \in Controls, GetQueuedImage(c) PROVE TextureInv'
  BY <1>2, GetQueuedImageKeeps
<1>3. ASSUME NEW c \in Controls, QueueImage(c) PROVE TextureInv'
  BY <1>3, QueueImageKeeps
<1>4. ASSUME NEW c \in Controls, NEW immediately \in BOOLEAN, ReleaseAllocatedImage(c, immediately)
      PROVE  TextureInv'
  BY <1>4, ReleaseAllocatedImageKeeps
<1>5. ASSUME NEW c \in Controls, ReleaseQueuedImage(c) PROVE TextureInv'
  BY <1>5, ReleaseQueuedImageKeeps
<1>6. CASE CleanupUnusedImages
  BY <1>6, CleanupUnusedImagesKeeps
<1>7. ASSUME NEW w \in Workers, TextureWorkerStep(w) PROVE TextureInv'
  BY <1>7, TextureOnJobCompleteKeeps, TextureUnchanged DEF TextureWorkerStep
<1>8. CASE UNCHANGED textureAllVars
  BY <1>8, TextureUnchanged DEF textureAllVars
<1> QED
  BY <1>1, <1>2, <1>3, <1>4, <1>5, <1>6, <1>7, <1>8 DEF TextureNext

\* To the manager, each step is one of its own.
LEMMA TextureStepIsNext ==
  ASSUME TextureInv, [TextureNext]_textureAllVars
  PROVE  [Next]_vars
<1>1. ASSUME NEW c \in Controls, QueueImage(c) PROVE Next
  <2>1. PICK j \in Jobs : AddJobAccepted(j, PRIORITY_NORMAL, TRUE)
    BY <1>1 DEF QueueImage
  <2>2. AddJob(j)
    BY <2>1, TexturePriorityAssumption DEF AddJob, TexturePriorityAssumption
  <2> QED
    BY <2>2 DEF Next
<1>2. ASSUME NEW c \in Controls, ReleaseQueuedImage(c) PROVE Next \/ UNCHANGED vars
  <2>1. PICK i \in DOMAIN m_queued : i = Place(m_queued, Path[c])
    BY <1>2, PlaceOfListed, TextureTypes DEF ReleaseQueuedImage, TextureInv
  <2>2. PICK id \in 1 .. IdModulus - 1 : id = m_queued[i].id
    BY TextureTypes DEF TextureInv, QueuedImages
  <2>3. CancelJob(id) \/ UNCHANGED vars
    BY <1>2, <2>1, <2>2 DEF ReleaseQueuedImage
  <2> QED
    BY <2>3 DEF Next
<1>3. ASSUME NEW w \in Workers, TextureWorkerStep(w) PROVE Next
  <2>1. WorkerStep(w)
    BY <1>3 DEF TextureWorkerStep, TextureOnJobComplete, WorkerStep
  <2> QED
    BY <2>1 DEF Next
<1>4. ASSUME NEW c \in Controls,
             GetAllocatedImage(c) \/ GetQueuedImage(c)
               \/ \E immediately \in BOOLEAN : ReleaseAllocatedImage(c, immediately)
      PROVE  UNCHANGED vars
  BY <1>4 DEF GetAllocatedImage, GetQueuedImage, ReleaseAllocatedImage
<1>5. CASE CleanupUnusedImages
  BY <1>5 DEF CleanupUnusedImages
<1>6. CASE UNCHANGED textureAllVars
  BY <1>6 DEF textureAllVars
<1> QED
  BY <1>1, <1>2, <1>3, <1>4, <1>5, <1>6 DEF TextureNext

\* There are no images at first.
LEMMA TextureInitInv == TextureInit => TextureInv
<1> SUFFICES ASSUME TextureInit PROVE TextureInv
  OBVIOUS
<1>1. m_queued = <<>> /\ m_allocated = <<>> /\ m_isAllocated = [c \in Controls |-> "NO"]
  BY DEF TextureInit
<1>2. TextureTypeOK
  BY <1>1 DEF TextureTypeOK
<1> QED
  BY <1>1, <1>2 DEF TextureInv, ImagesApart, RefsAreHolders, HoldersAreListed, ShownAreLoaded

\* The two lists, one after the other.
LEMMA TextureInvRefs ==
  ASSUME TextureInv
  PROVE  ReferencesAreHeld
<1> USE DEF TextureInv
<1> DEFINE R == [path : Paths, refs : Nat]
           queued == [i \in DOMAIN m_queued |-> [path |-> m_queued[i].path, refs |-> m_queued[i].refs]]
           loaded == [i \in DOMAIN m_allocated |->
                        [path |-> m_allocated[i].path, refs |-> m_allocated[i].refs]]
           all == queued \o loaded
<1>1. /\ m_queued \in Seq(QueuedImages) /\ m_allocated \in Seq(AllocatedImages)
      /\ DOMAIN m_queued = 1 .. Len(m_queued) /\ Len(m_queued) \in Nat
      /\ DOMAIN m_allocated = 1 .. Len(m_allocated) /\ Len(m_allocated) \in Nat
  BY TextureTypes, LenProperties
<1>2. queued \in Seq(R) /\ Len(queued) = Len(m_queued)
  <2>1. \A i \in 1 .. Len(m_queued) : [path |-> m_queued[i].path, refs |-> m_queued[i].refs] \in R
    BY <1>1, TextureTypes DEF QueuedImages
  <2> QED
    BY <1>1, <2>1, IsASeq
<1>3. loaded \in Seq(R) /\ Len(loaded) = Len(m_allocated)
  <2>1. \A i \in 1 .. Len(m_allocated) : [path |-> m_allocated[i].path, refs |-> m_allocated[i].refs] \in R
    BY <1>1, TextureTypes DEF AllocatedImages
  <2> QED
    BY <1>1, <2>1, IsASeq
<1>4. \A i \in DOMAIN m_queued : queued[i].path = m_queued[i].path /\ queued[i].refs = m_queued[i].refs
  OBVIOUS
<1>5. \A i \in DOMAIN m_allocated :
        loaded[i].path = m_allocated[i].path /\ loaded[i].refs = m_allocated[i].refs
  OBVIOUS
<1> HIDE DEF R, queued, loaded
<1>6. /\ DOMAIN all = 1 .. Len(m_queued) + Len(m_allocated)
      /\ \A i \in 1 .. Len(m_queued) : all[i] = queued[i]
      /\ \A i \in 1 .. Len(m_allocated) : all[Len(m_queued) + i] = loaded[i]
  <2>1. PICK u : u = queued \o loaded
    OBVIOUS
  <2>2. IsJoined(u, queued, loaded)
    BY <1>2, <1>3, <2>1, ConcatElements
  <2> QED
    BY <1>2, <1>3, <2>1, <2>2 DEF IsJoined
<1> HIDE DEF all
<1>7. /\ \A i \in DOMAIN m_queued : i \in DOMAIN all /\ all[i].path = m_queued[i].path
                                    /\ all[i].refs = m_queued[i].refs
      /\ \A i \in DOMAIN m_allocated :
           /\ Len(m_queued) + i \in DOMAIN all
           /\ all[Len(m_queued) + i].path = m_allocated[i].path
           /\ all[Len(m_queued) + i].refs = m_allocated[i].refs
  <2>1. ASSUME NEW i \in DOMAIN m_queued
        PROVE  /\ i \in DOMAIN all /\ all[i].path = m_queued[i].path
               /\ all[i].refs = m_queued[i].refs
    BY <1>1, <1>4, <1>6
  <2>2. ASSUME NEW i \in DOMAIN m_allocated
        PROVE  /\ Len(m_queued) + i \in DOMAIN all
               /\ all[Len(m_queued) + i].path = m_allocated[i].path
               /\ all[Len(m_queued) + i].refs = m_allocated[i].refs
    BY <1>1, <1>5, <1>6
  <2> QED
    BY <2>1, <2>2
<1>8. \A i \in DOMAIN all : i \in DOMAIN m_queued \/
        \E k \in DOMAIN m_allocated : i = Len(m_queued) + k
  <2> SUFFICES ASSUME NEW i \in DOMAIN all, i \notin DOMAIN m_queued
               PROVE  i - Len(m_queued) \in DOMAIN m_allocated /\ i = Len(m_queued) + (i - Len(m_queued))
    OBVIOUS
  <2> QED
    BY <1>1, <1>6
<1>9. \A i, k \in DOMAIN all : all[i].path = all[k].path => i = k
  <2> SUFFICES ASSUME NEW i \in DOMAIN all, NEW k \in DOMAIN all, all[i].path = all[k].path
               PROVE  i = k
    OBVIOUS
  <2>1. CASE i \in DOMAIN m_queued /\ k \in DOMAIN m_queued
    BY <2>1, <1>7 DEF ImagesApart
  <2>2. ASSUME NEW m \in DOMAIN m_allocated, k = Len(m_queued) + m, i \in DOMAIN m_queued PROVE FALSE
    BY <2>2, <1>7 DEF ImagesApart
  <2>3. ASSUME NEW m \in DOMAIN m_allocated, i = Len(m_queued) + m, k \in DOMAIN m_queued PROVE FALSE
    BY <2>3, <1>7 DEF ImagesApart
  <2>4. ASSUME NEW m \in DOMAIN m_allocated, NEW n \in DOMAIN m_allocated,
               i = Len(m_queued) + m, k = Len(m_queued) + n
        PROVE  m = n
    BY <2>4, <1>7 DEF ImagesApart
  <2> QED
    BY <2>1, <2>2, <2>3, <2>4, <1>8
<1>10. \A i \in DOMAIN all : all[i].refs = Cardinality(Holders(all[i].path))
  BY <1>7, <1>8 DEF RefsAreHolders
<1>11. \A c \in Controls : m_isAllocated[c] # "NO" => IsListed(all, Path[c])
  BY <1>7 DEF HoldersAreListed, IsListed
<1>12. /\ \A i, k \in DOMAIN all : all[i].path = all[k].path => i = k
       /\ \A i \in DOMAIN all : all[i].refs = Cardinality(Holders(all[i].path))
       /\ \A c \in Controls : m_isAllocated[c] # "NO" => IsListed(all, Path[c])
  BY <1>9, <1>10, <1>11
<1> QED
  BY <1>12 DEF ReferencesAreHeld, ShownAreLoaded, all, queued, loaded

\* The manager's types hold under the texture manager.
LEMMA TextureKeepsTypes == TextureSpec => []TypeOK /\ []TextureInv
<1>1. TextureInit => TypeOK /\ TextureInv
  <2>1. TextureInit => Init
    BY DEF TextureInit
  <2> QED
    BY <2>1, InitTypeOK, TextureInitInv
<1>2. TypeOK /\ TextureInv /\ [TextureNext]_textureAllVars => TypeOK' /\ TextureInv'
  BY TextureStepIsNext, NextTypeOK, TextureNextKeeps
<1> QED
  BY <1>1, <1>2, PTL DEF TextureSpec

(***************************************************************************)
(* The texture manager is a client of CJobManager like any other: whatever *)
(* it does, the manager beneath behaves as JobManager says, so all that is *)
(* proved of the manager holds of it.                                      *)
(***************************************************************************)
THEOREM TextureManagerIsAClient == TextureSpec => Spec
<1>1. TextureInit => Init
  BY DEF TextureInit
<1>2. TextureInv /\ [TextureNext]_textureAllVars => [Next]_vars
  BY TextureStepIsNext
<1> QED
  BY <1>1, <1>2, TextureKeepsTypes, PTL DEF TextureSpec, Spec

(***************************************************************************)
(* Whatever controls ask for and give up, and whichever loads complete,    *)
(* fail or are cancelled in between, the counter of an image is the number *)
(* of controls that use it, and it is in one list only: no texture that a  *)
(* control shows is deleted, and no control that gave an image up keeps it *)
(* alive (GetImage, ReleaseImage, OnJobComplete and CleanupUnusedImages of *)
(* CGUILargeTextureManager).                                               *)
(***************************************************************************)
THEOREM ReferencesHold == TextureSpec => []ReferencesAreHeld
<1>1. TextureInv => ReferencesAreHeld
  BY TextureInvRefs
<1> QED
  BY <1>1, TextureKeepsTypes, PTL

-----------------------------------------------------------------------------
(***************************************************************************)
(* The inductive invariant of the loads: the ids of the queued images and  *)
(* of the jobs to be reported are the same, and no job loses its callback  *)
(* but by CancelJob.                                                       *)
(***************************************************************************)
IdsApart == \A i, k \in DOMAIN m_queued : m_queued[i].id = m_queued[k].id => i = k

AwaitedIds == {m_queued[i].id : i \in DOMAIN m_queued}

CallbacksAreKept ==
  /\ \A j \in Queued : jobCallback[j]
  /\ \A w \in Workers : wpc[w] = "callback" /\ jobCallback[wjob[w]] => wcallback[w]

LoadInv ==
  /\ IdsApart
  /\ AwaitedIds = {jobId[j] : j \in Unreported}
  /\ CallbacksAreKept

\* What holds of the manager beneath, whoever its clients are.
ManagerInv == TypeOK /\ Placement /\ IdsAreRecent

\* It holds under any client whose steps are the manager's.
LEMMA ManagerInvKept ==
  ASSUME Cardinality(Jobs) < IdModulus, ManagerInv, [Next]_vars
  PROVE  ManagerInv'
BY NextTypeOK, NextPlacement, NextIdsAreRecent DEF ManagerInv

\* A job to be reported is live, and its id is its own.
LEMMA UnreportedAreLive ==
  ASSUME ManagerInv
  PROVE  /\ \A j \in Unreported : j \in Jobs /\ j \in Queued \cup m_processing /\ heap[j] = "owned"
         /\ \A j \in Queued \cup m_processing : j \in Jobs /\ heap[j] = "owned"
         /\ \A j, k \in Queued \cup m_processing : jobId[j] = jobId[k] => j = k
<1>1. IdsIdentifyJobs
  BY RecentIdsIdentify DEF ManagerInv
<1>2. \A j \in Queued \cup m_processing : j \in Jobs /\ heap[j] = "owned"
  BY DEF ManagerInv, TypeOK, Placement, QueuedJobsAreOwned, HeldJobsAreOwned, ProcessingIsHeld,
         Queued, QueuedIn, Holds
<1> QED
  BY <1>1, <1>2 DEF IdsIdentifyJobs, Unreported

\* Nothing a step of the manager changes matters to the loads.
LEMMA LoadUnchanged ==
  ASSUME LoadInv, IdsApart', AwaitedIds' = AwaitedIds, jobId' = jobId,
         Unreported' = Unreported, CallbacksAreKept'
  PROVE  LoadInv'
BY DEF LoadInv

\* The counter of a queued image says nothing of its job.
LEMMA RefsKeepIds ==
  ASSUME TextureTypeOK, IdsApart, NEW i \in DOMAIN m_queued, NEW r \in Nat \ {0},
         m_queued' = [m_queued EXCEPT ![i].refs = r]
  PROVE  IdsApart' /\ AwaitedIds' = AwaitedIds
<1>1. /\ DOMAIN m_queued' = DOMAIN m_queued
      /\ \A k \in DOMAIN m_queued : m_queued'[k].id = m_queued[k].id
  BY QueuedRefs, TextureTypes
<1> QED
  BY <1>1 DEF IdsApart, AwaitedIds

\* With an image, its id goes.
LEMMA RemoveAtDropsId ==
  ASSUME TextureTypeOK, IdsApart, NEW i \in DOMAIN m_queued, m_queued' = RemoveAt(m_queued, i)
  PROVE  IdsApart' /\ AwaitedIds' = AwaitedIds \ {m_queued[i].id}
<1>0. m_queued \in Seq(QueuedImages)
  BY TextureTypes
<1>1. PICK old : IsWithout(m_queued', m_queued, i, old)
  BY <1>0, RemoveAtKeeps
<1>2. IdsApart'
  BY <1>1 DEF IdsApart, IsWithout
<1>3. AwaitedIds' \subseteq AwaitedIds \ {m_queued[i].id}
  BY <1>1 DEF IdsApart, AwaitedIds, IsWithout
<1>4. AwaitedIds \ {m_queued[i].id} \subseteq AwaitedIds'
  <2> SUFFICES ASSUME NEW l \in DOMAIN m_queued, l # i
               PROVE  \E k \in DOMAIN m_queued' : m_queued'[k].id = m_queued[l].id
    BY DEF AwaitedIds
  <2> QED
    BY <1>1 DEF IsWithout
<1> QED
  BY <1>2, <1>3, <1>4

\* A control asks for an image nobody has asked for: its job has a new id.
LEMMA QueueImageLoads ==
  ASSUME ManagerInv, ManagerInv', TextureInv, LoadInv, NEW c \in Controls, QueueImage(c)
  PROVE  LoadInv'
<1> USE DEF ManagerInv
<1>1. PICK j \in Jobs : AddJobAccepted(j, PRIORITY_NORMAL, TRUE)
  BY DEF QueueImage
<1>2. PRIORITY_NORMAL \in UsedPriorities /\ PRIORITY_NORMAL \in Priorities
  BY TexturePriorityAssumption, PrioritiesAssumption DEF TexturePriorityAssumption
<1>3. Queued' = Queued \cup {j}
  BY <1>1, <1>2, AddJobAcceptedQueues
<1>4. /\ jobId'[j] = NextId /\ jobCallback'[j] = TRUE
      /\ \A k \in Jobs \ {j} : jobId'[k] = jobId[k] /\ jobCallback'[k] = jobCallback[k]
      /\ m_processing' = m_processing /\ wjob' = wjob /\ wcallback' = wcallback
      /\ heap[j] = "new" /\ heap'[j] = "owned"
  BY <1>1 DEF AddJobAccepted, TypeOK
<1>5. \A w \in Workers : wpc'[w] = wpc[w] \/ (wpc[w] = "none" /\ wpc'[w] = "next")
  BY <1>1, <1>2, StartWorkersPool DEF AddJobAccepted, Placement, TypeOK
<1>6. j \notin Unreported /\ j \notin m_processing /\ j \notin Queued
  BY <1>4, UnreportedAreLive
<1>7. Unreported' = Unreported \cup {j}
  <2>1. \A k \in m_processing : k \in Jobs \ {j}
    BY <1>6 DEF TypeOK
  <2>2. \A w \in Workers : wpc'[w] = "erase" <=> wpc[w] = "erase"
    BY <1>5
  <2> QED
    BY <1>3, <1>4, <2>1, <2>2 DEF Unreported
<1>8. \A k \in Unreported : jobId'[k] = jobId[k] /\ jobId[k] # NextId
  <2>1. \A k \in Unreported : k \in Jobs \ {j} /\ heap[k] = "owned"
    BY <1>6, UnreportedAreLive
  <2>2. \A k \in Unreported : k \in Numbered /\ jobId'[k] = jobId[k]
    BY <2>1, <1>4 DEF IdsAreRecent
  <2>3. \A k \in Unreported : k \in Numbered'
    BY <2>2 DEF Numbered
  <2>4. j \in Numbered'
    BY <1>4 DEF IdsAreRecent
  <2> QED
    BY <1>4, <2>1, <2>2, <2>3, <2>4 DEF IdsAreRecent
<1>9. IdsApart' /\ AwaitedIds' = AwaitedIds \cup {NextId}
  <2>0. m_queued \in Seq(QueuedImages)
    BY TextureTypes DEF TextureInv
  <2> DEFINE image == [id |-> NextId, path |-> Path[c], refs |-> 1]
  <2>1. m_queued' = Append(m_queued, image) /\ image.id = NextId
    BY DEF QueueImage
  <2>2. image \in QueuedImages
    BY NextIdIsValid, PathOfControl DEF TypeOK, QueuedImages
  <2> HIDE DEF image
  <2>3. /\ DOMAIN m_queued' = DOMAIN m_queued \cup {Len(m_queued) + 1}
        /\ Len(m_queued) + 1 \notin DOMAIN m_queued
        /\ \A k \in DOMAIN m_queued : m_queued'[k] = m_queued[k]
        /\ m_queued'[Len(m_queued) + 1] = image
    BY <2>0, <2>1, <2>2
  <2>4. NextId \notin AwaitedIds
    BY <1>8 DEF LoadInv
  <2> QED
    BY <2>1, <2>3, <2>4 DEF LoadInv, IdsApart, AwaitedIds
<1>10. CallbacksAreKept'
  <2>1. \A k \in Queued' : jobCallback'[k]
    <3>1. \A k \in Queued : k \in Jobs \ {j} /\ jobCallback[k]
      BY <1>6, UnreportedAreLive DEF LoadInv, CallbacksAreKept
    <3> QED
      BY <1>3, <1>4, <3>1
  <2>2. ASSUME NEW w \in Workers, wpc'[w] = "callback", jobCallback'[wjob'[w]]
        PROVE  wcallback'[w]
    <3>1. wpc[w] = "callback" /\ wjob[w] \in Jobs \ {j} /\ wjob'[w] = wjob[w]
      BY <1>4, <1>5, <2>2 DEF Placement, HeldJobsAreOwned, Holds, Busy
    <3> QED
      BY <1>4, <2>2, <3>1 DEF LoadInv, CallbacksAreKept
  <2> QED
    BY <2>1, <2>2 DEF CallbacksAreKept
<1>11. AwaitedIds' = {jobId'[k] : k \in Unreported'}
  BY <1>4, <1>7, <1>8, <1>9 DEF LoadInv
<1> QED
  BY <1>9, <1>10, <1>11 DEF LoadInv

\* The last reference cancels the image's own job.
LEMMA CancelledLoadGoes ==
  ASSUME ManagerInv, TextureInv, LoadInv, NEW i \in DOMAIN m_queued,
         CancelJob(m_queued[i].id), m_queued' = RemoveAt(m_queued, i)
  PROVE  LoadInv'
<1> USE DEF ManagerInv, itemVars, workerVars
<1>0. PICK id \in 1 .. IdModulus - 1 : id = m_queued[i].id
  BY TextureTypes DEF TextureInv, QueuedImages
<1>1. PICK j \in Jobs :
        /\ j \in Queued \cup m_processing /\ jobId[j] = id /\ Unreported' = Unreported \ {j}
        /\ jobId' = jobId /\ CallbacksAreKept'
  <2>1. CASE CancelQueuedJob(id)
    <3>1. PICK j \in Jobs : j \in Queued /\ jobId[j] = id /\ Queued' = Queued \ {j}
      BY <2>1, CancelQueuedJobUnqueues
    <3>2. /\ m_processing' = m_processing /\ jobId' = jobId /\ jobCallback' = jobCallback
          /\ wpc' = wpc /\ wjob' = wjob /\ wcallback' = wcallback
      BY <2>1 DEF CancelQueuedJob
    <3>3. j \notin m_processing
      BY <3>1 DEF TypeOK, Placement, ProcessingIsHeld, HeldJobsAreOwned, Holds, Queued, QueuedIn
    <3>4. Unreported' = Unreported \ {j}
      BY <3>1, <3>2, <3>3 DEF Unreported
    <3> QED
      BY <3>1, <3>2, <3>4 DEF LoadInv, CallbacksAreKept
  <2>2. CASE CancelProcessingJob(id)
    <3>1. PICK j \in m_processing : jobId[j] = id /\ jobCallback' = [jobCallback EXCEPT ![j] = FALSE]
      BY <2>2 DEF CancelProcessingJob
    <3>2. /\ m_processing' = m_processing /\ jobId' = jobId /\ m_jobQueue' = m_jobQueue
          /\ wpc' = wpc /\ wjob' = wjob /\ wcallback' = wcallback
          /\ \A k \in Queued : jobId[k] # id
      BY <2>2 DEF CancelProcessingJob
    <3>3. /\ j \in Jobs /\ j \notin Queued /\ Queued' = Queued
          /\ jobCallback'[j] = FALSE /\ \A k \in Jobs \ {j} : jobCallback'[k] = jobCallback[k]
      BY <3>1, <3>2 DEF TypeOK, Queued, QueuedIn
    <3>4. Unreported' = Unreported \ {j}
      BY <3>1, <3>2, <3>3 DEF Unreported, TypeOK
    <3>5. CallbacksAreKept'
      <4>1. \A k \in Queued : k \in Jobs \ {j}
        BY <3>3 DEF TypeOK, Queued, QueuedIn
      <4>2. \A w \in Workers : wpc[w] = "callback" => wjob[w] \in Jobs
        BY DEF Placement, HeldJobsAreOwned, Holds, Busy
      <4> QED
        BY <3>2, <3>3, <4>1, <4>2 DEF LoadInv, CallbacksAreKept
    <3> QED
      BY <3>1, <3>2, <3>3, <3>4, <3>5
  <2> QED
    BY <1>0, <2>1, <2>2 DEF CancelJob
<1>2. IdsApart' /\ AwaitedIds' = AwaitedIds \ {id}
  BY <1>0, RemoveAtDropsId DEF LoadInv, TextureInv
<1>3. \A k \in Unreported : jobId[k] = id <=> k = j
  BY <1>1, UnreportedAreLive
<1>4. AwaitedIds' = {jobId[k] : k \in Unreported \ {j}}
  BY <1>2, <1>3 DEF LoadInv
<1> QED
  BY <1>1, <1>2, <1>4 DEF LoadInv

\* OnJobComplete reports the worker's own job, if it is still to be reported.
LEMMA TextureOnJobCompleteLoads ==
  ASSUME ManagerInv, TextureInv, LoadInv, NEW w \in Workers, TextureOnJobComplete(w)
  PROVE  LoadInv'
<1> USE DEF ManagerInv, itemVars
<1>1. PICK j \in Jobs : j = wjob[w] /\ j \in m_processing /\ j \notin Queued
  BY DEF TextureOnJobComplete, OnJobCompleteCalls, Placement, HeldJobsAreOwned, Holds, Busy,
         ProcessingIsHeld, Queued, QueuedIn
<1>2. /\ wpc[w] = "callback" /\ wpc'[w] = "erase" /\ wcallback'[w] = FALSE
      /\ \A v \in Workers \ {w} : wpc'[v] = wpc[v] /\ wcallback'[v] = wcallback[v]
      /\ m_processing' = m_processing /\ m_jobQueue' = m_jobQueue /\ jobId' = jobId
      /\ jobCallback' = jobCallback /\ wjob' = wjob
  BY DEF TextureOnJobComplete, OnJobCompleteCalls, TypeOK
<1>3. Queued' = Queued
  BY <1>2 DEF Queued, QueuedIn
<1>4. Unreported' = Unreported \ {j}
  BY <1>1, <1>2, <1>3 DEF Unreported
<1>5. CallbacksAreKept'
  BY <1>2, <1>3 DEF LoadInv, CallbacksAreKept
<1>6. j \in Unreported <=> jobCallback[j]
  <2>1. \A v \in Workers : wjob[v] = j /\ wpc[v] = "erase" => v = w
    BY <1>1, <1>2 DEF Placement, HeldOnce, Holds, Busy
  <2> QED
    BY <1>1, <1>2, <2>1 DEF Unreported
<1>7. CASE wcallback[w] /\ ImageLoaded(jobId[j])
  <2>1. PICK i \in DOMAIN m_queued : m_queued[i].id = jobId[j] /\ m_queued' = RemoveAt(m_queued, i)
    BY <1>7, ImageLoadedKeeps DEF TextureOnJobComplete
  <2>2. IdsApart' /\ AwaitedIds' = AwaitedIds \ {jobId[j]}
    BY <2>1, RemoveAtDropsId DEF LoadInv, TextureInv
  <2>3. \A k \in Unreported \ {j} : jobId[k] # jobId[j]
    BY <1>1, UnreportedAreLive
  <2>4. AwaitedIds' = {jobId[k] : k \in Unreported \ {j}}
    BY <2>2, <2>3 DEF LoadInv
  <2> QED
    BY <1>2, <1>4, <1>5, <2>2, <2>4 DEF LoadInv
<1>8. CASE (wcallback[w] => ~IsQueued(jobId[j])) /\ UNCHANGED m_queued
  <2>1. j \notin Unreported
    <3>1. CASE ~wcallback[w]
      BY <3>1, <1>1, <1>2, <1>6 DEF LoadInv, CallbacksAreKept
    <3>2. CASE ~IsQueued(jobId[j])
      <4>1. jobId[j] \notin AwaitedIds
        BY <3>2 DEF IsQueued, AwaitedIds
      <4> QED
        BY <4>1 DEF LoadInv
    <3> QED
      BY <1>8, <3>1, <3>2
  <2>2. Unreported' = Unreported
    BY <2>1, <1>4
  <2> QED
    BY <1>2, <1>5, <1>8, <2>2 DEF LoadInv, IdsApart, AwaitedIds
<1> QED
  BY <1>1, <1>7, <1>8 DEF TextureOnJobComplete

\* Between two calls of the texture manager, a worker reports nothing.
LEMMA WorkerKeepsLoads ==
  ASSUME ManagerInv, LoadInv, NEW w \in Workers, WorkerStep(w),
         wpc[w] # "callback", UNCHANGED textureVars
  PROVE  LoadInv'
<1> USE DEF ManagerInv, itemVars
<1>0. IdsApart' /\ AwaitedIds' = AwaitedIds
  BY DEF textureVars, LoadInv, IdsApart, AwaitedIds
<1> DEFINE Same == Unreported' = Unreported /\ jobId' = jobId /\ CallbacksAreKept'
<1>1. ASSUME NEW p \in Priorities, PopJob(w, p), wpc[w] \in {"next", "expired"} PROVE Same
  <2>1. PICK h \in Jobs : h = Head(m_jobQueue[p]) /\ h \in Queued /\ Queued' = Queued \ {h}
    BY <1>1, PopJobUnqueues
  <2>2. /\ m_processing' = m_processing \cup {h}
        /\ wjob'[w] = h /\ wpc'[w] = "work"
        /\ \A v \in Workers \ {w} : wjob'[v] = wjob[v] /\ wpc'[v] = wpc[v]
        /\ jobId' = jobId /\ jobCallback' = jobCallback /\ wcallback' = wcallback
    BY <1>1, <2>1 DEF PopJob, TypeOK
  <2>3. \A v \in Workers : wpc[v] \in {"callback", "erase"} => wjob[v] # h
    BY <2>1 DEF Placement, HeldJobsAreOwned, Holds, Busy, Queued, QueuedIn
  <2>4. jobCallback[h]
    BY <2>1 DEF LoadInv, CallbacksAreKept
  <2>5. \A k \in m_processing : \A v \in Workers : wjob[v] = k /\ wpc[v] = "erase" => v # w
    BY <1>1
  <2>6. h \notin m_processing /\ \A k \in m_processing : wjob'[w] # k
    <3>1. h \notin m_processing
      BY <2>1 DEF TypeOK, Placement, ProcessingIsHeld, HeldJobsAreOwned, Holds, Queued, QueuedIn
    <3> QED
      BY <2>2, <3>1
  <2>7. \A k \in m_processing : (\A v \in Workers : wjob'[v] = k => wpc'[v] # "erase")
                                <=> (\A v \in Workers : wjob[v] = k => wpc[v] # "erase")
    BY <2>2, <2>5, <2>6
  <2>8. \A v \in Workers : wjob'[v] = h => wpc'[v] # "erase"
    BY <2>2, <2>3
  <2>9. Unreported' = Unreported
    BY <2>1, <2>2, <2>4, <2>7, <2>8 DEF Unreported
  <2>10. CallbacksAreKept'
    BY <2>1, <2>2 DEF LoadInv, CallbacksAreKept
  <2> QED
    BY <2>2, <2>9, <2>10
<1>2. ASSUME UNCHANGED <<m_jobQueue, m_processing, jobId, jobCallback, wjob>>,
             \A v \in Workers : wpc'[v] = "erase" <=> wpc[v] = "erase",
             \A v \in Workers : wpc'[v] = "callback" =>
               \/ wpc[v] = "callback" /\ wcallback'[v] = wcallback[v]
               \/ wcallback'[v] = jobCallback[wjob[v]]
      PROVE  Same
  <2>1. Queued' = Queued
    BY <1>2 DEF Queued, QueuedIn
  <2>2. Unreported' = Unreported
    BY <1>2, <2>1 DEF Unreported
  <2>3. CallbacksAreKept'
    BY <1>2, <2>1 DEF LoadInv, CallbacksAreKept
  <2> QED
    BY <1>2, <2>2, <2>3
<1>3. ASSUME GetNextJobSleeps(w) \/ GetNextJobQuits(w) \/ WaitBlocks(w) \/ WaitReturns(w)
               \/ WaitExpires(w) \/ DoWorkReturns(w)
      PROVE  Same
  BY <1>2, <1>3 DEF GetNextJobSleeps, GetNextJobQuits, WaitBlocks, WaitReturns, WaitExpires,
                    DoWorkReturns, TypeOK
<1>4. ASSUME OnJobProgress(w) \/ OnJobProgressReturns(w) PROVE Same
  BY <1>2, <1>4 DEF OnJobProgress, OnJobProgressReturns, TypeOK
<1>5. ASSUME OnJobCompleteCopies(w) PROVE Same
  BY <1>2, <1>5 DEF OnJobCompleteCopies, TypeOK
<1>6. ASSUME OnJobCompleteErases(w) PROVE Same
  <2>1. /\ wpc[w] = "erase" /\ m_processing' = m_processing \ {wjob[w]}
        /\ wpc'[w] = "free" /\ \A v \in Workers \ {w} : wpc'[v] = wpc[v]
        /\ UNCHANGED <<m_jobQueue, jobId, jobCallback, wjob, wcallback>>
    BY <1>6 DEF OnJobCompleteErases, TypeOK
  <2>2. Queued' = Queued
    BY <2>1 DEF Queued, QueuedIn
  <2>3. \A k \in m_processing \ {wjob[w]} :
          (\A v \in Workers : wjob'[v] = k => wpc'[v] # "erase")
             <=> (\A v \in Workers : wjob[v] = k => wpc[v] # "erase")
    BY <2>1
  <2>4. Unreported' = Unreported
    BY <2>1, <2>2, <2>3 DEF Unreported
  <2>5. CallbacksAreKept'
    BY <2>1, <2>2 DEF LoadInv, CallbacksAreKept
  <2> QED
    BY <2>1, <2>4, <2>5
<1>7. ASSUME OnJobCompleteFrees(w) PROVE Same
  <2>1. /\ wpc[w] = "free" /\ m_processing' = m_processing
        /\ wpc'[w] = "next" /\ wjob'[w] = NoJob
        /\ \A v \in Workers \ {w} : wpc'[v] = wpc[v] /\ wjob'[v] = wjob[v]
        /\ UNCHANGED <<m_jobQueue, jobId, jobCallback, wcallback>>
    BY <1>7 DEF OnJobCompleteFrees, TypeOK
  <2>2. Queued' = Queued
    BY <2>1 DEF Queued, QueuedIn
  <2>3. \A k \in m_processing : (\A v \in Workers : wjob'[v] = k => wpc'[v] # "erase")
                                <=> (\A v \in Workers : wjob[v] = k => wpc[v] # "erase")
    BY <2>1
  <2>4. Unreported' = Unreported
    BY <2>1, <2>2, <2>3 DEF Unreported
  <2>5. CallbacksAreKept'
    BY <2>1, <2>2 DEF LoadInv, CallbacksAreKept
  <2> QED
    BY <2>1, <2>4, <2>5
<1>8. Same
  BY <1>1, <1>3, <1>4, <1>5, <1>6, <1>7 DEF WorkerStep, GetNextJob, OnJobCompleteCalls
<1> QED
  BY <1>0, <1>8, LoadUnchanged

\* Each operation of the texture manager keeps the loads.
LEMMA TextureNextKeepsLoads ==
  ASSUME ManagerInv, ManagerInv', TextureInv, LoadInv, [TextureNext]_textureAllVars
  PROVE  LoadInv'
<1>1. ASSUME UNCHANGED vars
      PROVE  Unreported' = Unreported /\ jobId' = jobId /\ CallbacksAreKept'
  <2>1. /\ Queued' = Queued
        /\ UNCHANGED <<m_processing, jobId, jobCallback, wpc, wjob, wcallback>>
    BY <1>1 DEF vars, itemVars, workerVars, Queued, QueuedIn
  <2> QED
    BY <2>1 DEF LoadInv, Unreported, CallbacksAreKept
<1>2. ASSUME UNCHANGED <<vars, m_queued>> PROVE LoadInv'
  <2>1. IdsApart' /\ AwaitedIds' = AwaitedIds
    BY <1>2 DEF LoadInv, IdsApart, AwaitedIds
  <2> QED
    BY <1>1, <1>2, <2>1 DEF LoadInv
<1>3. ASSUME NEW c \in Controls, GetAllocatedImage(c) PROVE LoadInv'
  BY <1>2, <1>3 DEF GetAllocatedImage
<1>4. ASSUME NEW c \in Controls, GetQueuedImage(c) PROVE LoadInv'
  <2>1. PICK i \in DOMAIN m_queued : i = Place(m_queued, Path[c])
    BY <1>4, PlaceOfListed, TextureTypes DEF GetQueuedImage, TextureInv
  <2>2. PICK r \in Nat \ {0} : r = m_queued[i].refs + 1
    BY TextureTypes DEF TextureInv, QueuedImages
  <2>3. m_queued' = [m_queued EXCEPT ![i].refs = r] /\ UNCHANGED vars
    BY <1>4, <2>1, <2>2 DEF GetQueuedImage
  <2>4. IdsApart' /\ AwaitedIds' = AwaitedIds
    BY <2>3, RefsKeepIds DEF TextureInv, LoadInv
  <2> QED
    BY <1>1, <2>3, <2>4 DEF LoadInv
<1>5. ASSUME NEW c \in Controls, QueueImage(c) PROVE LoadInv'
  BY <1>5, QueueImageLoads
<1>6. ASSUME NEW c \in Controls, NEW immediately \in BOOLEAN, ReleaseAllocatedImage(c, immediately)
      PROVE  LoadInv'
  BY <1>2, <1>6 DEF ReleaseAllocatedImage
<1>7. ASSUME NEW c \in Controls, ReleaseQueuedImage(c) PROVE LoadInv'
  <2>1. PICK i \in DOMAIN m_queued : i = Place(m_queued, Path[c])
    BY <1>7, PlaceOfListed, TextureTypes DEF ReleaseQueuedImage, TextureInv
  <2>2. CASE CancelJob(m_queued[i].id) /\ m_queued' = RemoveAt(m_queued, i)
    BY <2>2, CancelledLoadGoes
  <2>3. CASE m_queued[i].refs > 1 /\ m_queued' = [m_queued EXCEPT ![i].refs = @ - 1] /\ UNCHANGED vars
    <3>1. PICK r \in Nat \ {0} : r = m_queued[i].refs - 1
      BY <2>3, TextureTypes DEF TextureInv, QueuedImages
    <3>2. m_queued' = [m_queued EXCEPT ![i].refs = r]
      BY <2>3, <3>1
    <3>3. IdsApart' /\ AwaitedIds' = AwaitedIds
      BY <3>2, RefsKeepIds DEF TextureInv, LoadInv
    <3> QED
      BY <1>1, <2>3, <3>3 DEF LoadInv
  <2> QED
    BY <1>7, <2>1, <2>2, <2>3 DEF ReleaseQueuedImage
<1>8. CASE CleanupUnusedImages
  BY <1>2, <1>8 DEF CleanupUnusedImages
<1>9. ASSUME NEW w \in Workers, TextureWorkerStep(w) PROVE LoadInv'
  BY <1>9, TextureOnJobCompleteLoads, WorkerKeepsLoads DEF TextureWorkerStep
<1>10. CASE UNCHANGED textureAllVars
  BY <1>2, <1>10 DEF textureAllVars, textureVars
<1> QED
  BY <1>3, <1>4, <1>5, <1>6, <1>7, <1>8, <1>9, <1>10 DEF TextureNext

\* Nothing is loaded at first.
LEMMA TextureInitLoads == TextureInit => ManagerInv /\ LoadInv
<1> SUFFICES ASSUME TextureInit PROVE ManagerInv /\ LoadInv
  OBVIOUS
<1>1. Init
  BY DEF TextureInit
<1>2. ManagerInv
  BY <1>1, InitTypeOK, InitPlacement, InitIdsAreRecent DEF ManagerInv
<1>3. Queued = {} /\ m_processing = {} /\ \A w \in Workers : wpc[w] = "none"
  BY <1>1 DEF Init, Queued, QueuedIn
<1>4. m_queued = <<>>
  BY DEF TextureInit
<1> QED
  BY <1>2, <1>3, <1>4 DEF LoadInv, IdsApart, AwaitedIds, Unreported, CallbacksAreKept

(***************************************************************************)
(* The queued images are those whose load is still to be reported, and     *)
(* each completion finds its own image by its id, although ids wrap around *)
(* at 2^32, provided there are fewer jobs than ids: ReleaseImage cancels   *)
(* the load of its own image and no completion is lost.                    *)
(***************************************************************************)
THEOREM LoadsAreInFlightHolds ==
  ASSUME Cardinality(Jobs) < IdModulus
  PROVE  TextureSpec => []LoadsAreInFlight
<1>1. TextureInit => ManagerInv /\ LoadInv
  BY TextureInitLoads
<1>2. TextureInv /\ ManagerInv /\ LoadInv /\ [TextureNext]_textureAllVars => ManagerInv' /\ LoadInv'
  <2> SUFFICES ASSUME TextureInv, ManagerInv, LoadInv, [TextureNext]_textureAllVars
               PROVE  ManagerInv' /\ LoadInv'
    OBVIOUS
  <2>1. [Next]_vars
    BY TextureStepIsNext
  <2>2. ManagerInv'
    BY <2>1, ManagerInvKept
  <2> QED
    BY <2>2, TextureNextKeepsLoads
<1>3. LoadInv => LoadsAreInFlight
  BY DEF LoadInv, LoadsAreInFlight, AwaitedIds
<1> QED
  BY <1>1, <1>2, <1>3, TextureKeepsTypes, PTL DEF TextureSpec

-----------------------------------------------------------------------------
\* What DropAt leaves of a list without repetitions.
LEMMA DropAtDropsOne ==
  ASSUME NEW S, NEW s \in Seq(S), IsInjective(s), NEW i \in DOMAIN s
  PROVE  /\ DropAt(s, i) \in Seq(S)
         /\ Len(DropAt(s, i)) = Len(s) - 1
         /\ ToSet(DropAt(s, i)) = ToSet(s) \ {s[i]}
         /\ IsInjective(DropAt(s, i))
<1> DEFINE r == DropAt(s, i)
<1>1. r = RemoveAt(s, i)
  BY DEF RemoveAt, DropAt
<1>2. /\ r \in Seq(S) /\ DOMAIN r = 1 .. Len(s) - 1
  BY DropAtElements, DropAtType
<1>3. PICK old : IsWithout(r, s, i, old)
  BY <1>1, RemoveAtKeeps
<1> HIDE DEF r
<1>4. Len(r) = Len(s) - 1
  <2>1. DOMAIN r = 1 .. Len(r) /\ Len(r) \in Nat /\ Len(s) \in Nat /\ Len(s) - 1 \in Nat
    BY <1>2, LenProperties
  <2> QED
    BY <1>2, <2>1
<1>5. IsInjective(r)
  BY <1>3 DEF IsInjective, IsWithout
<1>6. ToSet(r) \subseteq ToSet(s) \ {s[i]}
  <2> SUFFICES ASSUME NEW k \in DOMAIN r PROVE r[k] \in ToSet(s) /\ r[k] # s[i]
    BY DEF ToSet
  <2>1. old[k] \in DOMAIN s \ {i} /\ r[k] = s[old[k]]
    BY <1>3 DEF IsWithout
  <2> QED
    BY <2>1 DEF ToSet, IsInjective
<1>7. ToSet(s) \ {s[i]} \subseteq ToSet(r)
  <2> SUFFICES ASSUME NEW l \in DOMAIN s, l # i PROVE \E k \in DOMAIN r : r[k] = s[l]
    BY DEF ToSet
  <2> QED
    BY <1>3 DEF IsWithout
<1> QED
  BY <1>2, <1>4, <1>5, <1>6, <1>7 DEF r

\* The back of a list and what is before it.
LEMMA FrontAndLast ==
  ASSUME NEW S, NEW s \in Seq(S), s # <<>>, IsInjective(s)
  PROVE  /\ Last(s) \in S /\ Last(s) \in ToSet(s)
         /\ Front(s) \in Seq(S)
         /\ Len(Front(s)) = Len(s) - 1
         /\ ToSet(Front(s)) = ToSet(s) \ {Last(s)}
         /\ IsInjective(Front(s))
<1>1. Len(s) \in Nat /\ Len(s) >= 1 /\ DOMAIN s = 1 .. Len(s) /\ Len(s) \in DOMAIN s
  BY LenProperties, EmptySeq
<1>2. Last(s) = s[Len(s)] /\ Last(s) \in S /\ Last(s) \in ToSet(s)
  BY <1>1, ElementOfSeq DEF Last, ToSet
<1>3. Front(s) \in Seq(S) /\ Len(Front(s)) = Len(s) - 1
      /\ \A k \in 1 .. Len(s) - 1 : Front(s)[k] = s[k]
  BY <1>1, ElementOfSeq DEF Front
<1> DEFINE f == Front(s)
           e == Last(s)
           t == Append(f, e)
<1>4. f \in Seq(S) /\ e \in S /\ Len(f) = Len(s) - 1 /\ e = s[Len(s)]
      /\ \A k \in 1 .. Len(s) - 1 : f[k] = s[k]
  BY <1>2, <1>3
<1> HIDE DEF f, e
<1>5. /\ t \in Seq(S) /\ Len(t) = Len(f) + 1 /\ t[Len(f) + 1] = e
      /\ \A k \in 1 .. Len(f) : t[k] = f[k]
  BY <1>4, AppendProperties
<1>6. ToSet(t) = ToSet(f) \cup {e} /\ (IsInjective(t) => IsInjective(f) /\ e \notin ToSet(f))
  BY <1>4, ToSetAppend, InjectiveAppend
<1> HIDE DEF t
<1>7. Len(t) = Len(s) /\ \A k \in 1 .. Len(t) : t[k] = s[k]
  BY <1>1, <1>4, <1>5
<1>8. t = s
  BY <1>5, <1>7, SeqEqual
<1>9. ToSet(f) = ToSet(s) \ {e} /\ IsInjective(f)
  BY <1>6, <1>8
<1> QED
  BY <1>2, <1>3, <1>9 DEF f, e

-----------------------------------------------------------------------------
(***************************************************************************)
(* The inductive invariant of CJobQueue.  The lists hold each job once and *)
(* no two equal ones; a waiting job is one the manager never had, a listed *)
(* one is one it has, and the worker that runs it will report it.          *)
(***************************************************************************)
Distinct(s, t) ==
  /\ IsInjective(s) /\ IsInjective(t)
  /\ ToSet(s) \cap ToSet(t) = {}
  /\ \A a, b \in ToSet(s) \cup ToSet(t) : Content[a] = Content[b] => a = b

WaitingAreNew == \A j \in ToSet(queue) : heap[j] = "new"

SeenAreOld == \A j \in ToSet(processing) \cup revoked : heap[j] # "new"

HandledAreCalled == \A w \in Workers : handled[w] => wpc[w] = "callback" /\ wcallback[w]

ListedAreReported ==
  \A j \in Listed :
    /\ jobCallback[j]
    /\ \A w \in Workers : wjob[w] = j /\ wpc[w] = "callback" => wcallback[w]

QueueInv ==
  /\ EntriesAreInFlight
  /\ Distinct(queue, processing)
  /\ WaitingAreNew
  /\ SeenAreOld
  /\ HandledAreCalled
  /\ ListedAreReported
  /\ m_running

\* No two entries of the lists, one after the other, are equal.
LEMMA DistinctAreUnique ==
  ASSUME QueueTypeOK, Distinct(queue, processing)
  PROVE  JobsAreUnique
<1> DEFINE all == queue \o processing
<1>1. IsInjective(all) /\ ToSet(all) = ToSet(queue) \cup ToSet(processing)
  BY InjectiveConcat, ToSetConcat DEF Distinct, QueueTypeOK
<1> HIDE DEF all
<1>2. \A i \in DOMAIN all : all[i] \in ToSet(queue) \cup ToSet(processing)
  BY <1>1 DEF ToSet
<1>3. \A i, k \in DOMAIN all : Content[all[i]] = Content[all[k]] => i = k
  BY <1>1, <1>2 DEF Distinct, IsInjective
<1> QED
  BY <1>3 DEF JobsAreUnique, all

\* With m_section free, the listed jobs are all entries of m_processing.
LEMMA AllAreListed ==
  ASSUME QueueTypeOK, SectionFree
  PROVE  Listed = ToSet(processing) /\ Withdrawn = revoked
<1>1. cancelAt = 0 /\ \A k \in DOMAIN processing : k \in Nat /\ k >= 1
  BY DEF SectionFree, QueueTypeOK
<1>2. Withdrawn = revoked
  BY <1>1 DEF Withdrawn
<1>3. Listed = ToSet(processing)
  BY <1>1 DEF Listed, ToSet
<1> QED
  BY <1>2, <1>3

\* A listed job is live, and not withdrawn.
LEMMA InFlightIsLive ==
  ASSUME ManagerInv
  PROVE  \A j \in InFlight : /\ j \in Jobs /\ j \in Queued \cup m_processing
                             /\ heap[j] = "owned" /\ j \notin Withdrawn
BY UnreportedAreLive DEF InFlight

\* Over jobs that were not deleted, find() finds the job with these contents.
LEMMA FindFinds ==
  ASSUME NEW s \in Seq(Jobs), \A j \in ToSet(s) : heap[j] # "freed", NEW c, NEW i \in Find(s, c)
  PROVE  /\ i = 0 => \A j \in ToSet(s) : Content[j] # c
         /\ i # 0 => i \in DOMAIN s /\ s[i] \in ToSet(s) /\ Content[s[i]] = c
<1>1. \A k \in DOMAIN s : s[k] \in ToSet(s) /\ k # 0
  BY DEF ToSet
<1> QED
  BY <1>1 DEF Find, MayEqual, MayDiffer, ToSet

-----------------------------------------------------------------------------
\* A job the manager never had is nowhere in it.
LEMMA NewIsNowhere ==
  ASSUME ManagerInv, NEW j \in Jobs, heap[j] = "new"
  PROVE  /\ j \notin Queued \cup m_processing
         /\ \A w \in Workers : Holds(w) => wjob[w] # j
BY UnreportedAreLive DEF ManagerInv, Placement, HeldJobsAreOwned

\* Deleting jobs that the manager never had does not concern it.
LEMMA FreeJobsKeeps ==
  ASSUME ManagerInv, NEW js, \A j \in js : j \in Jobs => heap[j] = "new", FreeJobs(js)
  PROVE  /\ ManagerInv'
         /\ Queued' = Queued /\ m_processing' = m_processing /\ m_running' = m_running
         /\ UNCHANGED <<wpc, wjob, wcallback, jobCallback>>
         /\ \A j \in Jobs : heap'[j] = IF j \in js THEN "freed" ELSE heap[j]
<1> USE DEF ManagerInv, itemVars, workerVars
<1>1. \A j \in Jobs : heap'[j] = IF j \in js THEN "freed" ELSE heap[j]
  BY DEF FreeJobs
<1>2. UNCHANGED <<m_running, m_pauseJobs, m_jobCounter, m_jobQueue, m_processing, m_workers,
                  m_jobEvent, jobId, jobPriority, jobCallback, wpc, wjob, wcallback, stopper>>
  BY DEF FreeJobs
<1>3. TypeOK'
  BY <1>2 DEF FreeJobs, TypeOK
<1>4. \A j \in Jobs : heap[j] = "owned" => heap'[j] = "owned"
  BY <1>1
<1>5. Placement'
  <2>1. QueuedJobsAreOwned'
    BY <1>2, <1>4 DEF Placement, QueuedJobsAreOwned, TypeOK
  <2>2. HeldJobsAreOwned'
    BY <1>2, <1>4 DEF Placement, HeldJobsAreOwned, Holds
  <2>3. QueuedOnce' /\ HeldOnce' /\ ProcessingIsHeld' /\ PoolIsAlive'
    BY <1>2 DEF Placement, QueuedOnce, HeldOnce, ProcessingIsHeld, PoolIsAlive, Holds
  <2> QED
    BY <2>1, <2>2, <2>3 DEF Placement
<1>6. IdsAreRecent'
  BY <1>1, <1>2, OthersKeepIds
<1>7. Queued' = Queued
  BY <1>2 DEF Queued, QueuedIn
<1> QED
  BY <1>1, <1>2, <1>3, <1>5, <1>6, <1>7

\* CancelJob of a live job's id hits that job alone.
LEMMA CancelsItsJob ==
  ASSUME ManagerInv, NEW j \in Queued \cup m_processing, ManagerCancels(PointerId(j))
  PROVE  /\ [Next]_vars
         /\ (Queued \cup m_processing)' \subseteq Queued \cup m_processing
         /\ (Queued \cup m_processing) \ {j} \subseteq (Queued \cup m_processing)'
         /\ UNCHANGED <<m_running, wpc, wjob, wcallback>>
         /\ \A k \in Jobs \ {j} : jobCallback'[k] = jobCallback[k] /\ heap'[k] = heap[k]
         /\ heap'[j] # "new"
<1> USE DEF ManagerInv, itemVars, workerVars
<1>1. j \in Jobs /\ heap[j] = "owned" /\ \A k \in Queued \cup m_processing : jobId[k] = jobId[j] => k = j
  BY UnreportedAreLive
<1>2. PICK id \in 1 .. IdModulus - 1 : id = jobId[j] /\ id = PointerId(j)
  <2>1. jobId[j] # 0
    BY <1>1 DEF IdsAreRecent, Numbered
  <2> QED
    BY <1>1, <2>1, IdModulusAssumption DEF TypeOK, PointerId
<1>3. CancelJob(id)
  BY <1>2 DEF ManagerCancels
<1>4. [Next]_vars
  BY <1>3 DEF Next
<1>5. CASE CancelQueuedJob(id)
  <2>1. PICK k \in Jobs : /\ k \in Queued /\ jobId[k] = id /\ Queued' = Queued \ {k}
                          /\ heap' = [heap EXCEPT ![k] = "freed"]
    BY <1>5, CancelQueuedJobUnqueues
  <2>2. k = j
    BY <1>1, <1>2, <2>1
  <2>3. /\ m_processing' = m_processing /\ jobCallback' = jobCallback
        /\ UNCHANGED <<m_running, wpc, wjob, wcallback>>
    BY <1>5 DEF CancelQueuedJob
  <2>4. heap'[j] = "freed" /\ \A l \in Jobs \ {j} : heap'[l] = heap[l]
    BY <2>1, <2>2 DEF TypeOK
  <2> QED
    BY <1>4, <2>1, <2>2, <2>3, <2>4
<1>6. CASE CancelProcessingJob(id)
  <2>1. PICK k \in m_processing : jobId[k] = id /\ jobCallback' = [jobCallback EXCEPT ![k] = FALSE]
    BY <1>6 DEF CancelProcessingJob
  <2>2. k = j
    BY <1>1, <1>2, <2>1
  <2>3. /\ m_processing' = m_processing /\ heap' = heap /\ m_jobQueue' = m_jobQueue
        /\ UNCHANGED <<m_running, wpc, wjob, wcallback>>
    BY <1>6 DEF CancelProcessingJob
  <2>4. Queued' = Queued
    BY <2>3 DEF Queued, QueuedIn
  <2>5. \A l \in Jobs \ {j} : jobCallback'[l] = jobCallback[l]
    BY <2>1, <2>2 DEF TypeOK
  <2> QED
    BY <1>1, <1>4, <2>3, <2>4, <2>5
<1> QED
  BY <1>3, <1>5, <1>6 DEF CancelJob

-----------------------------------------------------------------------------
(***************************************************************************)
(* What QueueNextJob does to lists q and p: the jobs n (one or none) leave *)
(* q for p and for the manager.                                            *)
(***************************************************************************)
HandsOver(q, p, n) ==
  /\ n \subseteq ToSet(q)
  /\ Queued' = Queued \cup n
  /\ ToSet(queue') = ToSet(q) \ n
  /\ ToSet(processing') = ToSet(p) \cup n
  /\ \A k \in n : heap'[k] = "owned" /\ jobCallback'[k]
  /\ \A k \in Jobs \ n : heap'[k] = heap[k] /\ jobCallback'[k] = jobCallback[k]

\* A job is handed over when there is one and room for it.
LEMMA QueueNextJobHandsOver ==
  ASSUME ManagerInv, m_running,
         NEW q \in Seq(Jobs), NEW p \in Seq(Jobs), Len(p) <= JobsAtOnce,
         Distinct(q, p), \A j \in ToSet(q) : heap[j] = "new", QueueNextJob(q, p)
  PROVE  /\ [Next]_vars
         /\ m_running'
         /\ queue' \in Seq(Jobs) /\ processing' \in Seq(Jobs) /\ Len(processing') <= JobsAtOnce
         /\ Distinct(queue', processing')
         /\ UNCHANGED <<m_processing, wjob, wcallback>>
         /\ \A w \in Workers : wpc'[w] = wpc[w] \/ (wpc[w] = "none" /\ wpc'[w] = "next")
         /\ \E n : HandsOver(q, p, n)
<1> USE DEF ManagerInv, itemVars, workerVars
<1>1. CASE queue' = q /\ processing' = p /\ UNCHANGED vars
  <2>1. UNCHANGED <<m_running, m_jobQueue, m_processing, heap, jobCallback, wpc, wjob, wcallback>>
    BY <1>1 DEF vars
  <2>2. HandsOver(q, p, {})
    BY <1>1, <2>1 DEF HandsOver, Queued, QueuedIn
  <2> QED
    BY <1>1, <2>1, <2>2
<1>2. CASE /\ q # <<>> /\ Len(p) < JobsAtOnce
           /\ AddJobAccepted(Last(q), QueuePriority, TRUE)
           /\ queue' = Front(q)
           /\ processing' = Append(p, Last(q))
  <2>1. /\ Front(q) \in Seq(Jobs) /\ IsInjective(Front(q))
        /\ ToSet(Front(q)) = ToSet(q) \ {Last(q)}
        /\ Last(q) \in Jobs /\ Last(q) \in ToSet(q)
    BY <1>2, FrontAndLast DEF Distinct
  <2>2. PICK j \in Jobs : j = Last(q) /\ j \in ToSet(q)
    BY <2>1
  <2>3. QueuePriority \in UsedPriorities /\ QueuePriority \in Priorities
    BY QueueAssumption, PrioritiesAssumption DEF QueueAssumption
  <2>4. AddJobAccepted(j, QueuePriority, TRUE)
    BY <1>2, <2>2
  <2>5. [Next]_vars
    BY <2>3, <2>4 DEF Next, AddJob
  <2>6. Queued' = Queued \cup {j}
    BY <2>3, <2>4, AddJobAcceptedQueues
  <2>7. /\ heap'[j] = "owned" /\ jobCallback'[j]
        /\ \A k \in Jobs \ {j} : heap'[k] = heap[k] /\ jobCallback'[k] = jobCallback[k]
        /\ UNCHANGED <<m_running, m_processing, wjob, wcallback>>
    BY <2>4 DEF AddJobAccepted, TypeOK
  <2>8. \A w \in Workers : wpc'[w] = wpc[w] \/ (wpc[w] = "none" /\ wpc'[w] = "next")
    BY <2>3, <2>4, StartWorkersPool DEF AddJobAccepted, Placement, TypeOK
  <2>9. j \notin ToSet(p)
    BY <2>2 DEF Distinct
  <2>10. /\ processing' \in Seq(Jobs) /\ Len(processing') = Len(p) + 1
         /\ ToSet(processing') = ToSet(p) \cup {j} /\ IsInjective(processing')
    BY <1>2, <2>2, <2>9, ToSetAppend, InjectiveAppend, AppendProperties DEF Distinct
  <2>11. Len(processing') <= JobsAtOnce
    BY <1>2, <2>10, QueueAssumption, LenProperties DEF QueueAssumption
  <2>12. Distinct(queue', processing')
    BY <1>2, <2>1, <2>2, <2>10 DEF Distinct
  <2>13. HandsOver(q, p, {j})
    BY <1>2, <2>1, <2>2, <2>6, <2>7, <2>10 DEF HandsOver
  <2> QED
    BY <1>2, <2>1, <2>5, <2>7, <2>8, <2>10, <2>11, <2>12, <2>13
<1> QED
  BY <1>1, <1>2 DEF QueueNextJob, AddJobRefused

\* InFlight, were h the workers that have been through OnJobComplete.
Kept(h) ==
  {j \in (Queued \cup m_processing) \ Withdrawn :
     \A w \in Workers : wjob[w] = j => ~h[w] /\ wpc[w] # "erase"}

\* After the last act of AddJob and OnJobComplete the invariant holds, if p is
\* what remains listed of what remains in flight.
LEMMA HandOverKeeps ==
  ASSUME ManagerInv, QueueInv, SectionFree,
         NEW q \in Seq(Jobs), NEW p \in Seq(Jobs), Len(p) <= JobsAtOnce,
         Distinct(q, p), \A j \in ToSet(q) : heap[j] = "new", QueueNextJob(q, p),
         UNCHANGED <<cancelAt, revoked>>,
         handled' \in [Workers -> BOOLEAN],
         \A w \in Workers : handled'[w] => wpc[w] = "callback" /\ wcallback[w],
         ToSet(p) \subseteq ToSet(processing), ToSet(p) \subseteq Kept(handled'),
         \A j \in Kept(handled') \ ToSet(p) : \E k \in revoked \ {j} : Content[k] = Content[j]
  PROVE  ManagerInv' => QueueInv'
<1> SUFFICES ASSUME ManagerInv' PROVE QueueInv'
  OBVIOUS
<1> USE DEF QueueInv
<1>1. /\ m_running' /\ queue' \in Seq(Jobs) /\ processing' \in Seq(Jobs)
      /\ Len(processing') <= JobsAtOnce /\ Distinct(queue', processing')
      /\ UNCHANGED <<m_processing, wjob, wcallback>>
      /\ \A w \in Workers : wpc'[w] = wpc[w] \/ (wpc[w] = "none" /\ wpc'[w] = "next")
  BY QueueNextJobHandsOver
<1>2. PICK n : HandsOver(q, p, n)
  BY QueueNextJobHandsOver
<1>3. /\ n \subseteq ToSet(q) /\ Queued' = Queued \cup n
      /\ ToSet(queue') = ToSet(q) \ n /\ ToSet(processing') = ToSet(p) \cup n
      /\ \A k \in n : heap'[k] = "owned" /\ jobCallback'[k]
      /\ \A k \in Jobs \ n : heap'[k] = heap[k] /\ jobCallback'[k] = jobCallback[k]
  BY <1>2 DEF HandsOver
<1>4. ToSet(q) \subseteq Jobs /\ ToSet(p) \subseteq Jobs
  BY DEF ToSet
<1>5. \A k \in n : /\ k \in Jobs /\ heap[k] = "new" /\ k \notin Queued \cup m_processing
                   /\ \A w \in Workers : Holds(w) => wjob[w] # k
  BY <1>3, <1>4, NewIsNowhere
<1>6. QueueTypeOK'
  <2>1. cancelAt' = 0 /\ Len(processing') \in Nat /\ revoked' \in SUBSET Jobs
    BY <1>1, LenProperties DEF SectionFree, EntriesAreInFlight, QueueTypeOK
  <2> QED
    BY <1>1, <2>1 DEF QueueTypeOK
<1>7. Listed' = ToSet(p) \cup n /\ Withdrawn' = revoked /\ Withdrawn = revoked
      /\ Listed = ToSet(processing)
  <2>1. SectionFree'
    BY DEF SectionFree
  <2>2. Listed' = ToSet(processing') /\ Withdrawn' = revoked'
    <3>1. cancelAt' = 0 /\ \A k \in DOMAIN processing' : k \in Nat /\ k >= 1
      BY <1>1, <2>1 DEF SectionFree
    <3>2. Withdrawn' = revoked'
      BY <3>1 DEF Withdrawn
    <3>3. Listed' = ToSet(processing')
      BY <3>1 DEF Listed, ToSet
    <3> QED
      BY <3>2, <3>3
  <2> QED
    BY <1>3, <2>2, AllAreListed DEF EntriesAreInFlight
<1>8. \A k \in n : k \notin revoked
  BY <1>5 DEF SeenAreOld
<1>9. \A w \in Workers : wpc'[w] = "erase" <=> wpc[w] = "erase"
  BY <1>1
<1>10. InFlight' = Kept(handled') \cup n
  <2>1. \A k \in n : \A w \in Workers : wjob[w] = k => ~handled'[w] /\ wpc[w] # "erase"
    BY <1>5 DEF Holds, Busy
  <2> QED
    BY <1>1, <1>3, <1>5, <1>7, <1>8, <1>9, <2>1 DEF InFlight, Kept
<1>11. EntriesAreInFlight'
  <2>1. Listed' \subseteq InFlight'
    BY <1>7, <1>10
  <2>2. \A j \in InFlight' \ Listed' : \E k \in revoked' \ {j} : Content[k] = Content[j]
    BY <1>7, <1>10
  <2> QED
    BY <1>6, <2>1, <2>2 DEF EntriesAreInFlight
<1>12. WaitingAreNew'
  BY <1>3, <1>4 DEF WaitingAreNew
<1>13. SeenAreOld'
  <2>1. \A j \in ToSet(p) \cup revoked : j \in Jobs /\ heap[j] # "new"
    BY <1>4 DEF SeenAreOld, EntriesAreInFlight, QueueTypeOK
  <2> QED
    BY <1>3, <2>1 DEF SeenAreOld
<1>14. HandledAreCalled'
  BY <1>1 DEF HandledAreCalled
<1>15. ListedAreReported'
  <2>1. ASSUME NEW j \in n, NEW w \in Workers, wjob'[w] = j, wpc'[w] = "callback" PROVE FALSE
    BY <1>1, <1>5, <2>1 DEF Holds, Busy
  <2>2. ASSUME NEW j \in ToSet(p)
        PROVE  /\ jobCallback'[j]
               /\ \A w \in Workers : wjob'[w] = j /\ wpc'[w] = "callback" => wcallback'[w]
    <3>1. j \in Jobs /\ j \notin n /\ j \in Listed
      BY <1>3, <1>4, <1>7 DEF Distinct
    <3>2. /\ jobCallback[j]
          /\ \A w \in Workers : wjob[w] = j /\ wpc[w] = "callback" => wcallback[w]
      BY <3>1 DEF ListedAreReported
    <3>3. \A w \in Workers : wpc'[w] = "callback" => wpc[w] = "callback"
      BY <1>1
    <3> QED
      BY <1>1, <1>3, <3>1, <3>2, <3>3
  <2> QED
    BY <1>3, <1>7, <2>1, <2>2 DEF ListedAreReported
<1> QED
  BY <1>1, <1>11, <1>12, <1>13, <1>14, <1>15

\* AddJob of a job that equals none in the lists.
LEMMA QueueAddsJobKeeps ==
  ASSUME ManagerInv, QueueInv, NEW j \in Jobs, QueueAddsJob(j)
  PROVE  [Next]_vars /\ (ManagerInv' => QueueInv')
<1> USE DEF QueueInv
<1> DEFINE q == IF Lifo THEN Append(queue, j) ELSE <<j>> \o queue
<1>1. /\ SectionFree /\ heap[j] = "new" /\ j \notin ToSet(queue)
      /\ QueueNextJob(q, processing) /\ UNCHANGED <<cancelAt, handled, revoked>>
  BY DEF QueueAddsJob
<1>2. /\ queue \in Seq(Jobs) /\ processing \in Seq(Jobs) /\ Len(processing) <= JobsAtOnce
      /\ handled \in [Workers -> BOOLEAN]
  BY DEF EntriesAreInFlight, QueueTypeOK
<1>3. Listed = ToSet(processing) /\ ToSet(processing) \subseteq InFlight
  BY <1>1, AllAreListed DEF EntriesAreInFlight
<1>4. q \in Seq(Jobs) /\ ToSet(q) = ToSet(queue) \cup {j} /\ IsInjective(q)
  <2>1. CASE Lifo
    <3>1. q = Append(queue, j)
      BY <2>1
    <3> HIDE DEF q
    <3>2. q \in Seq(Jobs)
      BY <1>2, <3>1, AppendProperties
    <3> QED
      BY <1>1, <1>2, <3>1, <3>2, ToSetAppend, InjectiveAppend DEF Distinct
  <2>2. CASE ~Lifo
    <3>1. q = Cons(j, queue)
      BY <2>2 DEF Cons
    <3> HIDE DEF q
    <3> QED
      BY <1>1, <1>2, <3>1, ConsKeeps DEF Distinct
  <2> QED
    BY <2>1, <2>2
<1> HIDE DEF q
<1>5. \A k \in ToSet(queue) \cup ToSet(processing) : Content[k] # Content[j]
  <2>1. 0 \in Find(queue, Content[j]) /\ 0 \in Find(processing, Content[j])
    BY DEF QueueAddsJob
  <2>2. \A k \in ToSet(processing) : heap[k] # "freed"
    BY <1>3, InFlightIsLive
  <2>3. \A k \in ToSet(queue) : heap[k] # "freed"
    BY DEF WaitingAreNew
  <2> QED
    BY <1>2, <2>1, <2>2, <2>3, FindFinds
<1>6. Distinct(q, processing)
  <2>1. j \notin ToSet(processing)
    BY <1>5
  <2> QED
    BY <1>4, <1>5, <2>1 DEF Distinct
<1>7. \A k \in ToSet(q) : heap[k] = "new"
  BY <1>1, <1>4 DEF WaitingAreNew
<1>8. Kept(handled') = InFlight
  BY <1>1 DEF Kept, InFlight
<1>9. \A w \in Workers : handled'[w] => wpc[w] = "callback" /\ wcallback[w]
  BY <1>1 DEF HandledAreCalled
<1>10. \A k \in InFlight \ ToSet(processing) : \E l \in revoked \ {k} : Content[l] = Content[k]
  BY <1>3 DEF EntriesAreInFlight
<1>11. [Next]_vars
  BY <1>1, <1>2, <1>4, <1>6, <1>7, QueueNextJobHandsOver
<1> QED
  BY <1>1, <1>2, <1>3, <1>4, <1>6, <1>7, <1>8, <1>9, <1>10, <1>11, HandOverKeeps

\* OnJobComplete: the completed job's entry goes, or that of a job equal to it.
LEMMA QueueOnJobCompleteKeepsInv ==
  ASSUME ManagerInv, QueueInv, NEW w \in Workers, QueueOnJobComplete(w)
  PROVE  [Next]_vars /\ (ManagerInv' => QueueInv')
<1> USE DEF QueueInv
<1>1. /\ SectionFree /\ wpc[w] = "callback" /\ wcallback[w] /\ ~handled[w]
      /\ handled' = [handled EXCEPT ![w] = TRUE] /\ UNCHANGED <<cancelAt, revoked>>
  BY DEF QueueOnJobComplete
<1>2. /\ queue \in Seq(Jobs) /\ processing \in Seq(Jobs) /\ Len(processing) <= JobsAtOnce
      /\ handled \in [Workers -> BOOLEAN] /\ Len(processing) \in Nat /\ JobsAtOnce \in Nat
  BY QueueAssumption, LenProperties DEF EntriesAreInFlight, QueueTypeOK, QueueAssumption
<1>3. Listed = ToSet(processing) /\ ToSet(processing) \subseteq InFlight /\ Withdrawn = revoked
  BY <1>1, AllAreListed DEF EntriesAreInFlight
<1>4. PICK j \in Jobs : j = wjob[w] /\ j \in m_processing
                        /\ \A v \in Workers : Holds(v) /\ wjob[v] = j => v = w
  BY <1>1 DEF ManagerInv, Placement, HeldJobsAreOwned, HeldOnce, ProcessingIsHeld, Holds, Busy
<1>5. PICK i \in Find(processing, Content[j]) :
        QueueNextJob(queue, IF i = 0 THEN processing ELSE DropAt(processing, i))
  BY <1>4 DEF QueueOnJobComplete
<1> DEFINE p == IF i = 0 THEN processing ELSE DropAt(processing, i)
<1>6. /\ i = 0 => \A k \in ToSet(processing) : Content[k] # Content[j]
      /\ i # 0 => i \in DOMAIN processing /\ processing[i] \in ToSet(processing)
                  /\ Content[processing[i]] = Content[j]
  <2>1. \A k \in ToSet(processing) : heap[k] # "freed"
    BY <1>3, InFlightIsLive
  <2> QED
    BY <1>2, <2>1, FindFinds
<1>7. /\ p \in Seq(Jobs) /\ Len(p) <= JobsAtOnce /\ IsInjective(p)
      /\ ToSet(p) = IF i = 0 THEN ToSet(processing) ELSE ToSet(processing) \ {processing[i]}
  <2>1. CASE i = 0
    BY <2>1, <1>2 DEF Distinct
  <2>2. CASE i # 0
    <3>1. i \in DOMAIN processing /\ p = DropAt(processing, i)
      BY <2>2, <1>6
    <3>2. /\ p \in Seq(Jobs) /\ Len(p) = Len(processing) - 1 /\ IsInjective(p)
          /\ ToSet(p) = ToSet(processing) \ {processing[i]}
      <4> HIDE DEF p
      <4> QED
        BY <1>2, <3>1, DropAtDropsOne DEF Distinct
    <3> QED
      BY <2>2, <1>2, <3>2
  <2> QED
    BY <2>1, <2>2
<1> HIDE DEF p
<1>8. QueueNextJob(queue, p)
  BY <1>5 DEF p
<1>9. Distinct(queue, p)
  BY <1>7 DEF Distinct
<1>10. \A k \in ToSet(queue) : heap[k] = "new"
  BY DEF WaitingAreNew
<1>11. handled' \in [Workers -> BOOLEAN] /\ handled'[w] = TRUE
       /\ \A v \in Workers \ {w} : handled'[v] = handled[v]
  BY <1>1, <1>2
<1>12. \A v \in Workers : handled'[v] => wpc[v] = "callback" /\ wcallback[v]
  BY <1>1, <1>11 DEF HandledAreCalled
<1>13. Kept(handled') = InFlight \ {j}
  <2>1. \A k : k # j => \A v \in Workers : wjob[v] = k => handled'[v] = handled[v]
    BY <1>4, <1>11
  <2>2. j \notin Kept(handled')
    BY <1>4, <1>11 DEF Kept
  <2> QED
    BY <2>1, <2>2 DEF Kept, InFlight
<1>14. j \notin ToSet(p)
  BY <1>6, <1>7 DEF Distinct
<1>15. ToSet(p) \subseteq Kept(handled')
  BY <1>3, <1>7, <1>13, <1>14
<1>16. ASSUME NEW m \in Kept(handled') \ ToSet(p)
       PROVE  \E k \in revoked \ {m} : Content[k] = Content[m]
  <2>1. CASE m \notin ToSet(processing)
    BY <2>1, <1>3, <1>13 DEF EntriesAreInFlight
  <2>2. CASE m \in ToSet(processing)
    <3>1. i # 0 /\ m = processing[i] /\ Content[m] = Content[j] /\ m # j
      BY <2>2, <1>6, <1>7, <1>13
    <3>2. j \notin ToSet(processing)
      BY <2>2, <3>1 DEF Distinct
    <3>3. m \notin revoked
      BY <2>2, <1>3, InFlightIsLive
    <3>4. CASE j \in InFlight
      <4>1. PICK k \in revoked \ {j} : Content[k] = Content[j]
        BY <3>2, <3>4, <1>3 DEF EntriesAreInFlight
      <4> QED
        BY <3>1, <3>3, <4>1
    <3>5. CASE j \notin InFlight
      <4>1. \A v \in Workers : wjob[v] = j => ~handled[v] /\ wpc[v] # "erase"
        BY <1>1, <1>4 DEF HandledAreCalled, Holds, Busy
      <4>2. j \in revoked
        BY <3>5, <4>1, <1>3, <1>4 DEF InFlight
      <4> QED
        BY <3>1, <4>2
    <3> QED
      BY <3>4, <3>5
  <2> QED
    BY <2>1, <2>2
<1>17. [Next]_vars
  BY <1>2, <1>7, <1>8, <1>9, <1>10, QueueNextJobHandsOver
<1>18. ToSet(p) \subseteq ToSet(processing)
  BY <1>7
<1> QED
  BY <1>1, <1>2, <1>7, <1>8, <1>9, <1>10, <1>11, <1>12, <1>15, <1>16, <1>17, <1>18, HandOverKeeps

-----------------------------------------------------------------------------
\* AddJob of a job that is equal to one in the lists deletes it.
LEMMA QueueHasJobKeeps ==
  ASSUME ManagerInv, QueueInv, NEW j \in Jobs, QueueHasJob(j)
  PROVE  ManagerInv' /\ QueueInv'
<1> USE DEF QueueInv
<1>1. heap[j] = "new" /\ j \notin ToSet(queue) /\ FreeJobs({j}) /\ UNCHANGED queueVars
  BY DEF QueueHasJob
<1>2. /\ ManagerInv' /\ Queued' = Queued /\ m_processing' = m_processing /\ m_running' = m_running
      /\ UNCHANGED <<wpc, wjob, wcallback, jobCallback>>
      /\ \A k \in Jobs : heap'[k] = IF k = j THEN "freed" ELSE heap[k]
  BY <1>1, FreeJobsKeeps
<1>3. UNCHANGED <<queue, processing, cancelAt, handled, revoked>>
  BY <1>1 DEF queueVars
<1>4. InFlight' = InFlight /\ Listed' = Listed
  BY <1>2, <1>3 DEF InFlight, Withdrawn, Listed
<1>5. EntriesAreInFlight'
  BY <1>3, <1>4 DEF EntriesAreInFlight, QueueTypeOK
<1>6. ToSet(queue) \subseteq Jobs /\ ToSet(processing) \subseteq Jobs /\ revoked \subseteq Jobs
  BY DEF ToSet, EntriesAreInFlight, QueueTypeOK
<1>7. WaitingAreNew' /\ SeenAreOld'
  BY <1>1, <1>2, <1>3, <1>6 DEF WaitingAreNew, SeenAreOld
<1>8. HandledAreCalled' /\ ListedAreReported' /\ Distinct(queue, processing)'
  BY <1>2, <1>3, <1>4 DEF HandledAreCalled, ListedAreReported, Distinct
<1> QED
  BY <1>2, <1>5, <1>7, <1>8

\* CancelJob deletes a job that waits.
LEMMA QueueCancelsQueuedKeeps ==
  ASSUME ManagerInv, QueueInv, NEW c, QueueCancelsQueued(c)
  PROVE  ManagerInv' /\ QueueInv'
<1> USE DEF QueueInv
<1>0. queue \in Seq(Jobs) /\ processing \in Seq(Jobs) /\ revoked \subseteq Jobs
  BY DEF EntriesAreInFlight, QueueTypeOK
<1>1. PICK i \in Find(queue, c) \ {0} :
        /\ FreeJobs({queue[i]})
        /\ queue' = DropAt(queue, i)
        /\ revoked' = revoked \cup {queue[i]}
  BY DEF QueueCancelsQueued
<1>2. i \in DOMAIN queue
  BY <1>1 DEF Find
<1>3. PICK j \in Jobs : j = queue[i] /\ j \in ToSet(queue) /\ heap[j] = "new"
  BY <1>0, <1>2 DEF WaitingAreNew, ToSet
<1>4. /\ ManagerInv' /\ Queued' = Queued /\ m_processing' = m_processing /\ m_running' = m_running
      /\ UNCHANGED <<wpc, wjob, wcallback, jobCallback>>
      /\ \A k \in Jobs : heap'[k] = IF k = j THEN "freed" ELSE heap[k]
  <2>1. FreeJobs({j}) /\ \A k \in {j} : heap[k] = "new"
    BY <1>1, <1>3
  <2> QED
    BY <2>1, FreeJobsKeeps
<1>5. /\ queue' \in Seq(Jobs) /\ ToSet(queue') = ToSet(queue) \ {j} /\ IsInjective(queue')
  BY <1>0, <1>1, <1>2, <1>3, DropAtDropsOne DEF Distinct
<1>6. UNCHANGED <<processing, cancelAt, handled>> /\ revoked' = revoked \cup {j}
  BY <1>1, <1>3 DEF QueueCancelsQueued
<1>7. j \notin Queued \cup m_processing
  BY <1>3, NewIsNowhere
<1>8. InFlight' = InFlight /\ Listed' = Listed
  BY <1>4, <1>6, <1>7 DEF InFlight, Withdrawn, Listed
<1>9. EntriesAreInFlight'
  <2>1. QueueTypeOK'
    BY <1>5, <1>6 DEF EntriesAreInFlight, QueueTypeOK
  <2> QED
    BY <2>1, <1>6, <1>8 DEF EntriesAreInFlight
<1>10. ToSet(queue) \subseteq Jobs /\ ToSet(processing) \subseteq Jobs
  BY <1>0 DEF ToSet
<1>11. WaitingAreNew' /\ SeenAreOld'
  BY <1>0, <1>4, <1>5, <1>6, <1>10 DEF WaitingAreNew, SeenAreOld
<1>12. HandledAreCalled' /\ ListedAreReported' /\ Distinct(queue', processing')
  BY <1>4, <1>5, <1>6, <1>8 DEF HandledAreCalled, ListedAreReported, Distinct
<1> QED
  BY <1>4, <1>9, <1>11, <1>12

\* A cancelled entry is in flight no longer; nothing else changes.
LEMMA CancelledEntryGoes ==
  ASSUME ManagerInv, ManagerInv', QueueInv, NEW j \in Listed, ManagerCancels(PointerId(j)),
         queue' = queue, handled' = handled, QueueTypeOK',
         IsInjective(processing'), ToSet(processing') \subseteq ToSet(processing),
         revoked \subseteq revoked', revoked' \subseteq revoked \cup {j},
         Withdrawn' = Withdrawn \cup {j}, Listed' = Listed \ {j}
  PROVE  QueueInv'
<1> USE DEF QueueInv
<1>0. j \in Queued \cup m_processing /\ j \in Jobs
  BY InFlightIsLive DEF EntriesAreInFlight
<1>1. /\ (Queued \cup m_processing)' \subseteq Queued \cup m_processing
      /\ (Queued \cup m_processing) \ {j} \subseteq (Queued \cup m_processing)'
      /\ UNCHANGED <<m_running, wpc, wjob, wcallback>>
      /\ \A k \in Jobs \ {j} : jobCallback'[k] = jobCallback[k] /\ heap'[k] = heap[k]
      /\ heap'[j] # "new"
  BY <1>0, CancelsItsJob
<1>2. InFlight' = InFlight \ {j}
  BY <1>1 DEF InFlight
<1>3. EntriesAreInFlight'
  BY <1>2 DEF EntriesAreInFlight
<1>4. ToSet(queue) \subseteq Jobs /\ ToSet(processing) \subseteq Jobs /\ revoked \subseteq Jobs
      /\ Listed \subseteq ToSet(processing)
  BY DEF ToSet, EntriesAreInFlight, QueueTypeOK, Listed
<1>5. WaitingAreNew'
  <2>1. j \notin ToSet(queue)
    BY <1>4 DEF Distinct
  <2> QED
    BY <1>1, <1>4, <2>1 DEF WaitingAreNew
<1>6. SeenAreOld'
  BY <1>1, <1>4 DEF SeenAreOld
<1>7. HandledAreCalled'
  BY <1>1 DEF HandledAreCalled
<1>8. ListedAreReported'
  <2>1. \A k \in Listed \ {j} : k \in Jobs \ {j}
    BY <1>4
  <2> QED
    BY <1>1, <2>1 DEF ListedAreReported
<1>9. Distinct(queue', processing')
  BY DEF Distinct
<1> QED
  BY <1>1, <1>3, <1>5, <1>6, <1>7, <1>8, <1>9

\* CancelJob of a job that was handed over.
LEMMA QueueCancelsProcessingKeepsInv ==
  ASSUME ManagerInv, QueueInv, NEW c, QueueCancelsProcessing(c)
  PROVE  [Next]_vars /\ (ManagerInv' => QueueInv') /\ revoked' # revoked
<1> USE DEF QueueInv
<1>0. queue \in Seq(Jobs) /\ processing \in Seq(Jobs) /\ Len(processing) <= JobsAtOnce
      /\ Len(processing) \in Nat /\ JobsAtOnce \in Nat
  BY LenProperties, QueueAssumption DEF EntriesAreInFlight, QueueTypeOK, QueueAssumption
<1>1. PICK i \in Find(processing, c) \ {0} :
        /\ ManagerCancels(PointerId(processing[i]))
        /\ processing' = DropAt(processing, i)
        /\ revoked' = revoked \cup {processing[i]}
  BY DEF QueueCancelsProcessing
<1>2. SectionFree /\ UNCHANGED <<queue, cancelAt, handled>>
  BY DEF QueueCancelsProcessing
<1>3. i \in DOMAIN processing
  BY <1>1 DEF Find
<1>4. Listed = ToSet(processing) /\ Withdrawn = revoked
  BY <1>2, AllAreListed DEF EntriesAreInFlight
<1>5. PICK j \in Listed : j = processing[i] /\ j \in InFlight
  BY <1>3, <1>4 DEF ToSet, EntriesAreInFlight
<1>6. j \in Jobs /\ j \in Queued \cup m_processing /\ j \notin revoked
  BY <1>4, <1>5, InFlightIsLive
<1>7. [Next]_vars
  BY <1>1, <1>5, <1>6, CancelsItsJob
<1>8. /\ processing' \in Seq(Jobs) /\ Len(processing') = Len(processing) - 1
      /\ ToSet(processing') = ToSet(processing) \ {j} /\ IsInjective(processing')
  BY <1>0, <1>1, <1>3, <1>5, DropAtDropsOne DEF Distinct
<1>9. QueueTypeOK'
  <2>1. cancelAt' = 0 /\ Len(processing') \in Nat /\ Len(processing') <= JobsAtOnce
    BY <1>0, <1>2, <1>8, LenProperties DEF SectionFree
  <2>2. cancelAt' \in 0 .. Len(processing') + 1
    BY <2>1
  <2> QED
    BY <1>1, <1>2, <1>5, <1>6, <1>8, <2>1, <2>2 DEF EntriesAreInFlight, QueueTypeOK
<1>10. Listed' = ToSet(processing') /\ Withdrawn' = revoked'
  <2>1. cancelAt' = 0 /\ \A k \in DOMAIN processing' : k \in Nat /\ k >= 1
    BY <1>2, <1>8 DEF SectionFree
  <2>2. Withdrawn' = revoked'
    BY <2>1 DEF Withdrawn
  <2>3. Listed' = ToSet(processing')
    BY <2>1 DEF Listed, ToSet
  <2> QED
    BY <2>2, <2>3
<1>11. Withdrawn' = Withdrawn \cup {j} /\ Listed' = Listed \ {j}
  BY <1>1, <1>4, <1>5, <1>8, <1>10
<1>12. ManagerInv' => QueueInv'
  BY <1>1, <1>2, <1>5, <1>8, <1>9, <1>11, CancelledEntryGoes
<1> QED
  BY <1>1, <1>5, <1>6, <1>7, <1>12

\* CancelJobs begins.
LEMMA QueueCancelJobsKeeps ==
  ASSUME QueueInv, QueueCancelJobs
  PROVE  QueueInv'
<1> USE DEF QueueInv
<1>1. /\ SectionFree /\ cancelAt' = 1
      /\ UNCHANGED <<m_running, m_jobQueue, m_processing, heap, jobCallback, wpc, wjob, wcallback,
                     queue, processing, handled, revoked>>
  BY DEF QueueCancelJobs, vars, itemVars, workerVars
<1>2. Listed = ToSet(processing) /\ Withdrawn = revoked
  BY <1>1, AllAreListed DEF EntriesAreInFlight
<1>3. processing \in Seq(Jobs) /\ Len(processing) \in Nat /\ DOMAIN processing = 1 .. Len(processing)
  BY LenProperties DEF EntriesAreInFlight, QueueTypeOK
<1>4. Listed' = Listed /\ Withdrawn' = Withdrawn
  <2>1. \A k \in DOMAIN processing : ~(k < 1) /\ k >= 1
    BY <1>3
  <2>2. Listed' = ToSet(processing)
    BY <1>1, <2>1 DEF Listed, ToSet
  <2>3. Withdrawn' = revoked
    BY <1>1, <2>1 DEF Withdrawn
  <2> QED
    BY <1>2, <2>2, <2>3
<1>5. Queued' = Queued
  BY <1>1 DEF Queued, QueuedIn
<1>6. InFlight' = InFlight
  BY <1>1, <1>4, <1>5 DEF InFlight
<1>7. QueueTypeOK'
  BY <1>1, <1>3 DEF EntriesAreInFlight, QueueTypeOK
<1>8. EntriesAreInFlight'
  BY <1>1, <1>4, <1>6, <1>7 DEF EntriesAreInFlight
<1> QED
  BY <1>1, <1>4, <1>8 DEF WaitingAreNew, SeenAreOld, HandledAreCalled, ListedAreReported, Distinct

\* CancelJobs cancels the next entry.
LEMMA QueueCancelsNextKeeps ==
  ASSUME ManagerInv, QueueInv, QueueCancelsNext
  PROVE  [Next]_vars /\ (ManagerInv' => QueueInv')
<1> USE DEF QueueInv
<1>1. /\ cancelAt \in DOMAIN processing /\ cancelAt' = cancelAt + 1
      /\ ManagerCancels(PointerId(processing[cancelAt]))
      /\ UNCHANGED <<queue, processing, handled, revoked>>
  BY DEF QueueCancelsNext
<1>2. processing \in Seq(Jobs) /\ Len(processing) \in Nat /\ DOMAIN processing = 1 .. Len(processing)
  BY LenProperties DEF EntriesAreInFlight, QueueTypeOK
<1>3. PICK j \in Listed : j = processing[cancelAt] /\ j \in InFlight
  BY <1>1, <1>2 DEF Listed, EntriesAreInFlight
<1>4. j \in Queued \cup m_processing
  BY <1>3, InFlightIsLive
<1>5. [Next]_vars
  BY <1>1, <1>3, <1>4, CancelsItsJob
<1>6. QueueTypeOK'
  BY <1>1, <1>2 DEF EntriesAreInFlight, QueueTypeOK
<1>7. Withdrawn' = Withdrawn \cup {j}
  <2>1. \A k \in DOMAIN processing : k < cancelAt + 1 <=> k < cancelAt \/ k = cancelAt
    BY <1>1, <1>2
  <2>2. {processing[i] : i \in {k \in DOMAIN processing : k < cancelAt + 1}}
          = {processing[i] : i \in {k \in DOMAIN processing : k < cancelAt}} \cup {j}
    BY <1>1, <1>3, <2>1
  <2> QED
    BY <1>1, <2>2 DEF Withdrawn
<1>8. Listed' = Listed \ {j}
  <2>1. \A k \in DOMAIN processing : k >= cancelAt + 1 <=> k >= cancelAt /\ k # cancelAt
    BY <1>1, <1>2
  <2>2. \A k \in DOMAIN processing : processing[k] = j <=> k = cancelAt
    BY <1>1, <1>3 DEF Distinct, IsInjective
  <2>3. {processing[i] : i \in {k \in DOMAIN processing : k >= cancelAt + 1}}
          = {processing[i] : i \in {k \in DOMAIN processing : k >= cancelAt}} \ {j}
    BY <2>1, <2>2
  <2> QED
    BY <1>1, <2>3 DEF Listed
<1>9. ManagerInv' => QueueInv'
  BY <1>1, <1>3, <1>6, <1>7, <1>8, CancelledEntryGoes DEF Distinct
<1> QED
  BY <1>5, <1>9

\* CancelJobs deletes what waits and clears both lists.
LEMMA QueueCancelJobsReturnsKeeps ==
  ASSUME ManagerInv, QueueInv, QueueCancelJobsReturns
  PROVE  ManagerInv' /\ QueueInv'
<1> USE DEF QueueInv
<1>0. queue \in Seq(Jobs) /\ processing \in Seq(Jobs) /\ revoked \subseteq Jobs
      /\ DOMAIN processing = 1 .. Len(processing) /\ Len(processing) \in Nat
      /\ ToSet(queue) \subseteq Jobs /\ ToSet(processing) \subseteq Jobs
  BY LenProperties DEF EntriesAreInFlight, QueueTypeOK, ToSet
<1>1. /\ cancelAt = Len(processing) + 1 /\ FreeJobs(ToSet(queue))
      /\ revoked' = revoked \cup ToSet(queue) \cup ToSet(processing)
      /\ queue' = <<>> /\ processing' = <<>> /\ cancelAt' = 0 /\ handled' = handled
  BY DEF QueueCancelJobsReturns
<1>2. /\ ManagerInv' /\ Queued' = Queued /\ m_processing' = m_processing /\ m_running' = m_running
      /\ UNCHANGED <<wpc, wjob, wcallback, jobCallback>>
      /\ \A k \in Jobs : heap'[k] = IF k \in ToSet(queue) THEN "freed" ELSE heap[k]
  BY <1>1, FreeJobsKeeps DEF WaitingAreNew
<1>3. Listed = {} /\ Withdrawn = revoked \cup ToSet(processing)
  <2>1. \A k \in DOMAIN processing : k < cancelAt /\ ~(k >= cancelAt)
    BY <1>0, <1>1
  <2>2. Listed = {}
    BY <2>1 DEF Listed
  <2>3. Withdrawn = revoked \cup ToSet(processing)
    BY <2>1 DEF Withdrawn, ToSet
  <2> QED
    BY <2>2, <2>3
<1>4. Listed' = {} /\ Withdrawn' = Withdrawn \cup ToSet(queue)
  <2>1. DOMAIN processing' = {}
    BY <1>1
  <2> QED
    BY <1>1, <1>3, <2>1 DEF Listed, Withdrawn
<1>5. \A j \in ToSet(queue) : j \notin Queued \cup m_processing
  BY <1>0, NewIsNowhere DEF WaitingAreNew
<1>6. InFlight' = InFlight
  BY <1>1, <1>2, <1>4, <1>5 DEF InFlight
<1>7. QueueTypeOK'
  <2>1. Len(processing') = 0 /\ queue' \in Seq(Jobs) /\ processing' \in Seq(Jobs)
    BY <1>1, EmptySeq
  <2> QED
    BY <1>0, <1>1, <2>1, QueueAssumption DEF EntriesAreInFlight, QueueTypeOK, QueueAssumption
<1>8. EntriesAreInFlight'
  BY <1>1, <1>3, <1>4, <1>6, <1>7 DEF EntriesAreInFlight
<1>9. ToSet(queue') = {} /\ ToSet(processing') = {} /\ IsInjective(queue') /\ IsInjective(processing')
  BY <1>1 DEF ToSet, IsInjective
<1>10. SeenAreOld'
  BY <1>0, <1>1, <1>2, <1>9 DEF SeenAreOld
<1> QED
  BY <1>1, <1>2, <1>4, <1>8, <1>9, <1>10
  DEF WaitingAreNew, HandledAreCalled, ListedAreReported, Distinct

-----------------------------------------------------------------------------
\* What a step of a worker thread may change.
LEMMA WorkerStepFrame ==
  ASSUME ManagerInv, NEW w \in Workers, WorkerStep(w)
  PROVE  /\ UNCHANGED <<m_running, jobCallback>>
         /\ \A v \in Workers \ {w} :
              wpc'[v] = wpc[v] /\ wjob'[v] = wjob[v] /\ wcallback'[v] = wcallback[v]
         /\ \A j \in Jobs : heap'[j] = heap[j] \/ (heap[j] = "owned" /\ heap'[j] = "freed")
         /\ (Queued \cup m_processing)' =
              IF wpc[w] = "erase" THEN (Queued \cup m_processing) \ {wjob[w]}
                                  ELSE Queued \cup m_processing
         /\ wpc'[w] = "callback" => wcallback'[w] = jobCallback[wjob'[w]]
         /\ wpc'[w] = "erase" <=> wpc[w] = "callback"
         /\ wpc[w] = "callback" => wjob'[w] = wjob[w]
<1> USE DEF ManagerInv, itemVars
<1>1. ASSUME NEW p \in Priorities, PopJob(w, p), wpc[w] \in {"next", "expired"}
      PROVE  (Queued \cup m_processing)' = Queued \cup m_processing
  <2>1. PICK h \in Jobs : h = Head(m_jobQueue[p]) /\ h \in Queued /\ Queued' = Queued \ {h}
    BY <1>1, PopJobUnqueues
  <2>2. m_processing' = m_processing \cup {h}
    BY <1>1, <2>1 DEF PopJob
  <2> QED
    BY <2>1, <2>2
<1>2. CASE GetNextJob(w)
  BY <1>1, <1>2 DEF GetNextJob, PopJob, TypeOK
<1>3. CASE UNCHANGED <<m_jobQueue, m_processing>> /\ wpc[w] # "erase"
  <2>1. Queued' = Queued
    BY <1>3 DEF Queued, QueuedIn
  <2>2. (Queued \cup m_processing)' = Queued \cup m_processing
    BY <1>3, <2>1
  <2>3. CASE GetNextJobSleeps(w) \/ GetNextJobQuits(w) \/ WaitBlocks(w) \/ WaitReturns(w)
               \/ WaitExpires(w) \/ DoWorkReturns(w)
    BY <2>2, <2>3, <1>3 DEF GetNextJobSleeps, GetNextJobQuits, WaitBlocks, WaitReturns, WaitExpires,
                            DoWorkReturns, TypeOK
  <2>4. CASE OnJobProgress(w) \/ OnJobProgressReturns(w)
    BY <2>2, <2>4 DEF OnJobProgress, OnJobProgressReturns, TypeOK
  <2>5. CASE OnJobCompleteCopies(w) \/ OnJobCompleteCalls(w)
    BY <2>2, <2>5 DEF OnJobCompleteCopies, OnJobCompleteCalls, TypeOK
  <2>6. CASE OnJobCompleteFrees(w)
    <3>1. wjob[w] \in Jobs /\ heap[wjob[w]] = "owned"
      BY <2>6 DEF OnJobCompleteFrees, Placement, HeldJobsAreOwned, Holds
    <3> QED
      BY <2>2, <2>6, <3>1 DEF OnJobCompleteFrees, TypeOK
  <2>7. CASE OnJobCompleteErases(w)
    BY <1>3, <2>7 DEF OnJobCompleteErases
  <2> QED
    BY <1>2, <2>3, <2>4, <2>5, <2>6, <2>7 DEF WorkerStep
<1>4. CASE OnJobCompleteErases(w)
  <2>1. m_processing' = m_processing \ {wjob[w]} /\ m_jobQueue' = m_jobQueue /\ wpc[w] = "erase"
    BY <1>4 DEF OnJobCompleteErases
  <2>2. Queued' = Queued /\ wjob[w] \notin Queued
    BY <2>1 DEF Placement, HeldJobsAreOwned, Holds, Busy, Queued, QueuedIn
  <2>3. (Queued \cup m_processing)' = (Queued \cup m_processing) \ {wjob[w]}
    BY <2>1, <2>2
  <2> QED
    BY <1>4, <2>1, <2>3 DEF OnJobCompleteErases, TypeOK
<1>5. \/ GetNextJob(w) \/ OnJobCompleteErases(w)
      \/ UNCHANGED <<m_jobQueue, m_processing>> /\ wpc[w] # "erase"
  BY DEF WorkerStep, GetNextJobSleeps, GetNextJobQuits, WaitBlocks, WaitReturns, WaitExpires,
         DoWorkReturns, OnJobProgress, OnJobProgressReturns, OnJobCompleteCopies,
         OnJobCompleteCalls, OnJobCompleteFrees
<1> QED
  BY <1>2, <1>3, <1>4, <1>5

\* Between two calls of the queue, a worker reports nothing that is listed.
LEMMA QueueWorkerStepKeeps ==
  ASSUME ManagerInv, QueueInv, NEW w \in Workers, QueueWorkerStep(w)
  PROVE  QueueInv'
<1> USE DEF QueueInv
<1>1. /\ WorkerStep(w) /\ UNCHANGED <<queue, processing, cancelAt, revoked>>
      /\ wpc[w] = "callback" /\ wcallback[w] => handled[w]
      /\ handled' = [handled EXCEPT ![w] = @ /\ wpc'[w] = "callback"]
  BY DEF QueueWorkerStep
<1>2. /\ UNCHANGED <<m_running, jobCallback>>
      /\ \A v \in Workers \ {w} :
           wpc'[v] = wpc[v] /\ wjob'[v] = wjob[v] /\ wcallback'[v] = wcallback[v]
      /\ \A j \in Jobs : heap'[j] = heap[j] \/ (heap[j] = "owned" /\ heap'[j] = "freed")
      /\ (Queued \cup m_processing)' =
           IF wpc[w] = "erase" THEN (Queued \cup m_processing) \ {wjob[w]}
                               ELSE Queued \cup m_processing
      /\ wpc'[w] = "callback" => wcallback'[w] = jobCallback[wjob'[w]]
      /\ wpc'[w] = "erase" <=> wpc[w] = "callback"
      /\ wpc[w] = "callback" => wjob'[w] = wjob[w]
  BY <1>1, WorkerStepFrame
<1>3. /\ handled' \in [Workers -> BOOLEAN] /\ handled'[w] = FALSE
      /\ \A v \in Workers \ {w} : handled'[v] = handled[v]
  BY <1>1, <1>2 DEF HandledAreCalled, EntriesAreInFlight, QueueTypeOK
<1>4. Listed' = Listed /\ Withdrawn' = Withdrawn
  BY <1>1 DEF Listed, Withdrawn
<1>5. InFlight' \subseteq InFlight
  <2> SUFFICES ASSUME NEW k \in InFlight', wjob[w] = k, handled[w] \/ wpc[w] = "erase"
               PROVE  FALSE
    BY <1>2, <1>3, <1>4 DEF InFlight
  <2> QED
    BY <1>2 DEF InFlight, HandledAreCalled
<1>6. Listed \subseteq InFlight'
  <2> SUFFICES ASSUME NEW j \in Listed PROVE j \in InFlight'
    OBVIOUS
  <2>1. j \in InFlight
    BY DEF EntriesAreInFlight
  <2>2. j \in (Queued \cup m_processing)' /\ j \notin Withdrawn'
    BY <2>1, <1>2, <1>4 DEF InFlight
  <2>3. wjob'[w] = j => ~handled'[w] /\ wpc'[w] # "erase"
    BY <2>1, <1>1, <1>2, <1>3 DEF InFlight, ListedAreReported
  <2> QED
    BY <2>1, <2>2, <2>3, <1>2, <1>3 DEF InFlight
<1>7. EntriesAreInFlight'
  <2>1. QueueTypeOK'
    BY <1>1, <1>3 DEF EntriesAreInFlight, QueueTypeOK
  <2> QED
    BY <2>1, <1>1, <1>4, <1>5, <1>6 DEF EntriesAreInFlight
<1>8. ToSet(queue) \subseteq Jobs /\ ToSet(processing) \subseteq Jobs /\ revoked \subseteq Jobs
  BY DEF ToSet, EntriesAreInFlight, QueueTypeOK
<1>9. WaitingAreNew' /\ SeenAreOld'
  BY <1>1, <1>2, <1>8 DEF WaitingAreNew, SeenAreOld
<1>10. HandledAreCalled'
  BY <1>2, <1>3 DEF HandledAreCalled
<1>11. ListedAreReported'
  BY <1>2, <1>4 DEF ListedAreReported
<1> QED
  BY <1>1, <1>2, <1>7, <1>9, <1>10, <1>11

-----------------------------------------------------------------------------
\* Each operation of the queue keeps both invariants.
LEMMA QueueNextKeeps ==
  ASSUME Cardinality(Jobs) < IdModulus, ManagerInv, QueueInv, [QueueNext]_allVars
  PROVE  ManagerInv' /\ QueueInv'
<1>1. ASSUME [Next]_vars, ManagerInv' => QueueInv' PROVE ManagerInv' /\ QueueInv'
  BY <1>1, ManagerInvKept
<1>2. ASSUME NEW j \in Jobs, QueueAddsJob(j) PROVE ManagerInv' /\ QueueInv'
  BY <1>1, <1>2, QueueAddsJobKeeps
<1>3. ASSUME NEW j \in Jobs, QueueHasJob(j) PROVE ManagerInv' /\ QueueInv'
  BY <1>3, QueueHasJobKeeps
<1>4. ASSUME NEW c \in CancelContents, QueueCancelsProcessing(c) PROVE ManagerInv' /\ QueueInv'
  BY <1>1, <1>4, QueueCancelsProcessingKeepsInv
<1>5. ASSUME NEW c \in CancelContents, QueueCancelsQueued(c) PROVE ManagerInv' /\ QueueInv'
  BY <1>5, QueueCancelsQueuedKeeps
<1>6. CASE QueueCancelJobs
  <2>1. [Next]_vars
    BY <1>6 DEF QueueCancelJobs
  <2> QED
    BY <1>1, <1>6, <2>1, QueueCancelJobsKeeps
<1>7. CASE QueueCancelsNext
  BY <1>1, <1>7, QueueCancelsNextKeeps
<1>8. CASE QueueCancelJobsReturns
  BY <1>8, QueueCancelJobsReturnsKeeps
<1>9. ASSUME NEW w \in Workers, QueueOnJobComplete(w) PROVE ManagerInv' /\ QueueInv'
  BY <1>1, <1>9, QueueOnJobCompleteKeepsInv
<1>10. ASSUME NEW w \in Workers, QueueWorkerStep(w) PROVE ManagerInv' /\ QueueInv'
  <2>1. [Next]_vars
    BY <1>10 DEF QueueWorkerStep, Next
  <2> QED
    BY <1>1, <1>10, <2>1, QueueWorkerStepKeeps
<1>11. CASE UNCHANGED allVars
  <2>1. [Next]_vars
    BY <1>11 DEF allVars
  <2>2. QueueInv'
    <3>1. UNCHANGED <<m_running, m_jobQueue, m_processing, heap, jobCallback, wpc, wjob, wcallback,
                      queue, processing, cancelAt, handled, revoked>>
      BY <1>11 DEF allVars, vars, queueVars, itemVars, workerVars
    <3>2. Queued' = Queued /\ Listed' = Listed /\ Withdrawn' = Withdrawn
      BY <3>1 DEF Queued, QueuedIn, Listed, Withdrawn
    <3>3. InFlight' = InFlight
      BY <3>1, <3>2 DEF InFlight
    <3>4. EntriesAreInFlight'
      BY <3>1, <3>2, <3>3 DEF QueueInv, EntriesAreInFlight, QueueTypeOK
    <3> QED
      BY <3>1, <3>2, <3>4
      DEF QueueInv, WaitingAreNew, SeenAreOld, HandledAreCalled, ListedAreReported, Distinct
  <2> QED
    BY <1>1, <2>1, <2>2
<1> QED
  BY <1>2, <1>3, <1>4, <1>5, <1>6, <1>7, <1>8, <1>9, <1>10, <1>11 DEF QueueNext

\* Nothing waits and nothing is listed at first.
LEMMA QueueInitKeeps == QueueInit => ManagerInv /\ QueueInv
<1> SUFFICES ASSUME QueueInit PROVE ManagerInv /\ QueueInv
  OBVIOUS
<1>1. Init /\ queue = <<>> /\ processing = <<>> /\ cancelAt = 0 /\ revoked = {}
      /\ handled = [w \in Workers |-> FALSE]
  BY DEF QueueInit
<1>2. ManagerInv
  BY <1>1, InitTypeOK, InitPlacement, InitIdsAreRecent DEF ManagerInv
<1>3. Queued = {} /\ m_processing = {} /\ m_running
  BY <1>1 DEF Init, Queued, QueuedIn
<1>4. InFlight = {} /\ Listed = {}
  BY <1>1, <1>3 DEF InFlight, Listed
<1>5. QueueTypeOK
  <2>1. Len(processing) = 0 /\ queue \in Seq(Jobs) /\ processing \in Seq(Jobs)
    BY <1>1, EmptySeq
  <2> QED
    BY <1>1, <2>1, QueueAssumption DEF QueueTypeOK, QueueAssumption
<1>6. EntriesAreInFlight
  BY <1>4, <1>5 DEF EntriesAreInFlight
<1>7. ToSet(queue) = {} /\ ToSet(processing) = {} /\ IsInjective(queue) /\ IsInjective(processing)
  BY <1>1 DEF ToSet, IsInjective
<1> QED
  BY <1>1, <1>2, <1>3, <1>4, <1>6, <1>7
  DEF QueueInv, Distinct, WaitingAreNew, SeenAreOld, HandledAreCalled, ListedAreReported

\* Both invariants hold throughout.
LEMMA QueueKeepsInv ==
  ASSUME Cardinality(Jobs) < IdModulus
  PROVE  QueueSpec => [](ManagerInv /\ QueueInv)
<1>1. ManagerInv /\ QueueInv /\ [QueueNext]_allVars => (ManagerInv /\ QueueInv)'
  BY QueueNextKeeps
<1> QED
  BY <1>1, QueueInitKeeps, PTL DEF QueueSpec

(***************************************************************************)
(* Each entry of m_processing that CancelJobs is not about to clear is a   *)
(* job the manager has and will report, whatever workers complete while    *)
(* CJobQueue adds and cancels, provided there are fewer jobs than ids: no  *)
(* entry dangles, and none stays for ever.  What the manager still has for *)
(* the queue but the queue does not list is equal to a job that was        *)
(* withdrawn.                                                              *)
(***************************************************************************)
THEOREM EntriesAreInFlightHolds ==
  ASSUME Cardinality(Jobs) < IdModulus
  PROVE  QueueSpec => []EntriesAreInFlight
<1>1. QueueInv => EntriesAreInFlight
  BY DEF QueueInv
<1> QED
  BY <1>1, QueueKeepsInv, PTL

\* No list that find() searches has a job that was deleted.
ComparesLiveJobs ==
  SectionFree => \A j \in ToSet(queue) \cup ToSet(processing) : heap[j] # "freed"

(***************************************************************************)
(* The lists hold raw pointers to jobs that workers and CancelJob delete;  *)
(* whenever m_section is free, so that AddJob, CancelJob or OnJobComplete  *)
(* may search them with CJob::operator==, none of them dangles.            *)
(***************************************************************************)
THEOREM ComparesLiveJobsHolds ==
  ASSUME Cardinality(Jobs) < IdModulus
  PROVE  QueueSpec => []ComparesLiveJobs
<1>1. ManagerInv /\ QueueInv => ComparesLiveJobs
  <2> SUFFICES ASSUME ManagerInv, QueueInv, SectionFree
               PROVE  \A j \in ToSet(queue) \cup ToSet(processing) : heap[j] # "freed"
    BY DEF ComparesLiveJobs
  <2>1. ToSet(processing) \subseteq InFlight
    BY AllAreListed DEF QueueInv, EntriesAreInFlight
  <2> QED
    BY <2>1, InFlightIsLive DEF QueueInv, WaitingAreNew
<1> QED
  BY <1>1, QueueKeepsInv, PTL

(***************************************************************************)
(* CJobQueue::AddJob's two searches keep equal jobs apart: no two jobs     *)
(* that wait or are listed as handed over are equal.                       *)
(***************************************************************************)
THEOREM JobsAreUniqueHolds ==
  ASSUME Cardinality(Jobs) < IdModulus
  PROVE  QueueSpec => []JobsAreUnique
<1>1. QueueInv => JobsAreUnique
  BY DistinctAreUnique DEF QueueInv, EntriesAreInFlight
<1> QED
  BY <1>1, QueueKeepsInv, PTL

-----------------------------------------------------------------------------
\* The last act of AddJob and OnJobComplete uses the room there is, if at most
\* one job was added to the queue or one entry erased.
LEMMA HandOverUsesRoom ==
  ASSUME QueueTypeOK, NEW q \in Seq(Jobs), NEW p \in Seq(Jobs),
         Len(q) <= Len(queue) + 1, Len(processing) <= Len(p) + 1,
         QueueNextJob(q, p), HasRoom'
  PROVE  HasRoom
<1>1. /\ Len(q) \in Nat /\ Len(p) \in Nat /\ Len(processing) \in Nat /\ Len(queue) \in Nat
      /\ JobsAtOnce \in Nat
  BY LenProperties, QueueAssumption DEF QueueAssumption, QueueTypeOK
<1>2. CASE queue' = q /\ processing' = p /\ (q = <<>> \/ Len(p) >= JobsAtOnce)
  BY <1>1, <1>2 DEF HasRoom
<1>3. CASE /\ q # <<>> /\ Len(p) < JobsAtOnce
           /\ queue' = Front(q) /\ processing' = Append(p, Last(q))
  <2>1. Len(q) >= 1 /\ DOMAIN q = 1 .. Len(q) /\ Len(q) \in DOMAIN q
    BY <1>3, LenProperties, EmptySeq
  <2>2. Front(q) \in Seq(Jobs) /\ Len(Front(q)) = Len(q) - 1
    BY <2>1, ElementOfSeq DEF Front
  <2>3. Last(q) \in Jobs
    BY <2>1, ElementOfSeq DEF Last
  <2>4. Len(processing') = Len(p) + 1
    BY <1>3, <2>3, AppendProperties
  <2>5. Len(Front(q)) # 0
    BY <1>3, <2>2, EmptySeq DEF HasRoom
  <2>6. Len(queue) >= 1
    BY <1>1, <2>1, <2>2, <2>5
  <2>7. Len(processing) < JobsAtOnce
    BY <1>1, <1>3, <2>4 DEF HasRoom
  <2>8. queue # <<>>
    BY <2>6, EmptySeq
  <2> QED
    BY <2>7, <2>8 DEF HasRoom
<1> QED
  BY <1>2, <1>3 DEF QueueNextJob

\* A step that leaves the revoked jobs alone makes no room that it does not use.
LEMMA QueueNextUsesRoom ==
  ASSUME ManagerInv, QueueInv, [QueueNext]_allVars, HasRoom', ~HasRoom, revoked' = revoked
  PROVE  FALSE
<1>0. /\ QueueTypeOK
      /\ Len(processing) \in Nat /\ Len(queue) \in Nat
      /\ queue \in Seq(Jobs) /\ processing \in Seq(Jobs)
  BY LenProperties DEF QueueInv, EntriesAreInFlight, QueueTypeOK
<1>1. ASSUME UNCHANGED <<queue, processing>> PROVE FALSE
  BY <1>1 DEF HasRoom
<1>2. ASSUME NEW j \in Jobs, QueueAddsJob(j) PROVE FALSE
  <2> DEFINE q == IF Lifo THEN Append(queue, j) ELSE <<j>> \o queue
  <2>1. QueueNextJob(q, processing)
    BY <1>2 DEF QueueAddsJob
  <2>2. q \in Seq(Jobs) /\ Len(q) = Len(queue) + 1
    <3>1. <<j>> \in Seq(Jobs) /\ Len(<<j>>) = 1
      OBVIOUS
    <3>2. CASE Lifo
      BY <3>2, <1>0, AppendProperties
    <3>3. CASE ~Lifo
      BY <3>1, <3>3, <1>0, ConcatProperties
    <3> QED
      BY <3>2, <3>3
  <2> HIDE DEF q
  <2> QED
    BY <1>0, <2>1, <2>2, HandOverUsesRoom
<1>3. ASSUME NEW c \in CancelContents, QueueCancelsProcessing(c) PROVE FALSE
  BY <1>3, QueueCancelsProcessingKeepsInv
<1>4. ASSUME NEW c \in CancelContents, QueueCancelsQueued(c) PROVE FALSE
  <2>1. PICK i \in Find(queue, c) \ {0} : revoked' = revoked \cup {queue[i]}
    BY <1>4 DEF QueueCancelsQueued
  <2>2. i \in DOMAIN queue
    BY <2>1 DEF Find
  <2>3. queue[i] \in ToSet(queue) /\ heap[queue[i]] = "new"
    BY <2>2 DEF ToSet, QueueInv, WaitingAreNew
  <2> QED
    BY <2>1, <2>3 DEF QueueInv, SeenAreOld
<1>5. CASE QueueCancelJobs
  BY <1>1, <1>5 DEF QueueCancelJobs
<1>6. CASE QueueCancelsNext
  BY <1>1, <1>6 DEF QueueCancelsNext
<1>7. CASE QueueCancelJobsReturns
  BY <1>7 DEF QueueCancelJobsReturns, HasRoom
<1>8. ASSUME NEW w \in Workers, QueueOnJobComplete(w) PROVE FALSE
  <2>1. PICK i \in Find(processing, Content[wjob[w]]) :
          QueueNextJob(queue, IF i = 0 THEN processing ELSE DropAt(processing, i))
    BY <1>8 DEF QueueOnJobComplete
  <2> DEFINE p == IF i = 0 THEN processing ELSE DropAt(processing, i)
  <2>2. p \in Seq(Jobs) /\ Len(processing) <= Len(p) + 1
    <3>1. CASE i = 0
      BY <3>1, <1>0
    <3>2. CASE i # 0
      <4>1. i \in DOMAIN processing /\ p = DropAt(processing, i)
        BY <2>1, <3>2 DEF Find
      <4>2. p \in Seq(Jobs) /\ Len(p) = Len(processing) - 1
        <5> HIDE DEF p
        <5> QED
          BY <1>0, <4>1, DropAtDropsOne DEF QueueInv, Distinct
      <4> QED
        BY <1>0, <4>2
    <3> QED
      BY <3>1, <3>2
  <2>3. QueueNextJob(queue, p)
    BY <2>1
  <2> HIDE DEF p
  <2> QED
    BY <1>0, <2>2, <2>3, HandOverUsesRoom
<1>9. CASE (\E j \in Jobs : QueueHasJob(j)) \/ (\E w \in Workers : QueueWorkerStep(w))
            \/ UNCHANGED allVars
  BY <1>1, <1>9 DEF QueueHasJob, QueueWorkerStep, allVars, queueVars
<1> QED
  BY <1>2, <1>3, <1>4, <1>5, <1>6, <1>7, <1>8, <1>9 DEF QueueNext

(***************************************************************************)
(* Only a call that revokes a job, CancelJob, leaves a job waiting beside  *)
(* an unused place of m_processing: AddJob and OnJobComplete hand over the *)
(* next job whenever they make room for it.                                *)
(***************************************************************************)
THEOREM RoomIsUsedHolds ==
  ASSUME Cardinality(Jobs) < IdModulus
  PROVE  QueueSpec => RoomIsUsed
<1>1. ManagerInv /\ QueueInv /\ [QueueNext]_allVars
        => [HasRoom' /\ ~HasRoom => revoked' # revoked]_allVars
  BY QueueNextUsesRoom
<1> QED
  BY <1>1, QueueKeepsInv, PTL DEF QueueSpec, RoomIsUsed

=============================================================================
