------------------------ MODULE LargeTextureManager ------------------------
(***************************************************************************)
(* CGUILargeTextureManager (xbmc/GUILargeTextureManager.cpp) on top of     *)
(* CJobManager: images shared by the controls of the skin, counted by      *)
(* reference, loaded by one job each.                                      *)
(*                                                                         *)
(* m_listSection is taken before the manager's m_section and held across   *)
(* AddJob and CancelJob; the manager calls OnJobComplete without its own.  *)
(* Each member function is one action.  The controls (CGUITextureBase) all *)
(* live on the application thread.                                         *)
(*                                                                         *)
(* Bounds: each load uses up one of Jobs, and nobody shuts down or pauses  *)
(* the manager.  A CImageLoader reports no progress.                       *)
(***************************************************************************)
EXTENDS JobManager, SequencesExt, SequenceFilter

CONSTANTS Controls,  \* the CGUITextureBase objects
          Path       \* control -> the path of the large image it shows

PRIORITY_NORMAL == 2

ASSUME ControlsAssumption == IsFiniteSet(Controls) /\ DOMAIN Path = Controls
ASSUME TexturePriorityAssumption == PRIORITY_NORMAL \in UsedPriorities

VARIABLES
  m_queued,      \* the images being loaded: job id, path, m_refCount
  m_allocated,   \* the images loaded: path, m_refCount, m_texture.size() > 0
  m_isAllocated  \* control -> "NO", "LARGE" (no texture yet), "SHOWN" (LARGE
                 \* with its texture) or "LARGE_FAILED"

textureVars == <<m_queued, m_allocated, m_isAllocated>>
textureAllVars == <<vars, textureVars>>

Paths == {Path[c] : c \in Controls}

TextureTypeOK ==
  /\ m_queued \in Seq([id : 1 .. IdModulus - 1, path : Paths, refs : Nat \ {0}])
  /\ m_allocated \in Seq([path : Paths, refs : Nat, loaded : BOOLEAN])
  /\ m_isAllocated \in [Controls -> {"NO", "LARGE", "SHOWN", "LARGE_FAILED"}]

TextureInit ==
  /\ Init
  /\ m_queued = <<>>
  /\ m_allocated = <<>>
  /\ m_isAllocated = [c \in Controls |-> "NO"]

-----------------------------------------------------------------------------
IsListed(list, path) == \E i \in DOMAIN list : list[i].path = path

\* The first image of a list with that path.
Place(list, path) == SelectInSeq(list, LAMBDA image : image.path = path)

\* AllocateOnDemand asks for a texture until the control has one or gave up.
Asks(c) == m_isAllocated[c] \in {"NO", "LARGE"}

\* Mistake: an image a control has waited for gets a second reference.
GetAllocatedImageAgain(c) ==
  LET i == Place(m_allocated, Path[c]) IN
  /\ Asks(c)
  /\ IsListed(m_allocated, Path[c])
  /\ m_allocated' = [m_allocated EXCEPT ![i].refs = @ + 1]
  /\ m_isAllocated' = [m_isAllocated EXCEPT ![c] =
       IF m_allocated[i].loaded THEN "SHOWN" ELSE "LARGE_FAILED"]
  /\ UNCHANGED <<vars, m_queued>>

\* GetImage finds the image loaded; only a first request takes a reference.
GetAllocatedImage(c) ==
  LET i == Place(m_allocated, Path[c]) IN
  /\ Asks(c)
  /\ IsListed(m_allocated, Path[c])
  /\ m_allocated' = [m_allocated EXCEPT ![i].refs =
       IF m_isAllocated[c] = "NO" THEN @ + 1 ELSE @]
  /\ m_isAllocated' = [m_isAllocated EXCEPT ![c] =
       IF m_allocated[i].loaded THEN "SHOWN" ELSE "LARGE_FAILED"]
  /\ UNCHANGED <<vars, m_queued>>

\* GetImage, then QueueImage: the image is being loaded for another control.
GetQueuedImage(c) ==
  /\ m_isAllocated[c] = "NO"
  /\ ~IsListed(m_allocated, Path[c])
  /\ IsListed(m_queued, Path[c])
  /\ m_queued' = [m_queued EXCEPT ![Place(m_queued, Path[c])].refs = @ + 1]
  /\ m_isAllocated' = [m_isAllocated EXCEPT ![c] = "LARGE"]
  /\ UNCHANGED <<vars, m_allocated>>

\* GetImage, then QueueImage: a job loads the image.
QueueImage(c) ==
  /\ m_isAllocated[c] = "NO"
  /\ ~IsListed(m_allocated, Path[c])
  /\ ~IsListed(m_queued, Path[c])
  /\ \E j \in Jobs : AddJobAccepted(j, PRIORITY_NORMAL, TRUE)
  /\ m_queued' = Append(m_queued, [id |-> NextId, path |-> Path[c], refs |-> 1])
  /\ m_isAllocated' = [m_isAllocated EXCEPT ![c] = "LARGE"]
  /\ UNCHANGED m_allocated

(***************************************************************************)
(* FreeResources, then ReleaseImage of a loaded image: without references  *)
(* it stays until CleanupUnusedImages, unless it is to go at once.         *)
(***************************************************************************)
ReleaseAllocatedImage(c, immediately) ==
  LET i == Place(m_allocated, Path[c])
      now == immediately \/ m_isAllocated[c] = "LARGE_FAILED"
  IN
  /\ m_isAllocated[c] # "NO"
  /\ IsListed(m_allocated, Path[c])
  /\ m_allocated' = IF m_allocated[i].refs = 1 /\ now
                    THEN RemoveAt(m_allocated, i)
                    ELSE [m_allocated EXCEPT ![i].refs = @ - 1]
  /\ m_isAllocated' = [m_isAllocated EXCEPT ![c] = "NO"]
  /\ UNCHANGED <<vars, m_queued>>

\* Mistake: the job goes on.
ReleaseQueuedImageUncancelled(c) ==
  LET i == Place(m_queued, Path[c]) IN
  /\ m_isAllocated[c] # "NO"
  /\ ~IsListed(m_allocated, Path[c])
  /\ IsListed(m_queued, Path[c])
  /\ m_queued' = IF m_queued[i].refs = 1 THEN RemoveAt(m_queued, i)
                 ELSE [m_queued EXCEPT ![i].refs = @ - 1]
  /\ m_isAllocated' = [m_isAllocated EXCEPT ![c] = "NO"]
  /\ UNCHANGED <<vars, m_allocated>>

\* ReleaseImage of a queued image: the last reference cancels its job.
ReleaseQueuedImage(c) ==
  LET i == Place(m_queued, Path[c]) IN
  /\ m_isAllocated[c] # "NO"
  /\ ~IsListed(m_allocated, Path[c])
  /\ IsListed(m_queued, Path[c])
  /\ \/ /\ m_queued[i].refs = 1
        /\ CancelJob(m_queued[i].id)
        /\ m_queued' = RemoveAt(m_queued, i)
     \/ /\ m_queued[i].refs > 1
        /\ m_queued' = [m_queued EXCEPT ![i].refs = @ - 1]
        /\ UNCHANGED vars
  /\ m_isAllocated' = [m_isAllocated EXCEPT ![c] = "NO"]
  /\ UNCHANGED m_allocated

\* CleanupUnusedImages deletes the unreferenced images whose time has come.
CleanupUnusedImages ==
  \E due \in SUBSET {m_allocated[i].path : i \in DOMAIN m_allocated} :
    /\ m_allocated' = SelectIn(m_allocated,
         {image \in ToSet(m_allocated) : image.refs > 0 \/ image.path \notin due})
    /\ UNCHANGED <<vars, m_queued, m_isAllocated>>

-----------------------------------------------------------------------------
\* The queued image that the job with that id loads.
QueuedAt(id) == SelectInSeq(m_queued, LAMBDA image : image.id = id)

\* Mistake: an image that could not be loaded is dropped.
ImageLoadedOrDropped(id) ==
  LET i == QueuedAt(id) IN
  /\ i # 0
  /\ m_queued' = RemoveAt(m_queued, i)
  /\ \/ m_allocated' = Append(m_allocated,
          [path |-> m_queued[i].path, refs |-> m_queued[i].refs, loaded |-> TRUE])
     \/ UNCHANGED m_allocated

\* OnJobComplete of the job's id: the image moves on, with or without a texture.
ImageLoaded(id) ==
  LET i == QueuedAt(id) IN
  /\ i # 0
  /\ m_queued' = RemoveAt(m_queued, i)
  /\ \E loaded \in BOOLEAN :
       m_allocated' = Append(m_allocated,
         [path |-> m_queued[i].path, refs |-> m_queued[i].refs, loaded |-> loaded])

IsQueued(id) == \E i \in DOMAIN m_queued : m_queued[i].id = id

\* The worker's call of OnJobComplete, for an id that is still queued or not.
TextureOnJobComplete(w) ==
  /\ OnJobCompleteCalls(w)
  /\ \/ wcallback[w] /\ ImageLoaded(jobId[wjob[w]])
     \/ /\ wcallback[w] => ~IsQueued(jobId[wjob[w]])
        /\ UNCHANGED <<m_queued, m_allocated>>
  /\ UNCHANGED m_isAllocated

TextureWorkerStep(w) ==
  \/ TextureOnJobComplete(w)
  \/ /\ WorkerStep(w)
     /\ wpc[w] # "callback" /\ wpc'[w] # "progress"
     /\ UNCHANGED textureVars

TextureNext ==
  \/ \E c \in Controls :
       \/ GetAllocatedImage(c)
       \/ GetQueuedImage(c)
       \/ QueueImage(c)
       \/ \E immediately \in BOOLEAN : ReleaseAllocatedImage(c, immediately)
       \/ ReleaseQueuedImage(c)
  \/ CleanupUnusedImages
  \/ \E w \in Workers : TextureWorkerStep(w)

TextureSpec == TextureInit /\ [][TextureNext]_textureAllVars

\* The workers are scheduled, loading an image ends, and a visible control is
\* processed with every frame.
TextureFairness ==
  /\ \A w \in Workers : WF_textureAllVars(TextureWorkerStep(w))
  /\ \A c \in Controls : WF_textureAllVars(m_isAllocated[c] = "LARGE" /\ GetAllocatedImage(c))

TextureFairSpec == TextureSpec /\ TextureFairness

-----------------------------------------------------------------------------
Holders(path) == {c \in Controls : Path[c] = path /\ m_isAllocated[c] # "NO"}

(***************************************************************************)
(* An image is in one list only, with as many references as controls hold  *)
(* it, whoever asked for it before, during and after its loading: no       *)
(* control shows a texture that was deleted, and none is kept for nobody.  *)
(***************************************************************************)
ReferencesAreHeld ==
  LET all == [i \in DOMAIN m_queued |-> [path |-> m_queued[i].path, refs |-> m_queued[i].refs]]
             \o [i \in DOMAIN m_allocated |->
                   [path |-> m_allocated[i].path, refs |-> m_allocated[i].refs]]
  IN
  /\ TextureTypeOK
  /\ \A i, k \in DOMAIN all : all[i].path = all[k].path => i = k
  /\ \A i \in DOMAIN all : all[i].refs = Cardinality(Holders(all[i].path))
  /\ \A c \in Controls : m_isAllocated[c] # "NO" => IsListed(all, Path[c])
  /\ \A c \in Controls : m_isAllocated[c] = "SHOWN" =>
       \E i \in DOMAIN m_allocated : m_allocated[i].path = Path[c] /\ m_allocated[i].loaded

\* The jobs whose completion is still to come.
Unreported == Queued \cup {j \in m_processing : jobCallback[j] /\
                             \A w \in Workers : wjob[w] = j => wpc[w] # "erase"}

(***************************************************************************)
(* The queued images and the jobs that will be reported are the same:      *)
(* nothing waits for a job that is gone, and no image is loaded that no    *)
(* control wants any more, although a job may be popped, cancelled and     *)
(* completed while controls come and go.                                   *)
(***************************************************************************)
LoadsAreInFlight ==
  {m_queued[i].id : i \in DOMAIN m_queued} = {jobId[j] : j \in Unreported}

\* A control that asked for an image is shown it, is told that it cannot be
\* loaded, or gives it up.
WantedImagesArrive ==
  \A c \in Controls : m_isAllocated[c] = "LARGE" ~> m_isAllocated[c] # "LARGE"

=============================================================================
