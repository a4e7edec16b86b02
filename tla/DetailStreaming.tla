--------------------------- MODULE DetailStreaming ---------------------------
(***************************************************************************)
(* Refinement of a large scan after its coarse proxy is complete and the   *)
(* terminal marker has been accepted: the render thread asks for visible   *)
(* regions that fit the video-memory budget, the broker's detail replay    *)
(* has them decoded, the upload thread reserves and copies them, and the   *)
(* render thread takes them in or evicts others (RenderThread.cpp,         *)
(* D3D12ViewerPath.cpp, the replay loop of ImportSession.cpp).             *)
(*                                                                         *)
(* A step is one critical section of the upload inbox's mutex or what runs *)
(* between two.  Bytes are small numbers.  Every region has a coarse       *)
(* parent (the broker accepts no scan without), which is not evicted.      *)
(***************************************************************************)
EXTENDS Integers, Sequences, FiniteSets, SequencesExt, FiniteSetsExt

CONSTANTS
    Regions,        \* identities of the scan catalog
    Cost,           \* per region, bytes of its vertex and index buffers
    Fallbacks,      \* per region, bytes of neutral textures, descriptors and
                    \* material constants its upload reserves besides
    ConstantBytes,  \* the constant buffer of a fine mesh
    ReservedBytes,  \* what is never evicted: targets, coarse scene, low mips
    TextureBytes,   \* what shedding the high mips gives back
    Targets,        \* budgets the adapter may grant
    Views,          \* cameras: per region, its priority, 0 when out of view
    FrameSlots,     \* frames the GPU may have pending
    MaxCandidates,  \* regions considered for one frame, 32 in the code
    MaxRequests,    \* maxDetailRequestsPerGeneration
    MaxChanges,     \* bound on camera moves, budget changes and faults
    Faults          \* may a copy or the replay fail?

ASSUME StreamingAssumption ==
    /\ Regions \subseteq Nat
    /\ Cost \in [Regions -> Nat \ {0}]
    /\ Fallbacks \in [Regions -> Nat]
    /\ {ConstantBytes, ReservedBytes, TextureBytes, MaxRequests, MaxChanges} \subseteq Nat
    /\ Targets \subseteq Nat
    /\ Views \subseteq [Regions -> Nat]
    /\ FrameSlots \in Nat \ {0} /\ MaxCandidates \in Nat \ {0}
    /\ Faults \in BOOLEAN

VARIABLES
    tick,           \* what the render thread does next
    resident,       \* fine meshes of path_.model
    coarseDrawn,    \* regions whose coarse parent has drawEnabled
    fullTextures,   \* does the model still hold the high mips?
    retired,        \* retiredModels, oldest first
    frames,         \* the fine meshes each frame pending on the GPU draws
    details,        \* UploadInbox::details
    requested,      \* UploadInbox::requestedDetails
    base,           \* gpuBaseBytes
    pending,        \* gpuPendingBytes
    target,         \* gpuTargetBytes
    mandatory,      \* mandatoryBytes
    current,        \* is the inbox's generation the model's?
    tasks,          \* UploadInbox::tasks
    publications,   \* UploadInbox::publications
    upload,         \* the task the upload thread holds
    replay,         \* where the broker's replay is
    asked,          \* the region it is waiting for
    requests,       \* detailRequestCount
    view,           \* the camera
    budget,         \* what the adapter grants
    paused,         \* NowSeconds() < pauseDetailUntil_
    detailPending,  \* visibleDetailPending of the latest frame
    budgetFailed,   \* failedBudgetGeneration_ = modelGeneration_
    failures,       \* failures posted to the window, not yet handled
    changes

sceneVars == <<resident, coarseDrawn, fullTextures, retired, frames>>
requestVars == <<details, requested>>
bytesVars == <<base, pending, target, mandatory>>
laneVars == <<tasks, publications, upload>>
replayVars == <<replay, asked, requests>>
outsideVars == <<view, budget, changes>>
shownVars == <<detailPending, budgetFailed, failures>>
vars == <<tick, sceneVars, requestVars, bytesVars, current, laneVars,
          replayVars, outsideVars, paused, shownVars>>

\* Subtraction of the unsigned code, guarded against wrapping.
Less(m, n) == IF n < m THEN m - n ELSE 0

\* A fine mesh holds its vertex and index buffers, which is all that planning
\* counts, and a constant buffer.
FineBytes(S) == MapThenSumSet(LAMBDA r : Cost[r], S)
MeshBytes == [r \in Regions |-> Cost[r] + ConstantBytes]
HeldBytes(S) == MapThenSumSet(LAMBDA r : MeshBytes[r], S)
RetiredBytes(list) == FoldLeft(LAMBDA sum, entry : sum + entry.bytes, 0, list)

\* Seeded bug: what was evicted no longer counts.
CensusSeeded(fine, full, list) ==
    ReservedBytes + (IF full THEN TextureBytes ELSE 0) + HeldBytes(fine)

\* AccountedAllocationBytes: what is retired still counts.
Census(fine, full, list) ==
    ReservedBytes + (IF full THEN TextureBytes ELSE 0)
        + HeldBytes(fine) + RetiredBytes(list)

\* Seeded bug: the newest frame is forgotten.
RetiringSeeded(regions, bytes) ==
    [regions |-> regions, bytes |-> bytes,
     after |-> IF Len(frames) = 0 THEN 0 ELSE Len(frames) - 1]

\* What a replaced resource waits for: every frame submitted so far.
Retiring(regions, bytes) ==
    [regions |-> regions, bytes |-> bytes, after |-> Len(frames)]

\* Seeded bug: a parent once hidden stays hidden.
CoarseVisibilitySeeded(fine) == coarseDrawn \ fine

\* UpdateCoarseVisibility: a parent is drawn unless its fine mesh is there.
CoarseVisibility(fine) == Regions \ fine

Idle == [phase |-> "idle", region |-> 0, ok |-> FALSE, filled |-> FALSE,
         bytes |-> 0]

Init ==
    /\ tick = "budget"
    /\ resident = {} /\ coarseDrawn = Regions /\ fullTextures = TRUE
    /\ retired = <<>> /\ frames = <<>>
    /\ details = <<>> /\ requested = {}
    /\ budget \in Targets /\ target = budget
    /\ base = Census({}, TRUE, <<>>) /\ pending = 0 /\ mandatory = 0
    /\ current = TRUE
    /\ tasks = <<>> /\ publications = <<>> /\ upload = Idle
    /\ replay = "idle" /\ asked = 0 /\ requests = 0
    /\ view \in Views
    /\ paused = FALSE /\ detailPending = TRUE
    /\ budgetFailed = FALSE /\ failures = {} /\ changes = 0

-----------------------------------------------------------------------------
(***************************************************************************)
(* Render thread.  One turn of its loop: the budget, one publication, a    *)
(* frame.                                                                  *)
(***************************************************************************)

\* ReclaimRetired: what no pending frame can reference is released.
Reclaimed ==
    LET Kept(list, entry) ==
            IF entry.after > 0 THEN Append(list, entry) ELSE list
    IN FoldLeft(Kept, <<>>, retired)

\* PlanEviction leaves at most `room` bytes of fine meshes and stops at the
\* first mesh that gets there.  Its order (last drawn first kept, then
\* priority, size, identity) is left open.
EvictionPlans(room) ==
    {plan \in SUBSET resident :
        /\ FineBytes(resident \ plan) <= room
        /\ plan = {} \/ \E last \in plan :
                            FineBytes((resident \ plan) \union {last}) > room}

\* Seeded bug: everything is withdrawn.
StillRequestedSeeded == {}

\* Queued identities are withdrawn; one the broker took stays requested.
StillRequested == requested \ ToSet(details)

\* Over target: textures are shed where there is a low version and a new
\* descriptor table, fine meshes are evicted and the queue is dropped.
ShedDetail ==
    \E shed \in (IF fullTextures THEN BOOLEAN ELSE {FALSE}) :
    LET held == Census(resident, fullTextures, Reclaimed)
        reserve == held - FineBytes(resident) + pending + mandatory
        afterShed == IF shed THEN Append(Reclaimed, Retiring({}, TextureBytes))
                             ELSE Reclaimed
    IN \E plan \in EvictionPlans(Less(target', reserve)) :
        /\ fullTextures' = (fullTextures /\ ~shed)
        /\ resident' = resident \ plan
        /\ coarseDrawn' = CoarseVisibility(resident')
        /\ retired' = IF plan = {} THEN afterShed
                      ELSE Append(afterShed, Retiring(plan, HeldBytes(plan)))
        /\ details' = <<>>
        /\ requested' = StillRequested

\* Nothing left to give back: the failure is reported once.
ReportExhaustion ==
    LET exhausted == /\ base' > target' /\ pending = 0 /\ retired' = <<>>
                     /\ resident' = {} /\ ~budgetFailed
    IN /\ budgetFailed' = (budgetFailed \/ exhausted)
       /\ failures' = failures \union (IF exhausted THEN {"budget"} ELSE {})

UpdateBudget ==
    /\ tick = "budget"
    /\ tick' = "publication"
    /\ target' = budget
    /\ IF Census(resident, fullTextures, Reclaimed) + pending + mandatory
            > target'
       THEN ShedDetail
       ELSE /\ retired' = Reclaimed
            /\ UNCHANGED <<resident, coarseDrawn, fullTextures, requestVars>>
    /\ base' = Census(resident', fullTextures', retired')
    /\ ReportExhaustion
    /\ UNCHANGED <<frames, pending, mandatory, current, laneVars, replayVars,
                   outsideVars, paused, detailPending>>

\* Seeded bug: only a region that arrived is no longer requested.
AnsweredSeeded(pub) == IF pub.filled THEN requested \ {pub.region}
                                     ELSE requested

\* Whatever became of it, a published region is no longer requested.
Answered(pub) == requested \ {pub.region}

\* An accepted or rejected region rebuilds the descriptor table; the old one
\* is retired.  A region that failed to upload is a failure of the model.
TakePublication ==
    /\ tick = "publication"
    /\ tick' = "frame"
    /\ publications # <<>>
    /\ LET pub == Head(publications)
       IN /\ publications' = Tail(publications)
          /\ pending' = pending - pub.bytes
          /\ requested' = Answered(pub)
          /\ paused' = (paused \/ ~pub.filled)
          /\ IF pub.ok
             THEN /\ resident' = IF pub.filled THEN resident \union {pub.region}
                                               ELSE resident
                  /\ coarseDrawn' = CoarseVisibility(resident')
                  /\ retired' = Append(retired, Retiring({}, 0))
                  /\ UNCHANGED failures
             ELSE /\ failures' = failures \union {"detail"}
                  /\ UNCHANGED <<resident, coarseDrawn, retired>>
    /\ base' = Census(resident', fullTextures, retired')
    /\ UNCHANGED <<fullTextures, frames, details, target, mandatory, current,
                   tasks, upload, replayVars, outsideVars, detailPending,
                   budgetFailed>>

NoPublication ==
    /\ tick = "publication"
    /\ tick' = "frame"
    /\ publications = <<>>
    /\ UNCHANGED <<sceneVars, requestVars, bytesVars, current, laneVars,
                   replayVars, outsideVars, paused, shownVars>>

Visible == {r \in Regions : view[r] > 0}

\* Highest priority first, then lowest identity.
Ahead(r, S) == {other \in S : \/ view[other] > view[r]
                              \/ view[other] = view[r] /\ other < r}

\* The sort and the truncation: the first MaxCandidates regions of S.
FirstOf(S) == {r \in S : Cardinality(Ahead(r, S)) < MaxCandidates}

\* Seeded bug: what is about to be released is not waited for.
WaitingForRetiredCapacitySeeded(candidates) == FALSE

\* Evicted buffers still on the GPU will make room.
WaitingForRetiredCapacity(candidates) == candidates # {} /\ retired' # <<>>

\* RequestVisibleDetail: the queue is replaced at every frame; with nothing
\* outstanding the first candidate that fits is queued, and with none that
\* fits what is out of view is evicted.
RequestVisibleDetail ==
    LET candidates == FirstOf(Visible \ (resident \union StillRequested))
        affordable == {r \in candidates :
                          Cost[r] <= Less(target, base + pending)}
        unseen == resident \ Visible
        asks == StillRequested = {} /\ affordable # {}
        evicts == /\ StillRequested = {} /\ affordable = {}
                  /\ candidates # {} /\ unseen # {}
    IN /\ IF asks
          THEN \E r \in affordable : /\ Ahead(r, affordable) = {}
                                    /\ details' = <<r>>
          ELSE details' = <<>>
       /\ requested' = StillRequested \union ToSet(details')
       /\ resident' = IF evicts THEN resident \ unseen ELSE resident
       /\ coarseDrawn' = IF evicts THEN CoarseVisibility(resident')
                                   ELSE coarseDrawn
       /\ retired' = IF evicts
                     THEN Append(retired, Retiring(unseen, HeldBytes(unseen)))
                     ELSE retired
       /\ detailPending' = \/ requested' # {}
                           \/ evicts
                           \/ WaitingForRetiredCapacity(candidates)

\* A frame waits for a free slot of the GPU.
RenderOneFrame ==
    /\ tick = "frame"
    /\ tick' = "budget"
    /\ Len(frames) < FrameSlots
    /\ IF paused \/ ~current
       THEN /\ detailPending' = TRUE
            /\ UNCHANGED <<requestVars, resident, coarseDrawn, retired>>
       ELSE RequestVisibleDetail
    /\ frames' = Append(frames, resident' \cap Visible)
    /\ UNCHANGED <<fullTextures, bytesVars, current, laneVars, replayVars,
                   outsideVars, paused, budgetFailed, failures>>

\* The GPU finishes its oldest frame.
FinishFrame ==
    /\ frames # <<>>
    /\ frames' = Tail(frames)
    /\ retired' = [i \in DOMAIN retired |->
                      [retired[i] EXCEPT !.after = Less(@, 1)]]
    /\ UNCHANGED <<tick, resident, coarseDrawn, fullTextures, requestVars,
                   bytesVars, current, laneVars, replayVars, outsideVars,
                   paused, shownVars>>

\* The half second after a region that was refused is over.
ResumeDetail ==
    /\ paused
    /\ paused' = FALSE
    /\ UNCHANGED <<tick, sceneVars, requestVars, bytesVars, current, laneVars,
                   replayVars, outsideVars, shownVars>>

-----------------------------------------------------------------------------
(***************************************************************************)
(* The broker's detail replay, on the import thread.                       *)
(***************************************************************************)

ReplayUnchanged == UNCHANGED <<tick, sceneVars, bytesVars, current,
                               publications, upload, outsideVars, paused,
                               detailPending, budgetFailed>>

\* nextDetail and RequestDetail.
TakeRequest ==
    /\ replay = "idle" /\ requests < MaxRequests
    /\ current /\ details # <<>>
    /\ replay' = "asking" /\ asked' = Head(details)
    /\ requests' = requests + 1
    /\ details' = Tail(details)
    /\ UNCHANGED <<requested, tasks, failures>>
    /\ ReplayUnchanged

\* The worker answers with the region; onBatch drops it if the upload inbox
\* has moved on.
DeliverRegion ==
    /\ replay = "asking"
    /\ replay' = "idle"
    /\ tasks' = IF current THEN Append(tasks, asked) ELSE tasks
    /\ asked' = 0
    /\ UNCHANGED <<requests, requestVars, failures>>
    /\ ReplayUnchanged

\* EndDetail: the idle grace has passed with nothing queued, or the request
\* budget is used up; or the generation was cancelled.
EndReplay ==
    /\ \/ replay = "idle" /\ (details = <<>> \/ requests = MaxRequests)
       \/ replay # "ended" /\ ~current
    /\ replay' = "ended" /\ asked' = 0
    /\ UNCHANGED <<requests, requestVars, tasks, failures>>
    /\ ReplayUnchanged

\* The worker crashes, the file changes, a reply is late or not valid.
FailReplay ==
    /\ Faults /\ changes < MaxChanges
    /\ replay \in {"idle", "asking"}
    /\ replay' = "ended" /\ asked' = 0
    /\ failures' = failures \union {"import"}
    /\ changes' = changes + 1
    /\ UNCHANGED <<tick, sceneVars, requestVars, bytesVars, current, laneVars,
                   requests, view, budget, paused, detailPending, budgetFailed>>

-----------------------------------------------------------------------------
(***************************************************************************)
(* The upload thread.                                                      *)
(***************************************************************************)

UploadUnchanged == UNCHANGED <<tick, sceneVars, requestVars, base, target,
                               current, replayVars, view, budget, paused,
                               shownVars>>

\* From here the fallbacks of the region are announced to the render thread.
TakeTask ==
    /\ upload.phase = "idle" /\ tasks # <<>>
    /\ upload' = [Idle EXCEPT !.phase = "waiting", !.region = Head(tasks)]
    /\ tasks' = Tail(tasks)
    /\ mandatory' = Fallbacks[Head(tasks)]
    /\ UNCHANGED <<pending, publications, changes>>
    /\ UploadUnchanged

\* The wait for room ended: there is some, or five seconds have passed.  The
\* region is kept if it fits beside its fallbacks; what remains of the task
\* must fit too.
Reserve ==
    /\ upload.phase = "waiting"
    /\ LET r == upload.region
           used == base + pending
           kept == Cost[r] <= Less(Less(target, used), mandatory)
           bytes == IF kept THEN Cost[r] + Fallbacks[r] ELSE 0
       IN IF used + bytes > target
          THEN /\ upload' = [upload EXCEPT !.phase = "copied"]
               /\ UNCHANGED pending
          ELSE /\ upload' = [upload EXCEPT !.phase = "copying", !.filled = kept,
                                           !.bytes = bytes]
               /\ pending' = pending + bytes
    /\ mandatory' = 0
    /\ UNCHANGED <<tasks, publications, changes>>
    /\ UploadUnchanged

CopyRegion ==
    /\ upload.phase = "copying"
    /\ \E ok \in {current} \union
                    (IF Faults /\ changes < MaxChanges THEN {FALSE} ELSE {}) :
        /\ upload' = [upload EXCEPT !.phase = "copied", !.ok = ok,
                                    !.filled = @ /\ ok]
        /\ changes' = IF current /\ ~ok THEN changes + 1 ELSE changes
    /\ UNCHANGED <<tasks, publications, pending, mandatory>>
    /\ UploadUnchanged

Publish ==
    /\ upload.phase = "copied"
    /\ upload' = Idle
    /\ IF current
       THEN publications' = Append(publications, upload) /\ UNCHANGED pending
       ELSE pending' = pending - upload.bytes /\ UNCHANGED publications
    /\ UNCHANGED <<tasks, mandatory, changes>>
    /\ UploadUnchanged

-----------------------------------------------------------------------------
(***************************************************************************)
(* The user, the adapter and the window.                                   *)
(***************************************************************************)

OutsideUnchanged == UNCHANGED <<tick, sceneVars, laneVars, replayVars, paused,
                                detailPending, budgetFailed>>

MoveCamera ==
    /\ changes < MaxChanges
    /\ view' \in Views \ {view}
    /\ changes' = changes + 1
    /\ UNCHANGED <<requestVars, bytesVars, current, budget, failures>>
    /\ OutsideUnchanged

ChangeBudget ==
    /\ changes < MaxChanges
    /\ budget' \in Targets \ {budget}
    /\ changes' = changes + 1
    /\ UNCHANGED <<requestVars, bytesVars, current, view, failures>>
    /\ OutsideUnchanged

\* Seeded bug: the reservation of the task in progress is dropped as well.
PendingAfterCancelSeeded == 0

\* Reservations of publications are given back here; the upload thread gives
\* back that of the task it holds.
PendingAfterCancel ==
    pending - FoldLeft(LAMBDA sum, pub : sum + pub.bytes, 0, publications)

\* SetFailure, which cancels the generation and its uploads.
SetFailure ==
    /\ failures # {} /\ current
    /\ current' = FALSE
    /\ details' = <<>> /\ requested' = {}
    /\ tasks' = <<>> /\ publications' = <<>>
    /\ pending' = PendingAfterCancel
    /\ UNCHANGED <<tick, sceneVars, base, target, mandatory, upload,
                   replayVars, outsideVars, paused, shownVars>>

Render == UpdateBudget \/ TakePublication \/ NoPublication \/ RenderOneFrame
Replay == TakeRequest \/ DeliverRegion \/ EndReplay
Upload == TakeTask \/ Reserve \/ CopyRegion \/ Publish

Next ==
    \/ Render \/ FinishFrame \/ ResumeDetail
    \/ Replay \/ FailReplay
    \/ Upload
    \/ MoveCamera \/ ChangeBudget \/ SetFailure

Spec == Init /\ [][Next]_vars

\* Every thread is scheduled, the GPU finishes its frames, the pause and the
\* wait of the upload thread are bounded by a clock, and a worker asked for a
\* region answers, or runs into the reply timeout.  The idle grace, the user
\* and the adapter owe nothing.
Fairness ==
    /\ WF_vars(Render) /\ WF_vars(FinishFrame) /\ WF_vars(ResumeDetail)
    /\ WF_vars(TakeRequest) /\ WF_vars(DeliverRegion)
    /\ WF_vars(Upload) /\ WF_vars(SetFailure)

FairSpec == Spec /\ Fairness

-----------------------------------------------------------------------------
(***************************************************************************)
(* Properties.                                                             *)
(***************************************************************************)

\* Type correctness.
TypeOK ==
    /\ tick \in {"budget", "publication", "frame"}
    /\ resident \subseteq Regions /\ coarseDrawn \subseteq Regions
    /\ fullTextures \in BOOLEAN
    /\ retired \in Seq([regions : SUBSET Regions, bytes : Nat,
                        after : 0 .. FrameSlots])
    /\ frames \in Seq(SUBSET Regions) /\ Len(frames) <= FrameSlots
    /\ details \in Seq(Regions) /\ requested \subseteq Regions
    /\ {base, pending, target, mandatory} \subseteq Nat
    /\ current \in BOOLEAN
    /\ tasks \in Seq(Regions)
    /\ replay \in {"idle", "asking", "ended"}
    /\ asked \in Regions \union {0} /\ requests \in 0 .. MaxRequests
    /\ view \in Views /\ budget \in Targets /\ changes \in 0 .. MaxChanges
    /\ {paused, detailPending, budgetFailed} \subseteq BOOLEAN
    /\ failures \subseteq {"budget", "detail", "import"}

\* Every region is drawn exactly once: by its fine mesh if that is resident,
\* else by its coarse parent.  No hole and no two surfaces in one place, in
\* whatever order regions arrive and are evicted.
DrawnOnce == \A r \in Regions : (r \in resident) # (r \in coarseDrawn)

\* No buffer is released while a frame that draws it is still on the GPU.
DrawnOutlivesFrames ==
    \A i \in DOMAIN frames :
        frames[i] \subseteq
            resident \union UNION {retired[j].regions : j \in DOMAIN retired}

\* Where a region asked for can be.
Held == ToSet(details) \union (IF replay = "asking" THEN {asked} ELSE {})
            \union ToSet(tasks)
            \union (IF upload.phase = "idle" THEN {} ELSE {upload.region})
            \union {publications[i].region : i \in DOMAIN publications}
Outstanding == Len(details) + (IF replay = "asking" THEN 1 ELSE 0) + Len(tasks)
                + (IF upload.phase = "idle" THEN 0 ELSE 1) + Len(publications)

\* At most one region is anywhere between the queue and the scene, it is the
\* one the inbox remembers, and it is not in the scene already, although the
\* camera and budget drops withdraw a queued request at any time.  Only a
\* replay that failed forgets the region it was asked for.
OneOutstanding ==
    current => /\ Outstanding <= 1
               /\ Held \subseteq requested
               /\ "import" \notin failures => requested = Held
               /\ requested \cap resident = {}

\* Bytes the process has allocated, with what the copy lane holds.
Allocated ==
    ReservedBytes + (IF fullTextures THEN TextureBytes ELSE 0)
        + HeldBytes(resident) + RetiredBytes(retired)
        + (IF upload.phase = "copying" THEN upload.bytes ELSE 0)

\* A reservation never takes what is really allocated past the target the
\* upload thread was shown, although the two counts it adds up are refreshed
\* by another thread and retired buffers are still alive.
AdmissionFits ==
    [][(/\ upload.phase = "waiting" /\ upload'.phase = "copying"
        /\ upload'.bytes > 0)
           => Allocated' <= target']_vars

\* The regions the last frame could still refine, the MaxCandidates foremost
\* of those in view whose fine mesh is missing.
Foremost(missing) ==
    {r \in missing : Cardinality(Ahead(r, missing)) < MaxCandidates}

\* A frame that reports nothing pending shows the most its view and budget
\* allow among the foremost regions: one that is missing would not fit beside
\* what is kept, and nothing out of view takes up its room.  The code's comment
\* speaks of the whole view, but a smaller region behind the foremost
\* MaxCandidates is not asked for even if it would fit.
CompleteIsBest ==
    [][tick = "frame" /\ tick' = "budget" /\ ~detailPending' =>
        \A r \in Foremost(Visible \ resident) :
            Census(resident, fullTextures, <<>>) - HeldBytes(resident \ Visible)
                + Cost[r] > target]_vars

\* A region the broker has taken comes back as a publication, or the failure
\* of the replay cancels it.
TakenIsAnswered ==
    \A r \in Regions :
        (r \in requested \ ToSet(details)) ~> (r \notin requested)

-----------------------------------------------------------------------------
(***************************************************************************)
(* What the documents say and the code does not do.                        *)
(***************************************************************************)

\* A view that was once complete is complete again some time after the camera
\* came to rest.
CompletesAgain == ~detailPending ~> []<>~detailPending

=============================================================================
